-------------------------- MODULE KeyboardChannel --------------------------
(***************************************************************************)
(* What a read system call promises to the program that issues it: one     *)
(* question is put to the user at a time, the user answers it once, and    *)
(* the program receives exactly that answer.  WebStepper implements this   *)
(* with the globals should_pause and <type>_keyboard of the C emulator.    *)
(***************************************************************************)
CONSTANTS Values,     \* what the user may type
          NoValue     \* no answer

VARIABLES phase,      \* "idle", "asked" or "answered"
          answer,     \* the answer that waits for the program
          delivered   \* the last value the program received

vars == <<phase, answer, delivered>>

Init == phase = "idle" /\ answer = NoValue /\ delivered = NoValue

Ask == phase = "idle" /\ phase' = "asked" /\ UNCHANGED <<answer, delivered>>

Answer(v) ==
  /\ phase = "asked"
  /\ phase' = "answered"
  /\ answer' = v
  /\ UNCHANGED delivered

Deliver ==
  /\ phase = "answered"
  /\ phase' = "idle"
  /\ delivered' = answer
  /\ answer' = NoValue

Next == Ask \/ (\E v \in Values : Answer(v)) \/ Deliver

Spec == Init /\ [][Next]_vars
=============================================================================

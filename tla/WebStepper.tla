----------------------------- MODULE WebStepper -----------------------------
(***************************************************************************)
(* The web build of the C emulator (WEBSIM) runs in the event loop of the  *)
(* CREATOR page.  The simulator and the page share three kinds of state:   *)
(*   - the JavaScript fields document.app.$data.execution_mode_run,        *)
(*     last_execution_mode_run and is_breakpoint, which the page writes    *)
(*     (also from the print hook that transform32.js injects) and          *)
(*     stepbystep() reads;                                                 *)
(*   - the C globals should_pause and force_exit and the keyboard buffers, *)
(*     which the exported functions send_*_to_C and reanudar_ejecucion     *)
(*     write and the simulator polls;                                      *)
(*   - the text the simulator prints, which the page parses.               *)
(* Everything runs on one thread: the page's callbacks are served only     *)
(* while the simulator sleeps in one of its polling loops, in the wait     *)
(* loop of stepbystep ("paused") or in a keyboard reader ("read").         *)
(* The buttons and the prompt of the page are outside the repository; they *)
(* are modelled from the functions they call.                              *)
(***************************************************************************)
EXTENDS Integers

CONSTANTS
  XLEN,                 \* 32 or 64, the width the emulator is built for
  Values,               \* what the user may type at a prompt
  NoValue,              \* a keyboard buffer that holds nothing
  Kinds                 \* the kinds of instruction the program has

AllKinds == {"plain", "print", "int", "double", "string", "fault"}

ASSUME ParameterAssumption ==
  /\ XLEN \in {32, 64}
  /\ NoValue \notin Values
  /\ Kinds \subseteq AllKinds

VARIABLES
  pc,                       \* where the simulator is
  kind,                     \* the instruction being executed
  rom,                      \* the next fetch is in the trap handler in ROM
  first_it, debug_mode, should_pause, force_exit,    \* C globals
  keyboard,                 \* int_keyboard, d_keyboard, s_keyboard ...
  a0,                       \* the last value a read put in a register
  force_debug_divergence,   \* Sail register
  execution_mode_run,       \* page: 0 run, 1 step by step, 2 reading
  last_execution_mode_run,  \* page: the mode before the read
  is_breakpoint,            \* page: the next instruction has a breakpoint
  prompt,                   \* page: a keyboard prompt is open
  calm                      \* history: so far the user pressed no button
                            \* during a read, no answer was lost and no
                            \* instruction but an ecall asked for a read

cvars    == <<first_it, debug_mode, should_pause, force_exit, keyboard>>
pagevars == <<execution_mode_run, last_execution_mode_run, is_breakpoint,
              prompt, calm>>
vars == <<pc, kind, rom, cvars, a0, force_debug_divergence, pagevars>>

FlagsOK ==
  /\ rom \in BOOLEAN
  /\ first_it \in BOOLEAN
  /\ debug_mode \in BOOLEAN
  /\ force_exit \in BOOLEAN
  /\ force_debug_divergence \in BOOLEAN
  /\ is_breakpoint \in BOOLEAN
  /\ prompt \in BOOLEAN
  /\ calm \in BOOLEAN

DataOK ==
  /\ pc \in {"fetch", "paused", "exec", "read", "stopped"}
  /\ kind \in AllKinds
  /\ should_pause \in -1 .. 2
  /\ keyboard \in Values \union {NoValue}
  /\ a0 \in Values \union {NoValue}
  /\ execution_mode_run \in 0 .. 2
  /\ last_execution_mode_run \in 0 .. 1

\* The type invariant of all the state the simulator and the page share.
TypeOK == FlagsOK /\ DataOK

\* The page sets is_breakpoint from the first instruction and a mode from the
\* button that starts the run, then calls main().
Init ==
  /\ pc = "fetch" /\ kind = "plain" /\ rom = FALSE
  /\ first_it = TRUE /\ debug_mode = TRUE /\ should_pause = -1
  /\ force_exit = FALSE /\ keyboard = NoValue /\ a0 = NoValue
  /\ force_debug_divergence = FALSE
  /\ execution_mode_run \in {0, 1}
  /\ last_execution_mode_run = 0
  /\ is_breakpoint \in BOOLEAN
  /\ prompt = FALSE
  /\ calm = TRUE
-----------------------------------------------------------------------------
(* stepbystep(), which the fetch of every instruction of the program calls *)

\* Mutant: the breakpoint test is left out of the run mode.
WaitBranch_NoBreakpoint(m) ==
  \/ first_it /\ m = 0 /\ is_breakpoint
  \/ ~first_it /\ m # 0 /\ should_pause \in {-1, 1}

\* The conditions under which stepbystep reaches a wait loop, when the page's
\* mode is m.  The first call waits only at a breakpoint in run mode.
WaitBranch(m) ==
  \/ first_it /\ m = 0 /\ is_breakpoint
  \/ ~first_it /\ m # 0 /\ should_pause \in {-1, 1}
  \/ ~first_it /\ m = 0 /\ is_breakpoint

\* The value of debug_mode after a branch that does not wait.
NoWaitMode(m) == first_it /\ m # 0

\* Mutant: only the loop of the run mode tests force_exit.
StopSeen_RunOnly == should_pause = -1 /\ force_exit /\ execution_mode_run = 0

\* The wait loop tests should_pause first, then force_exit, then sleeps.
StopSeen == should_pause = -1 /\ force_exit

LeaveStepper(mode) ==
  /\ debug_mode' = mode
  /\ should_pause' = -1
  /\ first_it' = FALSE
  /\ pc' = "exec"

EnterStepper(m) ==
  IF WaitBranch(m)
  THEN IF should_pause = -1
       THEN /\ pc' = IF StopSeen THEN "stopped" ELSE "paused"
            /\ debug_mode' = (m # 0)
            /\ UNCHANGED <<should_pause, first_it>>
       ELSE LeaveStepper(should_pause # 0)
  ELSE LeaveStepper(NoWaitMode(m))

\* A fetch from the text of the program.  When the divergence flag is up the
\* fetch first prints "May your execution has an infinity loop." and the
\* page's print hook puts the page in step mode.
FetchText ==
  /\ pc = "fetch" /\ ~rom
  /\ LET m == IF force_debug_divergence THEN 1 ELSE execution_mode_run
     IN  /\ execution_mode_run' = m
         /\ EnterStepper(m)
  /\ force_debug_divergence' = FALSE
  /\ UNCHANGED <<kind, rom, force_exit, keyboard, a0,
                 last_execution_mode_run, is_breakpoint, prompt, calm>>

\* A fetch from the trap handler in ROM never pauses, and aborts the run when
\* the divergence flag is up.
FetchRom ==
  /\ pc = "fetch" /\ rom
  /\ pc' = IF force_debug_divergence THEN "stopped" ELSE "exec"
  /\ UNCHANGED <<kind, rom, cvars, a0, force_debug_divergence, pagevars>>

\* The end of a 100 ms sleep in a wait loop of stepbystep.
WakePaused ==
  /\ pc = "paused"
  /\ \/ /\ should_pause # -1
        /\ LeaveStepper(should_pause # 0)
     \/ /\ StopSeen
        /\ pc' = "stopped"
        /\ UNCHANGED <<debug_mode, should_pause, first_it>>
  /\ UNCHANGED <<kind, rom, force_exit, keyboard, a0, force_debug_divergence,
                 pagevars>>
-----------------------------------------------------------------------------
(* Executing an instruction *)

\* A trap calls interpret_exception, and with a read code in a7 that calls a
\* keyboard reader before the handler in ROM is entered.
Reads == {"int", "double", "string"}

\* A tick of the clock may raise the divergence flag after the instruction.
MayTick == force_debug_divergence' \in {force_debug_divergence, TRUE}

\* Mutant: one prompt never opens.
OpenPrompt_Missing ==
  /\ last_execution_mode_run' = execution_mode_run
  /\ execution_mode_run' = 2
  /\ prompt' = (kind' # "string")

\* The page's hook saves its mode, enters mode 2 and opens a prompt.
OpenPrompt ==
  /\ last_execution_mode_run' = execution_mode_run
  /\ execution_mode_run' = 2
  /\ prompt' = TRUE

\* step() prints the instruction; the page's hook then looks up whether the
\* next one has a breakpoint and, for an ecall with a read code, opens a
\* prompt.  Only then is the instruction executed.
ExecText(k) ==
  /\ pc = "exec" /\ ~rom
  /\ kind' = k
  /\ is_breakpoint' \in IF execution_mode_run = 2 THEN {is_breakpoint}
                                                  ELSE BOOLEAN
  /\ IF k \in Reads
     THEN OpenPrompt
     ELSE UNCHANGED <<last_execution_mode_run, execution_mode_run, prompt>>
  /\ pc' = IF k \in Reads \union {"fault"} THEN "read" ELSE "fetch"
  /\ rom' = (k = "print")
  /\ calm' = (calm /\ k # "fault")
  /\ IF k \in Reads \union {"fault"}
     THEN UNCHANGED force_debug_divergence
     ELSE MayTick
  /\ UNCHANGED <<cvars, a0>>

\* The handler runs some instructions, then returns with mret or ends the
\* run through tohost.
ExecRom ==
  /\ pc = "exec" /\ rom
  /\ \/ pc' = "fetch" /\ rom' \in BOOLEAN /\ MayTick
     \/ pc' = "stopped" /\ UNCHANGED <<rom, force_debug_divergence>>
  /\ UNCHANGED <<kind, cvars, a0, pagevars>>

\* Mutant: no double reader resets should_pause.
ResetsShouldPause_NotDouble == kind # "double"

\* read_double_32C_low and read_double_32C_high do not reset should_pause.
ResetsShouldPause == ~(kind = "double" /\ XLEN = 32)

\* Mutant: a double reader has no loop.
ReaderWakes_NoLoop == should_pause = 2 \/ kind = "double"

\* The test of the keyboard readers' loops, which ignore force_exit.
ReaderWakes == should_pause = 2

\* A keyboard reader wakes up and returns the buffer.
ReadDone ==
  /\ pc = "read"
  /\ ReaderWakes
  /\ a0' = keyboard
  /\ should_pause' = IF ResetsShouldPause THEN -1 ELSE should_pause
  /\ pc' = "fetch"
  /\ rom' = TRUE
  /\ MayTick
  /\ UNCHANGED <<kind, first_it, debug_mode, force_exit, keyboard, pagevars>>
-----------------------------------------------------------------------------
(* The callbacks of the page, served while the simulator sleeps *)

Sleeping == pc \in {"paused", "read"}

\* Run (m = 0) and Step (m = 1): the page sets its mode and calls
\* reanudar_ejecucion, which copies it to should_pause.
Press(m) ==
  /\ Sleeping
  /\ calm' = (calm /\ pc # "read")
  /\ execution_mode_run' = m
  /\ should_pause' = m
  /\ UNCHANGED <<pc, kind, rom, first_it, debug_mode, force_exit, keyboard, a0,
                 force_debug_divergence, last_execution_mode_run,
                 is_breakpoint, prompt>>

\* Stop: reanudar_ejecucion(5).
Stop ==
  /\ Sleeping
  /\ ~force_exit
  /\ force_exit' = TRUE
  /\ UNCHANGED <<pc, kind, rom, first_it, debug_mode, should_pause, keyboard,
                 a0, force_debug_divergence, pagevars>>

\* The page closes the prompt and goes back to the mode it saved.
ClosePrompt ==
  /\ prompt' = FALSE
  /\ execution_mode_run' = last_execution_mode_run

\* The user answers the prompt: send_<type>_to_C.
Answer(v) ==
  /\ Sleeping /\ prompt
  /\ keyboard' = v
  /\ should_pause' = 2
  /\ ClosePrompt
  /\ UNCHANGED <<pc, kind, rom, first_it, debug_mode, force_exit, a0,
                 force_debug_divergence, last_execution_mode_run,
                 is_breakpoint, calm>>

\* send_string_to_C frees the old buffer and returns when malloc fails.
AnswerLost ==
  /\ Sleeping /\ prompt /\ kind = "string"
  /\ calm' = FALSE
  /\ keyboard' = NoValue
  /\ ClosePrompt
  /\ UNCHANGED <<pc, kind, rom, first_it, debug_mode, should_pause, force_exit,
                 a0, force_debug_divergence, last_execution_mode_run,
                 is_breakpoint>>
-----------------------------------------------------------------------------
Exec == (\E k \in Kinds : ExecText(k)) \/ ExecRom

Simulator == FetchText \/ FetchRom \/ WakePaused \/ Exec \/ ReadDone

Page == (\E m \in {0, 1} : Press(m)) \/ Stop
        \/ (\E v \in Values : Answer(v)) \/ AnswerLost

Next == Simulator \/ Page

\* The simulator's thread is never starved: a sleep ends and straight-line
\* code runs; and the trap handler is a finite piece of code that returns.
\* Nothing is assumed of the user.
Spec == Init /\ [][Next]_vars /\ WF_vars(Simulator)
             /\ SF_vars(ExecRom /\ rom' = FALSE)
-----------------------------------------------------------------------------
(* Properties *)

\* An answer typed at a prompt (should_pause = 2) never outlives the read it
\* was typed for: stepbystep must not take it for a button.
NoStaleAnswer == should_pause = 2 => pc = "read"

\* A reader that waits can be woken: the prompt is open, or its answer has
\* arrived.  Otherwise the run hangs, for the readers ignore Stop.
ReaderCanWake == calm /\ pc = "read" => prompt \/ should_pause = 2

\* The page reads in mode 2 exactly while a prompt is open, so the mode that
\* stepbystep sees is one the user chose.
ModeChosen == calm => (execution_mode_run = 2 <=> prompt)

\* In step mode, or at a breakpoint, no instruction of the program after the
\* first is executed without a stop in the wait loop.
NeverSkipsPause ==
  [][pc = "fetch" /\ ~rom /\ ~first_it /\ pc' = "exec"
       => execution_mode_run' = 0 /\ ~is_breakpoint]_vars

\* Stop wins over any sequence of Step: once the user has pressed Stop at a
\* pause, the run ends unless he goes on with Run or is asked for input.
StopInStepMode ==
  (force_exit /\ pc = "paused") ~>
     (pc \in {"stopped", "read"} \/ execution_mode_run = 0)

\* The promise of the read system calls, which an answer implements while its
\* reader waits.
Channel == INSTANCE KeyboardChannel WITH
  phase     <- IF pc # "read" THEN "idle"
               ELSE IF should_pause = 2 THEN "answered" ELSE "asked",
  answer    <- IF pc = "read" /\ should_pause = 2 THEN keyboard ELSE NoValue,
  delivered <- a0

\* As long as the run is calm, the globals should_pause and <type>_keyboard
\* are a channel with one question and one answer at a time.
ImplementsChannel ==
  Channel!Init /\ [][calm' => Channel!Next]_(Channel!vars)
=============================================================================

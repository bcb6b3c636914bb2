-------------------------- MODULE WebStepper_proofs --------------------------
(***************************************************************************)
(* Proofs about WebStepper, for every set of values, every program and     *)
(* both widths.                                                            *)
(***************************************************************************)
EXTENDS WebStepper, TLAPS

\* No read of a double on RV32.
EveryReaderResets == XLEN = 64 \/ "double" \notin Kinds

\* A prompt is open only while its reader waits.
PromptOnlyInRead == prompt => pc = "read" /\ should_pause # 2

\* The mode is 2 only while a prompt is open.
ReadModeHasPrompt == execution_mode_run = 2 => prompt

\* stepbystep leaves no request behind for the instruction it lets pass.
NoRequestInExec == pc = "exec" /\ ~rom => should_pause = -1

TypeInv == TypeOK /\ PromptOnlyInRead /\ ReadModeHasPrompt /\ NoRequestInExec

\* Where the simulator is determines what should_pause can hold.
PauseValues ==
  /\ pc \in {"fetch", "exec", "stopped"} => should_pause = -1
  /\ pc = "paused" => should_pause \in {-1, 0, 1}
  /\ pc = "read" => kind \in Kinds

\* TypeOK is not inductive alone: the mode saved by a read is 0 or 1 because
\* no prompt is open when an instruction starts.
LEMMA TypeInvInit == Init => TypeInv
<1>1. Init => FlagsOK
  BY DEF Init, FlagsOK
<1>2. Init => DataOK
  BY DEF Init, DataOK, AllKinds
<1>3. Init => PromptOnlyInRead /\ ReadModeHasPrompt /\ NoRequestInExec
  BY DEF Init, PromptOnlyInRead, ReadModeHasPrompt, NoRequestInExec
<1>4. QED
  BY <1>1, <1>2, <1>3 DEF TypeInv, TypeOK

LEMMA FlagsStep ==
  ASSUME FlagsOK, [Next]_vars PROVE FlagsOK'
<1> USE DEF FlagsOK, MayTick
<1>1. CASE FetchText
  BY <1>1 DEF FetchText, EnterStepper, LeaveStepper, WaitBranch, NoWaitMode
<1>2. CASE FetchRom
  BY <1>2 DEF FetchRom, cvars, pagevars
<1>3. CASE WakePaused
  BY <1>3 DEF WakePaused, LeaveStepper, pagevars
<1>4. ASSUME NEW k \in Kinds, ExecText(k) PROVE FlagsOK'
  BY <1>4 DEF ExecText, OpenPrompt, cvars
<1>5. CASE ExecRom
  BY <1>5 DEF ExecRom, cvars, pagevars
<1>6. CASE ReadDone
  BY <1>6 DEF ReadDone, ReaderWakes, ResetsShouldPause, pagevars
<1>7. ASSUME NEW m \in {0, 1}, Press(m) PROVE FlagsOK'
  BY <1>7 DEF Press, Sleeping
<1>8. CASE Stop
  BY <1>8 DEF Stop, pagevars
<1>9. ASSUME NEW v \in Values, Answer(v) PROVE FlagsOK'
  BY <1>9 DEF Answer, ClosePrompt
<1>10. CASE AnswerLost
  BY <1>10 DEF AnswerLost, ClosePrompt
<1>11. CASE UNCHANGED vars
  BY <1>11 DEF vars, cvars, pagevars
<1>12. QED
  BY <1>1, <1>2, <1>3, <1>4, <1>5, <1>6, <1>7, <1>8, <1>9, <1>10, <1>11
     DEF Next, Simulator, Exec, Page

LEMMA DataStep ==
  ASSUME TypeInv, [Next]_vars
  PROVE  (DataOK /\ PromptOnlyInRead /\ ReadModeHasPrompt /\ NoRequestInExec)'
<1> DEFINE Goal == (DataOK /\ PromptOnlyInRead /\ ReadModeHasPrompt
                      /\ NoRequestInExec)'
<1> USE ParameterAssumption DEF TypeInv, TypeOK, FlagsOK, DataOK, AllKinds,
        PromptOnlyInRead, ReadModeHasPrompt, NoRequestInExec, Reads, MayTick
<1>1. CASE FetchText
  BY <1>1 DEF FetchText, EnterStepper, LeaveStepper, WaitBranch, NoWaitMode
<1>2. CASE FetchRom
  BY <1>2 DEF FetchRom, cvars, pagevars
<1>3. CASE WakePaused
  BY <1>3 DEF WakePaused, LeaveStepper, pagevars
<1>4. ASSUME NEW k \in Kinds, ExecText(k) PROVE Goal
  <2>1. ~prompt /\ execution_mode_run # 2
    BY <1>4 DEF ExecText
  <2>2. DataOK'
    BY <1>4, <2>1 DEF ExecText, OpenPrompt, cvars
  <2>3. (PromptOnlyInRead /\ ReadModeHasPrompt /\ NoRequestInExec)'
    BY <1>4, <2>1 DEF ExecText, OpenPrompt, cvars
  <2>4. QED
    BY <2>2, <2>3
<1>5. CASE ExecRom
  BY <1>5 DEF ExecRom, cvars, pagevars
<1>6. CASE ReadDone
  BY <1>6 DEF ReadDone, ReaderWakes, ResetsShouldPause, pagevars
<1>7. ASSUME NEW m \in {0, 1}, Press(m) PROVE Goal
  BY <1>7 DEF Press, Sleeping
<1>8. CASE Stop
  BY <1>8 DEF Stop, pagevars
<1>9. ASSUME NEW v \in Values, Answer(v) PROVE Goal
  BY <1>9 DEF Answer, ClosePrompt
<1>10. CASE AnswerLost
  BY <1>10 DEF AnswerLost, ClosePrompt
<1>11. CASE UNCHANGED vars
  BY <1>11 DEF vars, cvars, pagevars
<1>12. QED
  BY <1>1, <1>2, <1>3, <1>4, <1>5, <1>6, <1>7, <1>8, <1>9, <1>10, <1>11
     DEF Next, Simulator, Exec, Page

LEMMA TypeInvStep == TypeInv /\ [Next]_vars => TypeInv'
BY FlagsStep, DataStep DEF TypeInv, TypeOK

\* Every reachable state is well typed, whatever the page and the program do.
THEOREM TypeCorrect == Spec => []TypeOK
<1>1. TypeInv => TypeOK
  BY DEF TypeInv
<1>2. QED
  BY <1>1, TypeInvInit, TypeInvStep, PTL DEF Spec

LEMMA PauseValuesStep ==
  ASSUME EveryReaderResets, TypeInv, PauseValues, [Next]_vars
  PROVE  PauseValues'
<1> USE ParameterAssumption DEF TypeInv, TypeOK, FlagsOK, DataOK,
        PromptOnlyInRead,
        PauseValues, Reads
<1>1. CASE FetchText
  BY <1>1 DEF FetchText, EnterStepper, LeaveStepper, StopSeen
<1>2. CASE FetchRom
  BY <1>2 DEF FetchRom, cvars
<1>3. CASE WakePaused
  BY <1>3 DEF WakePaused, LeaveStepper, StopSeen
<1>4. ASSUME NEW k \in Kinds, ExecText(k) PROVE PauseValues'
  BY <1>4 DEF ExecText, cvars
<1>5. CASE ExecRom
  BY <1>5 DEF ExecRom, cvars
<1>6. CASE ReadDone
  BY <1>6 DEF ReadDone, ResetsShouldPause, EveryReaderResets
<1>7. ASSUME NEW m \in {0, 1}, Press(m) PROVE PauseValues'
  BY <1>7 DEF Press, Sleeping
<1>8. CASE Stop
  BY <1>8 DEF Stop
<1>9. ASSUME NEW v \in Values, Answer(v) PROVE PauseValues'
  BY <1>9 DEF Answer
<1>10. CASE AnswerLost
  BY <1>10 DEF AnswerLost
<1>11. CASE UNCHANGED vars
  BY <1>11 DEF vars, cvars
<1>12. QED
  BY <1>1, <1>2, <1>3, <1>4, <1>5, <1>6, <1>7, <1>8, <1>9, <1>10, <1>11
     DEF Next, Simulator, Exec, Page

LEMMA PauseInvariant ==
  ASSUME EveryReaderResets PROVE Spec => [](TypeInv /\ PauseValues)
<1>1. Init => PauseValues
  BY DEF Init, PauseValues
<1>2. TypeInv /\ PauseValues /\ [Next]_vars => PauseValues'
  BY PauseValuesStep, EveryReaderResets
<1>3. QED
  BY <1>1, <1>2, TypeInvInit, TypeInvStep, PTL DEF Spec

\* When every keyboard reader resets should_pause, an answer never survives
\* the read it was typed for.
THEOREM NoAnswerLeaks ==
  ASSUME EveryReaderResets PROVE Spec => []NoStaleAnswer
<1>1. TypeInv /\ PauseValues => NoStaleAnswer
  BY DEF TypeInv, TypeOK, DataOK, PauseValues, NoStaleAnswer
<1>2. QED
  BY <1>1, PauseInvariant, EveryReaderResets, PTL

\* Then stepbystep never lets an instruction pass that should wait: in step
\* mode and at breakpoints the program stops.
THEOREM StepperNeverSkips ==
  ASSUME EveryReaderResets PROVE Spec => NeverSkipsPause
<1> DEFINE Skip == pc = "fetch" /\ ~rom /\ ~first_it /\ pc' = "exec"
                     => execution_mode_run' = 0 /\ ~is_breakpoint
<1>1. TypeInv /\ PauseValues /\ [Next]_vars => [Skip]_vars
  <2> SUFFICES ASSUME TypeInv, PauseValues, Next,
                      pc = "fetch", ~rom, ~first_it, pc' = "exec"
               PROVE  execution_mode_run' = 0 /\ ~is_breakpoint
    OBVIOUS
  <2>1. FetchText
    BY DEF Next, Simulator, Exec, Page, FetchRom, WakePaused, ExecText,
           ExecRom, ReadDone, Press, Stop, Answer, AnswerLost, Sleeping
  <2>2. PICK m \in {execution_mode_run, 1} :
          execution_mode_run' = m /\ EnterStepper(m)
    BY <2>1 DEF FetchText
  <2>3. should_pause = -1
    BY DEF PauseValues
  <2>4. ~WaitBranch(m)
    BY <2>2, <2>3 DEF EnterStepper
  <2>5. QED
    BY <2>2, <2>3, <2>4 DEF WaitBranch
<1>2. QED
  BY <1>1, PauseInvariant, EveryReaderResets, PTL DEF Spec, NeverSkipsPause

LEMMA WakeStep ==
  ASSUME TypeInv, ReaderCanWake, ModeChosen, [Next]_vars
  PROVE  ReaderCanWake' /\ ModeChosen'
<1> USE ParameterAssumption DEF TypeInv, TypeOK, FlagsOK, DataOK,
        PromptOnlyInRead,
        ReaderCanWake, ModeChosen, Reads
<1>1. CASE FetchText
  BY <1>1 DEF FetchText, EnterStepper, LeaveStepper
<1>2. CASE FetchRom
  BY <1>2 DEF FetchRom, cvars, pagevars
<1>3. CASE WakePaused
  BY <1>3 DEF WakePaused, LeaveStepper, pagevars
<1>4. ASSUME NEW k \in Kinds, ExecText(k)
      PROVE  ReaderCanWake' /\ ModeChosen'
  BY <1>4 DEF ExecText, OpenPrompt, cvars
<1>5. CASE ExecRom
  BY <1>5 DEF ExecRom, cvars, pagevars
<1>6. CASE ReadDone
  BY <1>6 DEF ReadDone, ReaderWakes, pagevars
<1>7. ASSUME NEW m \in {0, 1}, Press(m)
      PROVE  ReaderCanWake' /\ ModeChosen'
  <2>1. CASE pc = "read"
    <3>1. ~calm'
      BY <1>7, <2>1 DEF Press
    <3>2. QED
      BY <3>1
  <2>2. CASE pc # "read"
    <3>1. ~prompt' /\ execution_mode_run' # 2 /\ pc' # "read"
      BY <1>7, <2>2 DEF Press
    <3>2. QED
      BY <3>1
  <2>3. QED
    BY <2>1, <2>2
<1>8. CASE Stop
  BY <1>8 DEF Stop, pagevars
<1>9. ASSUME NEW v \in Values, Answer(v)
      PROVE  ReaderCanWake' /\ ModeChosen'
  BY <1>9 DEF Answer, ClosePrompt
<1>10. CASE AnswerLost
  BY <1>10 DEF AnswerLost
<1>11. CASE UNCHANGED vars
  BY <1>11 DEF vars, cvars, pagevars
<1>12. QED
  BY <1>1, <1>2, <1>3, <1>4, <1>5, <1>6, <1>7, <1>8, <1>9, <1>10, <1>11
     DEF Next, Simulator, Exec, Page

\* While the run is calm, a reader that waits can always be woken, and the
\* page is in mode 2 exactly while it reads.
LEMMA WakeInvariant == Spec => [](ReaderCanWake /\ ModeChosen)
<1>1. Init => ReaderCanWake /\ ModeChosen
  BY DEF Init, ReaderCanWake, ModeChosen
<1>2. TypeInv /\ (ReaderCanWake /\ ModeChosen) /\ [Next]_vars
        => (ReaderCanWake /\ ModeChosen)'
  BY WakeStep
<1>3. QED
  BY <1>1, <1>2, TypeInvInit, TypeInvStep, PTL DEF Spec

\* No reader waits for an answer nobody is asked for.
THEOREM ReadersCanWake == Spec => []ReaderCanWake
BY WakeInvariant, PTL

\* The mode the stepper sees is one the user chose, however reads, prompts and
\* ticks of the clock change it in between.
THEOREM ModesAreChosen == Spec => []ModeChosen
BY WakeInvariant, PTL

LEMMA ChannelStep ==
  ASSUME TypeInv, [Next]_vars
  PROVE  [calm' => Channel!Next]_(Channel!vars)
<1> USE ParameterAssumption DEF TypeInv, PromptOnlyInRead, NoRequestInExec,
        Channel!vars
<1>1. CASE FetchText
  BY <1>1 DEF FetchText, EnterStepper, LeaveStepper
<1>2. CASE FetchRom
  BY <1>2 DEF FetchRom, cvars
<1>3. CASE WakePaused
  BY <1>3 DEF WakePaused, LeaveStepper
<1>4. ASSUME NEW k \in Kinds, ExecText(k)
      PROVE  [calm' => Channel!Next]_(Channel!vars)
  BY <1>4 DEF ExecText, cvars, Channel!Next, Channel!Ask
<1>5. CASE ExecRom
  BY <1>5 DEF ExecRom, cvars
<1>6. CASE ReadDone
  BY <1>6 DEF ReadDone, ReaderWakes, Channel!Next, Channel!Deliver
<1>7. ASSUME NEW m \in {0, 1}, Press(m)
      PROVE  [calm' => Channel!Next]_(Channel!vars)
  BY <1>7 DEF Press, Sleeping
<1>8. CASE Stop
  BY <1>8 DEF Stop
<1>9. ASSUME NEW v \in Values, Answer(v)
      PROVE  [calm' => Channel!Next]_(Channel!vars)
  BY <1>9 DEF Answer, Channel!Next, Channel!Answer
<1>10. CASE AnswerLost
  BY <1>10 DEF AnswerLost
<1>11. CASE UNCHANGED vars
  BY <1>11 DEF vars, cvars
<1>12. QED
  BY <1>1, <1>2, <1>3, <1>4, <1>5, <1>6, <1>7, <1>8, <1>9, <1>10, <1>11
     DEF Next, Simulator, Exec, Page

\* As long as the run is calm, the globals should_pause and <type>_keyboard
\* implement a channel with one question and one answer at a time: the program
\* receives exactly what the user typed for this read.
THEOREM StepperImplementsChannel == Spec => ImplementsChannel
<1>1. Init => Channel!Init
  BY DEF Init, Channel!Init
<1>2. TypeInv /\ [Next]_vars => [calm' => Channel!Next]_(Channel!vars)
  BY ChannelStep
<1>3. QED
  BY <1>1, <1>2, TypeInvInit, TypeInvStep, PTL
     DEF Spec, ImplementsChannel
=============================================================================

-------------------------------- MODULE Clint --------------------------------
(***************************************************************************)
(* Time: the run loop of the C emulator, which counts instructions and     *)
(* ticks the clock every rv_insns_per_tick of them, the core-local         *)
(* interruptor that compares mtime with mtimecmp, and wfi, which moves     *)
(* time forward.  mip.MTI is a copy of that comparison, refreshed only     *)
(* where the code calls clint_dispatch.  The registers have TimeBits bits  *)
(* and wrap; mtimecmp can be written in halves of HalfBits.                *)
(***************************************************************************)
EXTENDS Integers

CONSTANTS
  TimeBits, HalfBits,    \* 64 and 32 in the code
  rv_insns_per_tick,     \* instructions per tick, 100 in the code
  CmpWritten,            \* the values the program writes to mtimecmp
  CycleWritten           \* the values the program writes to mcycle

ASSUME ClintAssumption ==
  /\ TimeBits \in Nat /\ HalfBits \in 1 .. TimeBits - 1
  /\ 2^TimeBits \in Nat /\ 2^TimeBits > 1 /\ 2^HalfBits \in Nat \ {0}
  /\ rv_insns_per_tick \in Nat \ {0}
  /\ CmpWritten \subseteq 0 .. 2^TimeBits - 1
  /\ CycleWritten \subseteq 0 .. 2^TimeBits - 1

VARIABLES
  mtime, mtimecmp, mcycle,
  CY,            \* mcountinhibit.CY
  MTI,           \* mip.MTI
  enabled,       \* a pending timer interrupt is taken at the next step
  insn_cnt,      \* instructions since the last tick, of run_sail
  synced         \* (history) mtime never wrapped, mcycle was never written

clint_vars == <<mtime, mtimecmp, mcycle, CY, MTI, enabled, insn_cnt, synced>>

Time == 0 .. 2^TimeBits - 1

\* The type invariant.
ClintTypeOK ==
  /\ mtime \in Time /\ mtimecmp \in Time /\ mcycle \in Time
  /\ CY \in BOOLEAN /\ MTI \in BOOLEAN /\ enabled \in BOOLEAN
  /\ insn_cnt \in 0 .. rv_insns_per_tick - 1
  /\ synced \in BOOLEAN

\* init_sys; mtimecmp and mcountinhibit are zero at power on.
ClintInit ==
  /\ mtime = 0 /\ mtimecmp = 0 /\ mcycle = 0
  /\ CY = FALSE /\ MTI = FALSE /\ enabled = FALSE
  /\ insn_cnt = 0 /\ synced = TRUE
-----------------------------------------------------------------------------
(* The clock *)

\* The comparison of clint_dispatch.
Due(cmp, t) == cmp <= t

\* Mutant: MTI is set and never cleared.
clint_dispatch_SetOnly(cmp, t) == MTI' = (MTI \/ Due(cmp, t))

clint_dispatch(cmp, t) == MTI' = Due(cmp, t)

\* Mutant: the tick does not refresh MTI.
tick_clock_NoDispatch(t, c) ==
  /\ mcycle' = IF CY' THEN c ELSE (c + 1) % 2^TimeBits
  /\ mtime' = (t + 1) % 2^TimeBits
  /\ UNCHANGED MTI

tick_clock(t, c) ==
  /\ mcycle' = IF CY' THEN c ELSE (c + 1) % 2^TimeBits
  /\ mtime' = (t + 1) % 2^TimeBits
  /\ clint_dispatch(mtimecmp', mtime')

TickNow == insn_cnt + 1 = rv_insns_per_tick

\* The end of a step that counts as an instruction: time is t, the cycle
\* counter c, and refresh says whether the instruction called clint_dispatch.
EndStep(t, c, refresh) ==
  IF TickNow
  THEN insn_cnt' = 0 /\ tick_clock(t, c)
  ELSE /\ insn_cnt' = insn_cnt + 1
       /\ mtime' = t /\ mcycle' = c
       /\ IF refresh THEN clint_dispatch(mtimecmp', t) ELSE UNCHANGED MTI
-----------------------------------------------------------------------------
(* The steps of the hart *)

Taken == enabled /\ MTI

\* dispatchInterrupt found the timer: no instruction is counted.
Interrupt ==
  /\ Taken
  /\ enabled' = FALSE
  /\ UNCHANGED <<mtime, mtimecmp, mcycle, CY, MTI, insn_cnt, synced>>

\* A fetch that faults traps, and is not counted either.
FetchFault ==
  /\ ~Taken
  /\ enabled' = FALSE
  /\ UNCHANGED <<mtime, mtimecmp, mcycle, CY, MTI, insn_cnt, synced>>

\* An instruction that leaves the clock alone: it may trap, or change the
\* enable bits.
Plain ==
  /\ enabled' \in BOOLEAN
  /\ UNCHANGED <<mtimecmp, CY>>
  /\ EndStep(mtime, mcycle, FALSE)

WriteCmp(v) ==
  /\ mtimecmp' = v
  /\ UNCHANGED <<CY, enabled>>
  /\ EndStep(mtime, mcycle, TRUE)

High(v) == v \div 2^HalfBits
Low(v) == v % 2^HalfBits
Joined(hi, lo) == hi * 2^HalfBits + lo

\* A register made of two halves is a value of the register: true of every
\* width, and what a proof for all widths needs of the arithmetic.
ASSUME HalvesAssumption ==
  \A a, b \in Time : Joined(High(a), Low(b)) \in Time

\* A store to mtimecmp: both halves or, on RV32, one.
StoreCmp(v) ==
  \/ WriteCmp(v)
  \/ WriteCmp(Joined(High(mtimecmp), Low(v)))
  \/ WriteCmp(Joined(High(v), Low(mtimecmp)))

\* A store to MSIP also calls clint_dispatch.
StoreMsip ==
  /\ UNCHANGED <<mtimecmp, CY, enabled>>
  /\ EndStep(mtime, mcycle, TRUE)

\* csrw mcycle and mcountinhibit.
WriteMcycle(v) ==
  /\ UNCHANGED <<mtimecmp, CY, enabled>>
  /\ EndStep(mtime, v, FALSE)

WriteInhibit ==
  /\ CY' \in BOOLEAN
  /\ UNCHANGED <<mtimecmp, enabled>>
  /\ EndStep(mtime, mcycle, FALSE)

\* Mutant: wfi jumps to the timer also when it has passed.
Ahead_Always == TRUE
Ahead == mtime < mtimecmp

\* platform_wfi: time jumps to the timer; clint_dispatch is not called.
WFI ==
  /\ UNCHANGED <<mtimecmp, CY, enabled>>
  /\ IF Ahead THEN EndStep(mtimecmp, mtimecmp, FALSE)
     ELSE EndStep(mtime, mcycle, FALSE)

\* The tick took mtime past its last value.
Wrapped == TickNow /\ mtime' = 0

Instruction ==
  \/ /\ Plain \/ StoreMsip \/ WriteInhibit \/ WFI
        \/ \E v \in CmpWritten : StoreCmp(v)
     /\ synced' = (synced /\ ~Wrapped)
  \/ /\ \E v \in CycleWritten : WriteMcycle(v)
     /\ synced' = FALSE

ClintNext == Interrupt \/ FetchFault \/ (~Taken /\ Instruction)

\* The run loop steps for as long as the program does not end.  A fetch fault
\* that finds the interrupts disabled changes nothing here, so the fairness
\* excludes a program that does nothing else: in the code its clock stops.
ClintSpec == ClintInit /\ [][ClintNext]_clint_vars /\ WF_clint_vars(ClintNext)
-----------------------------------------------------------------------------
(* Properties *)

\* No timer interrupt is pending before its time, whatever halves of
\* mtimecmp were written and wherever wfi moved the clock.
NoEarlyTimer == MTI => Due(mtimecmp, mtime)

\* A timer that came due is not passed over: it leaves only by a new value of
\* mtimecmp, or after MTI was raised.  A timer at the last instant is: a wfi
\* moves mtime there and the next tick wraps it before the comparison.
TimerNotMissed ==
  [][Due(mtimecmp, mtime) /\ ~Due(mtimecmp', mtime') /\ mtimecmp' = mtimecmp
       => MTI \/ mtimecmp = 2^TimeBits - 1]_clint_vars

\* Until mtime wraps or software writes mcycle, mcycle never runs backwards,
\* although wfi sets it to mtimecmp: it never gets ahead of mtime.
CyclesNeverBack == [][synced' => mcycle' >= mcycle]_clint_vars

\* A timer that is due is raised sooner or later, although wfi does not raise
\* it, unless the program moves it or mtime wraps.
TimerArrives ==
  Due(mtimecmp, mtime) ~> (MTI \/ ~Due(mtimecmp, mtime))
=============================================================================

--------------------------- MODULE Platform_proofs ---------------------------
(***************************************************************************)
(* Proofs about the devices and globals of riscv_platform: the clock       *)
(* (Clint), the reservation (LrSc) and the HTIF port (Htif).  The three    *)
(* share no state; each theorem is about the specification of one.         *)
(***************************************************************************)
EXTENDS Clint, LrSc, Htif, SequenceTheorems, TLAPS

-----------------------------------------------------------------------------
(* Clint: any width of the registers and any tick.                         *)

\* The clock starts with every register at zero.
LEMMA InitType == ClintInit => ClintTypeOK
<1> SUFFICES ASSUME ClintInit PROVE ClintTypeOK  OBVIOUS
<1>1. 0 \in Time  BY ClintAssumption DEF Time
<1>2. 0 \in 0 .. rv_insns_per_tick - 1  BY ClintAssumption
<1> QED  BY <1>1, <1>2 DEF ClintInit, ClintTypeOK

\* A tick keeps the registers within their width.
LEMMA TickType ==
  ASSUME NEW t \in Time, NEW c \in Time, mtimecmp' \in Time, CY' \in BOOLEAN,
         tick_clock(t, c)
  PROVE  mtime' \in Time /\ mcycle' \in Time /\ MTI' \in BOOLEAN
BY ClintAssumption
   DEF Time, tick_clock, clint_dispatch, Due

\* So does the end of any step.
LEMMA EndStepType ==
  ASSUME ClintTypeOK, NEW t \in Time, NEW c \in Time, NEW r \in BOOLEAN,
         mtimecmp' \in Time, CY' \in BOOLEAN, EndStep(t, c, r)
  PROVE  /\ mtime' \in Time /\ mcycle' \in Time /\ MTI' \in BOOLEAN
         /\ insn_cnt' \in 0 .. rv_insns_per_tick - 1
<1>1. CASE TickNow
  <2>1. insn_cnt' = 0 /\ tick_clock(t, c)  BY <1>1 DEF EndStep
  <2>2. mtime' \in Time /\ mcycle' \in Time /\ MTI' \in BOOLEAN
    BY <2>1, TickType
  <2> QED  BY <2>1, <2>2, ClintAssumption
<1>2. CASE ~TickNow
  <2>1. mtime' = t /\ mcycle' = c /\ insn_cnt' = insn_cnt + 1
    BY <1>2 DEF EndStep
  <2>2. insn_cnt' \in 0 .. rv_insns_per_tick - 1
    BY <1>2, <2>1, ClintAssumption DEF TickNow, ClintTypeOK
  <2>3. CASE r  BY <1>2, <2>1, <2>2, <2>3 DEF EndStep, clint_dispatch, Due
  <2>4. CASE ~r  BY <1>2, <2>1, <2>2, <2>4 DEF EndStep, ClintTypeOK
  <2> QED  BY <2>3, <2>4
<1> QED  BY <1>1, <1>2

\* Every store to mtimecmp leaves a value of the register there.
LEMMA StoredType ==
  ASSUME ClintTypeOK, NEW v \in CmpWritten, StoreCmp(v)
  PROVE  \E w \in Time : WriteCmp(w)
BY ClintAssumption, HalvesAssumption DEF StoreCmp, ClintTypeOK, Time

LEMMA NextType == ClintTypeOK /\ [ClintNext]_clint_vars => ClintTypeOK'
<1> SUFFICES ASSUME ClintTypeOK, [ClintNext]_clint_vars PROVE ClintTypeOK'  OBVIOUS
<1> USE DEF ClintTypeOK
<1>0. synced' \in BOOLEAN
  BY DEF ClintNext, Interrupt, FetchFault, Instruction, Wrapped, clint_vars
<1>1. CASE Interrupt  BY <1>1 DEF Interrupt
<1>2. CASE FetchFault  BY <1>2 DEF FetchFault
<1>3. CASE Plain  BY <1>0, <1>3, EndStepType DEF Plain
<1>4. CASE StoreMsip  BY <1>0, <1>4, EndStepType DEF StoreMsip
<1>5. CASE WriteInhibit  BY <1>0, <1>5, EndStepType DEF WriteInhibit
<1>6. CASE WFI
  <2>1. CASE Ahead  BY <1>0, <1>6, <2>1, EndStepType DEF WFI
  <2>2. CASE ~Ahead  BY <1>0, <1>6, <2>2, EndStepType DEF WFI
  <2> QED  BY <2>1, <2>2
<1>7. ASSUME NEW v \in CmpWritten, StoreCmp(v) PROVE ClintTypeOK'
  <2>1. PICK w \in Time : WriteCmp(w)  BY <1>7, StoredType
  <2> QED  BY <1>0, <2>1, EndStepType DEF WriteCmp
<1>8. ASSUME NEW v \in CycleWritten, WriteMcycle(v) PROVE ClintTypeOK'
  <2>1. v \in Time  BY <1>8, ClintAssumption DEF Time
  <2> QED  BY <1>0, <1>8, <2>1, EndStepType DEF WriteMcycle
<1>9. CASE UNCHANGED clint_vars  BY <1>9 DEF clint_vars
<1> QED
  BY <1>1, <1>2, <1>3, <1>4, <1>5, <1>6, <1>7, <1>8, <1>9 DEF ClintNext, Instruction

\* Type correctness of the clock.
THEOREM ClintTypeCorrect == ClintSpec => []ClintTypeOK
<1>1. ClintInit => ClintTypeOK  BY InitType
<1>2. ClintTypeOK /\ [ClintNext]_clint_vars => ClintTypeOK'  BY NextType
<1> QED  BY <1>1, <1>2, PTL DEF ClintSpec
-----------------------------------------------------------------------------
\* A step whose time does not go back keeps a pending timer honest: either it
\* refreshes MTI, or it leaves mtimecmp alone.
LEMMA EndStepHonest ==
  ASSUME ClintTypeOK, NoEarlyTimer, NEW t \in Time, NEW c \in Time,
         NEW r \in BOOLEAN, mtime <= t, r \/ mtimecmp' = mtimecmp,
         EndStep(t, c, r)
  PROVE  NoEarlyTimer'
<1>1. CASE TickNow
  BY <1>1 DEF EndStep, tick_clock, clint_dispatch, NoEarlyTimer
<1>2. CASE ~TickNow /\ r
  BY <1>2 DEF EndStep, clint_dispatch, NoEarlyTimer
<1>3. CASE ~TickNow /\ ~r
  <2>1. mtime' = t /\ MTI' = MTI /\ mtimecmp' = mtimecmp  BY <1>3 DEF EndStep
  <2> QED  BY <2>1 DEF NoEarlyTimer, Due, ClintTypeOK, Time
<1> QED  BY <1>1, <1>2, <1>3

LEMMA NextHonest ==
  ClintTypeOK /\ NoEarlyTimer /\ [ClintNext]_clint_vars => NoEarlyTimer'
<1> SUFFICES ASSUME ClintTypeOK, NoEarlyTimer, [ClintNext]_clint_vars PROVE NoEarlyTimer'
  OBVIOUS
<1>0. mtime \in Time /\ mcycle \in Time /\ mtimecmp \in Time /\ mtime <= mtime
  BY DEF ClintTypeOK, Time
<1>1. CASE Interrupt  BY <1>1 DEF Interrupt, NoEarlyTimer
<1>2. CASE FetchFault  BY <1>2 DEF FetchFault, NoEarlyTimer
<1>3. CASE Plain  BY <1>0, <1>3, EndStepHonest DEF Plain
<1>4. CASE StoreMsip  BY <1>0, <1>4, EndStepHonest DEF StoreMsip
<1>5. CASE WriteInhibit  BY <1>0, <1>5, EndStepHonest DEF WriteInhibit
<1>6. CASE WFI
  <2>1. CASE Ahead
    <3>1. mtime <= mtimecmp  BY <1>0, <2>1 DEF Ahead, Time
    <3> QED  BY <1>0, <1>6, <2>1, <3>1, EndStepHonest DEF WFI
  <2>2. CASE ~Ahead  BY <1>0, <1>6, <2>2, EndStepHonest DEF WFI
  <2> QED  BY <2>1, <2>2
<1>7. ASSUME NEW v \in CmpWritten, StoreCmp(v) PROVE NoEarlyTimer'
  <2>1. PICK w \in Time : WriteCmp(w)  BY <1>7, StoredType
  <2> QED  BY <1>0, <2>1, EndStepHonest DEF WriteCmp
<1>8. ASSUME NEW v \in CycleWritten, WriteMcycle(v) PROVE NoEarlyTimer'
  <2>1. v \in Time  BY <1>8, ClintAssumption DEF Time
  <2> QED  BY <1>0, <1>8, <2>1, EndStepHonest DEF WriteMcycle
<1>9. CASE UNCHANGED clint_vars  BY <1>9 DEF clint_vars, NoEarlyTimer
<1> QED
  BY <1>1, <1>2, <1>3, <1>4, <1>5, <1>6, <1>7, <1>8, <1>9 DEF ClintNext, Instruction

\* No timer interrupt is pending before its time.
THEOREM TimerNeverEarly == ClintSpec => []NoEarlyTimer
<1>1. ClintInit => NoEarlyTimer  BY DEF ClintInit, NoEarlyTimer
<1>2. ClintTypeOK /\ NoEarlyTimer /\ [ClintNext]_clint_vars => NoEarlyTimer'  BY NextHonest
<1>3. ClintSpec => []ClintTypeOK  BY ClintTypeCorrect
<1> QED  BY <1>1, <1>2, <1>3, PTL DEF ClintSpec
-----------------------------------------------------------------------------
\* Until time wraps or software writes mcycle, the cycle counter is never
\* ahead of time: what keeps wfi from moving it back.
CyclesBehind == synced => mcycle <= mtime

\* The end of a step whose counter is not ahead of its time, unless the tick
\* wraps time.
LEMMA EndStepBehind ==
  ASSUME ClintTypeOK, NEW t \in Time, NEW c \in Time, NEW r \in BOOLEAN,
         CY' \in BOOLEAN, c <= t, mcycle <= c, EndStep(t, c, r), ~Wrapped
  PROVE  mcycle' <= mtime' /\ mcycle' >= mcycle
<1> DEFINE N == 2^TimeBits
<1>1. N \in Nat /\ N > 1 /\ t \in Nat /\ c \in Nat /\ mcycle \in Nat /\ t < N
  BY ClintAssumption DEF Time, ClintTypeOK
<1>2. CASE TickNow
  <2>1. mtime' = (t + 1) % N /\ mcycle' = IF CY' THEN c ELSE (c + 1) % N
    BY <1>2 DEF EndStep, tick_clock
  <2>2. (t + 1) % N # 0  BY <1>2, <2>1 DEF Wrapped
  <2> HIDE DEF N
  <2>3. t + 1 # N
    <3>1. ASSUME t + 1 = N PROVE FALSE
      <4>1. N % N = 0  BY <1>1
      <4> QED  BY <2>2, <3>1, <4>1
    <3> QED  BY <3>1
  <2>4. t + 1 < N /\ c + 1 < N  BY <1>1, <2>3
  <2>5. (t + 1) % N = t + 1 /\ (c + 1) % N = c + 1  BY <1>1, <2>4
  <2> QED  BY <1>1, <2>1, <2>5
<1>3. CASE ~TickNow
  <2>1. mtime' = t /\ mcycle' = c  BY <1>3 DEF EndStep
  <2> QED  BY <1>1, <2>1
<1> QED  BY <1>2, <1>3

\* A step that leaves the history synced keeps the counter behind time and
\* does not move it back.
LEMMA NextBehind ==
  ASSUME ClintTypeOK, CyclesBehind, [ClintNext]_clint_vars, synced'
  PROVE  mcycle' <= mtime' /\ mcycle' >= mcycle
<1>0. /\ mtime \in Time /\ mcycle \in Time /\ mtimecmp \in Time
      /\ mcycle <= mcycle /\ mcycle >= mcycle
  BY DEF ClintTypeOK, Time
<1>1. synced
  BY DEF ClintNext, Interrupt, FetchFault, Instruction, clint_vars
<1>2. mcycle <= mtime  BY <1>1 DEF CyclesBehind
<1>3. CASE Interrupt  BY <1>0, <1>2, <1>3 DEF Interrupt
<1>4. CASE FetchFault  BY <1>0, <1>2, <1>4 DEF FetchFault
<1>5. CASE UNCHANGED clint_vars  BY <1>0, <1>2, <1>5 DEF clint_vars
<1>6. CASE Instruction
  <2>0. ~Wrapped  BY <1>6 DEF Instruction
  <2>1. CASE Plain  BY <1>0, <1>2, <2>0, <2>1, EndStepBehind DEF Plain, ClintTypeOK
  <2>2. CASE StoreMsip
    BY <1>0, <1>2, <2>0, <2>2, EndStepBehind DEF StoreMsip, ClintTypeOK
  <2>3. CASE WriteInhibit
    BY <1>0, <1>2, <2>0, <2>3, EndStepBehind DEF WriteInhibit
  <2>4. CASE WFI
    <3>1. CY' \in BOOLEAN  BY <2>4 DEF WFI, ClintTypeOK
    <3>2. CASE Ahead
      <4>1. mtimecmp <= mtimecmp /\ mcycle <= mtimecmp
        BY <1>0, <1>2, <3>2 DEF Ahead, Time
      <4> QED  BY <1>0, <2>0, <2>4, <3>1, <3>2, <4>1, EndStepBehind DEF WFI
    <3>3. CASE ~Ahead
      BY <1>0, <1>2, <2>0, <2>4, <3>1, <3>3, EndStepBehind DEF WFI
    <3> QED  BY <3>2, <3>3
  <2>5. ASSUME NEW v \in CmpWritten, StoreCmp(v)
        PROVE  mcycle' <= mtime' /\ mcycle' >= mcycle
    <3>1. PICK w \in Time : WriteCmp(w)  BY <2>5, StoredType
    <3> QED  BY <1>0, <1>2, <2>0, <3>1, EndStepBehind DEF WriteCmp, ClintTypeOK
  <2> QED  BY <1>6, <2>1, <2>2, <2>3, <2>4, <2>5 DEF Instruction
<1> QED  BY <1>3, <1>4, <1>5, <1>6 DEF ClintNext

\* Until mtime wraps or software writes mcycle, mcycle never runs backwards,
\* wherever wfi moves it.
THEOREM CyclesMonotone == ClintSpec => CyclesNeverBack
<1>1. ClintInit => CyclesBehind  BY DEF ClintInit, CyclesBehind
<1>2. ClintTypeOK /\ CyclesBehind /\ [ClintNext]_clint_vars
        => CyclesBehind' /\ [synced' => mcycle' >= mcycle]_clint_vars
  BY NextBehind DEF CyclesBehind
<1>3. ClintSpec => []ClintTypeOK  BY ClintTypeCorrect
<1> QED  BY <1>1, <1>2, <1>3, PTL DEF ClintSpec, CyclesNeverBack
-----------------------------------------------------------------------------
\* At its last instant a timer that is due is raised, unless it is set to that
\* instant: only a wfi gets there without a tick.
LastRaised ==
  mtime = 2^TimeBits - 1 => MTI \/ mtimecmp = 2^TimeBits - 1

\* The end of a step in which time stands still or jumps to the timer.
LEMMA EndStepLast ==
  ASSUME ClintTypeOK, LastRaised, NEW t \in Time, NEW c \in Time, NEW r \in BOOLEAN,
         mtimecmp' \in Time, r \/ mtimecmp' = mtimecmp,
         t = mtime \/ (t = mtimecmp /\ mtimecmp' = mtimecmp), EndStep(t, c, r)
  PROVE  LastRaised'
<1> DEFINE N == 2^TimeBits
<1>1. N \in Nat /\ N > 1 /\ mtimecmp' \in Nat /\ mtimecmp' =< N - 1
  BY ClintAssumption DEF Time
<1>2. CASE TickNow
  <2>1. MTI' = Due(mtimecmp', mtime')
    BY <1>2 DEF EndStep, tick_clock, clint_dispatch
  <2> HIDE DEF N
  <2>2. mtime' = N - 1 => MTI'
    BY <1>1, <2>1 DEF Due
  <2> QED
    BY <2>2 DEF LastRaised, N
<1>3. CASE ~TickNow /\ r
  <2>1. mtime' = t /\ MTI' = Due(mtimecmp', t)
    BY <1>3 DEF EndStep, clint_dispatch
  <2> HIDE DEF N
  <2>2. mtime' = N - 1 => MTI'
    BY <1>1, <2>1 DEF Due
  <2> QED
    BY <2>2 DEF LastRaised, N
<1>4. CASE ~TickNow /\ ~r
  <2>1. mtime' = t /\ MTI' = MTI /\ mtimecmp' = mtimecmp
    BY <1>4 DEF EndStep
  <2> QED
    BY <2>1 DEF LastRaised
<1> QED
  BY <1>2, <1>3, <1>4

LEMMA NextLast == ClintTypeOK /\ LastRaised /\ [ClintNext]_clint_vars => LastRaised'
<1> SUFFICES ASSUME ClintTypeOK, LastRaised, [ClintNext]_clint_vars PROVE LastRaised'
  OBVIOUS
<1>0. mtime \in Time /\ mcycle \in Time /\ mtimecmp \in Time
  BY DEF ClintTypeOK
<1>1. CASE Interrupt  BY <1>1 DEF Interrupt, LastRaised
<1>2. CASE FetchFault  BY <1>2 DEF FetchFault, LastRaised
<1>3. CASE Plain  BY <1>0, <1>3, EndStepLast DEF Plain
<1>4. CASE StoreMsip  BY <1>0, <1>4, EndStepLast DEF StoreMsip
<1>5. CASE WriteInhibit  BY <1>0, <1>5, EndStepLast DEF WriteInhibit
<1>6. CASE WFI
  <2>1. CASE Ahead  BY <1>0, <1>6, <2>1, EndStepLast DEF WFI
  <2>2. CASE ~Ahead  BY <1>0, <1>6, <2>2, EndStepLast DEF WFI
  <2> QED  BY <2>1, <2>2
<1>7. ASSUME NEW v \in CmpWritten, StoreCmp(v) PROVE LastRaised'
  <2>1. PICK w \in Time : WriteCmp(w)  BY <1>7, StoredType
  <2> QED  BY <1>0, <2>1, EndStepLast DEF WriteCmp
<1>8. ASSUME NEW v \in CycleWritten, WriteMcycle(v) PROVE LastRaised'
  <2>1. v \in Time  BY <1>8, ClintAssumption DEF Time
  <2> QED  BY <1>0, <1>8, <2>1, EndStepLast DEF WriteMcycle
<1>9. CASE UNCHANGED clint_vars  BY <1>9 DEF clint_vars, LastRaised
<1> QED
  BY <1>1, <1>2, <1>3, <1>4, <1>5, <1>6, <1>7, <1>8, <1>9 DEF ClintNext, Instruction

\* A due timer leaves only in the tick that wraps time, and then from the last
\* instant.
LEMMA EndStepLeaves ==
  ASSUME ClintTypeOK, NEW c, NEW r \in BOOLEAN, Due(mtimecmp, mtime),
         mtimecmp' = mtimecmp, ~Due(mtimecmp', mtime'), EndStep(mtime, c, r)
  PROVE  mtime = 2^TimeBits - 1
<1> DEFINE N == 2^TimeBits
<1>1. N \in Nat /\ N > 1 /\ mtime \in Nat /\ mtime =< N - 1 /\ mtimecmp \in Nat
  BY ClintAssumption DEF Time, ClintTypeOK
<1>2. TickNow
  BY DEF EndStep
<1>3. mtime' = (mtime + 1) % N
  BY <1>2 DEF EndStep, tick_clock
<1> HIDE DEF N
<1>4. CASE mtime + 1 < N
  <2>1. (mtime + 1) % N = mtime + 1
    BY <1>1, <1>4
  <2> QED
    BY <1>1, <1>3, <2>1 DEF Due
<1>5. CASE ~(mtime + 1 < N)
  BY <1>1, <1>5 DEF N
<1> QED
  BY <1>4, <1>5

LEMMA NextLeaves ==
  ASSUME ClintTypeOK, ClintNext, Due(mtimecmp, mtime), mtimecmp' = mtimecmp,
         ~Due(mtimecmp', mtime')
  PROVE  mtime = 2^TimeBits - 1
<1>1. ~Interrupt /\ ~FetchFault
  BY DEF Interrupt, FetchFault
<1>2. CASE Plain  BY <1>2, EndStepLeaves DEF Plain
<1>3. CASE StoreMsip  BY <1>3, EndStepLeaves DEF StoreMsip
<1>4. CASE WriteInhibit  BY <1>4, EndStepLeaves DEF WriteInhibit
<1>5. CASE WFI
  <2>1. ~Ahead  BY DEF Ahead, Due, ClintTypeOK, Time
  <2> QED  BY <1>5, <2>1, EndStepLeaves DEF WFI
<1>6. ASSUME NEW v \in CmpWritten, StoreCmp(v) PROVE mtime = 2^TimeBits - 1
  <2>1. PICK w \in Time : WriteCmp(w)  BY <1>6, StoredType
  <2> QED  BY <2>1, EndStepLeaves DEF WriteCmp
<1>7. ASSUME NEW v \in CycleWritten, WriteMcycle(v) PROVE mtime = 2^TimeBits - 1
  BY <1>7, EndStepLeaves DEF WriteMcycle
<1> QED
  BY <1>1, <1>2, <1>3, <1>4, <1>5, <1>6, <1>7 DEF ClintNext, Instruction

\* A timer that came due is raised before time leaves it behind, for every
\* length of a tick; the timer at the last instant apart.
THEOREM TimersNotMissed == ClintSpec => TimerNotMissed
<1> DEFINE A == Due(mtimecmp, mtime) /\ ~Due(mtimecmp', mtime') /\ mtimecmp' = mtimecmp
                  => MTI \/ mtimecmp = 2^TimeBits - 1
<1>1. ClintInit => LastRaised
  <2> SUFFICES ASSUME ClintInit PROVE mtime # 2^TimeBits - 1
    BY DEF LastRaised
  <2>1. 2^TimeBits \in Nat /\ 2^TimeBits > 1 /\ mtime = 0
    BY ClintAssumption DEF ClintInit
  <2> QED
    BY <2>1
<1>2. ClintTypeOK /\ LastRaised /\ [ClintNext]_clint_vars => LastRaised'
  BY NextLast
<1>3. ClintTypeOK /\ LastRaised /\ [ClintNext]_clint_vars => [A]_clint_vars
  <2> SUFFICES ASSUME ClintTypeOK, LastRaised, ClintNext, Due(mtimecmp, mtime),
                      ~Due(mtimecmp', mtime'), mtimecmp' = mtimecmp
               PROVE  MTI \/ mtimecmp = 2^TimeBits - 1
    OBVIOUS
  <2> QED
    BY NextLeaves DEF LastRaised
<1>4. ClintSpec => []ClintTypeOK
  BY ClintTypeCorrect
<1> QED
  BY <1>1, <1>2, <1>3, <1>4, PTL DEF ClintSpec, TimerNotMissed

-----------------------------------------------------------------------------
(* LrSc: any threads and addresses.                                        *)

\* While a thread runs, a valid reservation is its own and nobody wrote to it.
OwnAndFresh ==
  ~kernel /\ reservation_valid =>
    linked[thread] = reservation /\ reservation \notin written[thread]

\* A thread that was not trapped since its lr is the one that runs, and the
\* hart still holds its reservation.
HeldUntilTrapped ==
  \A t \in Threads : linked[t] # NoAddr /\ ~interrupted[t] =>
    ~kernel /\ t = thread /\ reservation_valid /\ reservation = linked[t]

LEMMA TypeStep == LrScTypeOK /\ [LrScNext]_lrsc_vars => LrScTypeOK'
<1> SUFFICES ASSUME LrScTypeOK, [LrScNext]_lrsc_vars PROVE LrScTypeOK'
  OBVIOUS
<1> USE DEF LrScTypeOK
<1>1. ASSUME NEW a \in Addrs, LOADRES(a) PROVE LrScTypeOK'
  BY <1>1 DEF LOADRES, load_reservation
<1>2. ASSUME NEW a \in Addrs, STORECON(a) PROVE LrScTypeOK'
  <2>1. WrittenTo(a, Threads \ {thread}) \in [Threads -> SUBSET Addrs]
    BY DEF WrittenTo
  <2>2. written' \in [Threads -> SUBSET Addrs]
    <3>1. CASE match_reservation(a)
      BY <1>2, <2>1, <3>1 DEF STORECON
    <3>2. CASE ~match_reservation(a)
      BY <1>2, <3>2 DEF STORECON
    <3>3. QED
      BY <3>1, <3>2
  <2>3. rd' \in 0 .. 2
    BY <1>2 DEF STORECON
  <2>4. linked' \in [Threads -> Addrs \union {NoAddr}]
    BY <1>2 DEF STORECON
  <2>5. reservation_valid' = FALSE /\ kernel' \in BOOLEAN
    BY <1>2 DEF STORECON, cancel_reservation
  <2>6. QED
    BY <1>2, <2>2, <2>3, <2>4, <2>5 DEF STORECON
<1>3. ASSUME NEW a \in Addrs, Store(a) PROVE LrScTypeOK'
  BY <1>3 DEF Store, WrittenTo
<1>4. CASE Trap
  BY <1>4 DEF Trap
<1>5. ASSUME NEW t \in Threads, Return(t) PROVE LrScTypeOK'
  BY <1>5 DEF Return, cancel_reservation
<1>6. CASE UNCHANGED lrsc_vars
  BY <1>6 DEF lrsc_vars
<1>7. QED
  BY <1>1, <1>2, <1>3, <1>4, <1>5, <1>6 DEF LrScNext

LEMMA TypeInit == LrScInit => LrScTypeOK
<1> SUFFICES ASSUME LrScInit PROVE LrScTypeOK
  OBVIOUS
<1>1. /\ linked \in [Threads -> Addrs \union {NoAddr}]
      /\ written \in [Threads -> SUBSET Addrs]
      /\ interrupted \in [Threads -> BOOLEAN]
  BY DEF LrScInit
<1>2. reservation_valid \in BOOLEAN /\ kernel \in BOOLEAN
  BY DEF LrScInit
<1>3. QED
  BY <1>1, <1>2 DEF LrScInit, LrScTypeOK

\* Every reachable state is well typed.
THEOREM LrScTypeCorrect == LrScSpec => []LrScTypeOK
BY TypeInit, TypeStep, PTL DEF LrScSpec

LEMMA OwnStep ==
  ASSUME KernelClears, LrScTypeOK, OwnAndFresh, [LrScNext]_lrsc_vars PROVE OwnAndFresh'
<1> USE DEF LrScTypeOK, OwnAndFresh
<1>1. ASSUME NEW a \in Addrs, LOADRES(a) PROVE OwnAndFresh'
  BY <1>1 DEF LOADRES, load_reservation
<1>2. ASSUME NEW a \in Addrs, STORECON(a) PROVE OwnAndFresh'
  BY <1>2 DEF STORECON, cancel_reservation
<1>3. ASSUME NEW a \in Addrs, Store(a) PROVE OwnAndFresh'
  BY <1>3 DEF Store, WrittenTo
<1>4. CASE Trap
  BY <1>4 DEF Trap
<1>5. ASSUME NEW t \in Threads, Return(t) PROVE OwnAndFresh'
  BY <1>5 DEF Return, cancel_reservation
<1>6. CASE UNCHANGED lrsc_vars
  BY <1>6 DEF lrsc_vars
<1>7. QED
  BY <1>1, <1>2, <1>3, <1>4, <1>5, <1>6 DEF LrScNext

LEMMA OwnInvariant ==
  ASSUME KernelClears PROVE LrScSpec => [](LrScTypeOK /\ OwnAndFresh)
<1>1. LrScInit => OwnAndFresh
  BY DEF LrScInit, OwnAndFresh
<1>2. LrScTypeOK /\ OwnAndFresh /\ [LrScNext]_lrsc_vars => OwnAndFresh'
  BY OwnStep, KernelClears
<1>3. QED
  BY <1>1, <1>2, TypeInit, TypeStep, PTL DEF LrScSpec

\* With a kernel that clears the reservation before it returns, lr and sc make
\* an atomic read-modify-write: sc succeeds only if nobody wrote since the lr.
THEOREM ScAtomic == ASSUME KernelClears PROVE LrScSpec => ScIsAtomic
<1> DEFINE A == \A a \in Addrs : STORECON(a) /\ rd' = 0
                  => linked[thread] = a /\ a \notin written[thread]
<1>1. LrScTypeOK /\ OwnAndFresh /\ [LrScNext]_lrsc_vars => [A]_lrsc_vars
  BY DEF OwnAndFresh, STORECON, match_reservation
<1>2. QED
  BY <1>1, OwnInvariant, KernelClears, PTL DEF LrScSpec, ScIsAtomic

LEMMA HeldStep ==
  ASSUME LrScTypeOK, HeldUntilTrapped, [LrScNext]_lrsc_vars PROVE HeldUntilTrapped'
<1> USE LrScAssumption DEF LrScTypeOK, HeldUntilTrapped
<1>1. ASSUME NEW a \in Addrs, LOADRES(a) PROVE HeldUntilTrapped'
  BY <1>1 DEF LOADRES, load_reservation
<1>2. ASSUME NEW a \in Addrs, STORECON(a) PROVE HeldUntilTrapped'
  BY <1>2 DEF STORECON
<1>3. ASSUME NEW a \in Addrs, Store(a) PROVE HeldUntilTrapped'
  BY <1>3 DEF Store
<1>4. CASE Trap
  BY <1>4 DEF Trap
<1>5. ASSUME NEW t \in Threads, Return(t) PROVE HeldUntilTrapped'
  BY <1>5 DEF Return
<1>6. CASE UNCHANGED lrsc_vars
  BY <1>6 DEF lrsc_vars
<1>7. QED
  BY <1>1, <1>2, <1>3, <1>4, <1>5, <1>6 DEF LrScNext

\* Whatever the kernel does, an sc fails only when its lr was for another
\* address or a trap came in between.
THEOREM ScProgress == LrScSpec => NoSpuriousFailure
<1> DEFINE A == \A a \in Addrs : STORECON(a) /\ rd' = 1
                  => linked[thread] # a \/ interrupted[thread]
<1>1. LrScInit => HeldUntilTrapped
  BY DEF LrScInit, HeldUntilTrapped
<1>2. LrScTypeOK /\ HeldUntilTrapped /\ [LrScNext]_lrsc_vars => HeldUntilTrapped'
  BY HeldStep
<1>3. LrScTypeOK /\ HeldUntilTrapped /\ [LrScNext]_lrsc_vars => [A]_lrsc_vars
  BY LrScAssumption
     DEF LrScTypeOK, HeldUntilTrapped, STORECON, match_reservation
<1>4. QED
  BY <1>1, <1>2, <1>3, TypeInit, TypeStep, PTL DEF LrScSpec, NoSpuriousFailure

-----------------------------------------------------------------------------
(* Htif: any width that counts to three.                                   *)

\* Every command is one the port acknowledges: it goes to the terminal, which
\* resets the port, or it ends the run.
Acked == \A c \in Commands : c.control.device = 1 \/ Exits(c)

PortAtRest ==
  /\ tohost_lo = 0 /\ tohost_hi = NoControl
  /\ htif_cmd_write = 0 /\ htif_payload_writes = 0

\* The port holds the payload of the command being written, seen n times, and
\* no control bits yet.
PayloadSeen(n) ==
  /\ tohost_lo = Command.payload /\ tohost_hi = NoControl
  /\ htif_cmd_write = 0 /\ htif_payload_writes = n

\* What the port holds while the writes of a command are still to come.
Progress ==
  CASE writing \in {<<"wide">>, <<"lo", "hi">>} -> PortAtRest
    [] writing = <<"hi">>                       -> PayloadSeen(1)
    [] writing = <<"lo", "lo", "lo">>           -> PortAtRest
    [] writing = <<"lo", "lo">>                 -> PayloadSeen(1)
    [] writing = <<"lo">>                       -> PayloadSeen(2)
    [] OTHER                                    -> FALSE

Repeating == writing \in {<<"lo", "lo", "lo">>, <<"lo", "lo">>, <<"lo">>}

\* The strengthening: between commands the port is at rest and nothing is
\* owed; within one, exactly that command is.
Orderly ==
  /\ issued \in Seq(Commands) /\ executed \in Seq(Commands)
  /\ htif_done \in BOOLEAN
  /\ writing = Idle => executed = issued
  /\ writing = Idle /\ ~htif_done => PortAtRest
  /\ writing # Idle =>
       /\ ~htif_done /\ Progress
       /\ Len(issued) > 0 /\ Command \in Commands
       /\ issued = Append(executed, Command)
       /\ Repeating => Exits(Command) /\ Command.control = NoControl
  /\ htif_done => /\ writing = Idle /\ Len(issued) > 0 /\ Exits(Command)
                  /\ Command.payload = 2 * htif_exit_code + 1

\* The ways of writing a command, and what is left of each after one write.
LEMMA Writes ==
  /\ Idle # <<"wide">> /\ Idle # <<"lo">> /\ Idle # <<"hi">>
  /\ Idle # <<"lo", "hi">> /\ Idle # <<"lo", "lo">> /\ Idle # <<"lo", "lo", "lo">>
  /\ <<"wide">> # <<"lo">> /\ <<"wide">> # <<"hi">> /\ <<"lo">> # <<"hi">>
  /\ <<"lo", "lo">> # <<"lo", "hi">>
  /\ Tail(<<"wide">>) = Idle /\ Tail(<<"hi">>) = Idle /\ Tail(<<"lo">>) = Idle
  /\ Tail(<<"lo", "hi">>) = <<"hi">> /\ Tail(<<"lo", "lo">>) = <<"lo">>
  /\ Tail(<<"lo", "lo", "lo">>) = <<"lo", "lo">>
  /\ Head(<<"wide">>) = "wide" /\ Head(<<"hi">>) = "hi" /\ Head(<<"lo">>) = "lo"
  /\ Head(<<"lo", "hi">>) = "lo" /\ Head(<<"lo", "lo">>) = "lo"
  /\ Head(<<"lo", "lo", "lo">>) = "lo"
BY DEF Idle

LEMMA Counts == Count(1) = 1 /\ Count(2) = 2 /\ Count(3) = 3
<1>1. ASSUME NEW m \in Nat, m >= 4, NEW n \in 1 .. 3 PROVE n % m = n
  BY <1>1
<1> QED
  BY <1>1, HtifAssumption DEF Count

\* The last command of a sequence that a command is appended to.
LEMMA LastCommand ==
  ASSUME NEW s \in Seq(Commands), NEW c \in Commands
  PROVE  /\ Append(s, c) \in Seq(Commands)
         /\ Len(Append(s, c)) = Len(s) + 1 /\ Len(s) \in Nat
         /\ Append(s, c)[Len(Append(s, c))] = c
         /\ SubSeq(Append(s, c), 1, Len(Append(s, c)) - 1) = s
<1>1. /\ Append(s, c) \in Seq(Commands) /\ Len(Append(s, c)) = Len(s) + 1
      /\ Append(s, c)[Len(s) + 1] = c
      /\ \A i \in 1 .. Len(s) : Append(s, c)[i] = s[i]
  BY AppendProperties
<1>2. Len(s) \in Nat
  BY LenProperties
<1>3. SubSeq(Append(s, c), 1, Len(s)) = s
  BY <1>1, <1>2, Z3
<1> QED
  BY <1>1, <1>2, <1>3

LEMMA OrderlyInit == HtifInit => Orderly
BY EmptySeq DEF HtifInit, Orderly, PortAtRest, Idle

\* Starting a command leaves the port at rest and owes exactly that command.
LEMMA IssueStep ==
  ASSUME Orderly, NEW c \in Commands, NEW mode \in Modes, Issue(c, mode)
  PROVE  Orderly'
<1>1. mode \in {"wide", "lohi", "repeat"}
  BY HtifAssumption
<1>2. writing' \in {<<"wide">>, <<"lo", "hi">>, <<"lo", "lo", "lo">>}
  BY <1>1 DEF Issue, WritesOf
<1>3. writing' # Idle
  BY <1>2, Writes
<1>4. /\ issued' \in Seq(Commands) /\ Command' = c /\ Len(issued') > 0
      /\ executed = issued
  BY LastCommand DEF Issue, Orderly, Command
<1>5. Repeating' => Exits(c) /\ c.control = NoControl
  BY <1>1, Writes DEF Issue, WritesOf, Repeating
<1>6. Progress'
  BY <1>2, Writes DEF Issue, Orderly, Progress, PortAtRest, port
<1> QED
  BY <1>3, <1>4, <1>5, <1>6 DEF Issue, Orderly, port, Exits

\* When the port executes the command being written, nothing is owed.
LEMMA ExecuteStep ==
  ASSUME Acked, Orderly, writing # Idle, writing' = Idle, UNCHANGED issued,
         NEW cw, NEW n, Ready(cw, n),
         Interpret(Command.payload, Command.control, cw, n)
  PROVE  Orderly'
<1> DEFINE c == Command
<1>1. /\ c \in Commands /\ Command' = c /\ c = [payload |-> c.payload, control |-> c.control]
      /\ c.payload \in Nat
  BY HtifAssumption DEF Orderly, Command, Commands
<1>2. executed' = issued'
  BY <1>1 DEF Interpret, Orderly
<1>3. CASE c.control.device = 1
  BY <1>1, <1>2, <1>3 DEF Interpret, Orderly, PortAtRest, ResetCmdWrite, Exits
<1>4. CASE Exits(c)
  BY <1>1, <1>2, <1>4 DEF Interpret, Orderly, Exits, ExitCode
<1> QED
  BY <1>1, <1>3, <1>4 DEF Acked

\* A write that does not complete the command leaves the rest owed.
LEMMA WaitStep ==
  ASSUME Orderly, writing # Idle, writing' # Idle, Repeating' => Repeating,
         UNCHANGED <<issued, executed, htif_done, htif_exit_code>>, Progress'
  PROVE  Orderly'
BY DEF Orderly, Repeating, Command, Exits, Idle

LEMMA StoreStep == ASSUME Acked, Orderly, htif_store PROVE Orderly'
<1> USE DEF htif_store
<1>1. writing # Idle /\ Progress
  BY DEF StoreWide, StoreLow, StoreHigh, Orderly
<1>2. Command \in Commands /\ Command.payload \in Nat
  BY <1>1, HtifAssumption DEF Orderly, Commands
<1>3. CASE writing = <<"wide">>
  BY <1>1, <1>3, ExecuteStep, Counts, Writes
     DEF StoreWide, StoreLow, StoreHigh, Ready, Progress, PortAtRest
<1>4. CASE writing = <<"lo", "hi">>
  <2>1. Interpret(Command.payload, NoControl, 0, 1)
    BY <1>1, <1>4, Counts, Writes
       DEF StoreWide, StoreLow, StoreHigh, Progress, PortAtRest
  <2>2. ~Ready(0, 1)
    BY DEF Ready
  <2>3. writing' = <<"hi">> /\ ~Repeating'
    BY <1>4, Writes DEF Repeating
  <2> QED
    BY <1>1, <2>1, <2>2, <2>3, WaitStep, Writes
       DEF Interpret, Progress, PayloadSeen, Command
<1>5. CASE writing = <<"hi">>
  <2>1. Interpret(Command.payload, Command.control, 1, 2)
    BY <1>1, <1>5, Counts, Writes
       DEF StoreWide, StoreLow, StoreHigh, Progress, PayloadSeen
  <2> QED
    BY <1>1, <1>5, <2>1, ExecuteStep, Writes DEF Ready
<1>6. CASE writing = <<"lo", "lo", "lo">>
  <2>1. Interpret(Command.payload, NoControl, 0, 1)
    BY <1>1, <1>6, Counts, Writes
       DEF StoreWide, StoreLow, StoreHigh, Progress, PortAtRest
  <2>2. ~Ready(0, 1)
    BY DEF Ready
  <2>3. writing' = <<"lo", "lo">>
    BY <1>6, Writes
  <2> QED
    BY <1>1, <1>6, <2>1, <2>2, <2>3, WaitStep, Writes
       DEF Interpret, Progress, PayloadSeen, Command, Repeating
<1>7. CASE writing = <<"lo", "lo">>
  <2>1. Interpret(Command.payload, NoControl, 0, 2)
    BY <1>1, <1>7, Counts, Writes
       DEF StoreWide, StoreLow, StoreHigh, Progress, PayloadSeen
  <2>2. ~Ready(0, 2)
    BY DEF Ready
  <2>3. writing' = <<"lo">>
    BY <1>7, Writes
  <2> QED
    BY <1>1, <1>7, <2>1, <2>2, <2>3, WaitStep, Writes
       DEF Interpret, Progress, PayloadSeen, Command, Repeating
<1>8. CASE writing = <<"lo">>
  <2>1. Interpret(Command.payload, Command.control, 0, 3)
    BY <1>1, <1>8, Counts, Writes
       DEF StoreWide, StoreLow, StoreHigh, Progress, PayloadSeen, Orderly, Repeating
  <2> QED
    BY <1>1, <1>8, <2>1, ExecuteStep, Writes DEF Ready
<1> QED
  BY <1>1, <1>3, <1>4, <1>5, <1>6, <1>7, <1>8 DEF Progress

\* A program that prints and exits gets every command executed once and in
\* order, finds the port reset after each, and ends with its exit code
\* (htif_store).
THEOREM CommandsServed == ASSUME Acked PROVE HtifSpec => []CommandsAreServed
<1>1. Orderly /\ [HtifNext]_htif_vars => Orderly'
  <2>1. ASSUME Orderly, UNCHANGED htif_vars PROVE Orderly'
    BY <2>1 DEF htif_vars, port, Orderly, PortAtRest, Progress, PayloadSeen,
                Repeating, Command
  <2> QED
    BY <2>1, IssueStep, StoreStep, Acked DEF HtifNext
<1>2. Orderly => CommandsAreServed
  <2> SUFFICES ASSUME Orderly PROVE CommandsAreServed
    OBVIOUS
  <2>1. EachCommandOnce
    <3>1. CASE writing = Idle \/ htif_done
      BY <3>1 DEF Orderly, EachCommandOnce
    <3>2. CASE writing # Idle /\ ~htif_done
      BY <3>2, LastCommand DEF Orderly, EachCommandOnce
    <3> QED
      BY <3>1, <3>2
  <2>2. PortIsReset
    BY DEF Orderly, PortIsReset, PortAtRest
  <2>3. ExitsAsAsked
    BY DEF Orderly, ExitsAsAsked
  <2> QED
    BY <2>1, <2>2, <2>3 DEF CommandsAreServed
<1> QED
  BY <1>1, <1>2, OrderlyInit, PTL DEF HtifSpec
=============================================================================

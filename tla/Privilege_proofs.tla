--------------------------- MODULE Privilege_proofs ---------------------------
(***************************************************************************)
(* Proofs about Privilege, for every set of interrupts, exceptions and     *)
(* written values.                                                         *)
(***************************************************************************)
EXTENDS Privilege, TLAPS

\* MPRV is set only in machine mode.
MPRVOnlyInMachine == MPRV = 1 => cur_privilege = "M"

PrivInv == TypeOK /\ NoInternalError /\ MPRVOnlyInMachine

\* Where the dispatch sends an interrupt, whatever is pending.
LEMMA DispatchTarget ==
  ASSUME cur_privilege \in Privileges, InterruptPending
  PROVE  \/ getPendingSet(cur_privilege).to = "M"
         \/ getPendingSet(cur_privilege).to = "S" /\ cur_privilege # "M"
BY DEF Privileges, InterruptPending, getPendingSet, processPending,
       NoInterrupt, sIE

\* No exception is delegated out of machine mode.
LEMMA DelegationRises ==
  ASSUME NEW e, cur_privilege \in Privileges
  PROVE  \/ exception_delegatee(e, cur_privilege) = "M"
         \/ /\ exception_delegatee(e, cur_privilege) = "S"
            /\ cur_privilege # "M"
         \/ exception_delegatee(e, cur_privilege) = cur_privilege
            /\ cur_privilege = "S"
BY DEF Privileges, exception_delegatee, Rank

\* A trap into machine mode, or into supervisor mode from below machine mode,
\* preserves the invariant.
LEMMA TrapPreserves ==
  ASSUME PrivInv, NEW d, trap_handler(d),
         d = "M" \/ (d = "S" /\ cur_privilege # "M")
  PROVE  PrivInv'
<1> USE DEF PrivInv, TypeOK, NoInternalError, MPRVOnlyInMachine, Privileges,
        Bit
<1>1. CASE d = "M"
  BY <1>1 DEF trap_handler, sfields, deleg
<1>2. CASE d = "S" /\ cur_privilege # "M"
  BY <1>2 DEF trap_handler, deleg
<1>3. QED
  BY <1>1, <1>2

LEMMA ExceptionPreserves ==
  ASSUME PrivInv, NEW e, Trap(e) PROVE PrivInv'
BY DelegationRises, TrapPreserves DEF Trap, PrivInv, TypeOK

LEMMA PrivInvInit == Init => PrivInv
BY DEF Init, PrivInv, TypeOK, NoInternalError, MPRVOnlyInMachine, Privileges,
       Bit

LEMMA PrivInvStep == PrivInv /\ [Next]_vars => PrivInv'
<1> SUFFICES ASSUME PrivInv, [Next]_vars PROVE PrivInv'
  OBVIOUS
<1> USE ParameterAssumption
<1>1. CASE Interrupt
  BY <1>1, DispatchTarget, TrapPreserves DEF Interrupt, PrivInv, TypeOK
<1>2. ASSUME NEW e \in Exceptions, Exception(e) PROVE PrivInv'
  BY <1>2, ExceptionPreserves DEF Exception
<1>3. CASE ECALL
  BY <1>3, ExceptionPreserves DEF ECALL
<1>4. CASE IllegalXret
  BY <1>4, ExceptionPreserves DEF IllegalXret
<1>5. ASSUME NEW p \in {"S", "M"}, IllegalWrite(p) PROVE PrivInv'
  BY <1>5, ExceptionPreserves DEF IllegalWrite
<1> USE DEF PrivInv, TypeOK, NoInternalError, MPRVOnlyInMachine, Privileges,
        Bit, mfields, sfields, deleg
<1>6. CASE MRET
  BY <1>6 DEF MRET, MretTarget
<1>7. CASE SRET
  BY <1>7 DEF SRET, SretTarget, SretMPRV
<1>8. ASSUME NEW v \in MstatusWritten, WriteMstatus(v) PROVE PrivInv'
  <2>1. v \in MstatusValue
    OBVIOUS
  <2>2. cur_privilege = "M"
    BY <1>8 DEF WriteMstatus, CanWrite, Rank
  <2>3. QED
    BY <1>8, <2>1, <2>2 DEF WriteMstatus, MstatusValue, LegalMPP
<1>9. ASSUME NEW v \in MstatusWritten, WriteSstatus(v) PROVE PrivInv'
  <2>1. v \in MstatusValue
    OBVIOUS
  <2>2. QED
    BY <1>9, <2>1 DEF WriteSstatus, MstatusValue
<1>10. ASSUME NEW v \in SUBSET Interrupts, WriteMie(v) PROVE PrivInv'
  BY <1>10 DEF WriteMie
<1>11. ASSUME NEW v \in SUBSET Interrupts, WriteSie(v) PROVE PrivInv'
  BY <1>11 DEF WriteSie, LiftSie
<1>12. ASSUME NEW v \in SUBSET Interrupts, WriteMip(v) PROVE PrivInv'
  BY <1>12 DEF WriteMip
<1>13. ASSUME NEW v \in SUBSET Interrupts, WriteSip(v) PROVE PrivInv'
  BY <1>13 DEF WriteSip
<1>14. ASSUME NEW v \in SUBSET Interrupts, WriteMideleg(v) PROVE PrivInv'
  BY <1>14 DEF WriteMideleg, LegalMideleg, MInterrupts
<1>15. ASSUME NEW v \in MedelegWritten, WriteMedeleg(v) PROVE PrivInv'
  BY <1>15 DEF WriteMedeleg
<1>16. ASSUME NEW i \in Interrupts, Device(i) PROVE PrivInv'
  BY <1>16 DEF Device
<1>17. CASE UNCHANGED vars
  BY <1>17 DEF vars
<1>18. QED
  BY <1>1, <1>2, <1>3, <1>4, <1>5, <1>6, <1>7, <1>8, <1>9, <1>10, <1>11,
     <1>12, <1>13, <1>14, <1>15, <1>16, <1>17
     DEF Next, Instruction, Return, WriteCSR

\* Every reachable state of the hart satisfies the inductive invariant.
THEOREM PrivilegeInvariant == Spec => []PrivInv
BY PrivInvInit, PrivInvStep, PTL DEF Spec

\* The privileged state is well typed; MPP never holds the reserved encoding.
THEOREM PrivilegeTypeCorrect == Spec => []TypeOK
<1>1. PrivInv => TypeOK
  BY DEF PrivInv
<1>2. QED
  BY <1>1, PrivilegeInvariant, PTL

\* The internal error of trap_handler is out of reach: whatever was delegated
\* and however traps nest, none is sent from machine to supervisor mode.
THEOREM TrapsNeverFail == Spec => []NoInternalError
<1>1. PrivInv => NoInternalError
  BY DEF PrivInv
<1>2. QED
  BY <1>1, PrivilegeInvariant, PTL

\* A load or a store never has more privilege than the code that executes it.
THEOREM DataPrivilege == Spec => []DataNeverAboveCode
<1>1. PrivInv => DataNeverAboveCode
  BY DEF PrivInv, TypeOK, MPRVOnlyInMachine, DataNeverAboveCode,
         effectivePrivilege, Rank, Privileges, Bit
<1>2. QED
  BY <1>1, PrivilegeInvariant, PTL

\* The two-level delegation computes the rule of the architecture.
THEOREM DispatchCorrect == Spec => []DispatchFollowsRule
<1>1. PrivInv => DispatchFollowsRule
  <2> SUFFICES ASSUME PrivInv
      PROVE getPendingSet(cur_privilege) = InterruptRule(cur_privilege)
    BY DEF DispatchFollowsRule
  <2> DEFINE on == mip \intersect mie
             p  == cur_privilege
             m  == processPending(mip, mie, mideleg, mIE(p))
             s  == processPending(m.ints, mie, {}, sIE(p))
  <2>1. CASE mIE(p) /\ on \ mideleg # {}
    <3>1. m = [kind |-> "pending", ints |-> on \ mideleg]
      BY <2>1 DEF processPending
    <3>2. QED
      BY <2>1, <3>1 DEF getPendingSet, InterruptRule, mIE
  <2>2. CASE ~(mIE(p) /\ on \ mideleg # {}) /\ mip \intersect mideleg = {}
    <3>1. m = [kind |-> "empty", ints |-> {}]
      BY <2>2 DEF processPending
    <3>2. on \intersect mideleg = {}
      BY <2>2
    <3>3. QED
      BY <2>2, <3>1, <3>2 DEF getPendingSet, InterruptRule, mIE
  <2>3. CASE ~(mIE(p) /\ on \ mideleg # {}) /\ mip \intersect mideleg # {}
    <3>1. m = [kind |-> "delegated", ints |-> mip \intersect mideleg]
      BY <2>3 DEF processPending
    <3>2. (m.ints \intersect mie) \ {} = on \intersect mideleg
      BY <3>1
    <3>3. CASE sIE(p) /\ on \intersect mideleg # {}
      <4>1. s = [kind |-> "pending", ints |-> on \intersect mideleg]
        BY <3>2, <3>3 DEF processPending
      <4>2. QED
        BY <2>3, <3>1, <3>3, <4>1
           DEF getPendingSet, InterruptRule, mIE, sIE, PrivInv, TypeOK,
               Privileges
    <3>4. CASE ~(sIE(p) /\ on \intersect mideleg # {})
      <4>1. s.kind # "pending"
        BY <3>2, <3>4 DEF processPending
      <4>2. QED
        BY <2>3, <3>1, <3>4, <4>1
           DEF getPendingSet, InterruptRule, mIE, sIE, PrivInv, TypeOK,
               Privileges
    <3>5. QED
      BY <3>3, <3>4
  <2>4. QED
    BY <2>1, <2>2, <2>3
<1>2. QED
  BY <1>1, PrivilegeInvariant, PTL
LEMMA TrapKeepsMachineState ==
  ASSUME NEW d, trap_handler(d), cur_privilege' # "M"
  PROVE  UNCHANGED <<mfields, deleg, mie, mip>>
BY DEF trap_handler, mfields, deleg

\* Code below machine mode changes no machine state except through a trap.
THEOREM MachineStateIsolated == Spec => LowerModesKeepMachineState
<1> DEFINE Keeps == /\ UNCHANGED <<mfields, deleg>>
                    /\ mie' \ mideleg = mie \ mideleg
                    /\ (mip' \ mideleg) \ MInterrupts
                         = (mip \ mideleg) \ MInterrupts
           A == cur_privilege # "M" /\ cur_privilege' # "M" => Keeps
<1>1. PrivInv /\ [Next]_vars => [A]_vars
  <2> SUFFICES ASSUME PrivInv, Next,
                      cur_privilege # "M", cur_privilege' # "M"
               PROVE  Keeps
    OBVIOUS
  <2>1. ASSUME NEW d, trap_handler(d) PROVE Keeps
    BY <2>1, TrapKeepsMachineState
  <2>2. ~CanWrite("M")
    BY DEF CanWrite, Rank, PrivInv, TypeOK, Privileges
  <2>3. CASE SRET
    BY <2>3 DEF SRET, SretMPRV, SretTarget, PrivInv, MPRVOnlyInMachine,
                TypeOK, Bit, mfields, deleg
  <2>4. ASSUME NEW v \in MstatusWritten, WriteSstatus(v) PROVE Keeps
    BY <2>4 DEF WriteSstatus
  <2>5. ASSUME NEW v \in SUBSET Interrupts, WriteSie(v) PROVE Keeps
    BY <2>5 DEF WriteSie, LiftSie
  <2>6. ASSUME NEW v \in SUBSET Interrupts, WriteSip(v) PROVE Keeps
    BY <2>6 DEF WriteSip
  <2>7. ASSUME NEW i \in Interrupts, Device(i) PROVE Keeps
    BY <2>7 DEF Device, MInterrupts
  <2>8. QED
    BY <2>1, <2>2, <2>3, <2>4, <2>5, <2>6, <2>7
       DEF Next, Instruction, Return, WriteCSR, Interrupt, Exception, ECALL,
           Trap, MRET, IllegalXret, IllegalWrite, WriteMstatus, WriteMie,
           WriteMip, WriteMideleg, WriteMedeleg
<1>2. QED
  BY <1>1, PrivilegeInvariant, PTL DEF Spec, LowerModesKeepMachineState

\* An interrupt that is enabled and not delegated wins the dispatch below
\* machine mode.
LEMMA MachineInterruptWins ==
  ASSUME cur_privilege # "M", (mip \intersect mie) \ mideleg # {}
  PROVE  InterruptPending /\ getPendingSet(cur_privilege).to = "M"
<1> DEFINE on == mip \intersect mie
           m  == processPending(mip, mie, mideleg, mIE(cur_privilege))
<1>1. m = [kind |-> "pending", ints |-> on \ mideleg] /\ on # {}
  BY DEF processPending, mIE
<1>2. getPendingSet(cur_privilege) = [ints |-> on \ mideleg, to |-> "M"]
  BY <1>1 DEF getPendingSet
<1>3. getPendingSet(cur_privilege).to = "M"
  BY <1>2
<1> QED
  BY <1>3 DEF InterruptPending, NoInterrupt

\* No instruction of a lower mode is executed while such an interrupt waits.
THEOREM MachineInterruptsPreempt == Spec => MachineInterruptPreempts
<1> DEFINE Rests == UNCHANGED <<cur_privilege, mfields, sfields, mie, deleg>>
           A == cur_privilege # "M" /\ (mip \intersect mie) \ mideleg # {}
                  => cur_privilege' = "M" \/ Rests
<1>1. [Next]_vars => [A]_vars
  <2> SUFFICES ASSUME Next, cur_privilege # "M",
                      (mip \intersect mie) \ mideleg # {}
               PROVE  cur_privilege' = "M" \/ Rests
    OBVIOUS
  <2>1. InterruptPending /\ getPendingSet(cur_privilege).to = "M"
    BY MachineInterruptWins
  <2>2. ~Instruction
    BY <2>1 DEF Instruction, Exception, ECALL, Return, WriteCSR, Trap, MRET,
                SRET, IllegalXret, WriteMstatus, WriteSstatus, WriteMie,
                WriteSie, WriteMip, WriteSip, WriteMideleg, WriteMedeleg,
                IllegalWrite, CanWrite
  <2>3. CASE Interrupt
    BY <2>1, <2>3 DEF Interrupt, trap_handler
  <2>4. ASSUME NEW i \in Interrupts, Device(i) PROVE Rests
    BY <2>4 DEF Device
  <2> QED
    BY <2>2, <2>3, <2>4 DEF Next
<1> QED
  BY <1>1, PTL DEF Spec, MachineInterruptPreempts

\* Every change of mode is on record: a trap saves the mode it leaves where the
\* return will look for it, and a return goes to a saved mode.
THEOREM ChangesAreSaved == Spec => ModeChangesAreSaved
<1> DEFINE Saved ==
      IF Rank(cur_privilege') > Rank(cur_privilege)
      THEN IF cur_privilege' = "M" THEN MPP' = cur_privilege
           ELSE SPP' = 0 /\ cur_privilege = "U"
      ELSE cur_privilege' \in {MPP, IF SPP = 1 THEN "S" ELSE "U"}
           A == cur_privilege' # cur_privilege => Saved
<1>1. PrivInv /\ [Next]_vars => [A]_vars
  <2> SUFFICES ASSUME PrivInv, Next, cur_privilege' # cur_privilege PROVE Saved
    OBVIOUS
  <2>1. cur_privilege \in Privileges
    BY DEF PrivInv, TypeOK
  <2>2. ASSUME NEW d, trap_handler(d), d = "M" \/ (d = "S" /\ cur_privilege # "M")
        PROVE  Saved
    <3>1. cur_privilege' = d
      BY <2>2 DEF trap_handler
    <3>2. CASE d = "M"
      BY <2>1, <2>2, <3>1, <3>2 DEF trap_handler, Rank, Privileges
    <3>3. CASE d = "S" /\ cur_privilege = "U"
      BY <2>2, <3>1, <3>3 DEF trap_handler, Rank
    <3> QED
      BY <2>1, <2>2, <3>1, <3>2, <3>3 DEF Privileges
  <2>3. ASSUME NEW e, Trap(e) PROVE Saved
    BY <2>1, <2>2, <2>3, DelegationRises DEF Trap
  <2>4. CASE Interrupt
    BY <2>1, <2>2, <2>4, DispatchTarget DEF Interrupt
  <2>5. CASE MRET
    <3>1. cur_privilege = "M" /\ cur_privilege' = MPP
      BY <2>5 DEF MRET, MretTarget
    <3>2. MPP \in Privileges
      BY DEF PrivInv, TypeOK
    <3> QED
      BY <3>1, <3>2 DEF Rank, Privileges
  <2>6. CASE SRET
    <3>1. cur_privilege \in {"S", "M"} /\ cur_privilege' = SretTarget
      BY <2>6 DEF SRET
    <3> QED
      BY <3>1 DEF SretTarget, Rank
  <2>7. CASE WriteCSR
    BY <2>3, <2>7 DEF WriteCSR, WriteMstatus, WriteSstatus, WriteMie, WriteSie,
                      WriteMip, WriteSip, WriteMideleg, WriteMedeleg, IllegalWrite
  <2> QED
    BY <2>3, <2>4, <2>5, <2>6, <2>7
       DEF Next, Instruction, Exception, ECALL, Return, IllegalXret, Device
<1> QED
  BY <1>1, PrivilegeInvariant, PTL DEF Spec, ModeChangesAreSaved
===============================================================================

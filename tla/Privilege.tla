------------------------------ MODULE Privilege ------------------------------
(***************************************************************************)
(* Privilege modes, traps and interrupts: riscv_sys_control.sail,          *)
(* riscv_sys_regs.sail and the instructions that enter them.  One step of  *)
(* the hart takes a pending interrupt or executes one instruction; the     *)
(* timer and the software-interrupt device change mip between steps.       *)
(* misa has S and U and never N, so User is never a delegatee, URET does   *)
(* not exist and sideleg is zero.  The fields of mstatus that take part in *)
(* traps are variables of their own, 0 or 1.                               *)
(***************************************************************************)
EXTENDS Integers

CONSTANTS
  Interrupts,      \* the interrupts of the platform
  Exceptions,      \* synchronous exceptions other than the three ecalls
  MstatusWritten,  \* the values software writes to mstatus and sstatus
  MedelegWritten   \* the values software writes to medeleg

MInterrupts == {"MEI", "MTI", "MSI"}
SInterrupts == {"SEI", "STI", "SSI"}
EnvCalls == {"UEnvCall", "SEnvCall", "MEnvCall"}
Privileges == {"U", "S", "M"}
Bit == {0, 1}

\* "H" is the reserved encoding 0b10 of a privilege.
MstatusValue ==
  [MIE : Bit, MPIE : Bit, MPP : Privileges \union {"H"}, MPRV : Bit,
   TSR : Bit, SIE : Bit, SPIE : Bit, SPP : Bit]

ASSUME ParameterAssumption ==
  /\ Interrupts \subseteq MInterrupts \union SInterrupts
  /\ "Illegal_Instr" \in Exceptions
  /\ Exceptions \intersect EnvCalls = {}
  /\ MstatusWritten \subseteq MstatusValue
  /\ MedelegWritten \subseteq SUBSET (Exceptions \union EnvCalls)

VARIABLES
  cur_privilege,
  MIE, MPIE, MPP, MPRV, TSR,   \* machine fields of mstatus
  SIE, SPIE, SPP,              \* supervisor fields of mstatus
  mie, mip, mideleg,           \* sets of interrupts
  medeleg,                     \* set of exceptions
  failed                       \* internal_error ended the emulator

mfields == <<MIE, MPIE, MPP, MPRV, TSR>>
sfields == <<SIE, SPIE, SPP>>
deleg   == <<mideleg, medeleg>>
vars == <<cur_privilege, mfields, sfields, mie, mip, deleg, failed>>

\* The type invariant of the privileged state.
TypeOK ==
  /\ cur_privilege \in Privileges
  /\ MPP \in Privileges
  /\ MIE \in Bit /\ MPIE \in Bit /\ MPRV \in Bit /\ TSR \in Bit
  /\ SIE \in Bit /\ SPIE \in Bit /\ SPP \in Bit
  /\ mie \subseteq Interrupts /\ mip \subseteq Interrupts
  /\ mideleg \subseteq Interrupts \intersect SInterrupts
  /\ medeleg \subseteq (Exceptions \union EnvCalls) \ {"MEnvCall"}
  /\ failed \in BOOLEAN

\* init_sys; the fields of mstatus that it leaves alone are zero at power on.
Init ==
  /\ cur_privilege = "M"
  /\ MIE = 0 /\ MPIE = 0 /\ MPP = "U" /\ MPRV = 0 /\ TSR = 0
  /\ SIE = 0 /\ SPIE = 0 /\ SPP = 0
  /\ mie = {} /\ mip = {} /\ mideleg = {} /\ medeleg = {}
  /\ failed = FALSE
-----------------------------------------------------------------------------
(* Delegation and dispatch *)

Rank(p) == CASE p = "U" -> 0 [] p = "S" -> 1 [] p = "M" -> 3

\* Mutant: a trap may move to a less privileged mode.
exception_delegatee_Lower(e, p) == IF e \in medeleg THEN "S" ELSE "M"

\* The mode that handles exception e raised in mode p.
exception_delegatee(e, p) ==
  LET d == IF e \in medeleg THEN "S" ELSE "M"
  IN  IF Rank(d) < Rank(p) THEN p ELSE d

\* The interrupts pending at a privilege, or those it delegates to the next.
processPending(xip, xie, xideleg, priv_enabled) ==
  LET pend == (xip \intersect xie) \ xideleg
      delg == xip \intersect xideleg
  IN  IF priv_enabled /\ pend # {} THEN [kind |-> "pending", ints |-> pend]
      ELSE IF delg # {} THEN [kind |-> "delegated", ints |-> delg]
      ELSE [kind |-> "empty", ints |-> {}]

\* Mutants: a higher mode is not implicitly enabled; SIE counts in any mode.
mIE_OwnBitOnly(p) == MIE = 1
sIE_AnyMode(p) == p = "U" \/ SIE = 1

mIE(p) == p # "M" \/ MIE = 1
sIE(p) == p = "U" \/ (p = "S" /\ SIE = 1)

NoInterrupt == [ints |-> {}, to |-> "none"]

\* The set dispatchInterrupt chooses from, and the mode that handles it.
getPendingSet(p) ==
  IF mip \intersect mie = {} THEN NoInterrupt
  ELSE LET m == processPending(mip, mie, mideleg, mIE(p))
           s == processPending(m.ints, mie, {}, sIE(p))
       IN  IF m.kind = "pending" THEN [ints |-> m.ints, to |-> "M"]
           ELSE IF m.kind = "delegated" /\ s.kind = "pending"
                THEN [ints |-> s.ints, to |-> "S"]
           ELSE NoInterrupt

InterruptPending == getPendingSet(cur_privilege) # NoInterrupt
-----------------------------------------------------------------------------
(* Trap entry and return *)

trap_handler(del) ==
  /\ cur_privilege' = del
  /\ IF del = "M"
     THEN /\ MPIE' = MIE /\ MIE' = 0 /\ MPP' = cur_privilege
          /\ UNCHANGED <<sfields, failed>>
     ELSE /\ SPIE' = SIE /\ SIE' = 0
          /\ SPP' = IF cur_privilege = "U" THEN 0 ELSE 1
          /\ failed' = (cur_privilege = "M")
          /\ UNCHANGED <<MIE, MPIE, MPP>>
  /\ UNCHANGED <<MPRV, TSR, mie, mip, deleg>>

Interrupt ==
  /\ InterruptPending
  /\ trap_handler(getPendingSet(cur_privilege).to)

Trap(e) ==
  /\ ~InterruptPending
  /\ trap_handler(exception_delegatee(e, cur_privilege))

Exception(e) == Trap(e)

ECALL == Trap(CASE cur_privilege = "U" -> "UEnvCall"
                [] cur_privilege = "S" -> "SEnvCall"
                [] cur_privilege = "M" -> "MEnvCall")

\* Mutants: MPP is reset before it is read; SRET does not clear MPRV.
MretTarget_Reset == "U"
SretMPRV_Kept == MPRV

MretTarget == MPP
SretTarget == IF SPP = 1 THEN "S" ELSE "U"
SretMPRV == IF SretTarget # "M" THEN 0 ELSE MPRV

MRET ==
  /\ ~InterruptPending
  /\ cur_privilege = "M"
  /\ MIE' = MPIE /\ MPIE' = 1 /\ MPP' = "U"
  /\ cur_privilege' = MretTarget
  /\ MPRV' = IF MretTarget # "M" THEN 0 ELSE MPRV
  /\ UNCHANGED <<TSR, sfields, mie, mip, deleg, failed>>

SRET ==
  /\ ~InterruptPending
  /\ cur_privilege = "M" \/ (cur_privilege = "S" /\ TSR = 0)
  /\ SIE' = SPIE /\ SPIE' = 1 /\ SPP' = 0
  /\ cur_privilege' = SretTarget
  /\ MPRV' = SretMPRV
  /\ UNCHANGED <<MIE, MPIE, MPP, TSR, mie, mip, deleg, failed>>

\* mret below machine mode; sret in user mode or where TSR forbids it.
IllegalXret == cur_privilege # "M" /\ Trap("Illegal_Instr")
-----------------------------------------------------------------------------
(* CSR writes *)

\* A write by csrrw, csrrs or csrrc to a CSR of mode p.
CanWrite(p) == ~InterruptPending /\ Rank(cur_privilege) >= Rank(p)

\* Mutant: sie ignores mideleg.
LiftSie_All(v) == (mie \ SInterrupts) \union (v \intersect SInterrupts)

LegalMPP(p) == IF p = "H" THEN "U" ELSE p

\* legalize_mstatus
WriteMstatus(v) ==
  /\ CanWrite("M")
  /\ MIE' = v.MIE /\ MPIE' = v.MPIE /\ MPP' = LegalMPP(v.MPP)
  /\ MPRV' = v.MPRV /\ TSR' = v.TSR
  /\ SIE' = v.SIE /\ SPIE' = v.SPIE /\ SPP' = v.SPP
  /\ UNCHANGED <<cur_privilege, mie, mip, deleg, failed>>

\* legalize_sstatus: the supervisor's fields are lifted into mstatus.
WriteSstatus(v) ==
  /\ CanWrite("S")
  /\ SIE' = v.SIE /\ SPIE' = v.SPIE /\ SPP' = v.SPP
  /\ UNCHANGED <<cur_privilege, mfields, mie, mip, deleg, failed>>

WriteMie(v) ==
  /\ CanWrite("M")
  /\ mie' = v
  /\ UNCHANGED <<cur_privilege, mfields, sfields, mip, deleg, failed>>

\* legalize_sie: the delegated interrupts only.
LiftSie(v) == (mie \ mideleg) \union (v \intersect mideleg)

WriteSie(v) ==
  /\ CanWrite("S")
  /\ mie' = LiftSie(v)
  /\ UNCHANGED <<cur_privilege, mfields, sfields, mip, deleg, failed>>

\* legalize_mip: the supervisor's bits only.
WriteMip(v) ==
  /\ CanWrite("M")
  /\ mip' = (mip \ SInterrupts) \union (v \intersect SInterrupts)
  /\ UNCHANGED <<cur_privilege, mfields, sfields, mie, deleg, failed>>

\* legalize_sip: SSI only, when it is delegated.
WriteSip(v) ==
  /\ CanWrite("S")
  /\ LET w == mideleg \intersect {"SSI"}
     IN  mip' = (mip \ w) \union (v \intersect w)
  /\ UNCHANGED <<cur_privilege, mfields, sfields, mie, deleg, failed>>

LegalMideleg(v) == v \ MInterrupts

WriteMideleg(v) ==
  /\ CanWrite("M")
  /\ mideleg' = LegalMideleg(v)
  /\ UNCHANGED <<cur_privilege, mfields, sfields, mie, mip, medeleg, failed>>

WriteMedeleg(v) ==
  /\ CanWrite("M")
  /\ medeleg' = v \ {"MEnvCall"}
  /\ UNCHANGED <<cur_privilege, mfields, sfields, mie, mip, mideleg, failed>>

\* A write the mode does not allow.
IllegalWrite(p) == Rank(cur_privilege) < Rank(p) /\ Trap("Illegal_Instr")
-----------------------------------------------------------------------------
(* Between steps clint_dispatch and stores to MSIP change mip. *)
Device(i) ==
  /\ i \in {"MTI", "MSI"}
  /\ mip' \in {mip \union {i}, mip \ {i}}
  /\ UNCHANGED <<cur_privilege, mfields, sfields, mie, deleg, failed>>

Return == MRET \/ SRET \/ IllegalXret

WriteCSR ==
  \/ \E v \in MstatusWritten : WriteMstatus(v) \/ WriteSstatus(v)
  \/ \E v \in SUBSET Interrupts :
       \/ WriteMie(v) \/ WriteSie(v) \/ WriteMip(v) \/ WriteSip(v)
       \/ WriteMideleg(v)
  \/ \E v \in MedelegWritten : WriteMedeleg(v)
  \/ \E p \in {"S", "M"} : IllegalWrite(p)

Instruction == (\E e \in Exceptions : Exception(e)) \/ ECALL \/ Return
               \/ WriteCSR

Next ==
  /\ ~failed
  /\ Interrupt \/ Instruction \/ \E i \in Interrupts : Device(i)

Spec == Init /\ [][Next]_vars
-----------------------------------------------------------------------------
(* Properties *)

\* trap_handler's internal_error "invalid privilege for s-mode trap" is never
\* reached: nothing delegates a trap out of machine mode.
NoInternalError == ~failed

\* The privilege of a load or a store: effectivePrivilege.
effectivePrivilege == IF MPRV = 1 THEN MPP ELSE cur_privilege

\* MPRV survives no way out of machine mode, so a load or a store never has
\* more privilege than the code that executes it.
DataNeverAboveCode == Rank(effectivePrivilege) <= Rank(cur_privilege)

\* The interrupt rule of the privileged architecture: an interrupt that is
\* not delegated goes to machine mode from any lower mode, or from machine
\* mode when MIE is set; a delegated one likewise to supervisor mode.
InterruptRule(p) ==
  LET on == mip \intersect mie
      m  == on \ mideleg
      s  == on \intersect mideleg
  IN  IF m # {} /\ (p = "M" => MIE = 1) THEN [ints |-> m, to |-> "M"]
      ELSE IF s # {} /\ p # "M" /\ (p = "S" => SIE = 1)
           THEN [ints |-> s, to |-> "S"]
      ELSE NoInterrupt

\* The two-level delegation of processPending computes the architecture's
\* rule: no interrupt is masked by another mode's.
DispatchFollowsRule == getPendingSet(cur_privilege) = InterruptRule(cur_privilege)

\* A trap saves the mode it leaves, and a return goes to a saved mode.
ModeChangesAreSaved ==
  [][cur_privilege' # cur_privilege =>
       IF Rank(cur_privilege') > Rank(cur_privilege)
       THEN IF cur_privilege' = "M" THEN MPP' = cur_privilege
            ELSE SPP' = 0 /\ cur_privilege = "U"
       ELSE cur_privilege' \in {MPP, IF SPP = 1 THEN "S" ELSE "U"}]_vars

\* An enabled interrupt that is not delegated preempts whatever a lower mode
\* executes.
MachineInterruptPreempts ==
  [][cur_privilege # "M" /\ (mip \intersect mie) \ mideleg # {}
       => cur_privilege' = "M" \/ UNCHANGED <<cur_privilege, mfields, sfields,
                                              mie, deleg>>]_vars

\* Code below machine mode changes no machine state except through a trap:
\* neither the machine fields of mstatus, nor delegation, nor the enable or
\* pending bits of interrupts that are not delegated.
LowerModesKeepMachineState ==
  [][cur_privilege # "M" /\ cur_privilege' # "M" =>
       /\ UNCHANGED <<mfields, deleg>>
       /\ mie' \ mideleg = mie \ mideleg
       /\ (mip' \ mideleg) \ MInterrupts = (mip \ mideleg) \ MInterrupts]_vars
=============================================================================

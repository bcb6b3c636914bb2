----------------------------- MODULE VecPaging -----------------------------
(***************************************************************************)
(* A hart that runs vector instructions on a system that pages: a load or  *)
(* a store that touches a page that is not mapped stops in the middle of   *)
(* its elements, a handler maps the page, and the instruction is fetched   *)
(* again and goes on at vstart.  The handler has Frames pages to give.     *)
(***************************************************************************)
EXTENDS Vector

CONSTANTS
  Frames,         \* the pages that may be mapped at a time
  MaxReclaims     \* bound on the pages taken away for another use

ASSUME FramesAssumption == Frames \in 1 .. Pages /\ MaxReclaims \in Nat

VARIABLES
  reclaims,       \* the pages taken away so far
  before          \* the hart when the instruction that faulted was issued

vars == <<hart, resident, reclaims, before>>

Snapshot ==
  [v |-> v, mem |-> mem, vl |-> vl, vstart |-> vstart, vtype |-> vtype, vxsat |-> vxsat,
   fflags |-> fflags, dirty |-> dirty, double |-> double, x |-> x, wants |-> wants,
   how |-> how, pc |-> pc, instr |-> instr]

PagingInit == Init /\ resident = <<>> /\ reclaims = 0 /\ before = Snapshot

Execute ==
  /\ Step
  /\ before' = IF how = "fault" THEN before ELSE Snapshot
  /\ UNCHANGED <<resident, reclaims>>

\* The handler maps the page, in place of the oldest if all frames are taken.
PageIn ==
  /\ how = "fault" /\ ~(wants \subseteq ToSet(resident))
  /\ \E page \in wants :
       resident' = Append(IF Len(resident) = Frames THEN Tail(resident) ELSE resident, page)
  /\ UNCHANGED <<hart, reclaims, before>>

\* Another process needs the oldest page.
Reclaim ==
  /\ resident # <<>> /\ reclaims < MaxReclaims
  /\ resident' = Tail(resident) /\ reclaims' = reclaims + 1
  /\ UNCHANGED <<hart, before>>

Next == Execute \/ PageIn \/ Reclaim

\* The hart goes on whenever it can (weak fairness of Execute, with what enables
\* it written out: TLC would execute every instruction to find out) and the handler serves every fault.
PagingSpec ==
  /\ PagingInit /\ [][Next]_vars
  /\ []<>(Fetched = {}) \/ []<><<Execute>>_vars
  /\ WF_vars(PageIn)

(***************************************************************************)
(* Whatever the pages do, a load or store has the effect it has when all   *)
(* memory is mapped, of one step: the hart implements the one of module    *)
(* VecAtomic.  While an instruction is stopped half way, the hart that it  *)
(* promises is the one it was issued on.                                   *)
(***************************************************************************)
Shown(now, then) == IF how = "fault" THEN then ELSE now

Promise ==
  INSTANCE VecAtomic WITH
    v <- Shown(v, before.v), mem <- Shown(mem, before.mem), vl <- Shown(vl, before.vl),
    vstart <- Shown(vstart, before.vstart), vtype <- Shown(vtype, before.vtype),
    vxsat <- Shown(vxsat, before.vxsat), fflags <- Shown(fflags, before.fflags),
    dirty <- Shown(dirty, before.dirty), double <- Shown(double, before.double),
    x <- Shown(x, before.x), wants <- Shown(wants, before.wants), how <- Shown(how, before.how),
    pc <- Shown(pc, before.pc), instr <- Shown(instr, before.instr)

ImplementsAtomic == Promise!AtomicSpec

(***************************************************************************)
(* An instruction that faults does not fault for ever, with fewer frames   *)
(* than it touches pages: every time it is fetched again it goes on where  *)
(* it stopped, at vstart.                                                  *)
(***************************************************************************)
AccessEnds == how = "fault" ~> how # "fault"
=============================================================================

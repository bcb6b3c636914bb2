--------------------------------- MODULE Mmu ---------------------------------
(***************************************************************************)
(* What address translation promises to the program: every access is       *)
(* translated by the page tables as they are, and changes nothing of them  *)
(* but the accessed and dirty bits of the entry it uses.  There is no      *)
(* translation cache here, and sfence.vma has nothing to do.               *)
(***************************************************************************)
EXTENDS PageTables

CONSTANTS
  RootOf         \* the page table of each address space

VARIABLES
  dirty_update,  \* plat_enable_dirty_update(), set on the command line
  mem,           \* the page tables
  guard,         \* what physical memory protection lets the walk do to each node
  asid,          \* the address space in satp
  out            \* the last answer: <<"pa", a page>>, or the kind of fault

vars == <<dirty_update, mem, guard, asid, out>>

Access(va, ac, ctx) ==
  LET w   == pt_walk(mem, guard, va, RootOf[asid])
      new == update_PTE_Bits(w.pte, ac)
      Answer(o, m) == out' = o /\ mem' = m
  IN /\ UNCHANGED <<dirty_update, guard, asid>>
     /\ IF ~w.ok THEN Answer(<<w.fault>>, mem)
        ELSE IF ~check_PTE_permission(ac, ctx, w.pte.bits) THEN Answer(<<"page">>, mem)
        ELSE IF new = w.pte THEN Answer(<<"pa", w.pa>>, mem)
        ELSE IF ~dirty_update THEN Answer(<<"page">>, mem)
        ELSE IF guard[w.slot[1]] # "rw" THEN Answer(<<"access">>, mem)
        ELSE Answer(<<"pa", w.pa>>, [mem EXCEPT ![w.slot] = new])

WritePte(slot, pte) ==
  /\ mem' = [mem EXCEPT ![slot] = pte]
  /\ out' = <<>>
  /\ UNCHANGED <<dirty_update, guard, asid>>

SetGuard(node, g) ==
  /\ guard' = [guard EXCEPT ![node] = g]
  /\ out' = <<>>
  /\ UNCHANGED <<dirty_update, mem, asid>>

SwitchTo(a) ==
  /\ asid' = a
  /\ out' = <<>>
  /\ UNCHANGED <<dirty_update, mem, guard>>

Init == /\ mem \in [Slots -> Pte]
        /\ guard \in [Nodes -> Guards]
        /\ asid \in DOMAIN RootOf /\ dirty_update \in BOOLEAN
        /\ out = <<>>

\* sfence.vma only clears the last answer.
Fence == out' = <<>> /\ UNCHANGED <<dirty_update, mem, guard, asid>>

Next ==
  \/ Fence
  \/ \E va \in Vpns, ac \in AccessTypes, ctx \in Contexts : Access(va, ac, ctx)
  \/ \E slot \in Slots : \E pte \in Choices[slot] : WritePte(slot, pte)
  \/ \E node \in Nodes, g \in Guards : SetGuard(node, g)
  \/ \E a \in DOMAIN RootOf : SwitchTo(a)

Spec == Init /\ [][Next]_vars
=============================================================================

-------------------------------- MODULE Vmem --------------------------------
(***************************************************************************)
(* Address translation with its translation cache (riscv_vmem,             *)
(* riscv_vmem_tlb and sfence.vma).  The TLB is direct mapped by the lowest *)
(* bits of the page number, also for superpages, so one superpage may sit  *)
(* in several places.  An entry keeps a copy of the page table entry it    *)
(* was filled from: a hit takes the permissions from the copy, sets the    *)
(* accessed and dirty bits in the copy, and writes the copy to memory.     *)
(*                                                                         *)
(* The program may change the page tables and the protection of the pages  *)
(* that hold them; it then owes an sfence.vma for the translations it      *)
(* changed.  When Careful, it makes no access to them before that, and     *)
(* maps a page it marks global alike in every address space.               *)
(***************************************************************************)
EXTENDS PageTables, FiniteSets

CONSTANTS
  RootOf,        \* the page table of each address space, by asid
  NumTlb,        \* num_tlb_entries: 64
  GuardChoices,  \* what the protection of each page table may be set to
  Careful,       \* whether the program waits for its fences and keeps globals alike
  MaxOwed,       \* bound: the translations owed when the tables change again
  None           \* no entry; no operand

ASSUME VmemAssumption ==
  /\ Careful \in BOOLEAN
  /\ RootOf \in [DOMAIN RootOf -> Nodes] /\ None \notin DOMAIN RootOf
  /\ NumTlb \in Nat \ {0} /\ MaxOwed \in Nat
  /\ GuardChoices \in [Nodes -> SUBSET Guards]

VARIABLES
  dirty_update, mem, guard, asid,  \* as in Mmu
  out,                             \* as in Mmu; <<"stopped">> by internal_error
  tlb,                             \* the translation cache
  owed                             \* translations changed since their last fence

vars == <<dirty_update, mem, guard, asid, out, tlb, owed>>

Asids == DOMAIN RootOf

\* vAddr, pAddr and the masks are kept as page numbers and a level.
TLB_Entry == [asid : Asids, global : BOOLEAN, level : 0 .. Levels - 1,
              vAddr : Vpns, pAddr : Nat, pte : Pte, slot : Slots]

tlb_hash(va) == va % NumTlb

\* Mutant: a translation of another address space matches.
match_TLB_Entry_AnyAsid(e, a, va) == e.vAddr = Base(va, e.level)

match_TLB_Entry(e, a, va) == (e.global \/ e.asid = a) /\ e.vAddr = Base(va, e.level)

Hits(a, va) == LET e == tlb[tlb_hash(va)] IN e # None /\ match_TLB_Entry(e, a, va)

add_to_TLB(w, pte, va) ==
  [tlb EXCEPT ![tlb_hash(va)] =
     [asid |-> asid, global |-> w.global, level |-> w.level,
      vAddr |-> Base(va, w.level), pAddr |-> Base(w.pa, w.level),
      pte |-> pte, slot |-> w.slot]]

Answer(o, m, t) == out' = o /\ mem' = m /\ tlb' = t

\* The walk of a miss checks the protection of every node it reads and, for
\* the accessed and dirty bits, of the node it writes.
translate_TLB_miss(va, ac, ctx) ==
  LET w   == pt_walk(mem, guard, va, RootOf[asid])
      new == update_PTE_Bits(w.pte, ac)
  IN IF ~w.ok THEN Answer(<<w.fault>>, mem, tlb)
     ELSE IF ~check_PTE_permission(ac, ctx, w.pte.bits) THEN Answer(<<"page">>, mem, tlb)
     ELSE IF new = w.pte THEN Answer(<<"pa", w.pa>>, mem, add_to_TLB(w, w.pte, va))
     ELSE IF ~dirty_update THEN Answer(<<"page">>, mem, tlb)
     ELSE IF guard[w.slot[1]] # "rw" THEN Answer(<<"access">>, mem, tlb)
     ELSE Answer(<<"pa", w.pa>>, [mem EXCEPT ![w.slot] = new], add_to_TLB(w, new, va))

\* A hit reads no memory: it may only write the copy back, and stops the
\* simulator when the write is refused.
translate_TLB_hit(va, ac, ctx) ==
  LET i   == tlb_hash(va)
      e   == tlb[i]
      new == update_PTE_Bits(e.pte, ac)
      pa  == e.pAddr + Offset(va, e.level)
      t   == [tlb EXCEPT ![i].pte = new]
  IN IF ~check_PTE_permission(ac, ctx, e.pte.bits) THEN Answer(<<"page">>, mem, tlb)
     ELSE IF new = e.pte THEN Answer(<<"pa", pa>>, mem, tlb)
     ELSE IF ~dirty_update THEN Answer(<<"page">>, mem, tlb)
     ELSE IF guard[e.slot[1]] # "rw" THEN Answer(<<"stopped">>, mem, t)
     ELSE Answer(<<"pa", pa>>, [mem EXCEPT ![e.slot] = new], t)

Owes(a, va) == \E o \in owed : o.asid = a /\ o.va = va

\* translateAddr, in a translating mode.
translateAddr(va, ac, ctx) ==
  /\ out # <<"stopped">>
  /\ Careful => ~Owes(asid, va)
  /\ \/ Hits(asid, va) /\ translate_TLB_hit(va, ac, ctx)
     \/ ~Hits(asid, va) /\ translate_TLB_miss(va, ac, ctx)
  /\ UNCHANGED <<dirty_update, guard, asid, owed>>

\* Mutant: global translations are never flushed.
flush_TLB_Entry_KeepGlobal(e, a, va) ==
  ~e.global /\ (a # None => e.asid = a) /\ (va # None => e.vAddr = Base(va, e.level))

flush_TLB_Entry(e, a, va) ==
  /\ a # None  => e.asid = a /\ ~e.global
  /\ va # None => e.vAddr = Base(va, e.level)

\* Mutant: only the place of the fenced address is searched.
SFENCE_VMA_OnePlace(a, va) ==
  /\ out # <<"stopped">>
  /\ tlb' = [i \in DOMAIN tlb |->
               IF /\ tlb[i] # None /\ flush_TLB_Entry(tlb[i], a, va)
                  /\ (IF va = None THEN TRUE ELSE i = tlb_hash(va))
               THEN None ELSE tlb[i]]
  /\ owed' = {o \in owed : \/ a # None /\ (o.asid # a \/ o.global)
                           \/ va # None /\ Base(o.va, o.level) # Base(va, o.level)}
  /\ out' = <<>>
  /\ UNCHANGED <<dirty_update, mem, guard, asid>>

\* sfence.vma with an address space, an address, both or neither: flush_TLB.
SFENCE_VMA(a, va) ==
  /\ out # <<"stopped">>
  /\ tlb' = [i \in DOMAIN tlb |->
               IF tlb[i] # None /\ flush_TLB_Entry(tlb[i], a, va) THEN None ELSE tlb[i]]
  /\ owed' = {o \in owed : \/ a # None /\ (o.asid # a \/ o.global)
                           \/ va # None /\ Base(o.va, o.level) # Base(va, o.level)}
  /\ out' = <<>>
  /\ UNCHANGED <<dirty_update, mem, guard, asid>>

-----------------------------------------------------------------------------
\* The program's other steps.

Walk(a, va) == pt_walk(mem, guard, va, RootOf[a])

\* The translations whose walk reads an entry of a set.
Through(slots) ==
  LET Owed(p) == LET w == Walk(p[1], p[2])
                 IN [asid |-> p[1], va |-> p[2], level |-> w.level, global |-> w.global]
      Reads(p) == LET w == Walk(p[1], p[2])
                  IN w.ok /\ w.path \intersect slots # {}
  IN {Owed(p) : p \in {q \in Asids \X Vpns : Reads(q)}}

GlobalsAlike ==
  \A a, b \in Asids, va \in Vpns :
    LET w == Walk(a, va)
        x == Walk(b, va)
    IN w.ok /\ w.global => x.ok /\ x.global /\ x.slot = w.slot /\ x.level = w.level

WritePte(slot, pte) ==
  /\ out # <<"stopped">> /\ Cardinality(owed) =< MaxOwed
  /\ mem' = [mem EXCEPT ![slot] = pte]
  /\ owed' = owed \union Through({slot})
  /\ out' = <<>>
  /\ UNCHANGED <<dirty_update, guard, asid, tlb>>
  /\ Careful => GlobalsAlike'

SetGuard(node, g) ==
  /\ out # <<"stopped">> /\ Cardinality(owed) =< MaxOwed
  /\ guard' = [guard EXCEPT ![node] = g]
  /\ owed' = owed \union Through({node} \X Digits)
  /\ out' = <<>>
  /\ UNCHANGED <<dirty_update, mem, asid, tlb>>
  /\ Careful => GlobalsAlike'

SwitchTo(a) ==
  /\ out # <<"stopped">>
  /\ asid' = a
  /\ out' = <<>>
  /\ UNCHANGED <<dirty_update, mem, guard, tlb, owed>>

\* init_vmem; the tables are what the program starts with.
Init ==
  /\ tlb = [i \in 0 .. NumTlb - 1 |-> None]
  /\ mem \in {m \in [Slots -> UNION {Choices[s] : s \in Slots}] :
                \A s \in Slots : m[s] \in Choices[s]}
  /\ guard \in {g \in [Nodes -> Guards] : \A n \in Nodes : g[n] \in GuardChoices[n]}
  /\ Careful => GlobalsAlike
  /\ asid \in Asids /\ dirty_update \in BOOLEAN
  /\ owed = {}
  /\ out = <<>>

Next ==
  \/ \E va \in Vpns, ac \in AccessTypes, ctx \in Contexts : translateAddr(va, ac, ctx)
  \/ \E a \in Asids \union {None}, va \in Vpns \union {None} : SFENCE_VMA(a, va)
  \/ \E slot \in Slots : \E pte \in Choices[slot] : WritePte(slot, pte)
  \/ \E node \in Nodes : \E g \in GuardChoices[node] : SetGuard(node, g)
  \/ \E a \in Asids : SwitchTo(a)

Spec == Init /\ [][Next]_vars

-----------------------------------------------------------------------------
\* A translation in use comes from the tables, and is remembered by its place.
TypeOK ==
  /\ mem \in [Slots -> Pte] /\ guard \in [Nodes -> Guards]
  /\ asid \in Asids /\ dirty_update \in BOOLEAN
  /\ tlb \in [0 .. NumTlb - 1 -> TLB_Entry \union {None}]
  /\ owed \subseteq [asid : Asids, va : Vpns, level : 0 .. Levels - 1, global : BOOLEAN]
  /\ out \in {<<>>, <<"page">>, <<"access">>, <<"stopped">>} \union ({"pa"} \X Nat)

\* For every translation that is not waiting for an sfence.vma, what the TLB
\* answers is what a walk would find: the same page by the same entry, and a
\* copy of the entry that lacks at most accessed and dirty bits
\* (translate_TLB_hit relies on it when it writes the copy back).
TlbAgrees ==
  \A a \in Asids, va \in Vpns : Hits(a, va) /\ ~Owes(a, va) =>
    LET e == tlb[tlb_hash(va)]
        w == Walk(a, va)
    IN /\ w.ok /\ w.slot = e.slot /\ w.level = e.level
       /\ w.pa = e.pAddr + Offset(va, e.level) /\ w.pte.ppn = e.pte.ppn
       /\ e.pte.bits \subseteq w.pte.bits
       /\ w.pte.bits \ e.pte.bits \subseteq {"A", "D"}

\* An entry translates u for a, and u is among the addresses of a fence.
Survives(e, a, v, u) ==
  /\ e # None /\ ~e.global /\ match_TLB_Entry(e, a, u)
  /\ IF v = None THEN TRUE ELSE Base(u, e.level) = Base(v, e.level)

\* A fence reaches every copy of a translation: after sfence.vma of an address
\* no entry of its address space, in whatever place of the TLB, covers the
\* address, nor after sfence.vma of an address space any address at all
\* (flush_TLB and superpages kept in several places).
FenceReaches ==
  [][\A a \in Asids, v \in Vpns \union {None} : SFENCE_VMA(a, v) =>
       \A i \in DOMAIN tlb', u \in Vpns : ~Survives(tlb'[i], a, v, u)]_vars

\* An access changes nothing of the page tables but sets accessed and dirty
\* bits: the copy a hit writes back undoes nothing that the program, another
\* address space or another entry of the TLB has written since it was filled
\* (translate_TLB_hit, translate_TLB_miss).
AccessOnlySetsBits ==
  [][out' # <<>> =>       \* only an access gives an answer
       \A s \in Slots :
         /\ mem'[s].ppn = mem[s].ppn /\ mem[s].bits \subseteq mem'[s].bits
         /\ mem'[s].bits \ mem[s].bits \subseteq {"A", "D"}]_vars

\* With its fences in place the program cannot tell that there is a TLB: every
\* access is answered as by the walk alone (the TLB note of riscv_vmem.sail).
Promise == INSTANCE Mmu
ImplementsMmu == Promise!Spec
=============================================================================

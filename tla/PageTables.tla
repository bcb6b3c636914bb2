----------------------------- MODULE PageTables -----------------------------
(***************************************************************************)
(* Page tables in memory and their walk (riscv_vmem.sail, riscv_vmem_pte): *)
(* operators without state of their own, used by the memory management     *)
(* unit without a translation cache (Mmu) and by the one with it (Vmem).   *)
(* A virtual page number has Levels digits of base Radix; a node of a      *)
(* table has Radix slots; page table entries carry their bits as a set.    *)
(***************************************************************************)
EXTENDS Integers

CONSTANTS
  Radix,     \* slots of a node: 1024 in Sv32, 512 in Sv39 and Sv48
  Levels,    \* 2 in Sv32, 3 in Sv39, 4 in Sv48
  Nodes,     \* the page numbers that hold page tables
  Pages,     \* the page numbers data may be in
  Choices,   \* the entries software may write, for each slot
  Contexts   \* the privileges and mstatus bits accesses are made with

ASSUME TableAssumption ==
  /\ Radix \in Nat \ {0} /\ Levels \in Nat \ {0}
  /\ Nodes \subseteq Nat /\ Pages \subseteq Nat

Digits == 0 .. Radix - 1
Slots  == Nodes \X Digits

\* Pages an entry at a level maps together.
Span[level \in 0 .. Levels] == IF level = 0 THEN 1 ELSE Radix * Span[level - 1]

Vpns   == 0 .. Span[Levels] - 1

PteBits == {"V", "R", "W", "X", "U", "G", "A", "D"}
Pte == [bits : SUBSET PteBits, ppn : Nodes \union Pages]

ASSUME ChoiceAssumption == Choices \in [Slots -> SUBSET Pte]
ASSUME ContextAssumption ==
  Contexts \subseteq [priv : {"User", "Supervisor"}, mxr : BOOLEAN, do_sum : BOOLEAN]

AccessTypes == {"Read", "Write", "ReadWrite", "Execute"}

\* What physical memory protection lets supervisor accesses do to a node.
Guards == {"rw", "r", "none"}

pte_is_invalid(pte) ==
  "V" \notin pte.bits \/ ("W" \in pte.bits /\ "R" \notin pte.bits)
pte_is_ptr(pte) == pte.bits \intersect {"R", "W", "X"} = {}

\* The pages a walk may visit: Nodes has every page an entry points to.
ASSUME PointerAssumption ==
  \A s \in Slots : \A pte \in Choices[s] :
    ~pte_is_invalid(pte) /\ pte_is_ptr(pte) => pte.ppn \in Nodes

vpn_j_of_va(va, level) == (va \div Span[level]) % Radix

\* A page's place among the pages mapped together, and the first of them.
Offset(n, level) == n % Span[level]
Base(n, level)   == n - Offset(n, level)

check_PTE_permission(ac, ctx, bits) ==
  LET user     == "U" \in bits
      readable == "R" \in bits \/ ("X" \in bits /\ ctx.mxr)
  IN /\ IF ctx.priv = "User" THEN user
        ELSE IF ac = "Execute" THEN ~user ELSE ~user \/ ctx.do_sum
     /\ ac \in {"Read", "ReadWrite"}  => readable
     /\ ac \in {"Write", "ReadWrite"} => "W" \in bits
     /\ ac = "Execute"                => "X" \in bits

\* Mutant: the dirty bit is what the access needs, not what it was.
update_PTE_Bits_Clears(pte, ac) ==
  [pte EXCEPT !.bits = (@ \ {"D"}) \union
     (IF ac \in {"Write", "ReadWrite"} THEN {"A", "D"} ELSE {"A"})]

\* The entry with the accessed and dirty bits an access needs.
update_PTE_Bits(pte, ac) ==
  [pte EXCEPT !.bits = @ \union
     (IF ac \in {"Write", "ReadWrite"} THEN {"A", "D"} ELSE {"A"})]

\* The walk down from a table: the leaf it finds, or the fault it stops at,
\* and the entries it reads.  A pointer at level 0 is invalid, a leaf above it
\* must be aligned, and any entry on the way may make the translation global.
\* One node of it, given the walks from the nodes below:
pt_walk_from(mem, guard, va, node, level, lower) ==
  LET Failure(f, path) == [ok |-> FALSE, fault |-> f, path |-> path]
      slot  == <<node, vpn_j_of_va(va, level)>>
      pte   == mem[slot]
      below == lower[pte.ppn]
      up    == [below EXCEPT !.path = @ \union {slot}]
  IN IF guard[node] = "none" THEN Failure("access", {})
     ELSE IF pte_is_invalid(pte) THEN Failure("page", {slot})
     ELSE IF pte_is_ptr(pte)
     THEN IF level = 0 THEN Failure("page", {slot})
          ELSE IF below.ok /\ "G" \in pte.bits THEN [up EXCEPT !.global = TRUE] ELSE up
     ELSE IF Offset(pte.ppn, level) # 0 THEN Failure("page", {slot})
     ELSE [ok |-> TRUE, path |-> {slot}, slot |-> slot, level |-> level,
           pte |-> pte, pa |-> pte.ppn + Offset(va, level),
           global |-> "G" \in pte.bits]

pt_walks(mem, guard, va) ==
  LET walks[level \in 0 .. Levels - 1] ==
        [node \in Nodes |-> pt_walk_from(mem, guard, va, node, level, walks[level - 1])]
  IN walks

pt_walk(mem, guard, va, root) == pt_walks(mem, guard, va)[Levels - 1][root]
=============================================================================

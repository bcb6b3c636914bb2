----------------------------- MODULE Vmem_proofs -----------------------------
(***************************************************************************)
(* Proofs about Vmem, for every size of the TLB and of the tables.         *)
(***************************************************************************)
EXTENDS Vmem, Arithmetic_proofs, TLAPS, FiniteSetTheorems

-----------------------------------------------------------------------------
(* Page numbers.                                                           *)

\* The recursion of Span has a solution.
LEMMA SpanExists ==
  \E f : f = [k \in 0 .. Levels |-> IF k = 0 THEN 1 ELSE Radix * f[k - 1]]
<1> DEFINE Upto(n, f) == f = [k \in 0 .. n |-> IF k = 0 THEN 1 ELSE Radix * f[k - 1]]
           G == {n \in 0 .. Levels : \E f : Upto(n, f)}
<1>0. Levels \in Nat
  BY TableAssumption
<1>1. 0 \in G
  <2>1. Upto(0, [k \in 0 .. 0 |-> 1])
    OBVIOUS
  <2> HIDE DEF Upto
  <2> QED
    BY <1>0, <2>1
<1>2. ASSUME NEW n \in 0 .. Levels - 1, n \in G PROVE n + 1 \in G
  <2>1. PICK f : Upto(n, f)
    BY <1>2
  <2> DEFINE h == [k \in 0 .. n + 1 |-> IF k = 0 THEN 1 ELSE Radix * f[k - 1]]
  <2>2. ASSUME NEW k \in 0 .. n PROVE h[k] = f[k]
    <3>1. k \in 0 .. n + 1
      BY <1>0
    <3>2. f[k] = IF k = 0 THEN 1 ELSE Radix * f[k - 1]
      BY <2>1, Zenon
    <3>3. h[k] = IF k = 0 THEN 1 ELSE Radix * f[k - 1]
      BY <3>1, Zenon
    <3> QED
      BY <3>2, <3>3, Zenon
  <2>3. \A k \in 0 .. n + 1 : k # 0 => k - 1 \in 0 .. n
    BY <1>0
  <2>4. Upto(n + 1, h)
    <3>1. h = [k \in 0 .. n + 1 |-> IF k = 0 THEN 1 ELSE Radix * h[k - 1]]
      BY <2>2, <2>3
    <3> QED
      BY <3>1
  <2> HIDE DEF h
  <2>5. \E ff : Upto(n + 1, ff)
    BY <2>4
  <2> QED
    BY <1>0, <2>5
<1> HIDE DEF G
<1>3. Levels \in G
  BY <1>0, <1>1, <1>2, UpTo
<1> QED
  BY <1>3 DEF G

LEMMA SpanUnfolds ==
  /\ Span[0] = 1
  /\ \A k \in 1 .. Levels : Span[k] = Radix * Span[k - 1]
<1>1. Span = [k \in 0 .. Levels |-> IF k = 0 THEN 1 ELSE Radix * Span[k - 1]]
  BY SpanExists DEF Span
<1>2. ASSUME NEW k \in 0 .. Levels PROVE Span[k] = IF k = 0 THEN 1 ELSE Radix * Span[k - 1]
  BY <1>1, Zenon
<1>3. 0 \in 0 .. Levels /\ \A k \in 1 .. Levels : k \in 0 .. Levels /\ k # 0
  BY TableAssumption
<1>4. Span[0] = 1
  BY <1>2, <1>3, Zenon
<1>5. ASSUME NEW k \in 1 .. Levels PROVE Span[k] = Radix * Span[k - 1]
  BY <1>2, <1>3, Zenon
<1> QED
  BY <1>4, <1>5

LEMMA SpanPositive == \A k \in 0 .. Levels : Span[k] \in Nat \ {0}
<1> DEFINE G == {k \in 0 .. Levels : Span[k] \in Nat \ {0}}
<1>0. Levels \in Nat /\ Radix \in Nat \ {0}
  BY TableAssumption
<1>1. 0 \in G
  BY <1>0, SpanUnfolds
<1>2. ASSUME NEW k \in 0 .. Levels - 1, k \in G PROVE k + 1 \in G
  <2>1. k + 1 \in 1 .. Levels /\ (k + 1) - 1 = k
    BY <1>0
  <2>2. Span[k + 1] = Radix * Span[k]
    BY <2>1, SpanUnfolds
  <2>3. ASSUME NEW x \in Nat \ {0}, NEW y \in Nat \ {0} PROVE x * y \in Nat \ {0}
    BY <2>3
  <2> QED
    BY <1>0, <1>2, <2>1, <2>2, <2>3
<1> HIDE DEF G
<1>3. \A k \in 0 .. Levels : k \in G
  BY <1>0, <1>1, <1>2, UpTo
<1> QED
  BY <1>3 DEF G

\* A superpage is made of whole superpages of every level below.
LEMMA SpanDivides ==
  ASSUME NEW k \in 0 .. Levels, NEW l \in k .. Levels
  PROVE  \E c \in Nat \ {0} : Span[l] = Span[k] * c
<1> DEFINE Good(i) == \E c \in Nat \ {0} : Span[i] = Span[k] * c
           G == {i \in 0 .. Levels : i >= k => Good(i)}
<1>0. Levels \in Nat /\ Radix \in Nat \ {0} /\ Span[k] \in Nat
  BY TableAssumption, SpanPositive
<1>1. Good(k)
  <2>1. Span[k] = Span[k] * 1 /\ 1 \in Nat \ {0}
    BY <1>0
  <2> QED
    BY <2>1
<1>2. ASSUME NEW i \in 0 .. Levels - 1, Good(i) PROVE Good(i + 1)
  <2>1. PICK c \in Nat \ {0} : Span[i] = Span[k] * c
    BY <1>2
  <2>2. i + 1 \in 1 .. Levels /\ (i + 1) - 1 = i
    BY <1>0
  <2>3. Span[i + 1] = Radix * Span[i]
    BY <2>2, SpanUnfolds
  <2>4. ASSUME NEW r \in Nat \ {0}, NEW x \in Nat, NEW y \in Nat \ {0}
        PROVE  r * (x * y) = x * (r * y) /\ r * y \in Nat \ {0}
    BY <2>4
  <2>5. Span[i + 1] = Span[k] * (Radix * c) /\ Radix * c \in Nat \ {0}
    BY <1>0, <2>1, <2>3, <2>4
  <2> QED
    BY <2>5
<1> HIDE DEF Good
<1>3. 0 \in G
  BY <1>0, <1>1
<1>4. ASSUME NEW i \in 0 .. Levels - 1, i \in G PROVE i + 1 \in G
  <2>1. CASE i + 1 = k
    BY <1>0, <1>1, <2>1
  <2>2. CASE i + 1 # k
    BY <1>0, <1>2, <1>4, <2>2
  <2> QED
    BY <2>1, <2>2
<1> HIDE DEF G
<1>5. l \in G
  BY <1>0, <1>3, <1>4, UpTo
<1> QED
  BY <1>5 DEF G, Good

LEMMA Parts ==
  ASSUME NEW n \in Nat, NEW l \in 0 .. Levels
  PROVE  /\ Offset(n, l) \in 0 .. Span[l] - 1
         /\ n \div Span[l] \in Nat
         /\ Base(n, l) = Span[l] * (n \div Span[l])
         /\ Base(n, l) \in 0 .. n
         /\ n = Base(n, l) + Offset(n, l)
<1>1. Span[l] \in Nat \ {0}
  BY SpanPositive
<1> DEFINE S == Span[l]
           q == n \div S
           r == n % S
<1>2. S \in Nat \ {0} /\ q \in Nat /\ r \in 0 .. S - 1 /\ n = S * q + r
  BY <1>1, Division
<1>3. Offset(n, l) = r /\ Base(n, l) = n - r
  BY DEF Offset, Base
<1> HIDE DEF S, q, r
<1>4. S * q \in Nat
  BY <1>2
<1>5. Base(n, l) = S * q
  BY <1>2, <1>3, <1>4
<1> QED
  BY <1>2, <1>3, <1>4, <1>5 DEF S, q

LEMMA DigitTyped == ASSUME NEW va \in Nat, NEW l \in 0 .. Levels PROVE vpn_j_of_va(va, l) \in Digits
<1>1. va \div Span[l] \in Nat /\ Radix \in Nat \ {0}
  BY Parts, TableAssumption
<1> QED
  BY <1>1, Division DEF vpn_j_of_va, Digits

\* Addresses in one superpage take the same slots of every node down to it.
LEMMA SameDigits ==
  ASSUME NEW va \in Nat, NEW u \in Nat, NEW k \in 0 .. Levels, NEW l \in k .. Levels,
         Base(va, k) = Base(u, k)
  PROVE  vpn_j_of_va(va, l) = vpn_j_of_va(u, l)
<1>1. Span[k] \in Nat \ {0} /\ va \div Span[k] \in Nat /\ u \div Span[k] \in Nat
  BY SpanPositive, Parts
<1>2. Span[k] * (va \div Span[k]) = Span[k] * (u \div Span[k])
  BY Parts
<1>3. va \div Span[k] = u \div Span[k]
  <2>1. ASSUME NEW n \in Nat \ {0}, NEW x \in Nat, NEW y \in Nat, n * x = n * y PROVE x = y
    BY <2>1, DivisionUnique
  <2> QED
    BY <1>1, <1>2, <2>1
<1>4. PICK c \in Nat \ {0} : Span[l] = Span[k] * c
  BY SpanDivides
<1>5. ASSUME NEW a \in Nat PROVE a \div Span[l] = (a \div Span[k]) \div c
  <2>1. a \div (Span[k] * c) = (a \div Span[k]) \div c
    BY <1>1, DivideTwice
  <2> QED
    BY <1>4, <2>1, Zenon
<1>6. va \div Span[l] = u \div Span[l]
  BY <1>3, <1>5, Zenon
<1> QED
  BY <1>6, Zenon DEF vpn_j_of_va

\* The first page of a superpage is found again in the address of any of them.
LEMMA AlignedSum ==
  ASSUME NEW p \in Nat, NEW va \in Nat, NEW l \in 0 .. Levels, Offset(p, l) = 0
  PROVE  Base(p + Offset(va, l), l) = p
<1> DEFINE S == Span[l]
           q == p \div S
           r == Offset(va, l)
<1>1. S \in Nat \ {0} /\ q \in Nat /\ p = S * q /\ r \in 0 .. S - 1
  BY SpanPositive, Parts
<1>2. (p + r) % S = r
  <2> HIDE DEF S, q, r
  <2>1. p + r \in Nat /\ p + r = S * q + r
    BY <1>1
  <2> QED
    BY <1>1, <2>1, DivisionUnique
<1>3. Base(p + r, l) = (p + r) - r
  BY <1>2 DEF Base, Offset
<1> HIDE DEF S, q, r
<1>4. (p + r) - r = p
  BY <1>1
<1> QED
  BY <1>3, <1>4 DEF r

LEMMA BaseTyped ==
  ASSUME NEW va \in Vpns, NEW l \in 0 .. Levels
  PROVE  va \in Nat /\ Base(va, l) \in Vpns
<1>1. Levels \in 0 .. Levels
  BY TableAssumption
<1>2. Span[Levels] \in Nat \ {0}
  BY <1>1, SpanPositive
<1>3. va \in Nat /\ Base(va, l) \in 0 .. va
  BY <1>2, Parts DEF Vpns
<1> QED
  BY <1>2, <1>3 DEF Vpns

-----------------------------------------------------------------------------
(* The walk.                                                               *)

\* The recursion of pt_walks has a solution: the lowest level needs no other.
LEMMA LowestLevel ==
  ASSUME NEW m, NEW g, NEW va, NEW n, NEW x, NEW y
  PROVE  pt_walk_from(m, g, va, n, 0, x) = pt_walk_from(m, g, va, n, 0, y)
BY DEF pt_walk_from

Solves(f, m, g, va) ==
  f = [l \in 0 .. Levels - 1 |-> [n \in Nodes |-> pt_walk_from(m, g, va, n, l, f[l - 1])]]

LEMMA WalksExist ==
  ASSUME NEW m, NEW g, NEW va PROVE \E f : Solves(f, m, g, va)
<1> DEFINE F(n, l, x) == pt_walk_from(m, g, va, n, l, x)
           Upto(i, f) == f = [l \in 0 .. i |-> [n \in Nodes |-> F(n, l, f[l - 1])]]
           G == {i \in 0 .. Levels - 1 : \E f : Upto(i, f)}
<1>0. Levels - 1 \in Nat
  BY TableAssumption
<1>z. ASSUME NEW n, NEW x, NEW y PROVE F(n, 0, x) = F(n, 0, y)
  BY LowestLevel
<1> HIDE DEF F
<1>1. 0 \in G
  <2> DEFINE f == [l \in 0 .. 0 |-> [n \in Nodes |-> F(n, 0, 0)]]
  <2>1. \A n \in Nodes : F(n, 0, 0) = F(n, 0, f[0 - 1])
    BY <1>z, Zenon
  <2>2. f = [l \in 0 .. 0 |-> [n \in Nodes |-> F(n, l, f[l - 1])]]
    <3> HIDE DEF f
    <3>1. f = [l \in 0 .. 0 |-> [n \in Nodes |-> F(n, 0, 0)]]
      BY DEF f
    <3>2. \A l \in 0 .. 0 : l = 0
      OBVIOUS
    <3>3. \A l \in 0 .. 0 : [n \in Nodes |-> F(n, 0, 0)] = [n \in Nodes |-> F(n, l, f[l - 1])]
      BY <2>1, <3>2, Zenon
    <3> QED
      BY <3>1, <3>3, Zenon
  <2> HIDE DEF f
  <2>3. \E ff : Upto(0, ff)
    BY <2>2
  <2> HIDE DEF Upto
  <2> QED
    BY <1>0, <2>3
<1>2. ASSUME NEW i \in 0 .. (Levels - 1) - 1, i \in G PROVE i + 1 \in G
  <2>1. PICK f : Upto(i, f)
    BY <1>2
  <2> DEFINE h == [l \in 0 .. i + 1 |-> [n \in Nodes |-> F(n, l, f[l - 1])]]
  <2>2. ASSUME NEW l \in 0 .. i PROVE h[l] = f[l]
    <3>1. l \in 0 .. i + 1
      BY <1>0
    <3>2. f[l] = [n \in Nodes |-> F(n, l, f[l - 1])]
      BY <2>1, Zenon
    <3>3. h[l] = [n \in Nodes |-> F(n, l, f[l - 1])]
      BY <3>1, Zenon
    <3> QED
      BY <3>2, <3>3, Zenon
  <2>3. ASSUME NEW l \in 0 .. i + 1
        PROVE  [n \in Nodes |-> F(n, l, f[l - 1])] = [n \in Nodes |-> F(n, l, h[l - 1])]
    <3> HIDE DEF h
    <3>1. CASE l = 0
      BY <1>z, <3>1, Zenon
    <3>2. CASE l # 0
      <4>1. l - 1 \in 0 .. i
        BY <1>0, <3>2
      <4>2. h[l - 1] = f[l - 1]
        BY <2>2, <4>1, Zenon
      <4> QED
        BY <4>2, Zenon
    <3> QED
      BY <3>1, <3>2, Zenon
  <2>4. h = [l \in 0 .. i + 1 |-> [n \in Nodes |-> F(n, l, h[l - 1])]]
    <3>1. h = [l \in 0 .. i + 1 |-> [n \in Nodes |-> F(n, l, f[l - 1])]]
      OBVIOUS
    <3> HIDE DEF h
    <3> QED
      BY <2>3, <3>1, Zenon
  <2> HIDE DEF h
  <2>5. \E ff : Upto(i + 1, ff)
    BY <2>4
  <2> HIDE DEF Upto
  <2>6. i + 1 \in 0 .. Levels - 1
    BY <1>0
  <2> QED
    BY <2>5, <2>6
<1> HIDE DEF G
<1>3. Levels - 1 \in 0 .. Levels - 1 /\ Levels - 1 \in G
  BY <1>0, <1>1, <1>2, UpTo
<1> HIDE DEF Upto
<1>4. PICK f : Upto(Levels - 1, f)
  BY <1>3 DEF G
<1>5. Solves(f, m, g, va)
  BY <1>4, Zenon DEF Upto, F, Solves
<1> QED
  BY <1>5

LEMMA WalksUnfold ==
  ASSUME NEW m, NEW g, NEW va, NEW l \in 0 .. Levels - 1, NEW n \in Nodes
  PROVE  pt_walks(m, g, va)[l][n]
         = pt_walk_from(m, g, va, n, l, pt_walks(m, g, va)[l - 1])
<1> DEFINE walks == pt_walks(m, g, va)
<1>1. Solves(walks, m, g, va)
  <2>1. \E f : Solves(f, m, g, va)
    BY WalksExist
  <2>2. walks = CHOOSE f : Solves(f, m, g, va)
    BY Zenon DEF pt_walks, Solves
  <2> HIDE DEF walks
  <2> QED
    BY <2>1, <2>2, Zenon
<1> HIDE DEF walks
<1>2. walks[l] = [i \in Nodes |-> pt_walk_from(m, g, va, i, l, walks[l - 1])]
  BY <1>1, Zenon DEF Solves
<1>3. walks[l][n] = pt_walk_from(m, g, va, n, l, walks[l - 1])
  BY <1>2, Zenon
<1> QED
  BY <1>3 DEF walks

\* Entries that differ at most in the bits the walk itself sets.
SameButAD(p, q) == p.ppn = q.ppn /\ p.bits \ {"A", "D"} = q.bits \ {"A", "D"}

\* What the program may make of the tables and of their protection.
Tables == {m \in [Slots -> Pte] : \A s \in Slots : \E c \in Choices[s] : SameButAD(m[s], c)}
Protections == {g \in [Nodes -> Guards] : \A n \in Nodes : g[n] \in GuardChoices[n]}

\* Where the walk goes down from an entry, where it ends, and where it fails.
Follows(p, l) == ~pte_is_invalid(p) /\ pte_is_ptr(p) /\ l # 0
Ends(p, l)    == ~pte_is_invalid(p) /\ ~pte_is_ptr(p) /\ Offset(p.ppn, l) = 0

WalkAt(m, g, va, l, n) == pt_walks(m, g, va)[l][n]

LEMMA SameKind ==
  ASSUME NEW p \in Pte, NEW q \in Pte, SameButAD(p, q), NEW l
  PROVE  /\ Follows(p, l) = Follows(q, l) /\ Ends(p, l) = Ends(q, l)
         /\ pte_is_invalid(p) = pte_is_invalid(q) /\ pte_is_ptr(p) = pte_is_ptr(q)
         /\ ("G" \in p.bits) = ("G" \in q.bits) /\ p.ppn = q.ppn
<1>1. \A x \in PteBits \ {"A", "D"} : x \in p.bits <=> x \in q.bits
  BY DEF SameButAD, Pte
<1>2. \A x \in {"V", "W", "R", "X", "G"} : x \in p.bits <=> x \in q.bits
  BY <1>1 DEF PteBits
<1>3. pte_is_invalid(p) = pte_is_invalid(q)
  BY <1>2 DEF pte_is_invalid
<1>4. pte_is_ptr(p) = pte_is_ptr(q)
  BY <1>2 DEF pte_is_ptr
<1> QED
  BY <1>2, <1>3, <1>4 DEF SameButAD, Follows, Ends

LEMMA PointersLead ==
  ASSUME NEW m \in Tables, NEW s \in Slots, NEW l, Follows(m[s], l)
  PROVE  m[s].ppn \in Nodes
<1>1. PICK c \in Choices[s] : SameButAD(m[s], c)
  BY DEF Tables
<1>2. c \in Pte /\ m[s] \in Pte
  BY ChoiceAssumption DEF Tables
<1>3. Follows(c, l) /\ c.ppn = m[s].ppn
  BY <1>1, <1>2, SameKind
<1> QED
  BY <1>3, PointerAssumption DEF Follows

\* The cases of pt_walk at one node.
LEMMA WalkCases ==
  ASSUME NEW m, NEW g, NEW va, NEW l \in 0 .. Levels - 1, NEW n \in Nodes,
         NEW slot, slot = <<n, vpn_j_of_va(va, l)>>, NEW w, w = WalkAt(m, g, va, l, n)
  PROVE  /\ g[n] = "none" => w = [ok |-> FALSE, fault |-> "access", path |-> {}]
         /\ g[n] # "none" /\ ~Follows(m[slot], l) /\ ~Ends(m[slot], l) =>
              w = [ok |-> FALSE, fault |-> "page", path |-> {slot}]
         /\ g[n] # "none" /\ Ends(m[slot], l) =>
              w = [ok |-> TRUE, path |-> {slot}, slot |-> slot, level |-> l,
                   pte |-> m[slot], pa |-> m[slot].ppn + Offset(va, l),
                   global |-> "G" \in m[slot].bits]
         /\ g[n] # "none" /\ Follows(m[slot], l) =>
              LET b == WalkAt(m, g, va, l - 1, m[slot].ppn)
              IN w = IF b.ok /\ "G" \in m[slot].bits
                     THEN [b EXCEPT !.path = @ \union {slot}, !.global = TRUE]
                     ELSE [b EXCEPT !.path = @ \union {slot}]
<1>1. w = pt_walk_from(m, g, va, n, l, pt_walks(m, g, va)[l - 1])
  BY WalksUnfold DEF WalkAt
<1> QED
  BY <1>1 DEF pt_walk_from, Follows, Ends, WalkAt

LEMMA SumTyped ==
  ASSUME NEW p \in Pte, NEW va \in Nat, NEW l \in 0 .. Levels
  PROVE  p.ppn \in Nat /\ p.ppn + Offset(va, l) \in Nat
<1>1. Offset(va, l) \in 0 .. Span[l] - 1 /\ Span[l] \in Nat
  BY Parts, SpanPositive
<1>2. p.ppn \in Nodes \union Pages
  BY DEF Pte
<1>3. p.ppn \in Nat
  BY <1>2, TableAssumption
<1> QED
  BY <1>1, <1>3

\* What a walk ends in: a fault, or an entry with what led to it.
Faults == [ok : {FALSE}, fault : {"page", "access"}, path : SUBSET Slots]
Finds  == [ok : {TRUE}, path : SUBSET Slots, slot : Slots, level : 0 .. Levels - 1,
           pte : Pte, pa : Nat, global : BOOLEAN]

\* The entry found is the leaf in memory, aligned, and no node on the way to it
\* is closed to the walk.
Sound(w, m, g, va) ==
  /\ w.slot \in w.path /\ w.pte = m[w.slot]
  /\ Offset(w.pte.ppn, w.level) = 0 /\ w.pa = w.pte.ppn + Offset(va, w.level)
  /\ \A s \in w.path : g[s[1]] # "none"

Outcome(m, g, va, l, n) ==
  LET w == WalkAt(m, g, va, l, n)
  IN w \in Faults \union Finds /\ (w.ok => w.level =< l /\ Sound(w, m, g, va))

LEMMA OutcomeStep ==
  ASSUME NEW m \in Tables, NEW g \in Protections, NEW va \in Nat,
         NEW l \in 0 .. Levels - 1, NEW n \in Nodes,
         l # 0 => \A i \in Nodes : Outcome(m, g, va, l - 1, i)
  PROVE  Outcome(m, g, va, l, n)
<1> DEFINE w == WalkAt(m, g, va, l, n)
           slot == <<n, vpn_j_of_va(va, l)>>
           p == m[slot]
<1>0. l \in 0 .. Levels /\ Levels \in Nat
  BY TableAssumption
<1>1. slot \in Slots /\ p \in Pte /\ slot[1] = n
  BY <1>0, DigitTyped DEF Slots, Tables
<1>2. p.ppn \in Nat /\ p.ppn + Offset(va, l) \in Nat /\ {slot} \in SUBSET Slots
  <2> HIDE DEF p, slot
  <2> QED
    BY <1>0, <1>1, SumTyped
<1>3. /\ g[n] = "none" => w = [ok |-> FALSE, fault |-> "access", path |-> {}]
      /\ g[n] # "none" /\ ~Follows(p, l) /\ ~Ends(p, l) =>
           w = [ok |-> FALSE, fault |-> "page", path |-> {slot}]
      /\ g[n] # "none" /\ Ends(p, l) =>
           w = [ok |-> TRUE, path |-> {slot}, slot |-> slot, level |-> l,
                pte |-> p, pa |-> p.ppn + Offset(va, l), global |-> "G" \in p.bits]
      /\ g[n] # "none" /\ Follows(p, l) =>
           LET b == WalkAt(m, g, va, l - 1, p.ppn)
           IN w = IF b.ok /\ "G" \in p.bits
                  THEN [b EXCEPT !.path = @ \union {slot}, !.global = TRUE]
                  ELSE [b EXCEPT !.path = @ \union {slot}]
  BY WalkCases
<1> HIDE DEF w, slot, p
<1>4. CASE g[n] = "none" \/ (~Follows(p, l) /\ ~Ends(p, l))
  <2>1. ASSUME NEW f \in {"page", "access"}, NEW path \in SUBSET Slots,
               w = [ok |-> FALSE, fault |-> f, path |-> path]
        PROVE  w \in Faults /\ ~w.ok
    BY <2>1 DEF Faults
  <2>2. w \in Faults /\ ~w.ok
    BY <1>2, <1>3, <1>4, <2>1
  <2> QED
    BY <2>2 DEF Outcome, w
<1>5. CASE g[n] # "none" /\ Ends(p, l)
  <2>1. w = [ok |-> TRUE, path |-> {slot}, slot |-> slot, level |-> l,
             pte |-> p, pa |-> p.ppn + Offset(va, l), global |-> "G" \in p.bits]
    BY <1>3, <1>5
  <2>2. w \in Finds /\ w.level = l
    BY <1>1, <1>2, <2>1 DEF Finds
  <2>3. Sound(w, m, g, va)
    BY <1>1, <2>1, <1>5 DEF Sound, Ends, p
  <2> QED
    BY <1>0, <2>2, <2>3 DEF Outcome, w
<1>6. CASE g[n] # "none" /\ Follows(p, l)
  <2> DEFINE b == WalkAt(m, g, va, l - 1, p.ppn)
  <2>1. l # 0 /\ p.ppn \in Nodes
    BY <1>1, <1>6, PointersLead DEF Follows, p
  <2>2. b \in Faults \union Finds /\ (b.ok => b.level =< l - 1 /\ Sound(b, m, g, va))
    BY <2>1 DEF Outcome
  <2>3. w = IF b.ok /\ "G" \in p.bits
            THEN [b EXCEPT !.path = @ \union {slot}, !.global = TRUE]
            ELSE [b EXCEPT !.path = @ \union {slot}]
    BY <1>3, <1>6
  <2> HIDE DEF b
  <2>4. CASE b \in Faults
    <3>1. w \in Faults /\ ~w.ok
      BY <1>1, <2>3, <2>4 DEF Faults
    <3> QED
      BY <3>1 DEF Outcome, w
  <2>5. CASE b \in Finds
    <3>1. /\ w \in Finds /\ b.ok /\ w.path = b.path \union {slot}
          /\ w.slot = b.slot /\ w.level = b.level /\ w.pte = b.pte /\ w.pa = b.pa
      BY <1>1, <2>3, <2>5 DEF Finds
    <3>2. Sound(b, m, g, va) /\ b.level =< l - 1
      BY <2>2, <3>1
    <3>3. Sound(w, m, g, va)
      BY <1>1, <1>6, <3>1, <3>2 DEF Sound
    <3>4. w.level =< l
      BY <1>0, <2>5, <3>1, <3>2 DEF Finds
    <3> QED
      BY <3>1, <3>3, <3>4 DEF Outcome, w
  <2> QED
    BY <2>2, <2>4, <2>5
<1>7. g[n] \in Guards
  BY DEF Protections
<1> QED
  BY <1>4, <1>5, <1>6

LEMMA OutcomeAlways ==
  ASSUME NEW m \in Tables, NEW g \in Protections, NEW va \in Nat,
         NEW l \in 0 .. Levels - 1, NEW n \in Nodes
  PROVE  Outcome(m, g, va, l, n)
<1> DEFINE G == {k \in 0 .. Levels - 1 : \A i \in Nodes : Outcome(m, g, va, k, i)}
<1>1. Levels - 1 \in Nat
  BY TableAssumption
<1>2. ASSUME NEW k \in 0 .. Levels - 1, k # 0 => k - 1 \in G PROVE k \in G
  BY <1>2, OutcomeStep
<1> HIDE DEF G
<1>3. l \in G
  BY <1>1, <1>2, Upward
<1> QED
  BY <1>3 DEF G

\* A walk that finds an entry finds it for every address of the superpage, and
\* in all tables that differ from these in the entries it reads by no more
\* than accessed and dirty bits.
Alike(m, g, va, m2, g2, u, l, n) ==
  LET w == WalkAt(m, g, va, l, n)
  IN /\ w.ok /\ Base(va, w.level) = Base(u, w.level)
     /\ \A s \in w.path : SameButAD(m[s], m2[s]) /\ g2[s[1]] = g[s[1]]
     => WalkAt(m2, g2, u, l, n)
        = [w EXCEPT !.pte = m2[w.slot], !.pa = w.pte.ppn + Offset(u, w.level)]

LEMMA FindsEqual ==
  ASSUME NEW x \in Finds, NEW y \in Finds,
         x.path = y.path, x.slot = y.slot, x.level = y.level,
         x.pte = y.pte, x.pa = y.pa, x.global = y.global
  PROVE  x = y
<1>1. ASSUME NEW z \in Finds
      PROVE  z = [ok |-> TRUE, path |-> z.path, slot |-> z.slot, level |-> z.level,
                  pte |-> z.pte, pa |-> z.pa, global |-> z.global]
  BY DEF Finds
<1> QED
  BY <1>1, Zenon

LEMMA AlikeStep ==
  ASSUME NEW m \in Tables, NEW g \in Protections, NEW va \in Nat,
         NEW m2 \in Tables, NEW g2 \in Protections, NEW u \in Nat,
         NEW l \in 0 .. Levels - 1, NEW n \in Nodes,
         l # 0 => \A i \in Nodes : Alike(m, g, va, m2, g2, u, l - 1, i)
  PROVE  Alike(m, g, va, m2, g2, u, l, n)
<1> DEFINE w == WalkAt(m, g, va, l, n)
           slot == <<n, vpn_j_of_va(va, l)>>
           p == m[slot]
           w2 == WalkAt(m2, g2, u, l, n)
           p2 == m2[slot]
<1> SUFFICES ASSUME w.ok, Base(va, w.level) = Base(u, w.level),
                    \A s \in w.path : SameButAD(m[s], m2[s]) /\ g2[s[1]] = g[s[1]]
             PROVE  w2 = [w EXCEPT !.pte = m2[w.slot], !.pa = w.pte.ppn + Offset(u, w.level)]
  BY DEF Alike
<1>0. l \in 0 .. Levels /\ Levels \in Nat
  BY TableAssumption
<1>1. slot \in Slots /\ p \in Pte /\ p2 \in Pte /\ slot[1] = n
  BY <1>0, DigitTyped DEF Slots, Tables
<1>2. w \in Finds /\ w.level =< l /\ Sound(w, m, g, va)
  BY OutcomeAlways DEF Outcome, Faults
<1>3. vpn_j_of_va(u, l) = vpn_j_of_va(va, l)
  <2>1. w.level \in 0 .. Levels /\ l \in w.level .. Levels
    BY <1>0, <1>2 DEF Finds
  <2> HIDE DEF w
  <2> QED
    BY <2>1, SameDigits
<1>4. /\ g[n] = "none" => w = [ok |-> FALSE, fault |-> "access", path |-> {}]
      /\ g[n] # "none" /\ ~Follows(p, l) /\ ~Ends(p, l) =>
           w = [ok |-> FALSE, fault |-> "page", path |-> {slot}]
      /\ g[n] # "none" /\ Ends(p, l) =>
           w = [ok |-> TRUE, path |-> {slot}, slot |-> slot, level |-> l,
                pte |-> p, pa |-> p.ppn + Offset(va, l), global |-> "G" \in p.bits]
      /\ g[n] # "none" /\ Follows(p, l) =>
           LET b == WalkAt(m, g, va, l - 1, p.ppn)
           IN w = IF b.ok /\ "G" \in p.bits
                  THEN [b EXCEPT !.path = @ \union {slot}, !.global = TRUE]
                  ELSE [b EXCEPT !.path = @ \union {slot}]
  BY WalkCases
<1>5. slot = <<n, vpn_j_of_va(u, l)>>
  BY <1>3
<1>6. /\ g2[n] = "none" => w2 = [ok |-> FALSE, fault |-> "access", path |-> {}]
      /\ g2[n] # "none" /\ ~Follows(p2, l) /\ ~Ends(p2, l) =>
           w2 = [ok |-> FALSE, fault |-> "page", path |-> {slot}]
      /\ g2[n] # "none" /\ Ends(p2, l) =>
           w2 = [ok |-> TRUE, path |-> {slot}, slot |-> slot, level |-> l,
                 pte |-> p2, pa |-> p2.ppn + Offset(u, l), global |-> "G" \in p2.bits]
      /\ g2[n] # "none" /\ Follows(p2, l) =>
           LET b == WalkAt(m2, g2, u, l - 1, p2.ppn)
           IN w2 = IF b.ok /\ "G" \in p2.bits
                   THEN [b EXCEPT !.path = @ \union {slot}, !.global = TRUE]
                   ELSE [b EXCEPT !.path = @ \union {slot}]
  BY <1>5, WalkCases
<1>7. g[n] # "none" /\ (Follows(p, l) \/ Ends(p, l))
  <2> HIDE DEF w, slot, p
  <2> QED
    BY <1>4
<1>8. CASE Ends(p, l)
  <2>1. w = [ok |-> TRUE, path |-> {slot}, slot |-> slot, level |-> l,
             pte |-> p, pa |-> p.ppn + Offset(va, l), global |-> "G" \in p.bits]
    BY <1>4, <1>7, <1>8
  <2> HIDE DEF w, w2
  <2>2. SameButAD(p, p2) /\ g2[n] = g[n]
    BY <1>1, <2>1
  <2>3. Ends(p2, l) /\ p2.ppn = p.ppn /\ ("G" \in p2.bits) = ("G" \in p.bits)
    BY <1>1, <1>8, <2>2, SameKind
  <2>4. w2 = [ok |-> TRUE, path |-> {slot}, slot |-> slot, level |-> l,
              pte |-> p2, pa |-> p.ppn + Offset(u, l), global |-> "G" \in p.bits]
    BY <1>6, <1>7, <2>2, <2>3
  <2> DEFINE x == [w EXCEPT !.pte = p2, !.pa = p.ppn + Offset(u, l)]
  <2>5. w.slot = slot /\ w.pte = p /\ w.level = l /\ m2[w.slot] = p2
    BY <2>1
  <2>6. p.ppn + Offset(u, l) \in Nat
    BY <1>0, <1>1, SumTyped
  <2>7. x \in Finds /\ w2 \in Finds
    <3>1. x \in Finds
      BY <1>1, <1>2, <2>6 DEF Finds
    <3>2. {slot} \in SUBSET Slots
      BY <1>1
    <3> HIDE DEF slot, p, p2, x
    <3>3. w2 \in Finds
      BY <1>1, <2>4, <2>6, <3>2 DEF Finds
    <3> QED
      BY <3>1, <3>3
  <2>8. /\ x.path = w2.path /\ x.slot = w2.slot /\ x.level = w2.level
        /\ x.pte = w2.pte /\ x.pa = w2.pa /\ x.global = w2.global
    BY <1>2, <2>1, <2>4 DEF Finds
  <2>9. x = w2
    <3> HIDE DEF x
    <3> QED
      BY <2>7, <2>8, FindsEqual
  <2> QED
    BY <2>5, <2>9
<1>9. CASE Follows(p, l)
  <2> DEFINE b == WalkAt(m, g, va, l - 1, p.ppn)
             b2 == WalkAt(m2, g2, u, l - 1, p.ppn)
  <2>1. l # 0 /\ l - 1 \in 0 .. Levels - 1 /\ p.ppn \in Nodes
    BY <1>0, <1>1, <1>9, PointersLead DEF Follows
  <2>2. b \in Faults \union Finds
    BY <2>1, OutcomeAlways DEF Outcome
  <2>3. Alike(m, g, va, m2, g2, u, l - 1, p.ppn)
    BY <2>1
  <2>4. w = IF b.ok /\ "G" \in p.bits
            THEN [b EXCEPT !.path = @ \union {slot}, !.global = TRUE]
            ELSE [b EXCEPT !.path = @ \union {slot}]
    BY <1>4, <1>7, <1>9
  <2> HIDE DEF w, w2, b, b2
  <2>5. b \in Finds
    BY <2>2, <2>4 DEF Faults
  <2>6. /\ b.ok /\ w.path = b.path \union {slot} /\ w.level = b.level
        /\ w.slot = b.slot /\ w.pte = b.pte
    BY <2>4, <2>5 DEF Finds
  <2>7. b2 = [b EXCEPT !.pte = m2[b.slot], !.pa = b.pte.ppn + Offset(u, b.level)]
    BY <2>3, <2>6 DEF Alike, b, b2
  <2>8. SameButAD(p, p2) /\ g2[n] = g[n]
    BY <1>1, <2>6
  <2>9. Follows(p2, l) /\ p2.ppn = p.ppn /\ ("G" \in p2.bits) = ("G" \in p.bits)
    BY <1>1, <1>9, <2>8, SameKind
  <2>10. w2 = IF b2.ok /\ "G" \in p.bits
              THEN [b2 EXCEPT !.path = @ \union {slot}, !.global = TRUE]
              ELSE [b2 EXCEPT !.path = @ \union {slot}]
    BY <1>6, <1>7, <2>8, <2>9 DEF b2
  <2> HIDE DEF slot
  <2> QED
    BY <2>4, <2>5, <2>6, <2>7, <2>10 DEF Finds
<1> QED
  BY <1>7, <1>8, <1>9

LEMMA AlikeAlways ==
  ASSUME NEW m \in Tables, NEW g \in Protections, NEW va \in Nat,
         NEW m2 \in Tables, NEW g2 \in Protections, NEW u \in Nat,
         NEW l \in 0 .. Levels - 1, NEW n \in Nodes
  PROVE  Alike(m, g, va, m2, g2, u, l, n)
<1> DEFINE G == {k \in 0 .. Levels - 1 :
                   \A i \in Nodes : Alike(m, g, va, m2, g2, u, k, i)}
<1>1. Levels - 1 \in Nat
  BY TableAssumption
<1>2. ASSUME NEW k \in 0 .. Levels - 1, k # 0 => k - 1 \in G PROVE k \in G
  BY <1>2, AlikeStep
<1> HIDE DEF G
<1>3. l \in G
  BY <1>1, <1>2, Upward
<1> QED
  BY <1>3 DEF G

LEMMA WalkSound ==
  ASSUME NEW m \in Tables, NEW g \in Protections, NEW a \in Asids, NEW va \in Vpns,
         NEW w, w = pt_walk(m, g, va, RootOf[a])
  PROVE  /\ w \in Faults \union Finds /\ (w.ok <=> w \in Finds)
         /\ w.ok => Sound(w, m, g, va)
<1>1. Levels - 1 \in 0 .. Levels - 1 /\ 0 \in 0 .. Levels
  BY TableAssumption
<1>2. RootOf[a] \in Nodes
  BY VmemAssumption DEF Asids
<1>3. Outcome(m, g, va, Levels - 1, RootOf[a])
  BY <1>1, <1>2, BaseTyped, OutcomeAlways
<1>4. w = WalkAt(m, g, va, Levels - 1, RootOf[a])
  BY DEF pt_walk, WalkAt
<1>5. w \in Faults \union Finds /\ (w.ok => Sound(w, m, g, va))
  BY <1>3, <1>4 DEF Outcome
<1>6. w.ok <=> w \in Finds
  BY <1>5 DEF Faults, Finds
<1> QED
  BY <1>5, <1>6

LEMMA WalkProper ==
  ASSUME mem \in Tables, guard \in Protections, NEW a \in Asids, NEW va \in Vpns,
         NEW w, w = Walk(a, va)
  PROVE  /\ w \in Faults \union Finds /\ (w.ok <=> w \in Finds)
         /\ w.ok => Sound(w, mem, guard, va)
BY WalkSound DEF Walk

LEMMA UpdateKeeps ==
  ASSUME NEW p \in Pte, NEW ac, NEW q, q = update_PTE_Bits(p, ac)
  PROVE  /\ q \in Pte /\ SameButAD(q, p) /\ q.ppn = p.ppn
         /\ p.bits \subseteq q.bits /\ q.bits \ p.bits \subseteq {"A", "D"}
         /\ "A" \in q.bits
BY DEF update_PTE_Bits, Pte, PteBits, SameButAD

LEMMA HashTyped == ASSUME NEW va \in Vpns PROVE tlb_hash(va) \in 0 .. NumTlb - 1
<1>1. va \in Nat /\ NumTlb \in Nat \ {0}
  BY VmemAssumption, TableAssumption, BaseTyped
<1> QED
  BY <1>1, Division DEF tlb_hash

-----------------------------------------------------------------------------
(* Types.  Memory and copies hold what software may write, up to the bits  *)
(* that translation sets.                                                  *)

Written(p, slot) == \E c \in Choices[slot] : SameButAD(p, c)

TypeInv ==
  /\ TypeOK /\ mem \in Tables /\ guard \in Protections
  /\ \A i \in 0 .. NumTlb - 1 : tlb[i] # None => Written(tlb[i].pte, tlb[i].slot)

LEMMA StillWritten ==
  ASSUME NEW p, NEW q, NEW slot, SameButAD(q, p), Written(p, slot)
  PROVE  Written(q, slot)
BY DEF Written, SameButAD

LEMMA TypeInit == Init => TypeInv
<1> SUFFICES ASSUME Init PROVE TypeInv
  OBVIOUS
<1>1. ASSUME NEW s \in Slots PROVE mem[s] \in Choices[s] /\ mem[s] \in Pte
  BY ChoiceAssumption DEF Init
<1>2. mem \in [Slots -> Pte]
  BY <1>1 DEF Init
<1>3. mem \in Tables
  <2>1. \A s \in Slots : SameButAD(mem[s], mem[s])
    BY DEF SameButAD
  <2> QED
    BY <1>1, <1>2, <2>1 DEF Tables
<1>4. guard \in Protections
  BY DEF Init, Protections
<1> QED
  BY <1>2, <1>3, <1>4 DEF Init, TypeInv, TypeOK, Protections

\* What an access does on a miss: it fails and changes nothing, or writes the
\* entry it found (which may be as it was) and keeps a copy.
Filled(w, q, va) ==
  [asid |-> asid, global |-> w.global, level |-> w.level, vAddr |-> Base(va, w.level),
   pAddr |-> Base(w.pa, w.level), pte |-> q, slot |-> w.slot]

MissFails == mem' = mem /\ tlb' = tlb /\ out' \in {<<"page">>, <<"access">>}

MissFills(w, q, va) ==
  /\ w \in Finds /\ Sound(w, mem, guard, va) /\ (q = w.pte \/ dirty_update)
  /\ mem' = [mem EXCEPT ![w.slot] = q]
  /\ tlb' = [tlb EXCEPT ![tlb_hash(va)] = Filled(w, q, va)]
  /\ out' = <<"pa", w.pa>>

LEMMA MissCases ==
  ASSUME TypeInv, NEW va \in Vpns, NEW ac \in AccessTypes, NEW ctx \in Contexts,
         translate_TLB_miss(va, ac, ctx), NEW w, w = Walk(asid, va)
  PROVE  MissFails \/ MissFills(w, update_PTE_Bits(w.pte, ac), va)
<1> DEFINE q == update_PTE_Bits(w.pte, ac)
<1>1. w \in Faults \union Finds /\ (w.ok <=> w \in Finds)
      /\ (w.ok => Sound(w, mem, guard, va))
  BY WalkProper DEF TypeInv, TypeOK
<1>2. CASE ~w.ok
  <2>1. w.fault \in {"page", "access"}
    BY <1>1, <1>2 DEF Faults
  <2> QED
    BY <1>2, <2>1 DEF translate_TLB_miss, Answer, Walk, MissFails
<1>3. CASE w.ok /\ q = w.pte
  <2>1. mem = [mem EXCEPT ![w.slot] = q]
    BY <1>1, <1>3 DEF Sound, TypeInv, Tables, Finds
  <2>2. MissFails \/ (mem' = mem /\ tlb' = add_to_TLB(w, w.pte, va) /\ out' = <<"pa", w.pa>>)
    BY <1>3 DEF translate_TLB_miss, Answer, Walk, MissFails
  <2> QED
    BY <1>1, <1>3, <2>1, <2>2 DEF MissFills, add_to_TLB, Filled
<1>4. CASE w.ok /\ q # w.pte
  <2>1. \/ MissFails
        \/ /\ dirty_update /\ mem' = [mem EXCEPT ![w.slot] = q]
           /\ tlb' = add_to_TLB(w, q, va) /\ out' = <<"pa", w.pa>>
    BY <1>4 DEF translate_TLB_miss, Answer, Walk, MissFails
  <2> QED
    BY <1>1, <1>4, <2>1 DEF MissFills, add_to_TLB, Filled
<1> QED
  BY <1>2, <1>3, <1>4

\* And on a hit, when it may also find that it cannot write its copy back.
HitFails == mem' = mem /\ tlb' = tlb /\ out' = <<"page">>

HitAnswers(e, q, va) ==
  /\ q = e.pte \/ dirty_update
  /\ tlb' = [tlb EXCEPT ![tlb_hash(va)].pte = q]
  /\ \/ mem' = mem /\ out' = <<"stopped">> /\ guard[e.slot[1]] # "rw"
     \/ mem' = mem /\ q = e.pte /\ out' = <<"pa", e.pAddr + Offset(va, e.level)>>
     \/ /\ mem' = [mem EXCEPT ![e.slot] = q] /\ q # e.pte
        /\ out' = <<"pa", e.pAddr + Offset(va, e.level)>>

LEMMA EntryTyped ==
  ASSUME TypeInv, NEW i \in 0 .. NumTlb - 1, NEW e, e = tlb[i], e # None
  PROVE  e \in TLB_Entry /\ Written(e.pte, e.slot)
BY DEF TypeInv, TypeOK

LEMMA SamePte ==
  ASSUME TypeInv, NEW i \in 0 .. NumTlb - 1, tlb[i] # None
  PROVE  [tlb EXCEPT ![i].pte = tlb[i].pte] = tlb
<1>1. tlb[i] \in TLB_Entry /\ tlb \in [0 .. NumTlb - 1 -> TLB_Entry \union {None}]
  BY EntryTyped DEF TypeInv, TypeOK
<1>2. [tlb[i] EXCEPT !.pte = tlb[i].pte] = tlb[i]
  BY <1>1 DEF TLB_Entry
<1> QED
  BY <1>1, <1>2

LEMMA HitCases ==
  ASSUME TypeInv, NEW va \in Vpns, NEW ac \in AccessTypes, NEW ctx \in Contexts,
         Hits(asid, va), translate_TLB_hit(va, ac, ctx), NEW e, e = tlb[tlb_hash(va)]
  PROVE  HitFails \/ HitAnswers(e, update_PTE_Bits(e.pte, ac), va)
<1> DEFINE q == update_PTE_Bits(e.pte, ac)
<1>1. e # None /\ tlb_hash(va) \in 0 .. NumTlb - 1
  BY HashTyped DEF Hits
<1>2. q = e.pte => tlb = [tlb EXCEPT ![tlb_hash(va)].pte = q]
  BY <1>1, SamePte
<1> QED
  BY <1>2 DEF translate_TLB_hit, Answer, HitFails, HitAnswers

LEMMA MemWritten ==
  ASSUME NEW m \in Tables, NEW slot \in Slots, NEW q \in Pte, Written(q, slot)
  PROVE  [m EXCEPT ![slot] = q] \in Tables
BY DEF Tables, Written

LEMMA TlbWritten ==
  ASSUME TypeInv, NEW i \in 0 .. NumTlb - 1, NEW x \in TLB_Entry, Written(x.pte, x.slot),
         tlb' = [tlb EXCEPT ![i] = x]
  PROVE  /\ tlb' \in [0 .. NumTlb - 1 -> TLB_Entry \union {None}]
         /\ \A j \in 0 .. NumTlb - 1 : tlb'[j] # None => Written(tlb'[j].pte, tlb'[j].slot)
BY DEF TypeInv, TypeOK

LEMMA FilledTyped ==
  ASSUME TypeInv, NEW va \in Vpns, NEW w \in Finds, Sound(w, mem, guard, va),
         NEW q \in Pte, SameButAD(q, w.pte)
  PROVE  /\ w.slot \in Slots /\ Written(q, w.slot)
         /\ Filled(w, q, va) \in TLB_Entry
         /\ Filled(w, q, va).pte = q /\ Filled(w, q, va).slot = w.slot
<1>1. w.slot \in Slots /\ w.level \in 0 .. Levels /\ w.pa \in Nat
  BY TableAssumption DEF Finds
<1>2. Written(w.pte, w.slot)
  BY <1>1 DEF Sound, TypeInv, Tables, Written
<1>3. Written(q, w.slot)
  BY <1>2, StillWritten
<1>4. Base(w.pa, w.level) \in 0 .. w.pa /\ Base(va, w.level) \in Vpns
  BY <1>1, Parts, BaseTyped
<1>5. Filled(w, q, va) \in TLB_Entry
  BY <1>1, <1>4 DEF Filled, TLB_Entry, Finds, TypeInv, TypeOK
<1> QED
  BY <1>1, <1>3, <1>5 DEF Filled

LEMMA AccessTyped ==
  ASSUME TypeInv, NEW va \in Vpns, NEW ac \in AccessTypes, NEW ctx \in Contexts,
         translateAddr(va, ac, ctx)
  PROVE  TypeInv'
<1> USE DEF TypeInv, TypeOK
<1>1. tlb_hash(va) \in 0 .. NumTlb - 1 /\ UNCHANGED <<dirty_update, guard, asid, owed>>
  BY HashTyped DEF translateAddr
<1>2. SUFFICES /\ mem' \in Tables
               /\ tlb' \in [0 .. NumTlb - 1 -> TLB_Entry \union {None}]
               /\ \A j \in 0 .. NumTlb - 1 :
                    tlb'[j] # None => Written(tlb'[j].pte, tlb'[j].slot)
               /\ out' \in {<<>>, <<"page">>, <<"access">>, <<"stopped">>} \union ({"pa"} \X Nat)
  BY <1>1 DEF Tables, Protections
<1>3. CASE MissFails \/ HitFails
  BY <1>3 DEF MissFails, HitFails
<1>4. CASE ~Hits(asid, va) /\ ~MissFails
  <2> DEFINE w == Walk(asid, va)
             q == update_PTE_Bits(w.pte, ac)
  <2>1. MissFills(w, q, va)
    BY <1>4, MissCases DEF translateAddr
  <2> HIDE DEF w
  <2>2. w \in Finds /\ Sound(w, mem, guard, va) /\ w.pte \in Pte /\ w.pa \in Nat
    BY <2>1 DEF MissFills, Finds
  <2>3. q \in Pte /\ SameButAD(q, w.pte)
    BY <2>2, UpdateKeeps
  <2> HIDE DEF q
  <2>4. /\ w.slot \in Slots /\ Written(q, w.slot) /\ Filled(w, q, va) \in TLB_Entry
        /\ Filled(w, q, va).pte = q /\ Filled(w, q, va).slot = w.slot
    BY <2>2, <2>3, FilledTyped
  <2>5. mem' \in Tables
    BY <2>1, <2>3, <2>4, MemWritten DEF MissFills
  <2>6. /\ tlb' \in [0 .. NumTlb - 1 -> TLB_Entry \union {None}]
        /\ \A j \in 0 .. NumTlb - 1 : tlb'[j] # None => Written(tlb'[j].pte, tlb'[j].slot)
    BY <1>1, <2>1, <2>4, TlbWritten DEF MissFills
  <2>7. out' \in {"pa"} \X Nat
    BY <2>1, <2>2 DEF MissFills
  <2> QED
    BY <2>5, <2>6, <2>7
<1>5. CASE Hits(asid, va) /\ ~HitFails
  <2> DEFINE e == tlb[tlb_hash(va)]
             q == update_PTE_Bits(e.pte, ac)
  <2>1. HitAnswers(e, q, va)
    BY <1>5, HitCases DEF translateAddr
  <2>2. e \in TLB_Entry /\ Written(e.pte, e.slot)
    BY <1>1, <1>5, EntryTyped DEF Hits
  <2> DEFINE x == [e EXCEPT !.pte = q]
  <2>3. tlb' = [tlb EXCEPT ![tlb_hash(va)] = x]
    BY <2>1 DEF HitAnswers
  <2> HIDE DEF e
  <2>4. e.pte \in Pte /\ e.slot \in Slots /\ e.pAddr \in Nat /\ e.level \in 0 .. Levels
    BY <2>2, TableAssumption DEF TLB_Entry
  <2>5. q \in Pte /\ SameButAD(q, e.pte)
    BY <2>4, UpdateKeeps
  <2>6. Written(q, e.slot)
    BY <2>2, <2>5, StillWritten
  <2> HIDE DEF q
  <2>7. x \in TLB_Entry /\ x.pte = q /\ x.slot = e.slot
    BY <2>2, <2>5 DEF TLB_Entry
  <2>8. mem' \in Tables
    BY <2>1, <2>4, <2>5, <2>6, MemWritten DEF HitAnswers
  <2>9. /\ tlb' \in [0 .. NumTlb - 1 -> TLB_Entry \union {None}]
        /\ \A j \in 0 .. NumTlb - 1 : tlb'[j] # None => Written(tlb'[j].pte, tlb'[j].slot)
    <3> HIDE DEF x, TypeInv
    <3> QED
      BY <1>1, <2>3, <2>6, <2>7, TlbWritten
  <2>10. e.pAddr + Offset(va, e.level) \in Nat
    <3>1. Offset(va, e.level) \in 0 .. Span[e.level] - 1 /\ Span[e.level] \in Nat
      BY <2>4, BaseTyped, Parts, SpanPositive
    <3> QED
      BY <2>4, <3>1
  <2>11. out' \in {<<"stopped">>} \union ({"pa"} \X Nat)
    BY <2>1, <2>10 DEF HitAnswers
  <2> QED
    BY <2>8, <2>9, <2>11
<1> QED
  BY <1>3, <1>4, <1>5

LEMMA ThroughTyped ==
  ASSUME mem \in Tables, guard \in Protections, NEW S
  PROVE  Through(S) \subseteq [asid : Asids, va : Vpns, level : 0 .. Levels - 1, global : BOOLEAN]
<1>1. ASSUME NEW a \in Asids, NEW va \in Vpns, Walk(a, va).ok
      PROVE  Walk(a, va).level \in 0 .. Levels - 1 /\ Walk(a, va).global \in BOOLEAN
  <2>1. Walk(a, va) \in Finds
    BY <1>1, WalkProper
  <2> QED
    BY <2>1 DEF Finds
<1> QED
  BY <1>1 DEF Through

LEMMA TypeStep == ASSUME TypeInv, [Next]_vars PROVE TypeInv'
<1> USE DEF TypeInv, TypeOK
<1>1. ASSUME NEW va \in Vpns, NEW ac \in AccessTypes, NEW ctx \in Contexts,
             translateAddr(va, ac, ctx)
      PROVE  TypeInv'
  BY <1>1, AccessTyped
<1>2. ASSUME NEW a, NEW va, SFENCE_VMA(a, va) PROVE TypeInv'
  BY <1>2 DEF SFENCE_VMA, Tables, Protections
<1>3. ASSUME NEW slot \in Slots, NEW pte \in Choices[slot], WritePte(slot, pte) PROVE TypeInv'
  <2>1. pte \in Pte /\ Written(pte, slot)
    BY ChoiceAssumption DEF Written, SameButAD
  <2>2. mem' \in Tables
    BY <1>3, <2>1, MemWritten DEF WritePte
  <2>3. owed' \subseteq [asid : Asids, va : Vpns, level : 0 .. Levels - 1, global : BOOLEAN]
    BY <1>3, ThroughTyped DEF WritePte
  <2> QED
    BY <1>3, <2>2, <2>3 DEF WritePte, Tables, Protections
<1>4. ASSUME NEW node \in Nodes, NEW g \in GuardChoices[node], SetGuard(node, g) PROVE TypeInv'
  <2>1. guard' \in Protections
    BY <1>4, VmemAssumption DEF SetGuard, Protections
  <2>2. owed' \subseteq [asid : Asids, va : Vpns, level : 0 .. Levels - 1, global : BOOLEAN]
    BY <1>4, ThroughTyped DEF SetGuard
  <2> QED
    BY <1>4, <2>1, <2>2 DEF SetGuard, Tables, Protections
<1>5. ASSUME NEW a \in Asids, SwitchTo(a) PROVE TypeInv'
  BY <1>5 DEF SwitchTo, Tables, Protections
<1>6. CASE UNCHANGED vars
  BY <1>6 DEF vars, Tables, Protections
<1> QED
  BY <1>1, <1>2, <1>3, <1>4, <1>5, <1>6 DEF Next

\* The TLB, the tables and the answers keep their types, for every program,
\* careful or not: an entry of the TLB is a copy of what software wrote to the
\* slot it names, up to accessed and dirty bits (add_to_TLB, write_TLB).
THEOREM TypeAlways == Spec => []TypeInv
  BY TypeInit, TypeStep, PTL DEF Spec

-----------------------------------------------------------------------------
(* The TLB and the walk.                                                   *)

\* The program does not make its page tables read only.
TablesWritable == \A n \in Nodes : "r" \notin GuardChoices[n]

\* An entry of the TLB answers as the walk w does.
Agrees(e, w, va, dirty) ==
  /\ w \in Finds /\ w.slot = e.slot /\ w.level = e.level
  /\ w.pa = e.pAddr + Offset(va, e.level) /\ w.pte.ppn = e.pte.ppn
  /\ e.pte.bits \subseteq w.pte.bits /\ w.pte.bits \ e.pte.bits \subseteq {"A", "D"}
  /\ e.global => w.global
  /\ dirty \/ e.pte = w.pte

\* The program owes a fence that flushes it.
Waits(e, a, va) ==
  \E o \in owed : o.asid = a /\ o.va = va /\ o.level = e.level /\ (e.global => o.global)

TlbInv ==
  /\ \A i \in 0 .. NumTlb - 1 : tlb[i] # None => "A" \in tlb[i].pte.bits
  /\ \A a \in Asids, va \in Vpns : Hits(a, va) =>
       \/ Agrees(tlb[tlb_hash(va)], Walk(a, va), va, dirty_update)
       \/ Waits(tlb[tlb_hash(va)], a, va)

\* What translation may do to the tables.
Grows(m, m2, dirty) ==
  \A s \in Slots :
    /\ m2[s].ppn = m[s].ppn /\ m[s].bits \subseteq m2[s].bits
    /\ m2[s].bits \ m[s].bits \subseteq {"A", "D"}
    /\ dirty \/ m2[s] = m[s]

LEMMA GrowsAlike ==
  ASSUME NEW m, NEW m2, NEW d, Grows(m, m2, d), NEW s \in Slots
  PROVE  SameButAD(m[s], m2[s])
BY DEF Grows, SameButAD

\* The walk where the entries it reads are alike.
LEMMA WalkAlike ==
  ASSUME NEW m \in Tables, NEW g \in Protections, NEW m2 \in Tables, NEW g2 \in Protections,
         NEW a \in Asids, NEW va \in Vpns, NEW u \in Vpns,
         NEW w, w = pt_walk(m, g, va, RootOf[a]), w.ok,
         Base(va, w.level) = Base(u, w.level),
         \A s \in w.path : SameButAD(m[s], m2[s]) /\ g2[s[1]] = g[s[1]],
         NEW x, x = pt_walk(m2, g2, u, RootOf[a])
  PROVE  /\ x \in Finds /\ x.path = w.path /\ x.slot = w.slot /\ x.level = w.level
         /\ x.pte = m2[w.slot] /\ x.global = w.global
         /\ x.pa = w.pte.ppn + Offset(u, w.level)
<1>1. Levels - 1 \in 0 .. Levels - 1 /\ va \in Nat /\ u \in Nat
  BY TableAssumption, BaseTyped
<1>2. RootOf[a] \in Nodes
  BY VmemAssumption DEF Asids
<1>3. Alike(m, g, va, m2, g2, u, Levels - 1, RootOf[a])
  BY <1>1, <1>2, AlikeAlways
<1>4. w = WalkAt(m, g, va, Levels - 1, RootOf[a])
      /\ x = WalkAt(m2, g2, u, Levels - 1, RootOf[a])
  BY DEF pt_walk, WalkAt
<1>5. x = [w EXCEPT !.pte = m2[w.slot], !.pa = w.pte.ppn + Offset(u, w.level)]
  BY <1>3, <1>4 DEF Alike
<1>6. w \in Finds
  BY WalkSound
<1>7. m2[w.slot] \in Pte
  BY <1>6 DEF Tables, Finds
<1>8. w.pte.ppn + Offset(u, w.level) \in Nat
  BY <1>1, <1>6, SumTyped, TableAssumption DEF Finds
<1> QED
  BY <1>5, <1>6, <1>7, <1>8 DEF Finds

\* Of the next state.
LEMMA WalkNext ==
  ASSUME mem \in Tables, guard \in Protections, mem' \in Tables, guard' \in Protections,
         NEW a \in Asids, NEW va \in Vpns, NEW u \in Vpns, NEW w, w = Walk(a, va), w.ok,
         Base(va, w.level) = Base(u, w.level),
         \A s \in w.path : SameButAD(mem[s], mem'[s]) /\ guard'[s[1]] = guard[s[1]],
         NEW x, x = Walk(a, u)'
  PROVE  /\ x \in Finds /\ x.path = w.path /\ x.slot = w.slot /\ x.level = w.level
         /\ x.pte = mem'[w.slot] /\ x.global = w.global
         /\ x.pa = w.pte.ppn + Offset(u, w.level)
BY WalkAlike DEF Walk

LEMMA WalkBefore ==
  ASSUME mem \in Tables, guard \in Protections, mem' \in Tables, guard' \in Protections,
         NEW a \in Asids, NEW va \in Vpns, NEW x, x = Walk(a, va)', x.ok,
         \A s \in x.path : SameButAD(mem'[s], mem[s]) /\ guard[s[1]] = guard'[s[1]],
         NEW w, w = Walk(a, va)
  PROVE  /\ w \in Finds /\ w.path = x.path /\ w.slot = x.slot /\ w.level = x.level
         /\ w.pte = mem[x.slot] /\ w.global = x.global
         /\ w.pa = x.pte.ppn + Offset(va, x.level)
BY WalkAlike DEF Walk

\* Agreement outlives what translation does to the tables.
LEMMA AgreesStill ==
  ASSUME TypeInv, TypeInv', UNCHANGED <<guard, dirty_update>>, Grows(mem, mem', dirty_update),
         NEW a \in Asids, NEW va \in Vpns, NEW e, Agrees(e, Walk(a, va), va, dirty_update)
  PROVE  Agrees(e, Walk(a, va)', va, dirty_update') /\ Walk(a, va)'.pte = mem'[e.slot]
<1> DEFINE w == Walk(a, va)
           x == Walk(a, va)'
<1>1. w \in Finds /\ w.ok /\ Sound(w, mem, guard, va)
  <2>1. w \in Finds
    BY DEF Agrees
  <2> HIDE DEF w
  <2>2. w.ok
    BY <2>1 DEF Finds
  <2> QED
    BY <2>1, <2>2, WalkProper DEF w, TypeInv
<1>2. w.slot \in Slots /\ \A s \in w.path : s \in Slots
  BY <1>1 DEF Finds
<1>3. \A s \in w.path : SameButAD(mem[s], mem'[s]) /\ guard'[s[1]] = guard[s[1]]
  BY <1>2, GrowsAlike
<1>4. /\ x \in Finds /\ x.slot = w.slot /\ x.level = w.level /\ x.pte = mem'[w.slot]
      /\ x.global = w.global /\ x.pa = w.pte.ppn + Offset(va, w.level)
  BY <1>1, <1>3, WalkNext DEF TypeInv
<1> HIDE DEF w, x
<1>5. x.pa = w.pa /\ w.pte = mem[w.slot]
  BY <1>1, <1>4 DEF Sound
<1>6. /\ x.pte.ppn = w.pte.ppn /\ w.pte.bits \subseteq x.pte.bits
      /\ x.pte.bits \ w.pte.bits \subseteq {"A", "D"} /\ (dirty_update \/ x.pte = w.pte)
  BY <1>2, <1>4, <1>5 DEF Grows
<1>7. Agrees(e, w, va, dirty_update)
  BY DEF w
<1>8. Agrees(e, x, va, dirty_update) /\ x.pte = mem'[e.slot]
  BY <1>4, <1>5, <1>6, <1>7 DEF Agrees
<1> QED
  BY <1>8 DEF x

\* So does the care taken with global pages.
LEMMA AlikeStill ==
  ASSUME TypeInv, TypeInv', GlobalsAlike, UNCHANGED guard, NEW d, Grows(mem, mem', d)
  PROVE  GlobalsAlike'
<1> SUFFICES ASSUME NEW a \in Asids, NEW b \in Asids, NEW va \in Vpns,
                    NEW x, x = Walk(a, va)', NEW y, y = Walk(b, va)', x.ok, x.global
             PROVE  y.ok /\ y.global /\ y.slot = x.slot /\ y.level = x.level
  BY DEF GlobalsAlike
<1> DEFINE w == Walk(a, va)
           v == Walk(b, va)
<1>1. /\ mem \in Tables /\ guard \in Protections
      /\ mem' \in Tables /\ guard' \in Protections
  BY DEF TypeInv
<1>2. \A s \in Slots : SameButAD(mem[s], mem'[s]) /\ SameButAD(mem'[s], mem[s])
  BY GrowsAlike DEF SameButAD
<1>3. x \in Finds
  BY <1>1, WalkSound DEF Walk
<1>4. w \in Finds /\ w.slot = x.slot /\ w.level = x.level /\ w.global = x.global
  <2>1. \A s \in x.path : SameButAD(mem'[s], mem[s]) /\ guard[s[1]] = guard'[s[1]]
    BY <1>2, <1>3 DEF Finds
  <2> QED
    <3>1. x = Walk(a, va)' /\ x.ok /\ w = Walk(a, va)
      OBVIOUS
    <3> HIDE DEF w
    <3>2. w \in Finds
      BY <1>1, <2>1, <3>1, WalkBefore
    <3>3. w.slot = x.slot /\ w.level = x.level
      BY <1>1, <2>1, <3>1, WalkBefore
    <3>4. w.global = x.global
      BY <1>1, <2>1, <3>1, WalkBefore
    <3> QED
      BY <3>2, <3>3, <3>4
<1>5. v.ok /\ v.global /\ v.slot = w.slot /\ v.level = w.level
  <2>1. w.ok
    <3> HIDE DEF w
    <3> QED
      BY <1>4 DEF Finds
  <2> QED
    BY <1>4, <2>1 DEF GlobalsAlike
<1>6. \A s \in v.path : SameButAD(mem[s], mem'[s]) /\ guard'[s[1]] = guard[s[1]]
  <2>1. v \in Finds
    BY <1>1, <1>5, WalkProper
  <2> HIDE DEF v
  <2> QED
    BY <1>2, <2>1 DEF Finds
<1>7. y \in Finds /\ y.slot = v.slot /\ y.level = v.level /\ y.global = v.global
  <2>1. /\ y \in Finds /\ y.path = v.path /\ y.slot = v.slot /\ y.level = v.level
        /\ y.pte = mem'[v.slot] /\ y.global = v.global
        /\ y.pa = v.pte.ppn + Offset(va, v.level)
    <3>1. y = Walk(b, va)' /\ v.ok
      BY <1>5
    <3> QED
      BY <1>1, <1>6, <3>1, WalkNext
  <2> QED
    BY <2>1
<1> HIDE DEF v, w
<1> QED
  BY <1>4, <1>5, <1>7 DEF Finds

\* A fill agrees with the walks of all the addresses it is found for: those of
\* its superpage, and in every address space when it is global.
LEMMA FillAgrees ==
  ASSUME TypeInv, TypeInv', GlobalsAlike, UNCHANGED <<guard, dirty_update>>,
         Grows(mem, mem', dirty_update),
         NEW va \in Vpns, NEW u \in Vpns, NEW a \in Asids, NEW w, w = Walk(asid, va),
         w \in Finds, NEW q \in Pte, q.ppn = w.pte.ppn, mem'[w.slot] = q,
         w.global \/ a = asid, Base(va, w.level) = Base(u, w.level)
  PROVE  Agrees(Filled(w, q, va), Walk(a, u)', u, dirty_update')
<1> DEFINE x == Walk(a, va)
           y == Walk(a, u)'
           e == Filled(w, q, va)
<1>1. /\ mem \in Tables /\ guard \in Protections /\ asid \in Asids
      /\ mem' \in Tables /\ guard' \in Protections
  BY DEF TypeInv, TypeOK
<1>2. w.ok /\ Sound(w, mem, guard, va) /\ w.level \in 0 .. Levels /\ w.pte \in Pte
  <2>1. w.ok /\ w.level \in 0 .. Levels - 1 /\ w.pte \in Pte
    BY DEF Finds
  <2>2. w.level \in 0 .. Levels
    BY <2>1, TableAssumption
  <2> QED
    BY <1>1, <2>1, <2>2, WalkProper
<1>3. x.ok /\ x.slot = w.slot /\ x.level = w.level /\ (w.global => x.global)
  <2>1. CASE a = asid
    BY <1>2, <2>1
  <2>2. CASE w.global
    BY <1>1, <1>2, <2>2 DEF GlobalsAlike
  <2> QED
    BY <2>1, <2>2
<1>4. x \in Finds /\ Sound(x, mem, guard, va)
  BY <1>1, <1>3, WalkProper
<1> HIDE DEF x
<1>5. \A s \in x.path : SameButAD(mem[s], mem'[s]) /\ guard'[s[1]] = guard[s[1]]
  BY <1>4, GrowsAlike DEF Finds
<1>6. x.pte = w.pte
  BY <1>2, <1>3, <1>4 DEF Sound
<1>7. /\ y \in Finds /\ y.slot = w.slot /\ y.level = w.level /\ y.pte = q
      /\ y.global = x.global /\ y.pa = w.pte.ppn + Offset(u, w.level)
  <2>1. Base(va, x.level) = Base(u, x.level)
    BY <1>3
  <2> HIDE DEF y
  <2> QED
    BY <1>1, <1>3, <1>5, <1>6, <2>1, WalkNext DEF x, y
<1> HIDE DEF y
<1>8. Base(w.pa, w.level) = w.pte.ppn
  <2>1. va \in Nat /\ w.pte.ppn \in Nat
    BY <1>2, BaseTyped, SumTyped
  <2>2. w.pa = w.pte.ppn + Offset(va, w.level) /\ Offset(w.pte.ppn, w.level) = 0
    BY <1>2 DEF Sound
  <2> QED
    BY <1>2, <2>1, <2>2, AlignedSum
<1>9. /\ e.slot = w.slot /\ e.level = w.level /\ e.pAddr = w.pte.ppn /\ e.pte = q
      /\ e.global = w.global
  BY <1>8 DEF Filled
<1> HIDE DEF e
<1>10. Agrees(e, y, u, dirty_update')
  BY <1>3, <1>7, <1>9 DEF Agrees
<1> QED
  BY <1>10 DEF e, y

\* A hit of the next state whose entry is as it was.
LEMMA OldHit ==
  ASSUME TypeInv, TypeInv', TlbInv, UNCHANGED <<guard, dirty_update, owed>>,
         Grows(mem, mem', dirty_update),
         NEW a \in Asids, NEW va \in Vpns, Hits(a, va)', tlb'[tlb_hash(va)] = tlb[tlb_hash(va)]
  PROVE  \/ Agrees(tlb'[tlb_hash(va)], Walk(a, va)', va, dirty_update')
         \/ Waits(tlb[tlb_hash(va)], a, va)'
<1>1. Hits(a, va)
  BY DEF Hits
<1>2. CASE Waits(tlb[tlb_hash(va)], a, va)
  BY <1>2 DEF Waits
<1>3. CASE Agrees(tlb[tlb_hash(va)], Walk(a, va), va, dirty_update)
  BY <1>3, AgreesStill
<1> QED
  BY <1>1, <1>2, <1>3 DEF TlbInv

LEMMA MissGrows ==
  ASSUME TypeInv, NEW va \in Vpns, NEW w, NEW ac,
         MissFills(w, update_PTE_Bits(w.pte, ac), va)
  PROVE  Grows(mem, mem', dirty_update)
<1> DEFINE q == update_PTE_Bits(w.pte, ac)
<1>1. w.pte \in Pte /\ w.slot \in Slots /\ w.pte = mem[w.slot]
  BY DEF MissFills, Finds, Sound
<1>2. /\ q.ppn = w.pte.ppn /\ w.pte.bits \subseteq q.bits
      /\ q.bits \ w.pte.bits \subseteq {"A", "D"}
  BY <1>1, UpdateKeeps
<1>3. mem' = [mem EXCEPT ![w.slot] = q] /\ (q = w.pte \/ dirty_update)
  BY DEF MissFills
<1> HIDE DEF q
<1> QED
  BY <1>1, <1>2, <1>3 DEF Grows, TypeInv, Tables

LEMMA MissStep ==
  ASSUME TypeInv, TypeInv', TlbInv, GlobalsAlike, UNCHANGED <<guard, dirty_update, asid, owed>>,
         NEW va \in Vpns, NEW ac, NEW w, w = Walk(asid, va),
         MissFills(w, update_PTE_Bits(w.pte, ac), va)
  PROVE  TlbInv'
<1> DEFINE q == update_PTE_Bits(w.pte, ac)
           h == tlb_hash(va)
<1>1. w \in Finds /\ w.pte \in Pte /\ w.slot \in Slots /\ h \in 0 .. NumTlb - 1
  BY HashTyped DEF MissFills, Finds
<1>2. q \in Pte /\ q.ppn = w.pte.ppn /\ "A" \in q.bits
  BY <1>1, UpdateKeeps
<1>3. Grows(mem, mem', dirty_update)
  BY MissGrows
<1>4. /\ tlb' = [tlb EXCEPT ![h] = Filled(w, q, va)] /\ mem'[w.slot] = q
      /\ tlb'[h] = Filled(w, q, va)
  BY <1>1 DEF MissFills, TypeInv, TypeOK
<1> HIDE DEF q
<1>5. ASSUME NEW i \in 0 .. NumTlb - 1, tlb'[i] # None PROVE "A" \in tlb'[i].pte.bits
  <2>1. CASE i = h
    BY <1>2, <1>4, <2>1 DEF Filled
  <2>2. CASE i # h
    BY <1>4, <1>5, <2>2 DEF TlbInv, TypeInv, TypeOK
  <2> QED
    BY <2>1, <2>2
<1>6. ASSUME NEW a \in Asids, NEW u \in Vpns, Hits(a, u)'
      PROVE  \/ Agrees(tlb'[tlb_hash(u)], Walk(a, u)', u, dirty_update')
             \/ Waits(tlb[tlb_hash(u)], a, u)'
  <2>1. CASE tlb_hash(u) # h
    <3>1. tlb'[tlb_hash(u)] = tlb[tlb_hash(u)]
      BY <1>4, <2>1, HashTyped DEF TypeInv, TypeOK
    <3> QED
      BY <1>3, <1>6, <3>1, OldHit
  <2>2. CASE tlb_hash(u) = h
    <3>1. tlb'[tlb_hash(u)] = Filled(w, q, va)
      BY <1>4, <2>2
    <3>2. (w.global \/ a = asid) /\ Base(va, w.level) = Base(u, w.level)
      BY <1>6, <3>1 DEF Hits, match_TLB_Entry, Filled
    <3>3. Agrees(Filled(w, q, va), Walk(a, u)', u, dirty_update')
      BY <1>1, <1>2, <1>3, <1>4, <3>2, FillAgrees
    <3> QED
      BY <3>1, <3>3
  <2> QED
    BY <2>1, <2>2
<1> QED
  BY <1>5, <1>6 DEF TlbInv

\* The write-back of a hit only sets bits: the copy has the accessed bit, and is
\* written only to set the dirty bit, so it lacks nothing memory has.
LEMMA HitGrows ==
  ASSUME TypeInv, TlbInv, NEW va \in Vpns, NEW a \in Asids, NEW ac, Hits(a, va),
         NEW e, e = tlb[tlb_hash(va)], Agrees(e, Walk(a, va), va, dirty_update),
         HitAnswers(e, update_PTE_Bits(e.pte, ac), va)
  PROVE  Grows(mem, mem', dirty_update)
<1> DEFINE q == update_PTE_Bits(e.pte, ac)
           w == Walk(a, va)
<1>1. tlb_hash(va) \in 0 .. NumTlb - 1 /\ e # None /\ e.pte \in Pte /\ "A" \in e.pte.bits
  <2>1. tlb_hash(va) \in 0 .. NumTlb - 1 /\ e # None
    BY HashTyped DEF Hits
  <2>2. e \in TLB_Entry
    BY <2>1, EntryTyped
  <2> QED
    BY <2>1, <2>2 DEF TlbInv, TLB_Entry
<1>2. /\ q \in Pte /\ q.ppn = e.pte.ppn /\ e.pte.bits \subseteq q.bits
      /\ q.bits \ e.pte.bits \subseteq {"A", "D"}
  BY <1>1, UpdateKeeps
<1>3. w \in Finds /\ w.slot = e.slot /\ w.pte = mem[e.slot] /\ e.slot \in Slots
  <2>1. w \in Finds /\ w.slot = e.slot
    BY DEF Agrees
  <2> HIDE DEF w
  <2>2. w.ok /\ w.slot \in Slots
    BY <2>1 DEF Finds
  <2> QED
    BY <2>1, <2>2, WalkProper DEF w, Sound, TypeInv
<1>4. /\ w.pte.ppn = e.pte.ppn /\ e.pte.bits \subseteq w.pte.bits
      /\ w.pte.bits \ e.pte.bits \subseteq {"A", "D"}
  BY DEF Agrees
<1> HIDE DEF q, w
<1>5. CASE mem' = mem
  BY <1>5 DEF Grows
<1>6. CASE mem' = [mem EXCEPT ![e.slot] = q] /\ q # e.pte /\ dirty_update
  <2>1. "D" \in q.bits
    <3>1. q = [ppn |-> q.ppn, bits |-> q.bits] /\ e.pte = [ppn |-> e.pte.ppn, bits |-> e.pte.bits]
      BY <1>1, <1>2 DEF Pte
    <3>2. q.bits # e.pte.bits
      BY <1>2, <1>6, <3>1
    <3> QED
      BY <1>1, <1>2, <3>2
  <2>2. "A" \in q.bits
    BY <1>1, <1>2
  <2>3. /\ q.ppn = mem[e.slot].ppn /\ mem[e.slot].bits \subseteq q.bits
        /\ q.bits \ mem[e.slot].bits \subseteq {"A", "D"}
    BY <1>2, <1>3, <1>4, <2>1, <2>2
  <2> QED
    BY <1>3, <1>6, <2>3 DEF Grows, TypeInv, Tables
<1> QED
  BY <1>5, <1>6 DEF HitAnswers, q

LEMMA HitStep ==
  ASSUME TypeInv, TypeInv', TlbInv, UNCHANGED <<guard, dirty_update, asid, owed>>,
         NEW va \in Vpns, NEW ac, Hits(asid, va), out' # <<"stopped">>,
         NEW e, e = tlb[tlb_hash(va)], Agrees(e, Walk(asid, va), va, dirty_update),
         HitAnswers(e, update_PTE_Bits(e.pte, ac), va)
  PROVE  TlbInv'
<1> DEFINE q == update_PTE_Bits(e.pte, ac)
           h == tlb_hash(va)
           x == [e EXCEPT !.pte = q]
<1>1. h \in 0 .. NumTlb - 1 /\ e # None /\ asid \in Asids
  BY HashTyped DEF Hits, TypeInv, TypeOK
<1>2. e \in TLB_Entry /\ e.pte \in Pte
  BY <1>1, EntryTyped DEF TLB_Entry
<1>3. Grows(mem, mem', dirty_update)
  BY <1>1, HitGrows
<1>4. q \in Pte /\ "A" \in q.bits /\ q.ppn = e.pte.ppn
  BY <1>2, UpdateKeeps
<1>5. tlb' = [tlb EXCEPT ![h] = x] /\ (q = e.pte \/ (mem' = [mem EXCEPT ![e.slot] = q]))
  BY DEF HitAnswers
<1> HIDE DEF q
<1>6. /\ x.pte = q /\ x.asid = e.asid /\ x.global = e.global /\ x.level = e.level
      /\ x.vAddr = e.vAddr /\ x.pAddr = e.pAddr /\ x.slot = e.slot
  BY <1>2 DEF TLB_Entry
<1>7. tlb'[h] = x /\ \A i \in 0 .. NumTlb - 1 : i # h => tlb'[i] = tlb[i]
  BY <1>1, <1>5 DEF TypeInv, TypeOK
<1> HIDE DEF x
<1>8. ASSUME NEW i \in 0 .. NumTlb - 1, tlb'[i] # None PROVE "A" \in tlb'[i].pte.bits
  <2>1. CASE i = h
    BY <1>4, <1>6, <1>7, <2>1
  <2>2. CASE i # h
    BY <1>7, <1>8, <2>2 DEF TlbInv
  <2> QED
    BY <2>1, <2>2
<1>9. ASSUME NEW a \in Asids, NEW u \in Vpns, Hits(a, u)'
      PROVE  \/ Agrees(tlb'[tlb_hash(u)], Walk(a, u)', u, dirty_update')
             \/ Waits(tlb[tlb_hash(u)], a, u)'
  <2>1. CASE tlb_hash(u) # h
    <3>1. tlb'[tlb_hash(u)] = tlb[tlb_hash(u)]
      BY <1>7, <2>1, HashTyped
    <3> QED
      BY <1>3, <1>9, <3>1, OldHit
  <2>2. CASE tlb_hash(u) = h
    <3>1. tlb'[tlb_hash(u)] = x /\ tlb[tlb_hash(u)] = e
      BY <1>7, <2>2
    <3>2. Hits(a, u)
      BY <1>1, <1>6, <1>9, <3>1 DEF Hits, match_TLB_Entry
    <3>3. CASE Waits(e, a, u)
      BY <1>6, <3>1, <3>3 DEF Waits
    <3>4. CASE Agrees(e, Walk(a, u), u, dirty_update)
      <4> DEFINE z == Walk(a, u)'
      <4>1. Agrees(e, z, u, dirty_update') /\ z.pte = mem'[e.slot]
        BY <1>3, <3>4, AgreesStill
      <4> HIDE DEF z
      <4>2. e.slot \in Slots
        BY <1>2 DEF TLB_Entry
      <4>3. q # e.pte => z.pte = q
        BY <1>5, <4>1, <4>2 DEF TypeInv, Tables
      <4>4. Agrees(x, z, u, dirty_update')
        BY <1>4, <1>6, <4>1, <4>3 DEF Agrees
      <4> QED
        BY <3>1, <4>4 DEF z
    <3> QED
      BY <3>1, <3>2, <3>3, <3>4 DEF TlbInv
  <2> QED
    BY <2>1, <2>2
<1> QED
  BY <1>8, <1>9 DEF TlbInv

\* An entry that is left by a fence was there before and is not one that the
\* fence flushes (flush_TLB).
LEMMA LeftByFence ==
  ASSUME NEW a, NEW v, SFENCE_VMA(a, v),
         NEW i \in DOMAIN tlb', tlb'[i] # None
  PROVE  tlb'[i] = tlb[i] /\ ~flush_TLB_Entry(tlb[i], a, v)
  BY DEF SFENCE_VMA

\* A translation that waits for no fence is answered as by the walk.
LEMMA AgreesUnlessOwed ==
  ASSUME TlbInv, NEW a \in Asids, NEW va \in Vpns, Hits(a, va), ~Owes(a, va)
  PROVE  Agrees(tlb[tlb_hash(va)], Walk(a, va), va, dirty_update)
BY DEF TlbInv, Waits, Owes

LEMMA NothingChanges ==
  ASSUME TypeInv, TypeInv', TlbInv, UNCHANGED <<mem, guard, dirty_update, tlb, owed>>
  PROVE  TlbInv'
<1>1. Grows(mem, mem', dirty_update)
  BY DEF Grows
<1>2. ASSUME NEW a \in Asids, NEW va \in Vpns, Hits(a, va)'
      PROVE  \/ Agrees(tlb'[tlb_hash(va)], Walk(a, va)', va, dirty_update')
             \/ Waits(tlb[tlb_hash(va)], a, va)'
  BY <1>1, <1>2, OldHit
<1> QED
  BY <1>2 DEF TlbInv

LEMMA AccessStep ==
  ASSUME TypeInv, TypeInv', TlbInv, GlobalsAlike, Careful, out' # <<"stopped">>,
         NEW va \in Vpns, NEW ac \in AccessTypes, NEW ctx \in Contexts,
         translateAddr(va, ac, ctx)
  PROVE  TlbInv'
<1>1. /\ UNCHANGED <<dirty_update, guard, asid, owed>> /\ asid \in Asids
      /\ ~Owes(asid, va)
  BY DEF translateAddr, TypeInv, TypeOK
<1>2. CASE MissFails \/ HitFails
  BY <1>1, <1>2, NothingChanges DEF MissFails, HitFails
<1>3. CASE ~Hits(asid, va) /\ ~MissFails
  BY <1>1, <1>3, MissCases, MissStep DEF translateAddr
<1>4. CASE Hits(asid, va) /\ ~HitFails
  <2>1. Agrees(tlb[tlb_hash(va)], Walk(asid, va), va, dirty_update)
    BY <1>1, <1>4, AgreesUnlessOwed
  <2> QED
    BY <1>1, <1>4, <2>1, HitCases, HitStep DEF translateAddr
<1> QED
  BY <1>2, <1>3, <1>4

\* A fence that settles what is owed for a translation flushes its entry.
LEMMA FenceStep ==
  ASSUME TypeInv, TypeInv', TlbInv,
         NEW a \in Asids \union {None}, NEW v \in Vpns \union {None}, SFENCE_VMA(a, v)
  PROVE  TlbInv'
<1>1. UNCHANGED <<dirty_update, mem, guard>>
  BY DEF SFENCE_VMA
<1>2. ASSUME NEW i \in 0 .. NumTlb - 1, tlb'[i] # None
      PROVE  tlb'[i] = tlb[i] /\ ~flush_TLB_Entry(tlb[i], a, v)
  BY <1>2, LeftByFence DEF TypeInv, TypeOK
<1>3. ASSUME NEW i \in 0 .. NumTlb - 1, tlb'[i] # None PROVE "A" \in tlb'[i].pte.bits
  BY <1>2, <1>3 DEF TlbInv
<1>4. ASSUME NEW b \in Asids, NEW u \in Vpns, Hits(b, u)'
      PROVE  \/ Agrees(tlb'[tlb_hash(u)], Walk(b, u)', u, dirty_update')
             \/ Waits(tlb[tlb_hash(u)], b, u)'
  <2> DEFINE e == tlb[tlb_hash(u)]
  <2>1. tlb'[tlb_hash(u)] = e /\ ~flush_TLB_Entry(e, a, v) /\ Hits(b, u)
    BY <1>2, <1>4, HashTyped DEF Hits
  <2>2. CASE Agrees(e, Walk(b, u), u, dirty_update)
    <3>1. Grows(mem, mem', dirty_update)
      BY <1>1 DEF Grows
    <3>2. Agrees(e, Walk(b, u)', u, dirty_update')
      BY <1>1, <2>2, <3>1, AgreesStill
    <3> QED
      BY <2>1, <3>2
  <2>3. CASE Waits(e, b, u)
    <3>1. PICK o \in owed : o.asid = b /\ o.va = u /\ o.level = e.level /\ (e.global => o.global)
      BY <2>3 DEF Waits
    <3>2. (e.global \/ e.asid = b) /\ e.vAddr = Base(u, e.level)
      BY <2>1 DEF Hits, match_TLB_Entry
    <3>3. \/ a # None /\ (o.asid # a \/ o.global)
          \/ v # None /\ Base(o.va, o.level) # Base(v, o.level)
      BY <2>1, <3>1, <3>2 DEF flush_TLB_Entry
    <3>4. o \in owed'
      BY <3>3 DEF SFENCE_VMA
    <3> QED
      BY <2>1, <3>1, <3>4 DEF Waits
  <2> QED
    BY <2>1, <2>2, <2>3 DEF TlbInv
<1> QED
  BY <1>3, <1>4 DEF TlbInv

\* The program changes entries S of the tables, or the nodes they are in: what
\* it now owes is every translation whose walk is not what it was.
LEMMA ChangeStep ==
  ASSUME TypeInv, TypeInv', TlbInv, NEW S, owed' = owed \union Through(S),
         UNCHANGED <<dirty_update, tlb>>,
         \A s \in Slots \ S : mem'[s] = mem[s] /\ guard'[s[1]] = guard[s[1]]
  PROVE  TlbInv'
<1>1. ASSUME NEW a \in Asids, NEW va \in Vpns, Hits(a, va)'
      PROVE  \/ Agrees(tlb'[tlb_hash(va)], Walk(a, va)', va, dirty_update')
             \/ Waits(tlb[tlb_hash(va)], a, va)'
  <2> DEFINE e == tlb[tlb_hash(va)]
             w == Walk(a, va)
             x == Walk(a, va)'
  <2>1. tlb'[tlb_hash(va)] = e /\ Hits(a, va)
    BY <1>1 DEF Hits
  <2>2. CASE Waits(e, a, va)
    BY <2>1, <2>2 DEF Waits
  <2>3. CASE Agrees(e, w, va, dirty_update)
    <3>1. w \in Finds /\ w.level = e.level /\ (e.global => w.global)
      BY <2>3 DEF Agrees
    <3>2. w.ok /\ w.path \in SUBSET Slots /\ w.slot \in Slots
      <4> HIDE DEF w
      <4> QED
        BY <3>1 DEF Finds
    <3>3. Sound(w, mem, guard, va)
      BY <3>2, WalkProper DEF TypeInv
    <3>4. CASE w.path \intersect S # {}
      <4> DEFINE o == [asid |-> a, va |-> va, level |-> w.level, global |-> w.global]
      <4>1. o \in Through(S)
        <5> DEFINE F(p) == [asid |-> p[1], va |-> p[2], level |-> Walk(p[1], p[2]).level,
                            global |-> Walk(p[1], p[2]).global]
                   R == {p \in Asids \X Vpns : /\ Walk(p[1], p[2]).ok
                                              /\ Walk(p[1], p[2]).path \intersect S # {}}
        <5>1. Through(S) = {F(p) : p \in R}
          BY DEF Through
        <5>2. <<a, va>> \in R /\ F(<<a, va>>) = o
          BY <3>2, <3>4
        <5> HIDE DEF F, R, o
        <5> QED
          BY <5>1, <5>2
      <4> HIDE DEF w
      <4>2. o \in owed' /\ o.asid = a /\ o.va = va /\ o.level = e.level /\ (e.global => o.global)
        BY <3>1, <4>1
      <4> HIDE DEF o
      <4>3. Waits(tlb[tlb_hash(va)], a, va)'
        BY <2>1, <4>2 DEF Waits
      <4> QED
        BY <4>3
    <3>5. CASE w.path \intersect S = {}
      <4>1. \A s \in w.path : mem'[s] = mem[s] /\ guard'[s[1]] = guard[s[1]]
        BY <3>2, <3>5
      <4>2. \A s \in w.path : SameButAD(mem[s], mem'[s]) /\ guard'[s[1]] = guard[s[1]]
        BY <4>1 DEF SameButAD
      <4>3. /\ x \in Finds /\ x.slot = w.slot /\ x.level = w.level
            /\ x.pte = mem'[w.slot] /\ x.global = w.global
            /\ x.pa = w.pte.ppn + Offset(va, w.level)
        BY <3>2, <4>2, WalkNext DEF TypeInv
      <4> HIDE DEF w, x
      <4>4. x.pte = w.pte /\ x.pa = w.pa
        BY <3>3, <4>1, <4>3 DEF Sound
      <4>5. Agrees(e, x, va, dirty_update')
        BY <2>3, <4>3, <4>4 DEF Agrees
      <4> QED
        BY <2>1, <4>5 DEF x
    <3> QED
      BY <3>4, <3>5
  <2> QED
    BY <2>1, <2>2, <2>3 DEF TlbInv
<1> QED
  BY <1>1 DEF TlbInv

-----------------------------------------------------------------------------
(* The theorems for a program that waits for the fences it owes.           *)

LEMMA AccessGrows ==
  ASSUME TypeInv, TlbInv, Careful, NEW va \in Vpns, NEW ac \in AccessTypes, NEW ctx \in Contexts,
         translateAddr(va, ac, ctx)
  PROVE  Grows(mem, mem', dirty_update)
<1>1. asid \in Asids /\ ~Owes(asid, va)
  BY DEF translateAddr, TypeInv, TypeOK
<1>2. CASE MissFails \/ HitFails
  BY <1>2 DEF MissFails, HitFails, Grows
<1>3. CASE ~Hits(asid, va) /\ ~MissFails
  BY <1>3, MissCases, MissGrows DEF translateAddr
<1>4. CASE Hits(asid, va) /\ ~HitFails
  <2>1. Agrees(tlb[tlb_hash(va)], Walk(asid, va), va, dirty_update)
    BY <1>1, <1>4, AgreesUnlessOwed
  <2> QED
    BY <1>1, <1>4, <2>1, HitCases, HitGrows DEF translateAddr
<1> QED
  BY <1>2, <1>3, <1>4

LEMMA AlikeUnchanged ==
  ASSUME TypeInv, TypeInv', GlobalsAlike, UNCHANGED <<mem, guard>> PROVE GlobalsAlike'
<1>1. Grows(mem, mem', TRUE)
  BY DEF Grows
<1> QED
  BY <1>1, AlikeStill

\* Once stopped, the simulator does nothing more.
TlbInvLive == out # <<"stopped">> => TlbInv /\ GlobalsAlike

LEMMA TlbInit == ASSUME Careful PROVE Init => TlbInvLive
BY HashTyped DEF Init, TlbInvLive, TlbInv, Hits

LEMMA TlbStep ==
  ASSUME Careful, TypeInv, TypeInv', TlbInvLive, [Next]_vars
  PROVE  TlbInvLive'
<1> SUFFICES ASSUME out' # <<"stopped">> PROVE (TlbInv /\ GlobalsAlike)'
  BY DEF TlbInvLive
<1>1. out # <<"stopped">>
  BY DEF Next, translateAddr, SFENCE_VMA, WritePte, SetGuard, SwitchTo, vars
<1>2. TlbInv /\ GlobalsAlike
  BY <1>1 DEF TlbInvLive
<1>3. ASSUME NEW va \in Vpns, NEW ac \in AccessTypes, NEW ctx \in Contexts,
             translateAddr(va, ac, ctx)
      PROVE  (TlbInv /\ GlobalsAlike)'
  <2>1. Grows(mem, mem', dirty_update) /\ UNCHANGED guard
    BY <1>2, <1>3, AccessGrows DEF translateAddr
  <2>2. GlobalsAlike'
    BY <1>2, <2>1, AlikeStill
  <2> QED
    BY <1>2, <1>3, <2>2, AccessStep
<1>4. ASSUME NEW a \in Asids \union {None}, NEW v \in Vpns \union {None}, SFENCE_VMA(a, v)
      PROVE  (TlbInv /\ GlobalsAlike)'
  <2>1. UNCHANGED <<mem, guard>>
    BY <1>4 DEF SFENCE_VMA
  <2> QED
    BY <1>2, <1>4, <2>1, FenceStep, AlikeUnchanged
<1>5. ASSUME NEW slot \in Slots, NEW pte \in Choices[slot], WritePte(slot, pte) PROVE (TlbInv /\ GlobalsAlike)'
  <2>1. \A s \in Slots \ {slot} : mem'[s] = mem[s] /\ guard'[s[1]] = guard[s[1]]
    BY <1>5 DEF WritePte, TypeInv, Tables
  <2>2. GlobalsAlike'
    BY <1>5 DEF WritePte
  <2> QED
    BY <1>2, <1>5, <2>1, <2>2, ChangeStep DEF WritePte
<1>6. ASSUME NEW node \in Nodes, NEW g \in GuardChoices[node], SetGuard(node, g) PROVE (TlbInv /\ GlobalsAlike)'
  <2>1. \A s \in Slots \ ({node} \X Digits) : mem'[s] = mem[s] /\ guard'[s[1]] = guard[s[1]]
    BY <1>6 DEF SetGuard, TypeInv, Protections, Slots
  <2>2. GlobalsAlike'
    BY <1>6 DEF SetGuard
  <2> QED
    BY <1>2, <1>6, <2>1, <2>2, ChangeStep DEF SetGuard
<1>7. ASSUME NEW a \in Asids, SwitchTo(a) PROVE (TlbInv /\ GlobalsAlike)'
  BY <1>2, <1>7, NothingChanges, AlikeUnchanged DEF SwitchTo
<1>8. CASE UNCHANGED vars
  BY <1>2, <1>8, NothingChanges, AlikeUnchanged DEF vars
<1> QED
  BY <1>3, <1>4, <1>5, <1>6, <1>7, <1>8 DEF Next

LEMMA TlbAlways == ASSUME Careful PROVE Spec => []TlbInvLive
<1>1. Init => TypeInv /\ TlbInvLive
  BY TypeInit, TlbInit
<1>2. TypeInv /\ TlbInvLive /\ [Next]_vars => (TypeInv /\ TlbInvLive)'
  BY TypeStep, TlbStep
<1> QED
  BY <1>1, <1>2, PTL DEF Spec

LEMMA NeverStops ==
  ASSUME Careful, TablesWritable, TypeInv, TlbInv, out # <<"stopped">>, [Next]_vars
  PROVE  out' # <<"stopped">>
<1>1. ASSUME NEW va \in Vpns, NEW ac \in AccessTypes, NEW ctx \in Contexts,
             translateAddr(va, ac, ctx), out' = <<"stopped">>
      PROVE  FALSE
  <2> DEFINE e == tlb[tlb_hash(va)]
             w == Walk(asid, va)
  <2>1. asid \in Asids /\ ~Owes(asid, va)
    BY <1>1 DEF translateAddr, TypeInv, TypeOK
  <2>2. Hits(asid, va) /\ translate_TLB_hit(va, ac, ctx)
    <3>1. ASSUME ~Hits(asid, va) PROVE FALSE
      <4>1. MissFails \/ MissFills(w, update_PTE_Bits(w.pte, ac), va)
        BY <1>1, <3>1, MissCases DEF translateAddr
      <4> QED
        BY <1>1, <4>1 DEF MissFails, MissFills
    <3> QED
      BY <1>1, <3>1 DEF translateAddr
  <2>3. HitFails \/ HitAnswers(e, update_PTE_Bits(e.pte, ac), va)
    BY <2>2, HitCases
  <2>4. guard[e.slot[1]] # "rw"
    BY <1>1, <2>3 DEF HitFails, HitAnswers
  <2>5. Agrees(e, w, va, dirty_update)
    BY <2>1, <2>2, AgreesUnlessOwed
  <2>6. w \in Finds /\ w.slot = e.slot
    BY <2>5 DEF Agrees
  <2> HIDE DEF w
  <2>7. w.ok /\ w.slot \in Slots
    BY <2>6 DEF Finds
  <2>8. guard[w.slot[1]] # "none"
    BY <2>1, <2>7, WalkProper DEF w, Sound, TypeInv
  <2>9. w.slot[1] \in Nodes
    BY <2>7 DEF Slots
  <2> QED
    BY <2>4, <2>6, <2>8, <2>9 DEF TypeInv, Protections, TablesWritable, Guards
<1>2. CASE out' \in {<<>>, out}
  <2>1. <<>> # <<"stopped">>
    OBVIOUS
  <2> QED
    BY <1>2, <2>1
<1>3. \/ \E va \in Vpns, ac \in AccessTypes, ctx \in Contexts : translateAddr(va, ac, ctx)
      \/ out' \in {<<>>, out}
  BY DEF Next, SFENCE_VMA, WritePte, SetGuard, SwitchTo, vars
<1> QED
  BY <1>1, <1>2, <1>3

LEMMA LiveAlways ==
  ASSUME Careful, TablesWritable
  PROVE  Spec => [](TypeInv /\ TlbInv /\ out # <<"stopped">>)
<1>1. Init => out # <<"stopped">>
  BY DEF Init
<1>2. TypeInv /\ TlbInvLive /\ out # <<"stopped">> /\ [Next]_vars => (out # <<"stopped">>)'
  BY NeverStops DEF TlbInvLive
<1>3. TypeInv /\ TlbInvLive /\ out # <<"stopped">> => TypeInv /\ TlbInv /\ out # <<"stopped">>
  BY DEF TlbInvLive
<1> QED
  BY <1>1, <1>2, <1>3, TypeAlways, TlbAlways, PTL DEF Spec

\* For a program that waits for the fences it owes, maps global pages alike and
\* does not make its page tables read only, the TLB never answers but as a walk
\* would: the same page by the same entry, from a copy that lacks at most
\* accessed and dirty bits (translate_TLB_hit).
THEOREM TlbAlwaysAgrees ==
  ASSUME Careful, TablesWritable PROVE Spec => []TlbAgrees
<1>1. TypeInv /\ TlbInv => TlbAgrees
  <2> SUFFICES ASSUME TypeInv, TlbInv, NEW a \in Asids, NEW va \in Vpns,
                      Hits(a, va), ~Owes(a, va),
                      NEW e, e = tlb[tlb_hash(va)], NEW w, w = Walk(a, va)
               PROVE  /\ w.ok /\ w.slot = e.slot /\ w.level = e.level
                      /\ w.pa = e.pAddr + Offset(va, e.level) /\ w.pte.ppn = e.pte.ppn
                      /\ e.pte.bits \subseteq w.pte.bits
                      /\ w.pte.bits \ e.pte.bits \subseteq {"A", "D"}
    BY DEF TlbAgrees
  <2>1. Agrees(e, w, va, dirty_update)
    BY AgreesUnlessOwed
  <2>2. w.ok
    BY <2>1 DEF Agrees, Finds
  <2> QED
    BY <2>1, <2>2 DEF Agrees
<1> QED
  BY <1>1, LiveAlways, PTL

\* For such a program, whether or not its tables can be written, an access does
\* no more to them than set accessed and dirty bits: the copy a hit writes back
\* never undoes what the program or another access wrote (translate_TLB_hit,
\* translate_TLB_miss).
THEOREM AccessSetsBits ==
  ASSUME Careful PROVE Spec => AccessOnlySetsBits
<1>1. TypeInv /\ TlbInvLive /\ [Next]_vars =>
        [out' # <<>> => \A s \in Slots :
           /\ mem'[s].ppn = mem[s].ppn /\ mem[s].bits \subseteq mem'[s].bits
           /\ mem'[s].bits \ mem[s].bits \subseteq {"A", "D"}]_vars
  <2> SUFFICES ASSUME TypeInv, TlbInvLive, Next, out' # <<>>
               PROVE  \A s \in Slots :
                        /\ mem'[s].ppn = mem[s].ppn /\ mem[s].bits \subseteq mem'[s].bits
                        /\ mem'[s].bits \ mem[s].bits \subseteq {"A", "D"}
    OBVIOUS
  <2>1. PICK va \in Vpns, ac \in AccessTypes, ctx \in Contexts : translateAddr(va, ac, ctx)
    BY DEF Next, SFENCE_VMA, WritePte, SetGuard, SwitchTo
  <2>2. TlbInv
    BY <2>1 DEF TlbInvLive, translateAddr
  <2>3. Grows(mem, mem', dirty_update)
    BY <2>1, <2>2, AccessGrows
  <2> QED
    BY <2>3 DEF Grows
<1> QED
  BY <1>1, TypeAlways, TlbAlways, PTL DEF Spec, AccessOnlySetsBits

-----------------------------------------------------------------------------
(* The refinement: with the fences in place there is no TLB to be seen.    *)

\* The promise speaks of the same tables.
LEMMA SameTables ==
  /\ Promise!Span = Span /\ Promise!Vpns = Vpns /\ Promise!Slots = Slots
  /\ Promise!Pte = Pte /\ Promise!AccessTypes = AccessTypes /\ Promise!Guards = Guards
BY DEF Promise!Span, Span, Promise!Vpns, Vpns, Promise!Slots, Slots, Promise!Digits, Digits,
       Promise!Pte, Pte, Promise!PteBits, PteBits, Promise!AccessTypes, AccessTypes,
       Promise!Guards, Guards

LEMMA SameWalk ==
  ASSUME NEW m, NEW g, NEW va, NEW root
  PROVE  Promise!pt_walk(m, g, va, root) = pt_walk(m, g, va, root)
<1>1. ASSUME NEW n, NEW l, NEW x
      PROVE  Promise!pt_walk_from(m, g, va, n, l, x) = pt_walk_from(m, g, va, n, l, x)
  BY SameTables DEF Promise!pt_walk_from, pt_walk_from, Promise!vpn_j_of_va, vpn_j_of_va,
       Promise!pte_is_invalid, pte_is_invalid, Promise!pte_is_ptr, pte_is_ptr,
       Promise!Offset, Offset
<1>2. Promise!pt_walks(m, g, va) = pt_walks(m, g, va)
  <2> DEFINE A(f) == f = [l \in 0 .. Levels - 1 |->
                [n \in Nodes |-> Promise!pt_walk_from(m, g, va, n, l, f[l - 1])]]
             B(f) == f = [l \in 0 .. Levels - 1 |->
                [n \in Nodes |-> pt_walk_from(m, g, va, n, l, f[l - 1])]]
  <2>1. ASSUME NEW f PROVE A(f) <=> B(f)
    <3> DEFINE P(l) == [n \in Nodes |-> Promise!pt_walk_from(m, g, va, n, l, f[l - 1])]
               Q(l) == [n \in Nodes |-> pt_walk_from(m, g, va, n, l, f[l - 1])]
    <3>1. ASSUME NEW l PROVE P(l) = Q(l)
      BY <1>1
    <3>2. [l \in 0 .. Levels - 1 |-> P(l)] = [l \in 0 .. Levels - 1 |-> Q(l)]
      <4> HIDE DEF P, Q
      <4> QED
        BY <3>1
    <3> QED
      BY <3>2, Zenon
  <2>2. Promise!pt_walks(m, g, va) = (CHOOSE f : A(f)) /\ pt_walks(m, g, va) = (CHOOSE f : B(f))
    BY Zenon DEF Promise!pt_walks, pt_walks
  <2> HIDE DEF A, B
  <2> QED
    BY <2>1, <2>2, Zenon
<1> QED
  BY <1>2 DEF Promise!pt_walk, pt_walk

LEMMA SamePermission ==
  ASSUME NEW ac, NEW ctx, NEW bits, NEW p
  PROVE  /\ Promise!check_PTE_permission(ac, ctx, bits) = check_PTE_permission(ac, ctx, bits)
         /\ Promise!update_PTE_Bits(p, ac) = update_PTE_Bits(p, ac)
BY DEF Promise!check_PTE_permission, check_PTE_permission,
       Promise!update_PTE_Bits, update_PTE_Bits

\* Permissions do not depend on the bits in which a copy may lag behind.
LEMMA PermissionAlike ==
  ASSUME NEW ac, NEW ctx, NEW b, NEW c, b \subseteq c, c \ b \subseteq {"A", "D"}
  PROVE  check_PTE_permission(ac, ctx, b) <=> check_PTE_permission(ac, ctx, c)
<1>1. \A f \in {"U", "R", "W", "X"} : f \in b <=> f \in c
  OBVIOUS
<1> QED
  BY <1>1 DEF check_PTE_permission

\* What a hit writes is what the walk would have written.
LEMMA UpdateAlike ==
  ASSUME NEW e \in Pte, NEW p \in Pte, NEW ac, e.ppn = p.ppn, "A" \in e.bits,
         e.bits \subseteq p.bits, p.bits \ e.bits \subseteq {"A", "D"}
  PROVE  /\ update_PTE_Bits(e, ac) = e => update_PTE_Bits(p, ac) = p
         /\ update_PTE_Bits(e, ac) # e => update_PTE_Bits(p, ac) = update_PTE_Bits(e, ac)
<1> DEFINE new == IF ac \in {"Write", "ReadWrite"} THEN {"A", "D"} ELSE {"A"}
<1>1. ASSUME NEW x \in Pte
      PROVE  /\ update_PTE_Bits(x, ac) = [bits |-> x.bits \union new, ppn |-> x.ppn]
             /\ x = [bits |-> x.bits, ppn |-> x.ppn]
  BY DEF update_PTE_Bits, Pte
<1>2. CASE new \subseteq e.bits
  <2>1. e.bits \union new = e.bits /\ p.bits \union new = p.bits
    BY <1>2
  <2> HIDE DEF new
  <2> QED
    BY <1>1, <2>1
<1>3. CASE ~(new \subseteq e.bits)
  <2>1. new = {"A", "D"} /\ p.bits \union new = e.bits \union new /\ e.bits \union new # e.bits
    BY <1>3
  <2>2. update_PTE_Bits(e, ac).bits # e.bits
    BY <1>1, <2>1
  <2>3. update_PTE_Bits(p, ac) = update_PTE_Bits(e, ac)
    BY <1>1, <2>1
  <2> QED
    BY <2>2, <2>3
<1> QED
  BY <1>2, <1>3

LEMMA MissRefines ==
  ASSUME NEW va \in Vpns, NEW ac \in AccessTypes, NEW ctx \in Contexts,
         translate_TLB_miss(va, ac, ctx), UNCHANGED <<dirty_update, guard, asid>>
  PROVE  Promise!Access(va, ac, ctx)
BY SameWalk, SamePermission DEF translate_TLB_miss, Answer, Promise!Access

LEMMA HitRefines ==
  ASSUME TypeInv, TlbInv, NEW va \in Vpns, NEW ac \in AccessTypes, NEW ctx \in Contexts,
         Hits(asid, va), ~Owes(asid, va), translate_TLB_hit(va, ac, ctx),
         out' # <<"stopped">>, UNCHANGED <<dirty_update, guard, asid>>
  PROVE  Promise!Access(va, ac, ctx)
<1> DEFINE e == tlb[tlb_hash(va)]
           w == Walk(asid, va)
           q == update_PTE_Bits(e.pte, ac)
           new == update_PTE_Bits(w.pte, ac)
<1>1. Agrees(e, w, va, dirty_update) /\ asid \in Asids
  BY AgreesUnlessOwed DEF TypeInv, TypeOK
<1>2. tlb_hash(va) \in 0 .. NumTlb - 1 /\ e # None
  BY HashTyped DEF Hits
<1>3. e.pte \in Pte /\ "A" \in e.pte.bits
  <2>1. e \in TLB_Entry
    BY <1>2, EntryTyped
  <2> QED
    BY <1>2, <2>1 DEF TlbInv, TLB_Entry
<1>4. w \in Finds
  BY <1>1 DEF Agrees
<1>5. w.ok /\ w.pte \in Pte /\ w.slot \in Slots
  <2> HIDE DEF w
  <2> QED
    BY <1>4 DEF Finds
<1>6. w.pte = mem[w.slot]
  BY <1>1, <1>5, WalkProper DEF Sound, TypeInv
<1>7. /\ w.slot = e.slot /\ w.pa = e.pAddr + Offset(va, e.level) /\ w.pte.ppn = e.pte.ppn
      /\ e.pte.bits \subseteq w.pte.bits /\ w.pte.bits \ e.pte.bits \subseteq {"A", "D"}
      /\ (dirty_update \/ e.pte = w.pte)
  BY <1>1 DEF Agrees
<1>8. check_PTE_permission(ac, ctx, e.pte.bits) <=> check_PTE_permission(ac, ctx, w.pte.bits)
  BY <1>7, PermissionAlike
<1>9. (q = e.pte => new = w.pte) /\ (q # e.pte => new = q)
  BY <1>3, <1>5, <1>7, UpdateAlike
<1>10. IF ~check_PTE_permission(ac, ctx, e.pte.bits) THEN out' = <<"page">> /\ mem' = mem
       ELSE IF q = e.pte THEN out' = <<"pa", w.pa>> /\ mem' = mem
       ELSE IF ~dirty_update THEN out' = <<"page">> /\ mem' = mem
       ELSE guard[w.slot[1]] = "rw" /\ out' = <<"pa", w.pa>> /\ mem' = [mem EXCEPT ![w.slot] = q]
  BY <1>7 DEF translate_TLB_hit, Answer
<1>11. [mem EXCEPT ![w.slot] = w.pte] = mem
  BY <1>5, <1>6 DEF TypeInv, Tables
<1>12. IF ~check_PTE_permission(ac, ctx, w.pte.bits) THEN out' = <<"page">> /\ mem' = mem
       ELSE IF new = w.pte THEN out' = <<"pa", w.pa>> /\ mem' = mem
       ELSE IF ~dirty_update THEN out' = <<"page">> /\ mem' = mem
       ELSE guard[w.slot[1]] = "rw" /\ out' = <<"pa", w.pa>> /\ mem' = [mem EXCEPT ![w.slot] = new]
  <2> HIDE DEF w, q, new, e
  <2> QED
    BY <1>7, <1>8, <1>9, <1>10, <1>11
<1> QED
  BY <1>5, <1>12, SameWalk, SamePermission DEF Promise!Access, Walk

LEMMA StepRefines ==
  ASSUME Careful, TypeInv, TlbInv, [Next]_vars, out' # <<"stopped">>
  PROVE  [Promise!Next]_Promise!vars
<1> USE SameTables
<1>1. ASSUME NEW va \in Vpns, NEW ac \in AccessTypes, NEW ctx \in Contexts,
             translateAddr(va, ac, ctx)
      PROVE  Promise!Next
  <2>1. UNCHANGED <<dirty_update, guard, asid>> /\ ~Owes(asid, va)
    BY <1>1 DEF translateAddr
  <2>2. Promise!Access(va, ac, ctx)
    BY <1>1, <2>1, MissRefines, HitRefines DEF translateAddr
  <2> QED
    BY <2>2 DEF Promise!Next
<1>2. ASSUME NEW a, NEW v, SFENCE_VMA(a, v) PROVE Promise!Next
  BY <1>2 DEF SFENCE_VMA, Promise!Next, Promise!Fence
<1>3. ASSUME NEW slot \in Slots, NEW pte \in Choices[slot], WritePte(slot, pte) PROVE Promise!Next
  <2>1. Promise!WritePte(slot, pte)
    BY <1>3 DEF WritePte, Promise!WritePte
  <2> QED
    BY <2>1 DEF Promise!Next
<1>4. ASSUME NEW node \in Nodes, NEW g \in GuardChoices[node], SetGuard(node, g) PROVE Promise!Next
  <2>1. Promise!SetGuard(node, g) /\ g \in Guards
    BY <1>4, VmemAssumption DEF SetGuard, Promise!SetGuard
  <2> QED
    BY <2>1 DEF Promise!Next
<1>5. ASSUME NEW a \in Asids, SwitchTo(a) PROVE Promise!Next
  <2>1. Promise!SwitchTo(a)
    BY <1>5 DEF SwitchTo, Promise!SwitchTo
  <2> QED
    BY <2>1 DEF Promise!Next, Asids
<1>6. CASE UNCHANGED vars
  BY <1>6 DEF vars, Promise!vars
<1> QED
  BY <1>1, <1>2, <1>3, <1>4, <1>5, <1>6 DEF Next

\* Such a program cannot tell that there is a TLB: every access is answered, and
\* leaves the tables, as if it had been translated by the walk alone (the TLB
\* note of riscv_vmem.sail).
THEOREM VmemImplementsMmu ==
  ASSUME Careful, TablesWritable PROVE Spec => ImplementsMmu
<1>1. Init => Promise!Init
  BY TypeInit, SameTables
  DEF Init, Promise!Init, TypeInv, Tables, Protections, Asids
<1>2. /\ TypeInv /\ TlbInv /\ out # <<"stopped">>
      /\ (TypeInv /\ TlbInv /\ out # <<"stopped">>)' /\ [Next]_vars
      => [Promise!Next]_Promise!vars
  BY StepRefines
<1> QED
  BY <1>1, <1>2, LiveAlways, PTL DEF Spec, ImplementsMmu, Promise!Spec

-----------------------------------------------------------------------------
\* After sfence.vma of an address, or of an address space, no entry of that
\* address space in any place of the TLB translates it: superpages, which the
\* TLB keeps in the place of every address that used them, are no exception.
THEOREM FenceReachesAll == Spec => FenceReaches
<1>1. ASSUME NEW a \in Asids, NEW v \in Vpns \union {None}, SFENCE_VMA(a, v),
             NEW i \in DOMAIN tlb', NEW u \in Vpns, Survives(tlb'[i], a, v, u)
      PROVE  FALSE
  <2>1. tlb'[i] = tlb[i] /\ ~flush_TLB_Entry(tlb[i], a, v)
    BY <1>1, LeftByFence DEF Survives
  <2>2. a # None
    BY VmemAssumption DEF Asids
  <2>3. tlb[i].asid # a \/ (v # None /\ tlb[i].vAddr # Base(v, tlb[i].level))
    BY <1>1, <2>1, <2>2 DEF flush_TLB_Entry, Survives
  <2>4. QED
    BY <1>1, <2>1, <2>3 DEF match_TLB_Entry, Survives
<1>2. \A a \in Asids, v \in Vpns \union {None} : SFENCE_VMA(a, v) =>
        \A i \in DOMAIN tlb', u \in Vpns : ~Survives(tlb'[i], a, v, u)
  BY <1>1
<1>3. QED
  BY <1>2, PTL DEF Spec, FenceReaches
=============================================================================

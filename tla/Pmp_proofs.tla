----------------------------- MODULE Pmp_proofs -----------------------------
(***************************************************************************)
(* Proofs about PmpRegs and Pmp: what holds of physical memory protection  *)
(* for any number of entries, any grain and any values software writes.    *)
(***************************************************************************)
EXTENDS Pmp, Arithmetic_proofs, TLAPS, FiniteSetTheorems


LEMMA LegalByte ==
  ASSUME NEW v \in Pmpcfg_ent
  PROVE  Legal(v) \in Pmpcfg_ent
  BY DEF Legal, Pmpcfg_ent, AddrMatchType

LEMMA LegalMode ==
  ASSUME NEW v \in Pmpcfg_ent, grain \in Nat, Legal(v).A = "NA4"
  PROVE  grain = 0
  BY DEF Legal, Pmpcfg_ent, AddrMatchType

LEMMA ResetByte ==
  AfterReset \in [Entries -> Pmpcfg_ent]
  BY DEF AfterReset, Pmpcfg_ent, AddrMatchType

LEMMA WrittenBytes ==
  ASSUME NEW k \in Entries, NEW bytes \in [0 .. PerCsr - 1 -> Bytes],
         NEW n \in Entries
  PROVE  bytes[n % PerCsr] \in Pmpcfg_ent
  <1>1. n % PerCsr \in 0 .. PerCsr - 1
    BY PmpAssumption DEF Entries
  <1>2. QED
    BY <1>1, PmpAssumption

\* The registers keep their types, for every value of the constants.
THEOREM TypeCorrect == Spec => []TypeOK
  <1>1. Init => TypeOK
    BY ResetByte DEF Init, TypeOK
  <1>2. TypeOK /\ [Next]_vars => TypeOK'
    <2> SUFFICES ASSUME TypeOK, [Next]_vars
                 PROVE  TypeOK'
      OBVIOUS
    <2>1. ASSUME NEW k \in Entries, NEW bytes \in [0 .. PerCsr - 1 -> Bytes],
                 pmpWriteCfgReg(k, bytes)
          PROVE  TypeOK'
      <3>1. \A n \in Entries : bytes[n % PerCsr] \in Pmpcfg_ent
        BY WrittenBytes
      <3>2. \A n \in Entries : pmpWriteCfg(pmpcfg_n[n], bytes[n % PerCsr]) \in Pmpcfg_ent
        BY <3>1, LegalByte DEF TypeOK, pmpWriteCfg
      <3>3. QED
        BY <2>1, <3>2 DEF TypeOK, pmpWriteCfgReg
    <2>2. ASSUME NEW n \in Entries, NEW v \in Addrs, pmpWriteAddrReg(n, v)
          PROVE  TypeOK'
      <3>1. v % AddrSpan \in Nat
        BY PmpAssumption, PowerAssumption DEF AddrSpan
      <3>2. QED
        BY <2>2, <3>1 DEF TypeOK, pmpWriteAddrReg
    <2>3. CASE Reset
      BY <2>3, ResetByte DEF TypeOK, Reset
    <2>4. CASE UNCHANGED vars
      BY <2>4 DEF TypeOK, vars
    <2>5. QED
      BY <2>1, <2>2, <2>3, <2>4 DEF Next
  <1>3. QED
    BY <1>1, <1>2, PTL DEF Spec

\* pmpAddrRange never meets an NA4 entry on a platform with a grain, so its
\* assertion can not fail.
THEOREM Na4Unselectable == Spec => []NoNa4WithGrain
  <1>1. Init => NoNa4WithGrain
    BY DEF Init, NoNa4WithGrain, AfterReset
  <1>2. TypeOK /\ NoNa4WithGrain /\ [Next]_vars => NoNa4WithGrain'
    <2> SUFFICES ASSUME TypeOK, NoNa4WithGrain, [Next]_vars
                 PROVE  NoNa4WithGrain'
      OBVIOUS
    <2> grain \in Nat
      BY PmpAssumption DEF TypeOK
    <2>1. ASSUME NEW k \in Entries, NEW bytes \in [0 .. PerCsr - 1 -> Bytes],
                 pmpWriteCfgReg(k, bytes)
          PROVE  NoNa4WithGrain'
      <3> SUFFICES ASSUME NEW n \in Entries, pmpcfg_n'[n].A = "NA4"
                   PROVE  grain = 0
        BY <2>1 DEF NoNa4WithGrain, pmpWriteCfgReg
      <3>1. CASE pmpcfg_n'[n] = pmpcfg_n[n]
        BY <3>1 DEF NoNa4WithGrain
      <3>2. CASE pmpcfg_n'[n] = Legal(bytes[n % PerCsr])
        BY <3>2, WrittenBytes, LegalMode
      <3>3. QED
        BY <2>1, <3>1, <3>2 DEF pmpWriteCfgReg, pmpWriteCfg
    <2>2. ASSUME NEW n \in Entries, NEW v \in Addrs, pmpWriteAddrReg(n, v)
          PROVE  NoNa4WithGrain'
      BY <2>2 DEF NoNa4WithGrain, pmpWriteAddrReg
    <2>3. CASE Reset
      BY <2>3 DEF NoNa4WithGrain, Reset, AfterReset
    <2>4. CASE UNCHANGED vars
      BY <2>4 DEF NoNa4WithGrain, vars
    <2>5. QED
      BY <2>1, <2>2, <2>3, <2>4 DEF Next
  <1>3. QED
    BY <1>1, <1>2, TypeCorrect, PTL DEF Spec

\* One step short of a reset freezes whatever is locked.
LEMMA StepFreezes ==
  ASSUME TypeOK, [Next]_vars, ~Reset,
         NEW n \in Entries, pmpLocked(pmpcfg_n[n])
  PROVE  Frozen(n)
  <1>1. ASSUME NEW k \in Entries, NEW bytes \in [0 .. PerCsr - 1 -> Bytes],
               pmpWriteCfgReg(k, bytes)
        PROVE  Frozen(n)
    BY <1>1 DEF pmpWriteCfgReg, pmpWriteCfg, Frozen
  <1>2. ASSUME NEW m \in Entries, NEW v \in Addrs, pmpWriteAddrReg(m, v)
        PROVE  Frozen(n)
    <2>1. pmpaddr_n'[n] = pmpaddr_n[n]
      BY <1>2 DEF TypeOK, pmpWriteAddrReg, AddrLocked
    <2>2. ASSUME pmpcfg_n[n].A = "TOR", n > 0
          PROVE  pmpaddr_n'[n - 1] = pmpaddr_n[n - 1]
      <3>1. n - 1 \in Entries /\ (n - 1) + 1 = n
        BY <2>2, PmpAssumption DEF Entries
      <3>2. AddrLocked(n - 1)
        BY <3>1, <2>2 DEF AddrLocked, pmpTORLocked, pmpLocked
      <3>3. QED
        BY <1>2, <3>1, <3>2 DEF TypeOK, pmpWriteAddrReg
    <2>3. QED
      BY <1>2, <2>1, <2>2 DEF Frozen, pmpWriteAddrReg
  <1>3. CASE UNCHANGED vars
    BY <1>3 DEF vars, Frozen
  <1>4. QED
    BY <1>1, <1>2, <1>3 DEF Next

\* Nothing that pins down a locked entry changes before the next reset.
THEOREM LocksHold == Spec => LockedStays
  <1>1. TypeOK /\ [Next]_vars
          => [Reset \/ \A n \in Entries : pmpLocked(pmpcfg_n[n]) => Frozen(n)]_vars
    BY StepFreezes
  <1>2. QED
    BY <1>1, TypeCorrect, PTL DEF Spec, LockedStays

-----------------------------------------------------------------------------
(* What a locked entry covers.                                             *)

\* Clearing or setting bits below those of a granule leaves the granule.
LEMMA LowBits ==
  ASSUME NEW a \in Nat, NEW p \in Nat \ {0}
  PROVE  /\ ((a \div p) * p) \div p = a \div p
         /\ ((a \div p) * p + p - 1) \div p = a \div p
         /\ ((a \div p) * p + p - 1) \div (2 * p) = a \div (2 * p)
<1> DEFINE d == a \div p
           q == a \div (2 * p)
           r == a % (2 * p)
<1>1. d \in Nat /\ q \in Nat /\ r \in 0 .. 2 * p - 1 /\ 2 * p \in Nat \ {0}
      /\ a = (2 * p) * q + r
  <2>1. d \in Nat
    BY Division
  <2> DEFINE m == 2 * p
  <2>2. m \in Nat \ {0}
    OBVIOUS
  <2> HIDE DEF d, m
  <2>3. a \div m \in Nat /\ a % m \in 0 .. m - 1 /\ a = m * (a \div m) + (a % m)
    BY <2>2, Division
  <2> QED
    BY <2>1, <2>2, <2>3 DEF m
<1>2. d * p \in Nat /\ d * p + p - 1 \in Nat
  BY <1>1
<1>3. (d * p) \div p = d /\ (d * p + p - 1) \div p = d
  <2> HIDE DEF d
  <2> DEFINE x == d * p
             y == d * p + p - 1
  <2>1. x = p * d + 0 /\ 0 \in 0 .. p - 1 /\ x \in Nat /\ d \in Nat
    BY <1>1, <1>2
  <2>2. y = p * d + (p - 1) /\ p - 1 \in 0 .. p - 1 /\ y \in Nat
    BY <1>1, <1>2
  <2> HIDE DEF x, y
  <2>3. x \div p = d
    BY <2>1, DivisionUnique
  <2>4. y \div p = d
    BY <2>1, <2>2, DivisionUnique
  <2> QED
    BY <2>3, <2>4 DEF x, y
<1>4. (d * p + p - 1) \div (2 * p) = q
  <2>1. CASE r < p
    <3> HIDE DEF q, r
    <3>1. a = p * (2 * q) + r /\ r \in 0 .. p - 1 /\ 2 * q \in Nat
      BY <1>1, <2>1
    <3>2. d = 2 * q
      BY <3>1, DivisionUnique
    <3> HIDE DEF d
    <3>3. d * p + p - 1 = (2 * p) * q + (p - 1) /\ p - 1 \in 0 .. 2 * p - 1
      BY <1>1, <3>2
    <3> QED
      BY <1>1, <1>2, <3>3, DivisionUnique
  <2>2. CASE r >= p
    <3> HIDE DEF q, r
    <3>1. a = p * (2 * q + 1) + (r - p) /\ r - p \in 0 .. p - 1 /\ 2 * q + 1 \in Nat
      BY <1>1, <2>2
    <3>2. d = 2 * q + 1
      BY <3>1, DivisionUnique
    <3> HIDE DEF d
    <3>3. d * p + p - 1 = (2 * p) * q + (2 * p - 1) /\ 2 * p - 1 \in 0 .. 2 * p - 1
      BY <1>1, <3>2
    <3> QED
      BY <1>1, <1>2, <3>3, DivisionUnique
  <2> QED
    BY <1>1, <2>1, <2>2
<1> QED
  BY <1>3, <1>4

\* The bits that the grain decides about are those of a granule.
LEMMA GrainBits ==
  ASSUME NEW a \in Nat, NEW g \in Nat
  PROVE  LET granule == 2 ^ Lesser(g, XLen)
         IN  /\ LowZeros(a, Lesser(g, XLen)) \div granule = a \div granule
             /\ g >= 2 => LowOnes(a, Lesser(g - 1, XLen)) \div granule = a \div granule
<1> DEFINE k == Lesser(g, XLen)
           j == Lesser(g - 1, XLen)
<1>1. k \in 0 .. XLen /\ 2 ^ k \in Nat \ {0}
  BY PmpAssumption, PowerAssumption DEF Lesser
<1>2. LowZeros(a, k) \div 2 ^ k = a \div 2 ^ k
  BY <1>1, LowBits DEF LowZeros
<1>3. ASSUME g >= 2 PROVE LowOnes(a, j) \div 2 ^ k = a \div 2 ^ k
  <2>1. j \in 0 .. XLen /\ (k = j \/ k = j + 1)
    BY <1>3, PmpAssumption DEF Lesser
  <2> HIDE DEF k, j
  <2>2. 2 ^ j \in Nat \ {0} /\ (2 ^ k = 2 ^ j \/ 2 ^ k = 2 * 2 ^ j)
    BY <2>1, PowerAssumption
  <2>3. LowOnes(a, j) = (a \div 2 ^ j) * 2 ^ j + 2 ^ j - 1
    BY DEF LowOnes, LowZeros
  <2> DEFINE p == 2 ^ j
  <2>4. p \in Nat \ {0} /\ (2 ^ k = p \/ 2 ^ k = 2 * p)
        /\ LowOnes(a, j) = (a \div p) * p + p - 1
    BY <2>2, <2>3
  <2> HIDE DEF p
  <2> QED
    BY <2>4, LowBits
<1> QED
  BY <1>2, <1>3

\* Until reset the words a locked entry is about stay the same: its mode and both
\* of its bounds are locked with it (pmpWriteCfg, pmpWriteAddr), also the lower one,
\* which belongs to the entry below.  Software may still change that entry's mode, and
\* with it the bits of the bound that count, which the grain hides from the bound's
\* granule (pmpReadAddrReg).
THEOREM LockedRegions == Spec => LockedRegion
<1>1. ASSUME TypeOK, [Next]_vars, ~Reset, NEW n \in Entries, pmpLocked(pmpcfg_n[n])
      PROVE  LET granule == 2 ^ Lesser(grain, XLen)
             IN  /\ pmpAddrRange(n).hi' = pmpAddrRange(n).hi
                 /\ pmpAddrRange(n).lo' \div granule = pmpAddrRange(n).lo \div granule
  <2> DEFINE granule == 2 ^ Lesser(grain, XLen)
  <2>1. Frozen(n)
    BY <1>1, StepFreezes
  <2>2. grain' = grain
    BY <1>1 DEF Next, pmpWriteCfgReg, pmpWriteAddrReg, Reset, vars
  <2>3. pmpcfg_n'[n] = pmpcfg_n[n] /\ pmpReadAddrReg(n)' = pmpReadAddrReg(n)
    BY <1>1, <2>1, <2>2 DEF Frozen, pmpReadAddrReg
  <2>4. CASE pmpcfg_n[n].A # "TOR"
    <3>1. pmpAddrRange(n)' = pmpAddrRange(n)
      BY <2>3, <2>4 DEF pmpAddrRange
    <3> QED
      BY <3>1
  <2>5. CASE pmpcfg_n[n].A = "TOR"
    <3>1. /\ pmpAddrRange(n) = [lo |-> PrevAddr(n), hi |-> pmpReadAddrReg(n)]
          /\ pmpAddrRange(n)' = [lo |-> PrevAddr(n)', hi |-> pmpReadAddrReg(n)']
      BY <2>3, <2>5 DEF pmpAddrRange
    <3>2. PrevAddr(n)' \div granule = PrevAddr(n) \div granule
      <4>1. CASE n = 0
        BY <4>1 DEF PrevAddr
      <4>2. CASE n # 0
        <5>1. n - 1 \in Entries /\ n > 0
          BY <4>2, PmpAssumption DEF Entries
        <5>2. pmpaddr_n'[n - 1] = pmpaddr_n[n - 1] /\ pmpaddr_n[n - 1] \in Nat /\ grain \in Nat
          BY <1>1, <2>1, <2>5, <5>1, PmpAssumption DEF TypeOK, Frozen
        <5> DEFINE a == pmpaddr_n[n - 1]
        <5>3. /\ LowZeros(a, Lesser(grain, XLen)) \div granule = a \div granule
              /\ grain >= 2 => LowOnes(a, Lesser(grain - 1, XLen)) \div granule = a \div granule
          BY <5>2, GrainBits
        <5>4. PrevAddr(n) \div granule = a \div granule
          BY <5>1, <5>3 DEF PrevAddr, pmpReadAddrReg
        <5>5. PrevAddr(n)' \div granule = a \div granule
          BY <2>2, <5>1, <5>2, <5>3 DEF PrevAddr, pmpReadAddrReg
        <5> QED
          BY <5>4, <5>5
      <4> QED
        BY <4>1, <4>2
    <3> QED
      BY <2>3, <3>1, <3>2
  <2> QED
    BY <2>4, <2>5
<1>2. TypeOK /\ [Next]_vars =>
        [Reset \/ \A n \in Entries : pmpLocked(pmpcfg_n[n]) =>
           LET granule == 2 ^ Lesser(grain, XLen)
           IN  /\ pmpAddrRange(n).hi' = pmpAddrRange(n).hi
               /\ pmpAddrRange(n).lo' \div granule = pmpAddrRange(n).lo \div granule]_vars
  BY <1>1
<1> QED
  BY <1>2, TypeCorrect, PTL DEF Spec, LockedRegion

\* How an access meets an entry.
Meets(m, addr, width) == pmpMatchAddr(addr, width, pmpAddrRange(m))

Met(addr, width) == {m \in Entries : Meets(m, addr, width) # "NoMatch"}

\* The search of pmpCheck, without its local names.
Searched ==
  \A addr, width, acc, priv :
    pmpCheck(addr, width, acc, priv) =
      IF Met(addr, width) = {} THEN priv = "Machine"
      ELSE /\ Meets(Min(Met(addr, width)), addr, width) = "Match"
           /\ pmpCheckPerms(pmpcfg_n[Min(Met(addr, width))], acc, priv)

LEMMA CheckSearches == Searched
BY DEF Searched, pmpCheck, Met, Meets

\* What the entries that are locked decide, nothing that is written behind them
\* changes until reset (pmpCheck): they keep their configuration and addresses, each
\* has its lower neighbour locked with it, and the first that meets an access counts.
THEOREM LockedEntriesDecide == Spec => LockedDecisions
<1>1. ASSUME TypeOK, [Next]_vars, ~Reset, NEW addr, NEW width, LockedFor(addr, width),
             NEW acc, NEW priv
      PROVE  pmpCheck(addr, width, acc, priv)' = pmpCheck(addr, width, acc, priv)
  <2>1. PICK n \in Entries :
          /\ \A m \in 0 .. n : pmpLocked(pmpcfg_n[m])
          /\ pmpMatchAddr(addr, width, pmpAddrRange(n)) # "NoMatch"
    BY <1>1 DEF LockedFor
  <2>2. grain' = grain
    BY <1>1 DEF Next, pmpWriteCfgReg, pmpWriteAddrReg, Reset, vars
  <2>3. ASSUME NEW m \in 0 .. n
        PROVE  pmpcfg_n'[m] = pmpcfg_n[m] /\ pmpAddrRange(m)' = pmpAddrRange(m)
    <3>1. m \in Entries /\ (m > 0 => m - 1 \in Entries /\ m - 1 \in 0 .. n)
      BY PmpAssumption DEF Entries
    <3>2. Frozen(m) /\ (m > 0 => Frozen(m - 1))
      BY <1>1, <2>1, <3>1, StepFreezes
    <3>3. pmpReadAddrReg(m)' = pmpReadAddrReg(m) /\ pmpcfg_n'[m] = pmpcfg_n[m]
      BY <2>2, <3>2 DEF Frozen, pmpReadAddrReg
    <3>4. PrevAddr(m)' = PrevAddr(m)
      BY <2>2, <3>2 DEF Frozen, pmpReadAddrReg, PrevAddr
    <3> QED
      BY <3>3, <3>4 DEF pmpAddrRange
  <2> DEFINE D == Met(addr, width)
             E == Met(addr, width)'
  <2>4. \A m \in 0 .. n : Meets(m, addr, width)' = Meets(m, addr, width)
    BY <2>3 DEF Meets, pmpMatchAddr
  <2>5. n \in D /\ n \in E /\ n \in 0 .. n
    BY <2>1, <2>4, PmpAssumption DEF Entries, Meets, Met
  <2>6. PICK d \in D : \A m \in D : d =< m
    <3>1. D \in SUBSET Nat /\ D # {}
      BY <2>5, PmpAssumption DEF Entries, Met
    <3> QED
      BY <3>1, LeastMember
  <2>7. d \in 0 .. n /\ d \in E /\ \A m \in E : d =< m
    <3>1. d \in 0 .. n
      BY <2>5, <2>6, PmpAssumption DEF Entries, Met
    <3>2. d \in E
      BY <2>4, <2>6, <3>1, PmpAssumption DEF Entries, Met
    <3>3. ASSUME NEW m \in E PROVE d =< m
      <4>1. m \in Nat /\ n \in Nat
        BY PmpAssumption DEF Entries, Met
      <4>2. CASE m \in 0 .. n
        BY <2>4, <2>6, <3>3, <4>2 DEF Met
      <4>3. CASE m \notin 0 .. n
        BY <3>1, <4>1, <4>3
      <4> QED
        BY <4>2, <4>3
    <3> QED
      BY <3>1, <3>2, <3>3
  <2>8. D \subseteq Nat /\ E \subseteq Nat
    BY PmpAssumption DEF Entries, Met
  <2>9. Min(D) = d /\ Min(E) = d
    <3>1. ASSUME NEW T, T \subseteq Nat, d \in T, \A m \in T : d =< m PROVE Min(T) = d
      <4>1. Min(T) \in T /\ \A m \in T : Min(T) =< m
        BY <3>1 DEF Min
      <4> DEFINE e == Min(T)
      <4>2. e \in T /\ \A m \in T : e =< m
        BY <4>1
      <4> HIDE DEF e
      <4>3. e \in Nat /\ d \in Nat /\ d =< e /\ e =< d
        BY <3>1, <4>2
      <4> QED
        BY <4>3 DEF e
    <3> QED
      BY <2>6, <2>7, <2>8, <3>1
  <2>10. Searched /\ Searched'
    BY CheckSearches, PTL
  <2>11. /\ pmpCheck(addr, width, acc, priv) =
               (Meets(d, addr, width) = "Match" /\ pmpCheckPerms(pmpcfg_n[d], acc, priv))
         /\ pmpCheck(addr, width, acc, priv)' =
               (Meets(d, addr, width)' = "Match" /\ pmpCheckPerms(pmpcfg_n'[d], acc, priv))
    BY <2>5, <2>9, <2>10 DEF Searched
  <2> QED
    BY <2>3, <2>4, <2>7, <2>11
<1>2. TypeOK /\ [Next]_vars =>
        [Reset \/ \A r \in Requests : LockedFor(r[1], r[2]) =>
           \A acc \in {"Read", "Write", "ReadWrite", "Execute"}, priv \in {"User", "Machine"} :
             pmpCheck(r[1], r[2], acc, priv)' = pmpCheck(r[1], r[2], acc, priv)]_vars
  BY <1>1
<1> QED
  BY <1>2, TypeCorrect, PTL DEF Spec, LockedDecisions

-----------------------------------------------------------------------------
(* Arithmetic.                                                             *)

LEMMA PowerTyped == \A k \in 0 .. XLen + 1 : 2 ^ k \in Nat \ {0}
<1>1. ASSUME NEW k \in 0 .. XLen + 1 PROVE 2 ^ k \in Nat \ {0}
  <2>1. CASE k =< XLen
    BY <2>1, PmpAssumption, PowerAssumption
  <2>2. CASE k = XLen + 1
    <3>1. XLen \in 0 .. XLen
      BY PmpAssumption
    <3>2. 2 ^ (XLen + 1) = 2 * 2 ^ XLen /\ 2 ^ XLen \in Nat \ {0}
      BY <3>1, PowerAssumption
    <3> QED
      BY <2>2, <3>2
  <2> QED
    BY <2>1, <2>2, PmpAssumption
<1> QED
  BY <1>1

LEMMA PowerSplits ==
  ASSUME NEW j \in 0 .. XLen + 1, NEW k \in j .. XLen + 1
  PROVE  2 ^ k = 2 ^ j * 2 ^ (k - j)
<1> DEFINE G == {i \in 0 .. XLen + 1 - j : 2 ^ (j + i) = 2 ^ j * 2 ^ i}
<1>0. XLen \in Nat /\ XLen + 1 - j \in Nat /\ 2 ^ j \in Nat
  BY PmpAssumption, PowerTyped
<1>1. 0 \in G
  <2>1. 2 ^ 0 = 1 /\ j + 0 = j
    BY PowerAssumption, <1>0
  <2>2. 2 ^ j = 2 ^ j * 1
    BY <1>0
  <2> QED
    BY <1>0, <2>1, <2>2
<1>2. ASSUME NEW i \in 0 .. XLen + 1 - j - 1, i \in G PROVE i + 1 \in G
  <2>1. j + i \in 0 .. XLen /\ i \in 0 .. XLen /\ j + (i + 1) = (j + i) + 1
        /\ i + 1 \in 0 .. XLen + 1 - j
    BY <1>0
  <2>2. 2 ^ (j + i + 1) = 2 * 2 ^ (j + i) /\ 2 ^ (i + 1) = 2 * 2 ^ i
    BY <2>1, PowerAssumption
  <2>3. 2 ^ i \in Nat
    BY <2>1, PowerAssumption
  <2>4. ASSUME NEW x \in Nat, NEW y \in Nat PROVE 2 * (x * y) = x * (2 * y)
    OBVIOUS
  <2>5. 2 * (2 ^ j * 2 ^ i) = 2 ^ j * (2 * 2 ^ i)
    BY <1>0, <2>3, <2>4
  <2>6. 2 ^ (j + i) = 2 ^ j * 2 ^ i
    BY <1>2
  <2>7. 2 ^ (j + (i + 1)) = 2 ^ j * 2 ^ (i + 1)
    BY <2>1, <2>2, <2>5, <2>6
  <2> QED
    BY <2>1, <2>7
<1> HIDE DEF G
<1>3. k - j \in 0 .. XLen + 1 - j /\ j + (k - j) = k
  BY <1>0
<1>4. k - j \in G
  BY <1>0, <1>1, <1>2, <1>3, UpTo
<1> QED
  BY <1>3, <1>4 DEF G

LEMMA PowerGrows ==
  ASSUME NEW j \in 0 .. XLen + 1, NEW k \in j .. XLen + 1
  PROVE  2 ^ j =< 2 ^ k
<1>1. k - j \in 0 .. XLen + 1 /\ k \in 0 .. XLen + 1
  BY PmpAssumption
<1>2. 2 ^ j \in Nat \ {0} /\ 2 ^ (k - j) \in Nat \ {0}
  BY <1>1, PowerTyped
<1>3. ASSUME NEW x \in Nat \ {0}, NEW y \in Nat \ {0} PROVE x =< x * y
  OBVIOUS
<1> QED
  BY <1>2, <1>3, PowerSplits

\* Half of twice a remainder.
LEMMA NextBit ==
  ASSUME NEW a \in Nat, NEW n \in Nat \ {0}
  PROVE  \/ (a \div n) % 2 = 0 /\ a % (2 * n) = a % n
         \/ (a \div n) % 2 = 1 /\ a % (2 * n) = n + (a % n)
<1> DEFINE q == a \div n
           r == a % n
           h == q \div 2
           b == q % 2
<1>1. q \in Nat /\ r \in 0 .. n - 1 /\ a = n * q + r
  BY Division
<1>2. h \in Nat /\ b \in {0, 1} /\ q = 2 * h + b
  BY <1>1, Division
<1> HIDE DEF q, r, h, b
<1>3. /\ n * q = (2 * n) * h + n * b /\ n * 0 = 0 /\ n * 1 = n
      /\ n * q \in Nat /\ (2 * n) * h \in Nat /\ n * b \in Nat
  BY <1>2
<1>4. CASE b = 0
  <2>0. n * b = 0
    BY <1>3, <1>4
  <2>1. a = (2 * n) * h + r /\ r \in 0 .. 2 * n - 1 /\ 2 * n \in Nat \ {0}
    BY <1>1, <1>3, <2>0
  <2>2. a % (2 * n) = r
    BY <1>2, <2>1, DivisionUnique
  <2> QED
    BY <1>4, <2>2, Zenon DEF q, r, b
<1>5. CASE b = 1
  <2>0. n * b = n
    BY <1>3, <1>5
  <2>1. a = (2 * n) * h + (n + r) /\ n + r \in 0 .. 2 * n - 1 /\ 2 * n \in Nat \ {0}
    BY <1>1, <1>3, <2>0
  <2>2. a % (2 * n) = n + r
    BY <1>2, <2>1, DivisionUnique
  <2> QED
    <3>1. (a \div n) % 2 = 1
      BY <1>5 DEF q, b
    <3>2. a % (2 * n) = n + (a % n)
      BY <2>2 DEF r
    <3> QED
      BY <3>1, <3>2
<1> QED
  BY <1>2, <1>4, <1>5

\* An address ends in some number of ones.
Ends(a, t) == a % 2 ^ (t + 1) = 2 ^ t - 1

LEMMA SomeEnd ==
  ASSUME NEW a \in 0 .. 2 ^ AddrBits - 1
  PROVE  \E t \in 0 .. AddrBits : Ends(a, t)
<1> DEFINE G == {k \in 0 .. AddrBits + 1 :
                   (\E t \in 0 .. k - 1 : Ends(a, t)) \/ a % 2 ^ k = 2 ^ k - 1}
<1>0. /\ AddrBits \in Nat /\ AddrBits + 1 \in Nat /\ XLen \in Nat /\ AddrBits =< XLen
      /\ 2 ^ AddrBits \in Nat \ {0} /\ a \in Nat
  BY PmpAssumption, PowerAssumption
<1>1. 0 \in G
  <2>1. 2 ^ 0 = 1 /\ a % 1 = 0
    BY <1>0, PowerAssumption
  <2> QED
    BY <1>0, <2>1
<1>2. ASSUME NEW k \in 0 .. AddrBits + 1 - 1, k \in G PROVE k + 1 \in G
  <2>1. k \in 0 .. AddrBits /\ k \in 0 .. XLen /\ k + 1 \in 0 .. AddrBits + 1
        /\ 0 .. k - 1 \subseteq 0 .. (k + 1) - 1 /\ k \in 0 .. (k + 1) - 1
    BY <1>0
  <2>2. 2 ^ k \in Nat \ {0} /\ 2 ^ (k + 1) = 2 * 2 ^ k
    BY <2>1, PowerAssumption
  <2>3. CASE \E t \in 0 .. k - 1 : Ends(a, t)
    BY <2>1, <2>3
  <2>4. CASE a % 2 ^ k = 2 ^ k - 1
    <3>1. a % (2 * 2 ^ k) = a % 2 ^ k \/ a % (2 * 2 ^ k) = 2 ^ k + (a % 2 ^ k)
      BY <1>0, <2>2, NextBit, Zenon
    <3>2. CASE a % (2 * 2 ^ k) = a % 2 ^ k
      <4>1. Ends(a, k)
        BY <2>2, <2>4, <3>2, Zenon DEF Ends
      <4> QED
        BY <2>1, <4>1
    <3>3. CASE a % (2 * 2 ^ k) = 2 ^ k + (a % 2 ^ k)
      <4>1. a % 2 ^ (k + 1) = 2 ^ (k + 1) - 1
        <5>1. a % 2 ^ (k + 1) = 2 ^ k + (2 ^ k - 1)
          BY <2>2, <2>4, <3>3
        <5> QED
          BY <2>2, <5>1
      <4> QED
        BY <2>1, <4>1
    <3> QED
      BY <3>1, <3>2, <3>3
  <2> QED
    BY <1>2, <2>3, <2>4
<1> HIDE DEF G
<1>3. AddrBits + 1 \in G
  BY <1>0, <1>1, <1>2, UpTo
<1>4. a % 2 ^ (AddrBits + 1) # 2 ^ (AddrBits + 1) - 1
  <2>1. AddrBits \in 0 .. XLen
    BY <1>0
  <2>2. 2 ^ (AddrBits + 1) = 2 * 2 ^ AddrBits
    BY <2>1, PowerAssumption
  <2>3. a % (2 * 2 ^ AddrBits) = a
    <3>1. 2 * 2 ^ AddrBits \in Nat \ {0} /\ a \in 0 .. 2 * 2 ^ AddrBits - 1
          /\ a = (2 * 2 ^ AddrBits) * 0 + a
      BY <1>0
    <3> HIDE DEF Ends
    <3> QED
      BY <1>0, <3>1, DivisionUnique
  <2> QED
    BY <1>0, <2>2, <2>3
<1>5. (AddrBits + 1) - 1 = AddrBits
  BY <1>0
<1> QED
  BY <1>3, <1>4, <1>5 DEF G

\* Below its lowest zero an address has only ones.
LEMMA BitsOfEnd ==
  ASSUME NEW a \in Nat, NEW t \in 0 .. XLen, Ends(a, t)
  PROVE  /\ (a \div 2 ^ t) % 2 = 0
         /\ \A j \in 0 .. t - 1 : (a \div 2 ^ j) % 2 = 1
<1> DEFINE T == 2 ^ t
           q == a \div (2 * T)
<1>0. T \in Nat \ {0} /\ 2 * T \in Nat \ {0} /\ 2 ^ (t + 1) = 2 * T /\ XLen \in Nat
  BY PowerAssumption, PmpAssumption
<1>1. q \in Nat /\ a = (2 * T) * q + (T - 1)
  BY <1>0, Division DEF Ends
<1>2. (a \div T) % 2 = 0
  <2> HIDE DEF T, q
  <2>1. a = T * (2 * q) + (T - 1) /\ 2 * q \in Nat /\ T - 1 \in 0 .. T - 1
    BY <1>0, <1>1
  <2>2. a \div T = 2 * q
    BY <1>0, <2>1, DivisionUnique
  <2> QED
    BY <1>1, <2>2
<1>3. ASSUME NEW j \in 0 .. t - 1 PROVE (a \div 2 ^ j) % 2 = 1
  <2> DEFINE J == 2 ^ j
             S == 2 ^ (t - j - 1)
  <2>1. /\ j \in 0 .. XLen + 1 /\ t \in j .. XLen + 1 /\ t - j - 1 \in 0 .. XLen
        /\ (t - j - 1) + 1 = t - j
    BY <1>0
  <2>2. T = J * 2 ^ (t - j) /\ 2 ^ (t - j) = 2 * S
    BY <2>1, PowerSplits, PowerAssumption
  <2>3. J \in Nat \ {0} /\ S \in Nat \ {0}
    BY <2>1, PowerTyped, PowerAssumption
  <2>4. T = J * (2 * S)
    BY <2>2
  <2> HIDE DEF T, J, S, q
  <2> DEFINE h == 2 * (q * S) + S - 1
  <2>5. q * S \in Nat /\ h \in Nat
    BY <1>1, <2>3
  <2>6. a = J * (2 * h + 1) + (J - 1)
    <3>1. (2 * T) * q = J * (4 * (q * S))
      BY <1>1, <2>3, <2>4
    <3>2. a = J * (4 * (q * S)) + J * (2 * S) - 1
      BY <1>1, <2>4, <3>1, <1>0
    <3> DEFINE x == q * S
    <3>3. a = J * (4 * x) + J * (2 * S) - 1 /\ h = 2 * x + S - 1 /\ x \in Nat
      BY <2>5, <3>2
    <3> HIDE DEF x, h
    <3>4. 2 * h + 1 = 4 * x + 2 * S - 1
      BY <2>3, <3>3
    <3>5. J * (4 * x + 2 * S - 1) = J * (4 * x) + J * (2 * S) - J
      BY <2>3, <3>3
    <3> QED
      BY <2>3, <3>3, <3>4, <3>5
  <2> HIDE DEF h
  <2>7. a \div J = 2 * h + 1
    <3>1. 2 * h + 1 \in Nat /\ J - 1 \in 0 .. J - 1
      BY <2>3, <2>5
    <3> QED
      BY <2>3, <2>6, <3>1, DivisionUnique
  <2>8. (2 * h + 1) % 2 = 1
    BY <2>5
  <2> QED
    BY <2>7, <2>8 DEF J
<1> QED
  BY <1>2, <1>3

LEMMA LeastIs ==
  ASSUME NEW T \in SUBSET Nat, NEW t \in T, \A j \in T : t =< j
  PROVE  Min(T) = t
<1>1. t \in T /\ \A j \in T : t =< j
  OBVIOUS
<1> DEFINE m == Min(T)
<1>2. m \in T /\ \A j \in T : m =< j
  BY <1>1, Zenon DEF Min
<1> HIDE DEF m
<1>3. m = t
  BY <1>1, <1>2
<1> QED
  BY <1>3 DEF m

\* The size the code reads off an address, from the ones it ends in.
LEMMA SizeOfEnd ==
  ASSUME NEW a \in 0 .. 2 ^ XLen - 1, NEW t \in 0 .. XLen, Ends(a, t)
  PROVE  NapotSize[a] = 2 ^ (t + 1)
<1> DEFINE T == {k \in 0 .. XLen : (a \div 2 ^ k) % 2 = 0}
<1>1. a \in Nat
  BY PowerAssumption, PmpAssumption
<1>2. t \in T /\ T \in SUBSET Nat /\ \A j \in T : t =< j
  BY <1>1, BitsOfEnd, PmpAssumption
<1>3. Min(T) = t
  <2> HIDE DEF T
  <2> QED
    BY <1>2, LeastIs
<1> QED
  BY <1>3 DEF NapotSize

-----------------------------------------------------------------------------
(* The range of the code and the region of the architecture.               *)

\* Addresses are narrow enough for no range to wrap, and a grain leaves bits of
\* them: RV64, but not an RV32 address of all ones.
Fits == AddrBits + 2 =< XLen /\ \A g \in Grains : g =< AddrBits

\* An address register holds no more than its bits.
AddrsFit == \A n \in Entries : pmpaddr_n[n] \in 0 .. 2 ^ AddrBits - 1

LEMMA AddrsAlwaysFit == Spec => []AddrsFit
<1>0. 2 ^ AddrBits \in Nat \ {0}
  BY PmpAssumption, PowerAssumption
<1>1. Init => AddrsFit
  BY <1>0 DEF Init, AddrsFit
<1>2. TypeOK /\ AddrsFit /\ [Next]_vars => AddrsFit'
  <2> SUFFICES ASSUME TypeOK, AddrsFit, [Next]_vars PROVE AddrsFit'
    OBVIOUS
  <2>1. ASSUME NEW n \in Entries, NEW v \in Addrs, pmpWriteAddrReg(n, v) PROVE AddrsFit'
    <3>1. v % 2 ^ AddrBits \in 0 .. 2 ^ AddrBits - 1
      BY <1>0, PmpAssumption, Division
    <3> QED
      BY <2>1, <3>1 DEF AddrsFit, TypeOK, pmpWriteAddrReg, AddrSpan
  <2>2. CASE Reset
    BY <1>0, <2>2 DEF Reset, AddrsFit
  <2>3. CASE UNCHANGED pmpaddr_n
    BY <2>3 DEF AddrsFit
  <2> QED
    BY <2>1, <2>2, <2>3 DEF Next, pmpWriteCfgReg, vars
<1> QED
  BY <1>1, <1>2, TypeCorrect, PTL DEF Spec

\* The multiple of a power below a number, and what follows it.
LEMMA Block ==
  ASSUME NEW m \in 0 .. XLen + 1, NEW k \in 0 .. m, NEW a \in 0 .. 2 ^ m - 1,
         NEW P, P = 2 ^ k
  PROVE  /\ P \in Nat \ {0} /\ P * (a \div P) \in Nat /\ a \div P \in Nat
         /\ P * (a \div P) =< a /\ P * (a \div P) + P =< 2 ^ m
         /\ a - (a % P) = P * (a \div P)
<1> DEFINE q == a \div P
           r == a % P
           R == 2 ^ (m - k)
<1>0. m \in k .. XLen + 1 /\ m - k \in 0 .. XLen + 1 /\ k \in 0 .. XLen + 1
  BY PmpAssumption
<1>1. P \in Nat \ {0} /\ R \in Nat \ {0} /\ 2 ^ m = P * R /\ 2 ^ m \in Nat
  BY <1>0, PowerTyped, PowerSplits
<1>2. q \in Nat /\ r \in 0 .. P - 1 /\ a = P * q + r
  <2>1. a \in Nat
    BY <1>1
  <2> QED
    BY <1>1, <2>1, Division
<1> HIDE DEF q, r, R
<1>3. P * q \in Nat
  BY <1>1, <1>2
<1>4. q < R
  <2> SUFFICES ASSUME R =< q PROVE FALSE
    BY <1>1, <1>2
  <2>1. PICK d \in Nat : q = R + d
    <3>1. q - R \in Nat /\ q = R + (q - R)
      BY <1>1, <1>2
    <3> QED
      BY <3>1
  <2>2. P * q = P * R + P * d /\ P * d \in Nat
    BY <1>1, <2>1
  <2> QED
    BY <1>1, <1>2, <2>2
<1>5. PICK d \in Nat : R = q + 1 + d
  <2>1. R - q - 1 \in Nat /\ R = q + 1 + (R - q - 1)
    BY <1>1, <1>2, <1>4
  <2> QED
    BY <2>1
<1>6. P * R = P * q + P + P * d /\ P * d \in Nat
  BY <1>1, <1>2, <1>5
<1>7. a - r = P * q /\ P * q =< a /\ P * q + P =< 2 ^ m
  BY <1>1, <1>2, <1>3, <1>6
<1> QED
  BY <1>1, <1>2, <1>3, <1>7 DEF q, r

LEMMA ReadFits ==
  ASSUME Fits, TypeOK, AddrsFit, NEW n \in Entries
  PROVE  pmpReadAddrReg(n) \in 0 .. 2 ^ AddrBits - 1
<1> DEFINE a == pmpaddr_n[n]
<1>1. a \in 0 .. 2 ^ AddrBits - 1 /\ AddrBits \in 0 .. XLen + 1 /\ XLen \in Nat
  BY PmpAssumption DEF AddrsFit
<1>2. ASSUME NEW k \in 0 .. AddrBits
      PROVE  /\ LowZeros(a, k) \in 0 .. 2 ^ AddrBits - 1
             /\ LowOnes(a, k) \in 0 .. 2 ^ AddrBits - 1
  <2> DEFINE P == 2 ^ k
             M == 2 ^ AddrBits
             q == a \div P
  <2>1. /\ P \in Nat \ {0} /\ P * q \in Nat /\ q \in Nat
        /\ P * q =< a /\ P * q + P =< M /\ M \in Nat
    BY <1>1, Block, PowerTyped
  <2>2. LowZeros(a, k) = q * P /\ LowOnes(a, k) = q * P + P - 1
    BY DEF LowZeros, LowOnes
  <2>3. a \in 0 .. M - 1
    BY <1>1
  <2> HIDE DEF P, M, q, a
  <2>4. q * P = P * q
    BY <2>1
  <2> QED
    BY <2>1, <2>2, <2>3, <2>4 DEF M
<1>3. grain \in 0 .. AddrBits
  BY PmpAssumption DEF Fits, TypeOK
<1>4. grain =< XLen /\ grain - 1 =< XLen /\ AddrBits \in Nat
  BY <1>3, PmpAssumption
<1>5. grain >= 2 => Lesser(grain - 1, XLen) \in 0 .. AddrBits
  BY <1>3, <1>4 DEF Lesser
<1>6. grain >= 1 => Lesser(grain, XLen) \in 0 .. AddrBits
  BY <1>3, <1>4 DEF Lesser
<1> QED
  BY <1>1, <1>2, <1>5, <1>6 DEF pmpReadAddrReg

LEMMA WordKeeps ==
  ASSUME NEW v \in 0 .. 2 ^ XLen - 1
  PROVE  Word(v) = v
<1>1. 2 ^ XLen \in Nat \ {0} /\ v = 2 ^ XLen * 0 + v /\ v \in Nat
  BY PmpAssumption, PowerAssumption
<1> QED
  BY <1>1, DivisionUnique DEF Word

\* The words with the same quotient as an address are a block.
LEMMA SameQuotient ==
  ASSUME NEW q \in Nat, NEW S \in Nat \ {0}, NEW M \in Nat, S * q + S =< M
  PROVE  {w \in 0 .. M : w \div S = q} = S * q .. S * q + S - 1
<1> DEFINE L == S * q
<1>1. L \in Nat
  OBVIOUS
<1>2. ASSUME NEW w \in 0 .. M, w \div S = q PROVE w \in L .. L + S - 1
  <2>1. w = S * (w \div S) + (w % S) /\ w % S \in 0 .. S - 1
    BY Division
  <2> QED
    BY <1>1, <1>2, <2>1
<1>3. ASSUME NEW w \in L .. L + S - 1 PROVE w \in 0 .. M /\ w \div S = q
  <2>1. w - L \in 0 .. S - 1 /\ w = S * q + (w - L) /\ w \in Nat
    BY <1>1
  <2>2. w \div S = q
    BY <2>1, DivisionUnique
  <2> QED
    BY <1>1, <2>2
<1> HIDE DEF L
<1>4. {w \in 0 .. M : w \div S = q} = L .. L + S - 1
  BY <1>2, <1>3
<1> QED
  BY <1>4 DEF L

\* A naturally aligned range is the block of the address that encodes it.
LEMMA NapotIsBlock ==
  ASSUME Fits, NEW a \in 0 .. 2 ^ AddrBits - 1, NEW k, k = TrailingOnes[a] + 1,
         NEW lo, lo = a - (a % NapotSize[a])
  PROVE  /\ lo \in Nat /\ Word(lo + Word(NapotSize[a])) \in Nat
         /\ {w \in 0 .. 2 ^ (AddrBits + 1) : w \div 2 ^ k = a \div 2 ^ k}
            = lo .. Word(lo + Word(NapotSize[a])) - 1
<1> DEFINE t == TrailingOnes[a]
           M == 2 ^ (AddrBits + 1)
           S == 2 ^ (t + 1)
           q == a \div S
<1>0. AddrBits \in Nat /\ XLen \in Nat /\ AddrBits + 2 =< XLen
  BY PmpAssumption DEF Fits
<1>1. t \in 0 .. AddrBits /\ Ends(a, t)
  <2>1. \E i \in 0 .. AddrBits : a % 2 ^ (i + 1) = 2 ^ i - 1
    BY SomeEnd DEF Ends
  <2>2. t = CHOOSE i \in 0 .. AddrBits : a % 2 ^ (i + 1) = 2 ^ i - 1
    BY DEF TrailingOnes
  <2> HIDE DEF t
  <2> QED
    BY <2>1, <2>2 DEF Ends
<1> HIDE DEF t
<1>2. /\ AddrBits \in 0 .. AddrBits + 1 /\ AddrBits + 1 \in 0 .. XLen /\ t \in 0 .. XLen
      /\ AddrBits + 1 \in 0 .. XLen + 1 /\ t + 1 \in 0 .. AddrBits + 1
      /\ AddrBits + 2 \in 0 .. XLen + 1 /\ XLen \in AddrBits + 2 .. XLen + 1
      /\ AddrBits \in 0 .. XLen + 1 /\ AddrBits + 1 \in AddrBits .. XLen + 1
      /\ (AddrBits + 1) + 1 = AddrBits + 2
  BY <1>0, <1>1
<1>3. 2 ^ AddrBits =< M /\ 2 * M =< 2 ^ XLen /\ M \in Nat \ {0} /\ 2 ^ XLen \in Nat
      /\ 2 ^ AddrBits \in Nat
  <2>1. 2 ^ (AddrBits + 2) = 2 * M
    BY <1>2, PowerAssumption
  <2> QED
    BY <1>2, <2>1, PowerGrows, PowerTyped
<1>4. a \in 0 .. M - 1 /\ a \in 0 .. 2 ^ XLen - 1
  BY <1>3
<1>5. NapotSize[a] = S
  BY <1>1, <1>2, <1>4, SizeOfEnd
<1>6. /\ S \in Nat \ {0} /\ S * q \in Nat /\ q \in Nat
      /\ S * q + S =< M /\ a - (a % S) = S * q
  <2>1. S = 2 ^ (t + 1) /\ a \in 0 .. 2 ^ (AddrBits + 1) - 1
    BY <1>4
  <2>2. t + 1 \in 0 .. AddrBits + 1 /\ AddrBits + 1 \in 0 .. XLen + 1
    BY <1>2
  <2> HIDE DEF S
  <2>3. /\ S \in Nat \ {0} /\ S * (a \div S) \in Nat /\ a \div S \in Nat
        /\ S * (a \div S) =< a /\ S * (a \div S) + S =< 2 ^ (AddrBits + 1)
        /\ a - (a % S) = S * (a \div S)
    BY <2>1, <2>2, Block
  <2> QED
    BY <2>3
<1> HIDE DEF M, S, q
<1>7. lo = S * q
  BY <1>5, <1>6
<1>8. Word(NapotSize[a]) = S /\ Word(S * q + S) = S * q + S
  <2>1. S \in 0 .. 2 ^ XLen - 1 /\ S * q + S \in 0 .. 2 ^ XLen - 1
    BY <1>3, <1>6
  <2> QED
    BY <1>5, <2>1, WordKeeps
<1>9. {w \in 0 .. M : w \div S = q} = S * q .. S * q + S - 1
  BY <1>3, <1>6, SameQuotient
<1> QED
  BY <1>6, <1>7, <1>8, <1>9 DEF M, S, q, t

\* The range of an entry is the region the architecture gives it.
LEMMA RangeIsRegion ==
  ASSUME Fits, TypeOK, AddrsFit, NEW n \in Entries, pmpcfg_n[n].A # "NA4",
         NEW r, r = pmpAddrRange(n)
  PROVE  r.lo \in Nat /\ r.hi \in Nat /\ Region(n) = r.lo .. r.hi - 1
<1> DEFINE a == pmpReadAddrReg(n)
<1>1. a \in 0 .. 2 ^ AddrBits - 1 /\ a \in Nat
  <2>1. 2 ^ AddrBits \in Nat
    BY PmpAssumption, PowerAssumption
  <2> QED
    BY <2>1, ReadFits
<1>2. pmpcfg_n[n].A \in {"OFF", "TOR", "NAPOT"}
  BY DEF TypeOK, Pmpcfg_ent, AddrMatchType
<1>3. CASE pmpcfg_n[n].A = "OFF"
  <2>1. r = [lo |-> 0, hi |-> 0] /\ Region(n) = {}
    BY <1>3 DEF pmpAddrRange, Region
  <2> QED
    BY <2>1
<1>4. CASE pmpcfg_n[n].A = "TOR"
  <2>1. PrevAddr(n) \in Nat
    <3>1. 2 ^ AddrBits \in Nat
      BY PmpAssumption, PowerAssumption
    <3>2. n > 0 => n - 1 \in Entries
      BY PmpAssumption DEF Entries
    <3>3. n > 0 => pmpReadAddrReg(n - 1) \in 0 .. 2 ^ AddrBits - 1
      BY <3>2, ReadFits
    <3> QED
      BY <3>1, <3>3 DEF PrevAddr
  <2>2. r = [lo |-> PrevAddr(n), hi |-> a] /\ Region(n) = PrevAddr(n) .. a - 1
    BY <1>4 DEF pmpAddrRange, Region
  <2> HIDE DEF a
  <2> QED
    BY <1>1, <2>1, <2>2
<1>5. CASE pmpcfg_n[n].A = "NAPOT"
  <2> DEFINE lo == a - (a % NapotSize[a])
             hi == Word(lo + Word(NapotSize[a]))
             k  == TrailingOnes[a] + 1
             R  == {w \in 0 .. 2 ^ (AddrBits + 1) : w \div 2 ^ k = a \div 2 ^ k}
  <2>1. r = [lo |-> lo, hi |-> hi] /\ Region(n) = R
    BY <1>5 DEF pmpAddrRange, Region
  <2> HIDE DEF a
  <2>2. lo \in Nat /\ hi \in Nat /\ R = lo .. hi - 1
    BY <1>1, NapotIsBlock
  <2> HIDE DEF lo, hi, R
  <2> QED
    BY <2>1, <2>2
<1> QED
  BY <1>2, <1>3, <1>4, <1>5

\* The words of an access.
Words(addr, width) == addr \div 4 .. (addr + width - 1) \div 4

LEMMA Meeting ==
  ASSUME NEW addr \in Nat, NEW width \in Nat \ {0}, NEW r, r.lo \in Nat, r.hi \in Nat,
         NEW meets, meets = pmpMatchAddr(addr, width, r)
  PROVE  /\ meets = "NoMatch" <=> (r.lo .. r.hi - 1) \intersect Words(addr, width) = {}
         /\ meets # "NoMatch" =>
              (meets = "Match" <=> Words(addr, width) \subseteq r.lo .. r.hi - 1)
<1> DEFINE lo == r.lo
           hi == r.hi
           first == addr \div 4
           last == (addr + width - 1) \div 4
           missed == hi * 4 <= lo * 4 \/ addr + width <= lo * 4 \/ hi * 4 <= addr
<1>1. /\ lo \in Nat /\ hi \in Nat /\ first \in Nat /\ last \in Nat /\ first =< last
      /\ 4 * first =< addr /\ addr < 4 * first + 4
      /\ 4 * last < addr + width /\ addr + width =< 4 * last + 4
  OBVIOUS
<1>2. /\ meets = "NoMatch" <=> missed
      /\ ~missed => (meets = "Match" <=> lo * 4 <= addr /\ addr + width <= hi * 4)
  BY DEF pmpMatchAddr
<1>3. Words(addr, width) = first .. last
  BY DEF Words
<1> HIDE DEF lo, hi, first, last
<1>4. missed <=> hi =< lo \/ last < lo \/ hi =< first
  BY <1>1
<1>5. hi =< lo \/ last < lo \/ hi =< first <=> (lo .. hi - 1) \intersect (first .. last) = {}
  <2>1. ASSUME ~(hi =< lo \/ last < lo \/ hi =< first)
        PROVE  (IF lo =< first THEN first ELSE lo) \in (lo .. hi - 1) \intersect (first .. last)
    BY <1>1, <2>1
  <2>2. ASSUME NEW w \in (lo .. hi - 1) \intersect (first .. last)
        PROVE  ~(hi =< lo \/ last < lo \/ hi =< first)
    BY <1>1, <2>2
  <2> QED
    BY <2>1, <2>2
<1>6. lo * 4 <= addr /\ addr + width <= hi * 4 <=> lo =< first /\ last < hi
  BY <1>1
<1>7. lo =< first /\ last < hi <=> first .. last \subseteq lo .. hi - 1
  <2>1. first \in first .. last /\ last \in first .. last
    BY <1>1
  <2> QED
    BY <1>1, <2>1
<1> HIDE DEF missed
<1>8. /\ meets = "NoMatch" <=> (lo .. hi - 1) \intersect (first .. last) = {}
      /\ meets # "NoMatch" => (meets = "Match" <=> first .. last \subseteq lo .. hi - 1)
  BY <1>2, <1>4, <1>5, <1>6, <1>7
<1> QED
  BY <1>3, <1>8 DEF lo, hi

LEMMA SamePermissions ==
  ASSUME TypeOK, NEW n \in Entries, NEW acc \in {"ReadWrite", "Execute"}, NEW priv
  PROVE  pmpCheckPerms(pmpcfg_n[n], acc, priv)
         <=> (priv = "Machine" /\ ~pmpcfg_n[n].L) \/ Permits(pmpcfg_n[n], acc)
BY DEF TypeOK, Pmpcfg_ent, pmpCheckPerms, pmpCheckRWX, pmpLocked, Permits

\* The entries that decide are those with a region the access meets.
LEMMA Decision ==
  ASSUME Fits, TypeOK, AddrsFit, \A n \in Entries : pmpcfg_n[n].A # "NA4",
         NEW addr \in Nat, NEW width \in Nat \ {0},
         NEW acc \in {"ReadWrite", "Execute"}, NEW priv
  PROVE  pmpCheck(addr, width, acc, priv) = Rule(addr, width, acc, priv)
<1> DEFINE meets(n) == pmpMatchAddr(addr, width, pmpAddrRange(n))
           decisive == {n \in Entries : meets(n) # "NoMatch"}
           about == {n \in Entries : Region(n) \intersect Words(addr, width) # {}}
<1>1. ASSUME NEW n \in Entries
      PROVE  /\ meets(n) # "NoMatch" <=> Region(n) \intersect Words(addr, width) # {}
             /\ meets(n) # "NoMatch" =>
                  (meets(n) = "Match" <=> Words(addr, width) \subseteq Region(n))
  <2> DEFINE r == pmpAddrRange(n)
  <2>1. r.lo \in Nat /\ r.hi \in Nat /\ Region(n) = r.lo .. r.hi - 1
    BY RangeIsRegion
  <2> HIDE DEF r
  <2> DEFINE x == pmpMatchAddr(addr, width, r)
  <2>2. /\ x = "NoMatch" <=> (r.lo .. r.hi - 1) \intersect Words(addr, width) = {}
        /\ x # "NoMatch" => (x = "Match" <=> Words(addr, width) \subseteq r.lo .. r.hi - 1)
    BY <2>1, Meeting
  <2>3. x = meets(n)
    BY DEF r
  <2> HIDE DEF x, meets
  <2> QED
    BY <2>1, <2>2, <2>3
<1>2. decisive = about
  BY <1>1
<1>3. pmpCheck(addr, width, acc, priv)
      = IF decisive = {} THEN priv = "Machine"
        ELSE meets(Min(decisive)) = "Match"
             /\ pmpCheckPerms(pmpcfg_n[Min(decisive)], acc, priv)
  BY DEF pmpCheck
<1>4. Rule(addr, width, acc, priv)
      = IF about = {} THEN priv = "Machine"
        ELSE /\ Words(addr, width) \subseteq Region(Min(about))
             /\ \/ priv = "Machine" /\ ~pmpcfg_n[Min(about)].L
                \/ Permits(pmpcfg_n[Min(about)], acc)
  BY DEF Rule, Words
<1>5. CASE decisive = {}
  <2> HIDE DEF decisive, about
  <2> QED
    BY <1>2, <1>3, <1>4, <1>5
<1>6. CASE decisive # {}
  <2> DEFINE n == Min(decisive)
  <2>1. n \in decisive
    <3>1. decisive \in SUBSET Nat
      BY DEF Entries
    <3>2. PICK i \in decisive : \A j \in decisive : i =< j
      <4> HIDE DEF decisive
      <4> QED
        BY <1>6, <3>1, LeastMember
    <3> HIDE DEF decisive
    <3> QED
      BY <3>2, Zenon DEF Min
  <2>2. n \in Entries /\ meets(n) # "NoMatch"
    <3> HIDE DEF n
    <3> QED
      BY <2>1
  <2>3. n = Min(about)
    BY <1>2
  <2> HIDE DEF n, decisive, about, meets
  <2>4. meets(n) = "Match" <=> Words(addr, width) \subseteq Region(n)
    BY <1>1, <2>2
  <2>5. pmpCheckPerms(pmpcfg_n[n], acc, priv)
        <=> (priv = "Machine" /\ ~pmpcfg_n[n].L) \/ Permits(pmpcfg_n[n], acc)
    BY <2>2, SamePermissions
  <2>6. n = Min(decisive)
    BY DEF n
  <2> DEFINE code == meets(n) = "Match" /\ pmpCheckPerms(pmpcfg_n[n], acc, priv)
             rule == /\ Words(addr, width) \subseteq Region(n)
                     /\ (priv = "Machine" /\ ~pmpcfg_n[n].L) \/ Permits(pmpcfg_n[n], acc)
  <2>7. pmpCheck(addr, width, acc, priv) = code
    BY <1>3, <1>6, <2>6, Zenon
  <2>8. Rule(addr, width, acc, priv) = rule
    BY <1>2, <1>4, <1>6, <2>3, Zenon
  <2>9. code = rule
    BY <2>4, <2>5
  <2> HIDE DEF code, rule
  <2> QED
    BY <2>7, <2>8, <2>9
<1> QED
  BY <1>5, <1>6

\* Every access is decided as the architecture says, for any number of entries
\* and any registers software has made of them: the entry found first is the
\* lowest about any byte of the access, and it denies what is only partly in its
\* range (pmpCheck, pmpMatchAddr).  NA4 entries, whose range is wrong, apart.
THEOREM ChecksFollowRule == ASSUME Fits PROVE Spec => []CheckFollowsRule
<1>1. TypeOK /\ AddrsFit => CheckFollowsRule
  <2> SUFFICES ASSUME TypeOK, AddrsFit, \A n \in Entries : pmpcfg_n[n].A # "NA4",
                      NEW r \in Requests, NEW acc \in {"ReadWrite", "Execute"}, NEW priv
               PROVE  pmpCheck(r[1], r[2], acc, priv) = Rule(r[1], r[2], acc, priv)
    BY DEF CheckFollowsRule
  <2>1. 2 ^ AddrBits \in Nat
    BY PmpAssumption, PowerAssumption
  <2>2. r[1] \in Nat /\ r[2] \in Nat \ {0}
    BY <2>1 DEF Requests
  <2> QED
    BY <2>2, Decision
<1> QED
  BY <1>1, TypeCorrect, AddrsAlwaysFit, PTL
=============================================================================

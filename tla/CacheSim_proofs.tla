--------------------------- MODULE CacheSim_proofs ---------------------------
(***************************************************************************)
(* Proofs about CacheSim, for every arrangement of caches, number of lines *)
(* and sets, block size, policy and program.                               *)
(***************************************************************************)
EXTENDS CacheSim, TLAPS, FiniteSetTheorems

-----------------------------------------------------------------------------
(* Arithmetic.                                                             *)

\* A set of naturals has a least element: among the initial segments that end
\* in the set there is one that contains no other.
LEMMA LeastIsMember ==
  ASSUME NEW T \in SUBSET Nat, T # {}
  PROVE  Least(T) \in T /\ \A j \in T : Least(T) =< j
<1> DEFINE Segments == {0 .. i : i \in T}
           R == StrictSubsetOrdering(Nat)
<1>1. Segments \subseteq FiniteSubsetsOf(Nat)
  <2> SUFFICES ASSUME NEW i \in T PROVE 0 .. i \in FiniteSubsetsOf(Nat)
    OBVIOUS
  <2>1. IsFiniteSet(0 .. i)
    BY FS_Interval
  <2> QED
    BY <2>1 DEF FiniteSubsetsOf
<1>2. Segments # {}
  OBVIOUS
<1>3. IsWellFoundedOn(R, FiniteSubsetsOf(Nat))
  BY FS_StrictSubsetOrderingWellFounded
<1>4. \E x \in Segments : \A y \in Segments : ~(<<y, x>> \in R)
  <2> HIDE DEF R, Segments
  <2> QED
    BY <1>1, <1>2, <1>3, WFMin
<1>5. PICK i \in T : \A j \in T : ~(<<0 .. j, 0 .. i>> \in R)
  BY <1>4
<1>6. ASSUME NEW j \in T, j < i PROVE FALSE
  <2>1. 0 .. j \subseteq 0 .. i /\ i \in 0 .. i /\ i \notin 0 .. j
    BY <1>6
  <2>2. 0 .. j \in SUBSET Nat /\ 0 .. i \in SUBSET Nat
    OBVIOUS
  <2>3. <<0 .. j, 0 .. i>> \in R
    BY <2>1, <2>2 DEF StrictSubsetOrdering
  <2> QED
    BY <1>5, <2>3
<1>7. \A j \in T : i =< j
  BY <1>6
<1> QED
  BY <1>7 DEF Least

\* Induction up to a bound: G holds the numbers a statement is true of.
LEMMA UpTo ==
  ASSUME NEW n \in Nat, NEW G, 0 \in G, \A k \in 0 .. n - 1 : k \in G => k + 1 \in G
  PROVE  \A k \in 0 .. n : k \in G
<1> DEFINE T == {k \in 0 .. n : k \notin G}
<1> SUFFICES ASSUME T # {} PROVE FALSE
  OBVIOUS
<1>1. PICK i \in T : \A j \in T : i =< j
  <2>1. T \in SUBSET Nat
    OBVIOUS
  <2> HIDE DEF T
  <2> QED
    BY <2>1, LeastIsMember
<1>2. i \in 0 .. n /\ i # 0 /\ i - 1 \in 0 .. n - 1 /\ (i - 1) + 1 = i
  BY <1>1
<1>3. i - 1 \in G
  BY <1>1, <1>2
<1> QED
  BY <1>1, <1>2, <1>3

LEMMA Division ==
  ASSUME NEW a \in Nat, NEW b \in Nat, b >= 1
  PROVE  /\ a \div b \in Nat /\ a % b \in 0 .. b - 1
         /\ (a \div b) * b =< a
         /\ b =< a => a \div b >= 1
         /\ a \div b =< a
OBVIOUS

\* (The same in a form the provers can instantiate.)
LEMMA Quotient ==
  ASSUME NEW a \in Nat, NEW b \in Nat, NEW m \in Nat, b >= 1, b =< a, a =< m
  PROVE  a \div b \in 1 .. m /\ (a \div b) * b =< a
OBVIOUS

LEMMA Wraps ==
  ASSUME NEW m \in Nat, NEW i \in 0 .. m - 1
  PROVE  i % m = i /\ (i + m) % m = i
OBVIOUS

LEMMA Pow2Positive ==
  ASSUME NEW n \in 1 .. MaxLines PROVE Pow2Above(n) \in Nat \ {0} /\ Pow2Above(n) >= n
<1> DEFINE P == {1, 2, 4, 8, 16, 32, 64, 128, 256, 512, 1024, 2048}
<1>1. \E p \in P : p >= n /\ p < 2 * n
  BY DEF MaxLines
<1>2. Pow2Above(n) \in P /\ Pow2Above(n) >= n
  <2>1. Pow2Above(n) = CHOOSE p \in P : p >= n /\ p < 2 * n
    BY DEF Pow2Above
  <2> HIDE DEF P
  <2> QED
    BY <1>1, <2>1
<1> QED
  BY <1>2

-----------------------------------------------------------------------------
(* Geometry: a block has one set, which begins within its cache.           *)

LEMMA ConfigType ==
  ASSUME config \in Configurations, NEW c \in Cache
  PROVE  /\ Size[c] \in 1 .. MaxLines /\ NumLines[c] \in 1 .. MaxLines
         /\ NumLines["L1"] \in 1 .. MaxLines
         /\ NumLines[c] =< Size[c] /\ NumLines["L1"] =< Size[c]
         /\ Unit[c] \in {1, 2, 4} /\ LevelType \in 0 .. 5
         /\ Policy \in {"Random", "FIFO"} /\ Direct \in BOOLEAN
         /\ config.Addresses \subseteq Nat /\ config.Widths \subseteq {1, 2}
<1>1. /\ config.LevelType \in 0 .. 5 /\ config.Policy \in {"Random", "FIFO"}
      /\ config.Direct \in BOOLEAN
      /\ config.Size \in [Cache -> 1 .. MaxLines]
      /\ config.NumLines \in [Cache -> 1 .. MaxLines]
      /\ config.Unit \in [Cache -> {1, 2, 4}]
      /\ config.NumLines[c] =< config.Size[c]
      /\ config.NumLines["L1"] =< config.Size[c]
      /\ config.Addresses \subseteq Nat /\ config.Widths \subseteq {1, 2}
  BY GeometryAssumption
<1>2. "L1" \in Cache
  BY DEF Cache
<1> QED
  BY <1>1, <1>2 DEF Size, NumLines, Unit, LevelType, Policy, Direct

LEMMA IndexPositive ==
  ASSUME config \in Configurations, NEW c \in Cache
  PROVE  IndexSpan(c) \in Nat \ {0}
<1>1. /\ Size[c] \in Nat /\ NumLines[c] \in Nat /\ NumLines[c] >= 1
      /\ NumLines[c] =< Size[c] /\ Size[c] =< MaxLines /\ Direct \in BOOLEAN
  BY ConfigType
<1>2. PICK n \in Nat, l \in Nat, m \in Nat : n = Size[c] /\ l = NumLines[c] /\ m = MaxLines
  BY <1>1 DEF MaxLines
<1>3. n \div l \in 1 .. m /\ l \in 1 .. m
  BY <1>1, <1>2, Quotient
<1>4. (IF Direct THEN NumLines[c] ELSE Size[c] \div NumLines[c]) \in 1 .. MaxLines
  BY <1>2, <1>3
<1> QED
  BY <1>4, Pow2Positive DEF IndexSpan

\* The lines of a cache divide into sets of Ways(c) lines, known by their first.
Starts(c) == {k * Ways(c) : k \in 0 .. (Size[c] \div Ways(c)) - 1}
SetAt(c, b) == b .. b + Ways(c) - 1

\* Each set lies within the cache and apart from the others.
LEMMA SetsApart ==
  ASSUME config \in Configurations, NEW c \in Cache, NEW b \in Starts(c)
  PROVE  /\ b \in Nat /\ Ways(c) \in Nat /\ Ways(c) >= 1 /\ b + Ways(c) =< Size[c]
         /\ \A b2 \in Starts(c) : b < b2 => b + Ways(c) =< b2
<1>1. PICK w \in Nat, m \in Nat : w = Ways(c) /\ m = Size[c] /\ 1 =< w /\ w =< m
  BY ConfigType DEF Ways
<1>2. PICK n \in Nat : n = m \div w /\ n * w =< m
  <2>1. m \div w \in 1 .. m /\ (m \div w) * w =< m
    BY <1>1, Quotient
  <2> QED
    BY <1>1, <2>1
<1>3. PICK k \in 0 .. n - 1 : b = k * w
  BY <1>1, <1>2 DEF Starts
<1>4. (k + 1) * w =< n * w /\ (k + 1) * w = k * w + w /\ k * w \in Nat /\ n * w \in Nat
  BY <1>1, <1>2, <1>3
<1>5. b \in Nat /\ b + w =< m
  BY <1>1, <1>2, <1>3, <1>4
<1>6. ASSUME NEW b2 \in Starts(c), b < b2 PROVE b + w =< b2
  <2>1. PICK l \in 0 .. n - 1 : b2 = l * w
    BY <1>1, <1>2 DEF Starts
  <2>2. ~(l =< k)
    <3>1. l =< k => l * w =< k * w
      BY <1>1, <1>3, <2>1
    <3> QED
      BY <1>1, <1>3, <1>4, <1>6, <2>1, <3>1
  <2>3. (k + 1) * w =< l * w
    BY <1>1, <1>3, <2>1, <2>2
  <2> QED
    BY <1>3, <1>4, <2>1, <2>3
<1> QED
  BY <1>1, <1>5, <1>6

\* The lines a block may occupy are one of these sets or, in a direct-mapped
\* cache with index bits, one line.
LEMMA SetShape ==
  ASSUME config \in Configurations, NEW c \in Cache, NEW a \in Nat
  PROVE  \/ /\ Direct /\ IndexSpan(c) # 1
            /\ SetId(c, a) \in Line(c) /\ SetOf(c, a) = {SetId(c, a)}
         \/ /\ Direct => IndexSpan(c) = 1
            /\ \E b \in Starts(c) :
                 /\ SetOf(c, a) = SetAt(c, b)
                 /\ b = IF IndexSpan(c) = 1 THEN 0 ELSE SetId(c, a) * Ways(c)
<1> DEFINE n == NumSet(c)
           s == SetId(c, a)
<1>1. PICK z \in Nat, v \in Nat : z = Size[c] /\ v = Ways(c) /\ v >= 1 /\ v =< z
  BY ConfigType DEF Ways
<1>2. z \div v \in 1 .. z /\ n = IF Direct THEN z ELSE z \div v
  BY <1>1, Quotient DEF NumSet
<1>3. Block(c, a) % IndexSpan(c) \in Nat
  <2>1. Block(c, a) \in Nat
    BY ConfigType DEF Block
  <2> QED
    BY <2>1, IndexPositive, Division
<1>4. s \in 0 .. n - 1
  <2>1. n \in Nat /\ n >= 1
    BY <1>1, <1>2
  <2>2. PICK x \in Nat : x = Block(c, a) % IndexSpan(c)
    BY <1>3
  <2>3. s = x % n
    BY <2>2 DEF SetId
  <2> HIDE DEF n, s
  <2> QED
    BY <2>1, <2>3, Division
<1>5. CASE IndexSpan(c) = 1
  <2>1. 0 \in Starts(c)
    <3>1. 0 \in 0 .. (Size[c] \div Ways(c)) - 1 /\ 0 = 0 * Ways(c)
      BY <1>1, <1>2
    <3> QED
      BY <3>1 DEF Starts
  <2>2. SetOf(c, a) = 0 .. Ways(c) - 1 /\ 0 + Ways(c) - 1 = Ways(c) - 1
    BY <1>1, <1>5 DEF SetOf
  <2> QED
    BY <1>5, <2>1, <2>2 DEF SetAt
<1>6. CASE IndexSpan(c) # 1 /\ Direct
  BY <1>1, <1>2, <1>4, <1>6 DEF SetOf, Line
<1>7. CASE IndexSpan(c) # 1 /\ ~Direct
  <2>1. s * Ways(c) \in Starts(c)
    BY <1>1, <1>2, <1>4, <1>7 DEF Starts
  <2>2. SetOf(c, a) = SetAt(c, s * Ways(c))
    BY <1>7 DEF SetOf, SetAt
  <2> QED
    BY <1>7, <2>1, <2>2
<1> QED
  BY <1>5, <1>6, <1>7

\* These lines exist, the first of them first.
LEMMA SetInCache ==
  ASSUME config \in Configurations, NEW c \in Cache, NEW a \in Nat
  PROVE  /\ SetOf(c, a) \subseteq Line(c) /\ SetOf(c, a) \in SUBSET Nat
         /\ Least(SetOf(c, a)) \in SetOf(c, a)
         /\ Direct \/ SetOf(c, a) = SetAt(c, Least(SetOf(c, a)))
<1> DEFINE S == SetOf(c, a)
<1>1. Size[c] \in Nat
  BY ConfigType
<1>2. CASE S = {SetId(c, a)} /\ Direct /\ SetId(c, a) \in Line(c)
  <2>1. S \in SUBSET Nat /\ S # {} /\ S \subseteq Line(c)
    BY <1>1, <1>2 DEF Line
  <2> QED
    BY <1>2, <2>1, LeastIsMember
<1>3. ASSUME NEW b \in Starts(c), S = SetAt(c, b)
      PROVE  S \subseteq Line(c) /\ S \in SUBSET Nat /\ Least(S) \in S /\ Least(S) = b
  <2>1. b \in Nat /\ Ways(c) \in Nat /\ Ways(c) >= 1 /\ b + Ways(c) =< Size[c]
    BY <1>3, SetsApart
  <2>2. S \in SUBSET Nat /\ b \in S /\ S \subseteq Line(c) /\ \A i \in S : b =< i
    BY <1>1, <1>3, <2>1 DEF SetAt, Line
  <2>3. Least(S) \in S /\ Least(S) =< b
    BY <2>2, LeastIsMember
  <2> QED
    BY <2>1, <2>2, <2>3
<1> QED
  BY <1>2, <1>3, SetShape

\* Addresses in the same block have the same set and tag.
LEMMA SameBlock ==
  ASSUME NEW c, NEW a, NEW b, Block(c, a) = Block(c, b)
  PROVE  SetOf(c, a) = SetOf(c, b) /\ Tag(c, a) = Tag(c, b)
BY DEF SetOf, SetId, Tag

-----------------------------------------------------------------------------
(* Refills: what the calls that write_cache and replace_cache make of each *)
(* other come to, and that the line a block is given is in its set.        *)

FreeIn(c, S) == {i \in S : lines[c][i] = None}

\* The lines the FIFO pointer passes until it has emptied one of S.
SweepStart(c) == IF ptr[c] >= Size[c] THEN 0 ELSE ptr[c]
Swept(c, S) ==
  LET at(k) == (SweepStart(c) + k) % Size[c]
      stop == Least({k \in Line(c) : at(k) \in S})
  IN  {at(k) : k \in 0 .. stop}

\* The lines that are empty before block a finds its own.
Evicted(c, S, r) ==
  IF FreeIn(c, S) # {} THEN {}
  ELSE IF Direct THEN {Least(S)}
  ELSE IF Policy = "Random" THEN {Least(S) + r}
  ELSE Swept(c, S)

\* One cache after block a was given a line.
Placed(c, a, r) ==
  LET S    == SetOf(c, a)
      out  == Evicted(c, S, r)
      here == Least(FreeIn(c, S) \cup (out \cap S))
  IN  [lines  |-> [i \in Line(c) |->
                     IF i = here THEN a
                     ELSE IF i \in out THEN None ELSE lines[c][i]],
       ptr    |-> IF Policy = "FIFO" /\ ~Direct /\ out # {}
                  THEN here + 1 ELSE ptr[c],
       older  |-> {p \in older[c] : p[1] \notin out /\ p[2] \notin out}
                    \cup ((Valid(c) \ out) \X {here})]

\* The lines the FIFO pointer passes, counted from where it starts.
Passed(c, k) == (SweepStart(c) + k) % Size[c]

\* It reaches the set in one turn.
LEMMA SweepStops ==
  ASSUME config \in Configurations, NEW c \in Cache, ptr[c] \in Nat,
         NEW S, NEW i \in S, i \in Line(c)
  PROVE  \E stop \in Line(c) :
           /\ Passed(c, stop) \in S
           /\ \A k \in Line(c) : Passed(c, k) \in S => stop =< k
           /\ Swept(c, S) = {Passed(c, k) : k \in 0 .. stop}
<1> DEFINE s == SweepStart(c)
           m == Size[c]
           at(k) == Passed(c, k)
           K == {k \in Line(c) : at(k) \in S}
<1>1. m \in Nat /\ m >= 1 /\ s \in 0 .. m - 1
  BY ConfigType DEF SweepStart
<1>2. i \in 0 .. m - 1
  BY DEF Line
<1>3. K # {}
  <2>1. CASE i >= s
    <3>1. i - s \in 0 .. m - 1 /\ s + (i - s) = i
      BY <1>1, <1>2, <2>1
    <3>2. at(i - s) = i
      BY <1>1, <1>2, <3>1, Wraps DEF Passed
    <3> QED
      BY <3>1, <3>2 DEF Line
  <2>2. CASE i < s
    <3>1. i - s + m \in 0 .. m - 1 /\ s + (i - s + m) = i + m
      BY <1>1, <1>2, <2>2
    <3>2. at(i - s + m) = i
      BY <1>1, <1>2, <3>1, Wraps DEF Passed
    <3> QED
      BY <3>1, <3>2 DEF Line
  <2> QED
    BY <1>1, <1>2, <2>1, <2>2
<1>4. K \in SUBSET Nat
  BY <1>1 DEF Line
<1>5. Least(K) \in K /\ \A k \in K : Least(K) =< k
  BY <1>3, <1>4, LeastIsMember
<1>6. Swept(c, S) = {at(k) : k \in 0 .. Least(K)}
  BY DEF Swept, Passed
<1> QED
  BY <1>5, <1>6

LEMMA SweepReaches ==
  ASSUME config \in Configurations, NEW c \in Cache, ptr[c] \in Nat,
         NEW S, NEW i \in S, i \in Line(c)
  PROVE  Swept(c, S) \cap S # {}
<1>1. PICK stop \in Line(c) :
        Passed(c, stop) \in S /\ Swept(c, S) = {Passed(c, k) : k \in 0 .. stop}
  BY SweepStops
<1>2. stop \in 0 .. stop
  BY <1>1, ConfigType DEF Line
<1> QED
  BY <1>1, <1>2

LEMMA RefillInSet ==
  ASSUME config \in Configurations, NEW c \in Cache, ptr[c] \in Nat,
         NEW a \in Nat, NEW r \in Random(c)
  PROVE  LET S == SetOf(c, a)
             T == FreeIn(c, S) \cup (Evicted(c, S, r) \cap S)
         IN  Least(T) \in T \cap Line(c) /\ \A j \in T : Least(T) =< j
<1> DEFINE S == SetOf(c, a)
           T == FreeIn(c, S) \cup (Evicted(c, S, r) \cap S)
<1>1. S \subseteq Line(c) /\ S \in SUBSET Nat /\ Least(S) \in S
      /\ (Direct \/ S = SetAt(c, Least(S)))
  BY SetInCache
<1>2. Ways(c) \in Nat /\ Ways(c) >= 1
  <2>1. Ways(c) \in 1 .. MaxLines
    BY ConfigType DEF Ways
  <2> QED
    BY <2>1
<1>3. T # {}
  <2>1. CASE FreeIn(c, S) # {}
    BY <2>1
  <2>2. CASE FreeIn(c, S) = {} /\ Direct
    BY <1>1, <2>2 DEF Evicted
  <2>3. CASE FreeIn(c, S) = {} /\ ~Direct /\ Policy = "Random"
    <3>1. Least(S) + r \in S
      BY <1>1, <1>2, <2>3 DEF Random, SetAt
    <3> QED
      BY <2>3, <3>1 DEF Evicted
  <2>4. CASE FreeIn(c, S) = {} /\ ~Direct /\ Policy # "Random"
    <3>1. Swept(c, S) \cap S # {}
      BY <1>1, SweepReaches
    <3> QED
      BY <2>4, <3>1 DEF Evicted
  <2> QED
    BY <2>1, <2>2, <2>3, <2>4
<1>4. T \in SUBSET Nat /\ T \subseteq S
  BY <1>1 DEF FreeIn
<1>5. Least(T) \in T /\ \A j \in T : Least(T) =< j
  BY <1>3, <1>4, LeastIsMember
<1> QED
  BY <1>1, <1>4, <1>5

\* What n calls come to follows the recursion of Turns.
LEMMA TurnsUnfold ==
  ASSUME NEW m, NEW c, NEW S, NEW draws
  PROVE  LET t == Turns(m, c, S, draws)
         IN  /\ t[0] = m
             /\ \A n \in 1 .. MaxTurns : t[n] = OneTurn(t[n - 1], c, S, draws[n])
<1> DEFINE First_n(l, f) ==
             f = [n \in 0 .. l |-> IF n = 0 THEN m ELSE OneTurn(f[n - 1], c, S, draws[n])]
           G == {l \in 0 .. MaxTurns : \E f : First_n(l, f)}
<1>0. MaxTurns \in Nat
  BY TurnsAssumption
<1>1. 0 \in G
  <2>1. First_n(0, [n \in 0 .. 0 |-> m])
    OBVIOUS
  <2> HIDE DEF First_n
  <2> QED
    BY <1>0, <2>1
<1>2. ASSUME NEW l \in 0 .. MaxTurns - 1, l \in G PROVE l + 1 \in G
  <2>1. PICK f : First_n(l, f)
    BY <1>2
  <2> DEFINE h == [n \in 0 .. l + 1 |-> IF n = 0 THEN m ELSE OneTurn(f[n - 1], c, S, draws[n])]
  <2>2. ASSUME NEW n \in 0 .. l PROVE h[n] = f[n]
    <3>1. n \in 0 .. l + 1
      BY <1>0
    <3>2. f[n] = IF n = 0 THEN m ELSE OneTurn(f[n - 1], c, S, draws[n])
      BY <2>1, Zenon
    <3>3. h[n] = IF n = 0 THEN m ELSE OneTurn(f[n - 1], c, S, draws[n])
      BY <3>1, Zenon
    <3> QED
      BY <3>2, <3>3, Zenon
  <2>3. \A n \in 0 .. l + 1 : n # 0 => n - 1 \in 0 .. l
    BY <1>0
  <2>4. First_n(l + 1, h)
    <3>1. h = [n \in 0 .. l + 1 |-> IF n = 0 THEN m ELSE OneTurn(h[n - 1], c, S, draws[n])]
      BY <2>2, <2>3
    <3> QED
      BY <3>1
  <2> HIDE DEF h, First_n
  <2>5. l + 1 \in 0 .. MaxTurns
    BY <1>0
  <2> QED
    BY <2>4, <2>5
<1>3. MaxTurns \in G
  <2> HIDE DEF G
  <2>1. \A l \in 0 .. MaxTurns : l \in G
    BY <1>0, <1>1, <1>2, UpTo
  <2> QED
    BY <1>0, <2>1
<1> DEFINE t == Turns(m, c, S, draws)
<1>4. t = [n \in 0 .. MaxTurns |-> IF n = 0 THEN m ELSE OneTurn(t[n - 1], c, S, draws[n])]
  BY <1>3 DEF Turns
<1> HIDE DEF t
<1>5. ASSUME NEW n \in 0 .. MaxTurns
      PROVE  t[n] = IF n = 0 THEN m ELSE OneTurn(t[n - 1], c, S, draws[n])
  BY <1>4, Zenon
<1>6. 0 \in 0 .. MaxTurns /\ \A n \in 1 .. MaxTurns : n \in 0 .. MaxTurns /\ n # 0
  BY <1>0
<1>7. t[0] = m
  BY <1>5, <1>6, Zenon
<1>8. ASSUME NEW n \in 1 .. MaxTurns PROVE t[n] = OneTurn(t[n - 1], c, S, draws[n])
  BY <1>5, <1>6, Zenon
<1> QED
  BY <1>7, <1>8 DEF t

\* Once the set has a free line, nothing is replaced any more.
LEMMA TurnsStop ==
  ASSUME NEW m, NEW c, NEW S, NEW draws, NEW i \in 0 .. MaxTurns,
         HasRoom(Turns(m, c, S, draws)[i][c], S)
  PROVE  Turns(m, c, S, draws)[MaxTurns] = Turns(m, c, S, draws)[i]
<1> DEFINE t == Turns(m, c, S, draws)
           G == {k \in 0 .. MaxTurns - i : t[i + k] = t[i]}
<1>0. MaxTurns \in Nat /\ MaxTurns - i \in Nat /\ i + (MaxTurns - i) = MaxTurns /\ i + 0 = i
  BY TurnsAssumption
<1>1. \A n \in 1 .. MaxTurns : t[n] = OneTurn(t[n - 1], c, S, draws[n])
  BY TurnsUnfold
<1>2. HasRoom(t[i][c], S)
  OBVIOUS
<1> HIDE DEF t
<1>3. 0 \in G
  BY <1>0
<1>4. ASSUME NEW k \in 0 .. (MaxTurns - i) - 1, k \in G PROVE k + 1 \in G
  <2>1. i + (k + 1) \in 1 .. MaxTurns /\ i + (k + 1) - 1 = i + k
        /\ k + 1 \in 0 .. MaxTurns - i
    BY <1>0
  <2>2. t[i + k] = t[i]
    BY <1>4
  <2>3. t[i + (k + 1)] = OneTurn(t[i + k], c, S, draws[i + (k + 1)])
    BY <1>1, <2>1
  <2>4. t[i + (k + 1)] = t[i]
    BY <1>2, <2>2, <2>3 DEF OneTurn
  <2> QED
    BY <2>1, <2>4
<1>5. MaxTurns - i \in G
  <2> HIDE DEF G
  <2>1. \A k \in 0 .. MaxTurns - i : k \in G
    BY <1>0, <1>3, <1>4, UpTo
  <2> QED
    BY <1>0, <2>1
<1> QED
  BY <1>0, <1>5 DEF t

\* Cache contents k without the lines of W, the pointer moved to p.
Without(k, W, p) ==
  [lines |-> [j \in DOMAIN k.lines |-> IF j \in W THEN None ELSE k.lines[j]],
   ptr   |-> p,
   older |-> {q \in k.older : q[1] \notin W /\ q[2] \notin W}]

\* The caches m but for one.
With(m, c, k) == [d \in Used |-> IF d = c THEN k ELSE m[d]]

LEMMA EmptiedAlso ==
  ASSUME NEW k, NEW W, NEW p, NEW i
  PROVE  /\ Emptied(Without(k, W, p), i) = Without(k, W \cup {i}, p)
         /\ \A x : [Emptied(Without(k, W, p), i) EXCEPT !.ptr = x] = Without(k, W \cup {i}, x)
<1> DEFINE W2 == W \cup {i}
           ls == [j \in DOMAIN k.lines |-> IF j \in W THEN None ELSE k.lines[j]]
           old == {q \in k.older : q[1] \notin W /\ q[2] \notin W}
<1>1. /\ [j \in DOMAIN ls |-> IF j = i THEN None ELSE ls[j]]
           = [j \in DOMAIN k.lines |-> IF j \in W2 THEN None ELSE k.lines[j]]
      /\ {q \in old : i \notin {q[1], q[2]}}
           = {q \in k.older : q[1] \notin W2 /\ q[2] \notin W2}
  OBVIOUS
<1>2. Emptied(Without(k, W, p), i) = Without(k, W2, p)
  BY <1>1 DEF Emptied, Without
<1>3. ASSUME NEW x PROVE [Without(k, W2, p) EXCEPT !.ptr = x] = Without(k, W2, x)
  <2> DEFINE ls2 == Without(k, W2, p).lines
             old2 == Without(k, W2, p).older
  <2>1. /\ Without(k, W2, p) = [lines |-> ls2, ptr |-> p, older |-> old2]
        /\ Without(k, W2, x) = [lines |-> ls2, ptr |-> x, older |-> old2]
    BY DEF Without
  <2> HIDE DEF ls2, old2
  <2>2. [[lines |-> ls2, ptr |-> p, older |-> old2] EXCEPT !.ptr = x]
          = [lines |-> ls2, ptr |-> x, older |-> old2]
    OBVIOUS
  <2> QED
    BY <2>1, <2>2
<1> QED
  BY <1>2, <1>3

\* What a cache holds at first, and after block a was given line i of it.
LEMMA WithoutNone ==
  ASSUME NEW c \in Used, lines[c] \in [Line(c) -> Nat \cup {None}]
  PROVE  Contents[c] = Without(Contents[c], {}, ptr[c])
<1>1. Contents[c] = [lines |-> lines[c], ptr |-> ptr[c], older |-> older[c]]
  BY DEF Contents
<1>2. lines[c] = [j \in DOMAIN lines[c] |-> IF j \in {} THEN None ELSE lines[c][j]]
  OBVIOUS
<1>3. older[c] = {q \in older[c] : q[1] \notin {} /\ q[2] \notin {}}
  OBVIOUS
<1>4. Without(Contents[c], {}, ptr[c])
        = [lines |-> [j \in DOMAIN lines[c] |-> IF j \in {} THEN None ELSE lines[c][j]],
           ptr |-> ptr[c],
           older |-> {q \in older[c] : q[1] \notin {} /\ q[2] \notin {}}]
  BY <1>1 DEF Without
<1> QED
  BY <1>1, <1>2, <1>3, <1>4

LEMMA FilledWithout ==
  ASSUME NEW c \in Used, lines[c] \in [Line(c) -> Nat \cup {None}],
         NEW W, NEW p, NEW i, NEW a
  PROVE  Filled(Without(Contents[c], W, p), i, a) =
           [lines |-> [j \in Line(c) |-> IF j = i THEN a ELSE IF j \in W THEN None
                                         ELSE lines[c][j]],
            ptr   |-> p,
            older |-> {q \in older[c] : q[1] \notin W /\ q[2] \notin W}
                        \cup ((Valid(c) \ W) \X {i})]
<1> DEFINE k == Contents[c]
           ls == [j \in DOMAIN k.lines |-> IF j \in W THEN None ELSE k.lines[j]]
<1>1. k.lines = lines[c] /\ k.older = older[c] /\ DOMAIN k.lines = Line(c)
  BY DEF Contents
<1>2. {j \in DOMAIN ls : ls[j] # None} = Valid(c) \ W
  BY <1>1 DEF Valid
<1>3. [j \in DOMAIN ls |-> IF j = i THEN a ELSE ls[j]]
        = [j \in Line(c) |-> IF j = i THEN a ELSE IF j \in W THEN None ELSE lines[c][j]]
  BY <1>1
<1> HIDE DEF k
<1>4. Without(k, W, p) = [lines |-> ls, ptr |-> p,
                          older |-> {q \in k.older : q[1] \notin W /\ q[2] \notin W}]
  BY DEF Without
<1>5. Filled([lines |-> ls, ptr |-> p,
              older |-> {q \in k.older : q[1] \notin W /\ q[2] \notin W}], i, a)
        = [lines |-> [j \in DOMAIN ls |-> IF j = i THEN a ELSE ls[j]], ptr |-> p,
           older |-> {q \in k.older : q[1] \notin W /\ q[2] \notin W}
                       \cup ({j \in DOMAIN ls : ls[j] # None} \X {i})]
  BY DEF Filled
<1> QED
  BY <1>1, <1>2, <1>3, <1>4, <1>5 DEF k

\* Some calls leave the lines S of cache c without those of W, one free.
MakeRoom(m, c, S, draws, W, p) ==
  /\ FreeIn(c, S) \cup (W \cap S) # {}
  /\ \E i \in 0 .. MaxTurns :
       Turns(m, c, S, draws)[i] = With(m, c, Without(Contents[c], W, p))

\* The block is given the least free line.
LEMMA WriteFills ==
  ASSUME NEW c \in Used, lines[c] \in [Line(c) -> Nat \cup {None}],
         NEW a, SetOf(c, a) \subseteq Line(c), NEW m, DOMAIN m = Used, NEW draws,
         NEW W, NEW p, MakeRoom(m, c, SetOf(c, a), draws, W, p)
  PROVE  write_cache(m, c, a, draws) =
           [ended |-> TRUE,
            caches |-> With(m, c, Filled(Without(Contents[c], W, p),
                                         Least(FreeIn(c, SetOf(c, a)) \cup (W \cap SetOf(c, a))),
                                         a))]
<1> DEFINE S == SetOf(c, a)
           T == FreeIn(c, S) \cup (W \cap S)
           k == Without(Contents[c], W, p)
           end == Turns(m, c, S, draws)[MaxTurns]
<1>0. T # {}
  BY DEF MakeRoom
<1>9. PICK i \in 0 .. MaxTurns : Turns(m, c, S, draws)[i] = With(m, c, k)
  BY DEF MakeRoom
<1>1. \A j \in Line(c) : k.lines[j] = IF j \in W THEN None ELSE lines[c][j]
  BY DEF Without, Contents
<1>2. {j \in S : k.lines[j] = None} = T
  BY <1>1 DEF FreeIn
<1>3. HasRoom(k, S)
  BY <1>0, <1>2 DEF HasRoom
<1> HIDE DEF k, S, T
<1>4. With(m, c, k)[c] = k
  BY DEF With
<1>5. end = With(m, c, k) /\ end[c] = k
  <2>1. HasRoom(Turns(m, c, S, draws)[i][c], S)
    BY <1>9, <1>3, <1>4
  <2>2. end = Turns(m, c, S, draws)[i]
    BY <2>1, TurnsStop
  <2> QED
    BY <1>9, <1>4, <2>2
<1>6. [end EXCEPT ![c] = Filled(@, Least(T), a)] = With(m, c, Filled(k, Least(T), a))
  BY <1>5 DEF With
<1>7. write_cache(m, c, a, draws)
        = IF HasRoom(end[c], S)
          THEN [ended |-> TRUE,
                caches |-> [end EXCEPT ![c] = Filled(@, Least({j \in S : end[c].lines[j] = None}), a)]]
          ELSE [ended |-> FALSE, caches |-> end]
  BY DEF write_cache, S
<1> HIDE DEF end
<1>8. Least({j \in S : end[c].lines[j] = None}) = Least(T)
  BY <1>2, <1>5
<1> QED
  BY <1>3, <1>5, <1>6, <1>7, <1>8 DEF k, S, T

-----------------------------------------------------------------------------
(* The FIFO pointer.                                                       *)

LEMMA PassedIs ==
  ASSUME config \in Configurations, NEW c \in Cache, ptr[c] \in Nat, NEW k \in Line(c)
  PROVE  /\ Size[c] \in Nat /\ SweepStart(c) \in 0 .. Size[c] - 1
         /\ Passed(c, k) = IF SweepStart(c) + k < Size[c] THEN SweepStart(c) + k
                           ELSE SweepStart(c) + k - Size[c]
<1>1. PICK m \in Nat, s \in Nat : m = Size[c] /\ s = SweepStart(c) /\ m >= 1 /\ s < m
  BY ConfigType DEF SweepStart
<1>2. k \in 0 .. m - 1
  BY <1>1 DEF Line
<1>3. CASE s + k < m
  <2>1. s + k \in 0 .. m - 1
    BY <1>1, <1>2, <1>3
  <2>2. (s + k) % m = s + k
    BY <2>1, Wraps
  <2> QED
    BY <1>1, <1>3, <2>2 DEF Passed
<1>4. CASE ~(s + k < m)
  <2>1. s + k - m \in 0 .. m - 1 /\ s + k = (s + k - m) + m
    BY <1>1, <1>2, <1>4
  <2>2. ((s + k - m) + m) % m = s + k - m
    BY <2>1, Wraps
  <2>3. (s + k) % m = s + k - m
    BY <2>1, <2>2
  <2> QED
    BY <1>1, <1>4, <2>3 DEF Passed
<1> QED
  BY <1>1, <1>3, <1>4

\* Where it points after n calls, and the lines it has emptied by then.
Pointer(c, n) == IF n = 0 THEN ptr[c] ELSE Passed(c, n - 1) + 1
Gone(c, n) == {Passed(c, j) : j \in 0 .. n - 1}

LEMMA PointsToNext ==
  ASSUME config \in Configurations, NEW c \in Cache, ptr[c] \in Nat, NEW k \in Line(c)
  PROVE  (IF Pointer(c, k) >= Size[c] THEN 0 ELSE Pointer(c, k)) = Passed(c, k)
<1>1. PICK m \in Nat, s \in Nat : m = Size[c] /\ s = SweepStart(c) /\ s < m /\ k \in 0 .. m - 1
  BY PassedIs DEF Line
<1>2. Passed(c, k) = IF s + k < m THEN s + k ELSE s + k - m
  BY <1>1, PassedIs
<1>3. CASE k = 0
  BY <1>1, <1>2, <1>3 DEF Pointer, SweepStart
<1>4. CASE k # 0
  <2>1. k - 1 \in Line(c)
    BY <1>1, <1>4 DEF Line
  <2>2. Passed(c, k - 1) = IF s + (k - 1) < m THEN s + (k - 1) ELSE s + (k - 1) - m
    BY <1>1, <2>1, PassedIs
  <2> QED
    BY <1>1, <1>2, <1>4, <2>2 DEF Pointer
<1> QED
  BY <1>3, <1>4

\* Each call moves it on by one line, until it has emptied one of the set.
LEMMA FifoTurns ==
  ASSUME config \in Configurations, NEW c \in Used, c \in Cache, ptr[c] \in Nat,
         lines[c] \in [Line(c) -> Nat \cup {None}], Policy = "FIFO", ~Direct,
         NEW S, S \subseteq Line(c), FreeIn(c, S) = {}, NEW draws,
         NEW m, m = With(m, c, Contents[c]),
         NEW stop \in Line(c), \A k \in Line(c) : Passed(c, k) \in S => stop =< k
  PROVE  /\ stop + 1 \in 0 .. MaxTurns
         /\ Turns(m, c, S, draws)[stop + 1]
              = With(m, c, Without(Contents[c], Gone(c, stop + 1), Passed(c, stop) + 1))
<1> DEFINE t == Turns(m, c, S, draws)
           k(n) == Without(Contents[c], Gone(c, n), Pointer(c, n))
           G == {n \in 0 .. stop + 1 : t[n] = With(m, c, k(n))}
<1>1. stop \in Nat /\ stop < Size[c] /\ Size[c] \in Nat /\ stop + 1 \in Nat
      /\ MaxTurns \in Nat /\ Size[c] =< MaxTurns
  BY ConfigType, TurnsAssumption DEF Line, Size
<1>2. t[0] = m /\ \A n \in 1 .. MaxTurns : t[n] = OneTurn(t[n - 1], c, S, draws[n])
  BY TurnsUnfold
<1> HIDE DEF t
<1>3. 0 \in G
  <2>1. Gone(c, 0) = {} /\ Pointer(c, 0) = ptr[c]
    BY DEF Gone, Pointer
  <2>2. k(0) = Contents[c]
    BY <2>1, WithoutNone
  <2> HIDE DEF k
  <2> QED
    BY <1>1, <1>2, <2>2
<1>4. ASSUME NEW n \in 0 .. (stop + 1) - 1, n \in G PROVE n + 1 \in G
  <2>1. n + 1 \in 1 .. MaxTurns /\ (n + 1) - 1 = n /\ n + 1 \in 0 .. stop + 1 /\ n =< stop
        /\ n \in Line(c) /\ n \in Nat
    BY <1>1 DEF Line
  <2>2. t[n] = With(m, c, k(n))
    BY <1>4
  <2>3. t[n][c] = k(n)
    <3> HIDE DEF k
    <3> QED
      BY <2>2 DEF With
  <2>4. ~HasRoom(k(n), S)
    <3> SUFFICES ASSUME NEW j \in S, k(n).lines[j] = None PROVE FALSE
      BY DEF HasRoom
    <3>1. k(n).lines[j] = IF j \in Gone(c, n) THEN None ELSE lines[c][j]
      BY DEF Without, Contents
    <3>2. lines[c][j] # None
      BY DEF FreeIn
    <3>3. PICK i \in 0 .. n - 1 : j = Passed(c, i)
      BY <3>1, <3>2 DEF Gone
    <3>4. i \in Line(c) /\ i < stop
      BY <1>1, <2>1 DEF Line
    <3> QED
      BY <1>1, <3>3, <3>4
  <2>5. t[n + 1] = replace_cache(t[n], c, S, draws[n + 1])
    <3> HIDE DEF k
    <3> QED
      BY <1>2, <2>1, <2>3, <2>4 DEF OneTurn
  <2>6. replace_cache(t[n], c, S, draws[n + 1]) = With(m, c, NextOut(k(n), Size[c]))
    <3> HIDE DEF k
    <3>1. replace_cache(t[n], c, S, draws[n + 1])
            = [d \in Used |-> IF d = c THEN NextOut(t[n][d], Size[d]) ELSE t[n][d]]
      BY DEF replace_cache
    <3>2. \A d \in Used : d # c => t[n][d] = m[d]
      BY <2>2 DEF With
    <3> QED
      BY <2>3, <3>1, <3>2 DEF With
  <2>7. NextOut(k(n), Size[c]) = k(n + 1)
    <3>1. k(n).ptr = Pointer(c, n)
      BY DEF Without
    <3>2. NextOut(k(n), Size[c])
            = [Emptied(k(n), Passed(c, n)) EXCEPT !.ptr = Passed(c, n) + 1]
      <4> HIDE DEF k
      <4> QED
        BY <2>1, <3>1, PointsToNext DEF NextOut
    <3>3. NextOut(k(n), Size[c])
            = Without(Contents[c], Gone(c, n) \cup {Passed(c, n)}, Passed(c, n) + 1)
      <4> DEFINE i == Passed(c, n)
                 x == i + 1
      <4>1. [Emptied(k(n), i) EXCEPT !.ptr = x] = Without(Contents[c], Gone(c, n) \cup {i}, x)
        <5> HIDE DEF i, x
        <5> QED
          BY EmptiedAlso
      <4> HIDE DEF k
      <4> QED
        BY <3>2, <4>1, Zenon
    <3>4. Gone(c, n + 1) = Gone(c, n) \cup {Passed(c, n)}
      <4>1. 0 .. (n + 1) - 1 = (0 .. n - 1) \cup {n}
        BY <2>1
      <4> QED
        BY <4>1 DEF Gone
    <3>5. Pointer(c, n + 1) = Passed(c, n) + 1
      BY <2>1 DEF Pointer
    <3> QED
      BY <3>3, <3>4, <3>5
  <2> HIDE DEF k
  <2> QED
    BY <2>1, <2>5, <2>6, <2>7
<1>5. stop + 1 \in G
  <2> HIDE DEF G
  <2>1. \A n \in 0 .. stop + 1 : n \in G
    BY <1>1, <1>3, <1>4, UpTo
  <2> QED
    BY <1>1, <2>1
<1>6. Pointer(c, stop + 1) = Passed(c, stop) + 1
  BY <1>1 DEF Pointer
<1> QED
  BY <1>1, <1>5, <1>6 DEF t

-----------------------------------------------------------------------------
(* What write_cache comes to.                                              *)

\* The calls have emptied the lines of Evicted, and the block is placed.
LEMMA WritePlaces ==
  ASSUME NEW c \in Used, lines[c] \in [Line(c) -> Nat \cup {None}],
         NEW a, SetOf(c, a) \subseteq Line(c), NEW m, DOMAIN m = Used, NEW draws, NEW r,
         MakeRoom(m, c, SetOf(c, a), draws, Evicted(c, SetOf(c, a), r), Placed(c, a, r).ptr)
  PROVE  write_cache(m, c, a, draws) = [ended |-> TRUE, caches |-> With(m, c, Placed(c, a, r))]
<1> DEFINE S == SetOf(c, a)
           W == Evicted(c, S, r)
           p == Placed(c, a, r).ptr
           here == Least(FreeIn(c, S) \cup (W \cap S))
<1>1. write_cache(m, c, a, draws)
        = [ended |-> TRUE, caches |-> With(m, c, Filled(Without(Contents[c], W, p), here, a))]
  BY WriteFills
<1>2. Filled(Without(Contents[c], W, p), here, a)
        = [lines |-> [j \in Line(c) |-> IF j = here THEN a ELSE IF j \in W THEN None
                                        ELSE lines[c][j]],
           ptr   |-> p,
           older |-> {q \in older[c] : q[1] \notin W /\ q[2] \notin W}
                       \cup ((Valid(c) \ W) \X {here})]
  <2> HIDE DEF here, W, p
  <2> QED
    BY FilledWithout
<1>3. Placed(c, a, r)
        = [lines |-> [j \in Line(c) |-> IF j = here THEN a ELSE IF j \in W THEN None
                                        ELSE lines[c][j]],
           ptr   |-> p,
           older |-> {q \in older[c] : q[1] \notin W /\ q[2] \notin W}
                       \cup ((Valid(c) \ W) \X {here})]
  BY DEF Placed
<1> HIDE DEF here
<1> QED
  BY <1>1, <1>2, <1>3, Zenon

\* It ends, unless random replacement has to make room in a divided second level.
LEMMA WriteEnds ==
  ASSUME config \in Configurations, NEW c \in Used, c \in Cache, ptr[c] \in Nat,
         lines[c] \in [Line(c) -> Nat \cup {None}], NEW a \in Nat, NEW draws \in Draws(c),
         NEW m, m = With(m, c, Contents[c]),
         Policy = "Random" /\ c \in {"L2_I", "L2_D"} => FreeIn(c, SetOf(c, a)) # {}
  PROVE  /\ write_cache(m, c, a, draws)
              = [ended |-> TRUE, caches |-> With(m, c, Placed(c, a, draws[1]))]
         /\ draws[1] \in Random(c)
<1> DEFINE S == SetOf(c, a)
           r == draws[1]
           t == Turns(m, c, S, draws)
<1>1. S \subseteq Line(c) /\ S \in SUBSET Nat /\ Least(S) \in S
      /\ (Direct \/ S = SetAt(c, Least(S)))
  BY SetInCache
<1>2. MaxTurns \in Nat /\ 1 \in 1 .. MaxTurns /\ 0 \in 0 .. MaxTurns /\ 1 \in 0 .. MaxTurns
  BY TurnsAssumption
<1>3. r \in Random(c)
  BY <1>2 DEF Draws
<1>4. t[0] = m /\ t[1] = OneTurn(m, c, S, r)
  <2>1. t[0] = m /\ \A n \in 1 .. MaxTurns : t[n] = OneTurn(t[n - 1], c, S, draws[n])
    BY TurnsUnfold
  <2> HIDE DEF t
  <2> QED
    BY <1>2, <2>1
<1>5. DOMAIN m = Used /\ m[c] = Contents[c]
  BY DEF With
<1>9. ASSUME MakeRoom(m, c, S, draws, Evicted(c, S, r), Placed(c, a, r).ptr)
      PROVE  write_cache(m, c, a, draws) = [ended |-> TRUE, caches |-> With(m, c, Placed(c, a, r))]
  <2>1. c \in Used /\ lines[c] \in [Line(c) -> Nat \cup {None}] /\ S \subseteq Line(c)
        /\ DOMAIN m = Used
    BY <1>1, <1>5
  <2> HIDE DEF r
  <2> QED
    BY ONLY <1>9, <2>1, WritePlaces DEF S
<1>6. CASE FreeIn(c, S) # {}
  <2>1. Evicted(c, S, r) = {} /\ Placed(c, a, r).ptr = ptr[c]
    BY <1>6 DEF Evicted, Placed
  <2>2. t[0] = With(m, c, Without(Contents[c], {}, ptr[c]))
    BY <1>4, WithoutNone
  <2>3. MakeRoom(m, c, S, draws, {}, ptr[c])
    <3> HIDE DEF S
    <3> QED
      BY <1>2, <1>6, <2>2 DEF MakeRoom, t
  <2>4. MakeRoom(m, c, S, draws, Evicted(c, S, r), Placed(c, a, r).ptr)
    BY <2>1, <2>3, Zenon
  <2> QED
    BY <1>3, <1>9, <2>4
<1>7. CASE FreeIn(c, S) = {} /\ ~(Policy = "FIFO" /\ ~Direct)
  <2> DEFINE out == Least(S) + r
  <2>1. out \in S /\ Evicted(c, S, r) = {out}
    <3>1. Ways(c) \in 1 .. MaxLines /\ Policy \in {"Random", "FIFO"}
      BY ConfigType DEF Ways
    <3>2. CASE Direct
      <4>1. r = 0
        BY <1>3, <3>2 DEF Random
      <4> QED
        BY <1>1, <1>7, <3>2, <4>1 DEF Evicted
    <3>3. CASE ~Direct
      <4>1. Policy = "Random" /\ r \in 0 .. Ways(c) - 1
        BY <1>3, <1>7, <3>1, <3>3 DEF Random
      <4> QED
        BY <1>1, <1>7, <3>1, <3>3, <4>1 DEF Evicted, SetAt
    <3> QED
      BY <3>2, <3>3
  <2>2. RandomVictim(c) = c
    BY <1>7 DEF RandomVictim
  <2>3. ~HasRoom(m[c], S)
    BY <1>5, <1>7 DEF HasRoom, FreeIn, Contents
  <2>4. t[1] = With(m, c, Emptied(Contents[c], out))
    <3> HIDE DEF S, t
    <3> QED
      BY <1>4, <1>5, <1>7, <2>2, <2>3 DEF OneTurn, replace_cache, With
  <2>5. Emptied(Contents[c], out) = Without(Contents[c], {out}, ptr[c])
    <3> HIDE DEF out
    <3>1. Emptied(Without(Contents[c], {}, ptr[c]), out)
            = Without(Contents[c], {} \cup {out}, ptr[c])
      BY EmptiedAlso
    <3>2. Contents[c] = Without(Contents[c], {}, ptr[c])
      BY WithoutNone
    <3>3. {} \cup {out} = {out}
      OBVIOUS
    <3> QED
      BY <3>1, <3>2, <3>3, Zenon
  <2>6. Placed(c, a, r).ptr = ptr[c]
    BY <1>7 DEF Placed
  <2>7. t[1] = With(m, c, Without(Contents[c], {out}, ptr[c]))
    BY <2>4, <2>5
  <2>8. MakeRoom(m, c, S, draws, {out}, ptr[c])
    <3> HIDE DEF S, out
    <3> QED
      BY <1>2, <2>1, <2>7 DEF MakeRoom, t
  <2>9. MakeRoom(m, c, S, draws, Evicted(c, S, r), Placed(c, a, r).ptr)
    <3> HIDE DEF out
    <3> QED
      BY <2>1, <2>6, <2>8, Zenon
  <2> QED
    BY <1>3, <1>9, <2>9
<1>8. CASE FreeIn(c, S) = {} /\ Policy = "FIFO" /\ ~Direct
  <2>1. PICK stop \in Line(c) :
          /\ Passed(c, stop) \in S
          /\ \A k \in Line(c) : Passed(c, k) \in S => stop =< k
          /\ Swept(c, S) = {Passed(c, k) : k \in 0 .. stop}
    BY <1>1, SweepStops
  <2> DEFINE W == Gone(c, stop + 1)
             p == Passed(c, stop) + 1
  <2>2. stop \in Nat /\ (stop + 1) - 1 = stop /\ stop \in 0 .. stop
    BY ConfigType DEF Line
  <2>3. W = Swept(c, S) /\ W = Evicted(c, S, r)
    BY <1>8, <2>1, <2>2 DEF Gone, Evicted
  <2>4. W \cap S = {Passed(c, stop)}
    <3>1. ASSUME NEW k \in 0 .. stop, Passed(c, k) \in S PROVE k = stop
      <4>1. k \in Line(c)
        BY <2>2, ConfigType DEF Line
      <4> QED
        BY <2>1, <2>2, <3>1, <4>1
    <3> QED
      BY <2>1, <2>2, <2>3, <3>1
  <2>5. /\ stop + 1 \in 0 .. MaxTurns
        /\ t[stop + 1] = With(m, c, Without(Contents[c], W, p))
    <3>1. FreeIn(c, S) = {} /\ Policy = "FIFO" /\ ~Direct /\ S \subseteq Line(c)
      BY <1>1, <1>8
    <3>2. \A k \in Line(c) : Passed(c, k) \in S => stop =< k
      BY <2>1
    <3> HIDE DEF S
    <3> QED
      BY <3>1, <3>2, FifoTurns
  <2>6. Placed(c, a, r).ptr = p
    <3>1. FreeIn(c, S) \cup (W \cap S) = {Passed(c, stop)}
      BY <1>8, <2>4
    <3>2. Least({Passed(c, stop)}) = Passed(c, stop)
      <4>1. {Passed(c, stop)} \in SUBSET Nat
        BY <1>1, <2>1
      <4>2. Least({Passed(c, stop)}) \in {Passed(c, stop)}
        BY <4>1, LeastIsMember
      <4> QED
        BY <4>2
    <3>3. W # {}
      BY <2>4
    <3>4. Placed(c, a, r).ptr = Least(FreeIn(c, S) \cup (W \cap S)) + 1
      BY <1>8, <2>3, <3>3 DEF Placed
    <3> QED
      BY <3>1, <3>2, <3>4
  <2>7. MakeRoom(m, c, S, draws, W, p)
    <3> HIDE DEF S, W, p
    <3> QED
      BY <2>4, <2>5 DEF MakeRoom, t
  <2>8. MakeRoom(m, c, S, draws, Evicted(c, S, r), Placed(c, a, r).ptr)
    <3> HIDE DEF W, p
    <3> QED
      BY <2>3, <2>6, <2>7, Zenon
  <2> QED
    BY <1>3, <1>9, <2>8
<1> QED
  BY <1>3, <1>6, <1>7, <1>8

\* Lines ls2 are lines ls, perhaps without some.
Thinned(ls2, ls) ==
  /\ ls2 = [j \in DOMAIN ls |-> ls2[j]]
  /\ \A j \in DOMAIN ls : ls2[j] \in {ls[j], None}

\* There it never does, and the caches only lose lines.
LEMMA WriteStarves ==
  ASSUME NEW c \in Used, Policy = "Random", c \in {"L2_I", "L2_D"}, NEW a, NEW draws,
         NEW m, DOMAIN m = Used, \A i \in SetOf(c, a) : m[c].lines[i] # None,
         \A d \in Used : Thinned(m[d].lines, m[d].lines)
  PROVE  LET w == write_cache(m, c, a, draws)
         IN  /\ ~w.ended /\ w.caches[c] = m[c]
             /\ \A d \in Used : /\ Thinned(w.caches[d].lines, m[d].lines)
                                /\ w.caches[d].ptr = m[d].ptr
<1> DEFINE S == SetOf(c, a)
           t == Turns(m, c, S, draws)
           Less(f) == /\ f[c] = m[c]
                      /\ \A d \in Used : /\ Thinned(f[d].lines, m[d].lines)
                                         /\ f[d].ptr = m[d].ptr
           G == {n \in 0 .. MaxTurns : Less(t[n])}
<1>0. MaxTurns \in Nat
  BY TurnsAssumption
<1>1. t[0] = m /\ \A n \in 1 .. MaxTurns : t[n] = OneTurn(t[n - 1], c, S, draws[n])
  BY TurnsUnfold
<1>2. ~HasRoom(m[c], S)
  BY DEF HasRoom
<1> HIDE DEF t, S
<1>3. 0 \in G
  BY <1>0, <1>1
<1>4. ASSUME NEW n \in 0 .. MaxTurns - 1, n \in G PROVE n + 1 \in G
  <2>1. n + 1 \in 1 .. MaxTurns /\ (n + 1) - 1 = n /\ n + 1 \in 0 .. MaxTurns
    BY <1>0
  <2> DEFINE f == t[n]
             x == Least(S) + draws[n + 1]
             b == RandomVictim(c)
  <2>2. Less(f)
    BY <1>4
  <2>3. b # c /\ Policy # "FIFO"
    BY DEF RandomVictim
  <2> HIDE DEF f, x, b
  <2>4. t[n + 1] = [d \in Used |-> IF d = b THEN Emptied(f[d], x) ELSE f[d]]
    BY <1>1, <1>2, <2>1, <2>2, <2>3 DEF OneTurn, replace_cache, f, x, b
  <2>5. ASSUME NEW d \in Used PROVE Thinned(Emptied(f[d], x).lines, m[d].lines)
    <3>1. Thinned(f[d].lines, m[d].lines)
      BY <2>2
    <3>2. DOMAIN f[d].lines = DOMAIN m[d].lines
      BY <3>1 DEF Thinned
    <3>3. Emptied(f[d], x).lines
            = [j \in DOMAIN m[d].lines |-> IF j = x THEN None ELSE f[d].lines[j]]
      BY <3>2 DEF Emptied
    <3> QED
      BY <3>1, <3>3 DEF Thinned
  <2>6. \A d : Emptied(f[d], x).ptr = f[d].ptr
    BY DEF Emptied
  <2>7. Less(t[n + 1])
    BY <2>2, <2>3, <2>4, <2>5, <2>6
  <2> QED
    BY <2>1, <2>7
<1>5. Less(t[MaxTurns])
  <2> HIDE DEF G
  <2>1. \A n \in 0 .. MaxTurns : n \in G
    BY <1>0, <1>3, <1>4, UpTo
  <2>2. MaxTurns \in G
    BY <1>0, <2>1
  <2> QED
    BY <2>2, Zenon DEF G
<1>6. ~HasRoom(t[MaxTurns][c], S)
  BY <1>2, <1>5
<1> DEFINE w == write_cache(m, c, a, draws)
<1>7. w = [ended |-> FALSE, caches |-> t[MaxTurns]]
  BY <1>6 DEF write_cache, t, S
<1>8. ~w.ended /\ w.caches = t[MaxTurns]
  BY <1>7
<1> HIDE DEF w
<1> QED
  BY <1>5, <1>8 DEF w

-----------------------------------------------------------------------------
(* Hypotheses on the configurations, each of which the page may break.     *)

First == {"L1", "L1_I", "L1_D"}
Second == {"L2", "L2_I", "L2_D"}

\* Blocks of a second level are not smaller than those of a first one.
BlocksNest ==
  \A k \in Configurations : \A c \in First, d \in Second : k.Unit[c] =< k.Unit[d]

\* No read is wider than a block.
ReadsFit ==
  \A k \in Configurations : \A w \in k.Widths \cup {1}, c \in Cache : w =< k.Unit[c]

\* The index bits tell no more sets apart than the cache has.
IndexFits ==
  \A k \in Configurations : \A c \in Cache :
    IF k.Direct THEN Pow2Above(k.NumLines[c]) =< k.Size[c]
    ELSE Pow2Above(k.Size[c] \div k.NumLines[c]) =< k.Size[c] \div k.NumLines["L1"]

\* A direct-mapped cache without index bits has sets of one line.
DirectMaps ==
  \A k \in Configurations : k.Direct =>
    \A c \in Cache : k.NumLines[c] = 1 => k.NumLines["L1"] = 1

\* With divided first levels alone, the block size of the unified cache is not
\* the one size the branch for L1_I is missing for.
FetchesFill ==
  \A k \in Configurations :
    k.LevelType = 1 /\ k.Unit["L1"] = 4 => k.Unit["L1_I"] = 4

-----------------------------------------------------------------------------
(* What a step does: some caches are given one and the same block.         *)

LEMMA UsedCaches ==
  ASSUME config \in Configurations PROVE Used \subseteq Cache
<1>1. "L1" \in Cache
  BY DEF Cache
<1>2. LevelType \in 0 .. 5
  BY <1>1, ConfigType
<1> QED
  BY <1>2 DEF Used, Cache

\* The parts of a request.
LEMMA RequestType ==
  ASSUME config \in Configurations, NEW q \in Request
  PROVE  /\ q.op \in {"fetch", "load"} /\ q.addr \in Nat /\ q.addr \in config.Addresses
         /\ q.width \in {1, 2} /\ q.width \in config.Widths \cup {1}
         /\ q.atPC \in BOOLEAN /\ (q.op = "fetch" => q.width = 1)
         /\ (~Translation /\ q.op = "fetch" => q.atPC)
<1>1. "L1" \in Cache
  BY DEF Cache
<1>2. config.Addresses \subseteq Nat /\ config.Widths \subseteq {1, 2}
  BY <1>1, ConfigType
<1> QED
  BY <1>2 DEF Request

\* The caches a read looks up and the one it fills exist.
LEMMA LookUps ==
  ASSUME config \in Configurations, NEW q \in Request
  PROVE  /\ L1Of(q) \in Used \cap First /\ L1Addr(q) \in Nat
         /\ FillTarget(q) # Nothing => FillTarget(q) \in Used \cap First
         /\ L2Of(q) # Nothing =>
              /\ L2Of(q) \in Used \cap Second /\ L2Addr(q) \in Nat
              /\ FillTarget(q) # Nothing
<1>1. "L1" \in Cache
  BY DEF Cache
<1>2. LevelType \in 0 .. 5
  BY <1>1, ConfigType
<1>3. q.op \in {"fetch", "load"} /\ q.addr \in Nat /\ q.width \in {1, 2} /\ q.atPC \in BOOLEAN
  BY RequestType
<1>4. L1Of(q) \in Used \cap First
  BY <1>2, <1>3 DEF L1Of, Used, First
<1>5. FillTarget(q) # Nothing => FillTarget(q) \in Used \cap First
  BY <1>2, <1>3 DEF FillTarget, L1Of, Used, First
<1>6. Unit[L1Of(q)] \in {1, 2, 4}
  BY <1>4, ConfigType, UsedCaches
<1>7. L1Addr(q) \in Nat
  BY <1>3, <1>6 DEF L1Addr, TailOf
<1>8. ASSUME L2Of(q) # Nothing
      PROVE  L2Of(q) \in Used \cap Second /\ FillTarget(q) # Nothing
  <2>1. LevelType \in {2, 3, 4, 5} /\ (LevelType = 3 => q.op = "fetch")
    BY <1>2, <1>3, <1>8 DEF L2Of
  <2>2. CASE LevelType = 2
    BY <2>2 DEF L2Of, Used, Second, FillTarget, L1Of, Nothing
  <2>3. CASE LevelType = 3
    BY <1>3, <2>1, <2>3 DEF L2Of, Used, Second, FillTarget, L1Of, Nothing
  <2>4. CASE LevelType = 4
    BY <1>3, <2>4 DEF L2Of, Used, Second, FillTarget, L1Of, Nothing
  <2>5. CASE LevelType = 5
    BY <1>3, <2>5 DEF L2Of, Used, Second, FillTarget, L1Of, Nothing
  <2> QED
    BY <2>1, <2>2, <2>3, <2>4, <2>5
<1>9. ASSUME L2Of(q) # Nothing PROVE L2Addr(q) \in Nat
  <2>1. Unit[L2Of(q)] \in {1, 2, 4}
    BY <1>8, <1>9, ConfigType, UsedCaches
  <2> QED
    BY <1>7, <2>1 DEF L2Addr, TailOf
<1> QED
  BY <1>4, <1>5, <1>7, <1>8, <1>9

\* Without translation, the first-level cache that is filled is the one that
\* was looked up.
LEMMA FillsWhereItLooked ==
  ASSUME config \in Configurations, ~Translation, NEW q \in Request
  PROVE  FillTarget(q) \in {Nothing, L1Of(q)}
<1>1. "L1" \in Cache
  BY DEF Cache
<1>2. LevelType \in 0 .. 5
  BY <1>1, ConfigType
<1> QED
  BY <1>2, RequestType DEF FillTarget, L1Of

\* Both levels are asked for the same address, and for the address of the read
\* itself when no read is wider than a block.
LEMMA OneAddress ==
  ASSUME config \in Configurations, NEW q \in Request
  PROVE  /\ ReadsFit => L1Addr(q) = q.addr
         /\ (BlocksNest \/ ReadsFit) /\ L2Of(q) # Nothing => L2Addr(q) = L1Addr(q)
<1>1. q.width \in {1, 2} /\ q.width \in config.Widths \cup {1} /\ L1Of(q) \in Used \cap First
  BY RequestType, LookUps
<1>2. Unit[L1Of(q)] \in {1, 2, 4}
  BY <1>1, ConfigType, UsedCaches
<1>3. ASSUME ReadsFit, NEW c \in Used PROVE ~(Unit[c] < q.width)
  <2>1. c \in Cache
    BY UsedCaches
  <2>2. q.width =< Unit[c] /\ Unit[c] \in {1, 2, 4}
    BY <1>1, <1>3, <2>1, ConfigType DEF ReadsFit, Unit
  <2> QED
    BY <1>1, <2>2
<1>4. ReadsFit => L1Addr(q) = q.addr
  BY <1>1, <1>3 DEF L1Addr, TailOf
<1>5. ASSUME BlocksNest \/ ReadsFit, L2Of(q) # Nothing PROVE L2Addr(q) = L1Addr(q)
  <2>1. L2Of(q) \in Used \cap Second /\ Unit[L2Of(q)] \in {1, 2, 4}
    BY <1>5, LookUps, ConfigType, UsedCaches
  <2>2. CASE BlocksNest
    <3>1. Unit[L1Of(q)] =< Unit[L2Of(q)]
      BY <1>1, <2>1, <2>2 DEF BlocksNest, Unit
    <3>2. ~(Unit[L2Of(q)] < TailWidth(L1Of(q), q.width))
      BY <1>1, <1>2, <2>1, <3>1 DEF TailWidth
    <3> QED
      BY <3>2 DEF L2Addr, TailOf
  <2>3. CASE ReadsFit
    <3>1. ~(Unit[L2Of(q)] < TailWidth(L1Of(q), q.width))
      BY <1>1, <1>3, <2>1, <2>3 DEF TailWidth
    <3> QED
      BY <3>1 DEF L2Addr, TailOf
  <2> QED
    BY <1>5, <2>2, <2>3
<1> QED
  BY <1>4, <1>5

-----------------------------------------------------------------------------
(* Where blocks sit.                                                       *)

\* Each valid line is in the set of its block.
InOwnSet(c, ls) ==
  /\ ls \in [Line(c) -> Nat \cup {None}]
  /\ \A i \in Line(c) : ls[i] # None => i \in SetOf(c, ls[i])

\* No block sits twice.
OneLineEach(c, ls) ==
  \A i, j \in Line(c) :
    i # j /\ ls[i] # None /\ ls[j] # None => Block(c, ls[i]) # Block(c, ls[j])

PlaceInv ==
  /\ config \in Configurations
  /\ \A c \in Used : ptr[c] \in 0 .. Size[c] /\ InOwnSet(c, lines[c])

CacheInv == PlaceInv /\ \A c \in Used : OneLineEach(c, lines[c])

\* A step gives the caches of D lines for block a; when its calls never end
\* they have emptied some other lines on the way.
Gives(D, a, r) ==
  /\ \A d \in D : r[d] \in Random(d)
  /\ hung' => Policy = "Random"
  /\ \A c \in Used :
       LET k == IF c \in D THEN Placed(c, a, r[c]) ELSE Contents[c]
       IN  /\ ptr'[c] = k.ptr /\ Thinned(lines'[c], k.lines)
           /\ ~hung' => lines'[c] = k.lines /\ older'[c] = k.older

\* What the caches hold are lines, and remain so when one is given a block.
LEMMA HoldLines ==
  ASSUME PlaceInv, NEW c \in Used, NEW a, NEW r
  PROVE  /\ c \in Cache /\ ptr[c] \in Nat /\ lines[c] \in [Line(c) -> Nat \cup {None}]
         /\ Thinned(Contents[c].lines, Contents[c].lines)
         /\ Thinned(Placed(c, a, r).lines, Placed(c, a, r).lines)
         /\ Contents = With(Contents, c, Contents[c])
<1>1. c \in Cache /\ ptr[c] \in Nat /\ lines[c] \in [Line(c) -> Nat \cup {None}]
  BY UsedCaches, ConfigType DEF PlaceInv, InOwnSet
<1>2. Thinned(Contents[c].lines, Contents[c].lines)
  BY <1>1 DEF Thinned, Contents
<1>3. \E f : Placed(c, a, r).lines = [i \in Line(c) |-> f[i]]
  <2> DEFINE out == Evicted(c, SetOf(c, a), r)
             here == Least(FreeIn(c, SetOf(c, a)) \cup (out \cap SetOf(c, a)))
             f == [i \in Line(c) |-> IF i = here THEN a ELSE IF i \in out THEN None
                                     ELSE lines[c][i]]
  <2>1. Placed(c, a, r).lines = f
    BY DEF Placed
  <2>2. f = [i \in Line(c) |-> f[i]]
    OBVIOUS
  <2> HIDE DEF f
  <2> QED
    BY <2>1, <2>2
<1>4. Thinned(Placed(c, a, r).lines, Placed(c, a, r).lines)
  BY <1>3 DEF Thinned
<1>5. Contents = With(Contents, c, Contents[c])
  BY DEF Contents, With
<1> QED
  BY <1>1, <1>2, <1>4, <1>5

\* A miss that is served by the first level alone:
LEMMA MissFillsL1 ==
  ASSUME PlaceInv, NEW q \in Request, ReadMissL1(q), FillTarget(q) # Nothing
  PROVE  /\ ~hung' /\ FillTarget(q) \in Used /\ L1Addr(q) \in Nat
         /\ \E r : Gives({FillTarget(q)}, L1Addr(q), r)
<1> DEFINE c == FillTarget(q)
           a == L1Addr(q)
<1>1. config \in Configurations /\ c \in Used \cap First /\ a \in Nat
  BY LookUps DEF PlaceInv
<1>2. c \notin {"L2_I", "L2_D"}
  BY <1>1 DEF First
<1>3. PICK draws \in Draws(c) : WriteCaches(write_cache(Contents, c, a, draws))
  BY DEF ReadMissL1
<1> HIDE DEF c, a
<1> DEFINE r == [d \in {c} |-> draws[1]]
           m == With(Contents, c, Placed(c, a, draws[1]))
<1>4. /\ write_cache(Contents, c, a, draws) = [ended |-> TRUE, caches |-> m]
      /\ draws[1] \in Random(c)
  BY <1>1, <1>2, HoldLines, WriteEnds
<1>5. \A d \in Used : /\ m[d] = IF d \in {c} THEN Placed(d, a, r[d]) ELSE Contents[d]
                     /\ Thinned(m[d].lines, m[d].lines)
  BY HoldLines DEF With
<1> HIDE DEF m
<1>6. ~hung' /\ \A d \in Used : /\ lines'[d] = m[d].lines /\ ptr'[d] = m[d].ptr
                               /\ older'[d] = m[d].older
  <2> DEFINE w == [ended |-> TRUE, caches |-> m]
  <2>1. WriteCaches(w) /\ w.ended /\ w.caches = m
    BY <1>3, <1>4
  <2> HIDE DEF w
  <2> QED
    BY <2>1 DEF WriteCaches
<1>7. Gives({c}, a, r)
  BY <1>4, <1>5, <1>6 DEF Gives
<1> HIDE DEF r
<1> QED
  BY <1>1, <1>6, <1>7 DEF c, a

\* A miss that is served by both: the second starves, or is given a line too.
LEMMA MissFillsBoth ==
  ASSUME PlaceInv, NEW q \in Request, ReadMissBoth(q)
  PROVE  LET c1 == FillTarget(q)
             c2 == L2Of(q)
         IN  /\ c1 \in Used /\ c2 \in Used /\ c1 # c2 /\ c1 # Nothing /\ c2 # Nothing
             /\ L2Addr(q) \in Nat
             /\ hung' <=> Starves(q)
             /\ \E r : Gives(IF hung' THEN {c1} ELSE {c1, c2}, L2Addr(q), r)
<1> DEFINE c1 == FillTarget(q)
           c2 == L2Of(q)
           a == L2Addr(q)
<1>1. config \in Configurations /\ c1 \in Used \cap First /\ c2 \in Used \cap Second
      /\ a \in Nat /\ c1 # Nothing /\ c2 # Nothing
  BY LookUps DEF PlaceInv, ReadMissBoth
<1>2. c1 \notin {"L2_I", "L2_D"} /\ c1 # c2
  BY <1>1 DEF First, Second
<1>3. PICK d1 \in Draws(c1), d2 \in Draws(c2) :
        WriteCaches(IF write_cache(Contents, c1, a, d1).ended
                    THEN write_cache(write_cache(Contents, c1, a, d1).caches, c2, a, d2)
                    ELSE write_cache(Contents, c1, a, d1))
  BY DEF ReadMissBoth
<1>4. Starves(q) <=> /\ Policy = "Random" /\ c2 \in {"L2_I", "L2_D"}
                     /\ \A i \in SetOf(c2, a) : lines[c2][i] # None
  BY DEF Starves
<1> HIDE DEF c1, c2, a
<1> DEFINE r1 == d1[1]
           k1 == Placed(c1, a, r1)
           m == With(Contents, c1, k1)
           w == write_cache(m, c2, a, d2)
<1>5. /\ write_cache(Contents, c1, a, d1) = [ended |-> TRUE, caches |-> m]
      /\ r1 \in Random(c1)
  BY <1>1, <1>2, HoldLines, WriteEnds
<1>6. WriteCaches(w)
  <2> HIDE DEF m
  <2> QED
    BY <1>3, <1>5
<1>7. \A d \in Used : /\ m[d] = IF d \in {c1} THEN Placed(d, a, r1) ELSE Contents[d]
                     /\ Thinned(m[d].lines, m[d].lines)
  BY HoldLines DEF With
<1>8. DOMAIN m = Used /\ m[c2] = Contents[c2] /\ m = With(m, c2, Contents[c2])
  BY <1>1, <1>2 DEF With
<1> HIDE DEF m, k1, r1, w
<1>9. /\ hung' <=> ~w.ended
      /\ \A d \in Used : /\ lines'[d] = w.caches[d].lines /\ ptr'[d] = w.caches[d].ptr
                         /\ older'[d] = w.caches[d].older
  BY <1>6 DEF WriteCaches
<1>10. CASE ~Starves(q)
  <2> DEFINE r2 == d2[1]
             r == [d \in {c1, c2} |-> IF d = c1 THEN r1 ELSE r2]
             f == With(m, c2, Placed(c2, a, r2))
  <2>1. Policy = "Random" /\ c2 \in {"L2_I", "L2_D"} => FreeIn(c2, SetOf(c2, a)) # {}
    BY <1>4, <1>10 DEF FreeIn
  <2>2. w = [ended |-> TRUE, caches |-> f] /\ r2 \in Random(c2)
    BY <1>1, <1>8, <2>1, HoldLines, WriteEnds DEF w
  <2>3. \A d \in Used : /\ f[d] = IF d \in {c1, c2} THEN Placed(d, a, r[d]) ELSE Contents[d]
                       /\ Thinned(f[d].lines, f[d].lines)
    BY <1>1, <1>2, <1>7, HoldLines DEF With
  <2> HIDE DEF f
  <2>4. ~hung' /\ \A d \in Used : /\ lines'[d] = f[d].lines /\ ptr'[d] = f[d].ptr
                                 /\ older'[d] = f[d].older
    BY <1>9, <2>2
  <2>5. \A d \in {c1, c2} : r[d] \in Random(d)
    BY <1>2, <1>5, <2>2
  <2> HIDE DEF r
  <2>6. Gives({c1, c2}, a, r)
    BY <2>3, <2>4, <2>5 DEF Gives
  <2> QED
    BY <1>1, <1>2, <1>10, <2>4, <2>6 DEF c1, c2, a
<1>11. CASE Starves(q)
  <2> DEFINE r == [d \in {c1} |-> r1]
  <2>1. \A i \in SetOf(c2, a) : m[c2].lines[i] # None
    BY <1>1, <1>4, <1>8, <1>11 DEF Contents
  <2>2. /\ ~w.ended
        /\ \A d \in Used : Thinned(w.caches[d].lines, m[d].lines) /\ w.caches[d].ptr = m[d].ptr
    BY <1>1, <1>4, <1>7, <1>8, <1>11, <2>1, WriteStarves DEF w
  <2>3. hung' /\ \A d \in Used : ptr'[d] = m[d].ptr /\ Thinned(lines'[d], m[d].lines)
    BY <1>9, <2>2
  <2>4. Gives({c1}, a, r)
    BY <1>4, <1>5, <1>7, <1>11, <2>3 DEF Gives
  <2> HIDE DEF r
  <2> QED
    BY <1>1, <1>2, <1>11, <2>3, <2>4 DEF c1, c2, a
<1> QED
  BY <1>10, <1>11

\* Every step moves nothing or gives one block to some caches; these were asked
\* for it in vain where no address is translated and both levels are asked for
\* the same block.
LEMMA Steps ==
  ASSUME PlaceInv, [Next]_vars
  PROVE  /\ config' = config
         /\ \/ UNCHANGED <<lines, ptr, older>>
            \/ \E D \in SUBSET Used, a \in Nat : \E r :
                 /\ Gives(D, a, r)
                 /\ ~Translation /\ (BlocksNest \/ ReadsFit) => \A d \in D : ~Hit(d, a)
<1>1. CASE UNCHANGED vars
  BY <1>1 DEF vars
<1>2. ASSUME UNCHANGED config, NEW q \in Request, Read(q)
      PROVE  \/ UNCHANGED <<lines, ptr, older>>
             \/ \E D \in SUBSET Used, a \in Nat : \E r :
                 /\ Gives(D, a, r)
                 /\ ~Translation /\ (BlocksNest \/ ReadsFit) => \A d \in D : ~Hit(d, a)
  <2>1. CASE ReadHitL1(q) \/ ReadHitL2(q)
    BY <2>1 DEF ReadHitL1, ReadHitL2
  <2>2. CASE ReadMissL1(q) /\ FillTarget(q) = Nothing
    BY <2>2 DEF ReadMissL1
  <2>3. CASE ReadMissL1(q) /\ FillTarget(q) # Nothing
    <3> DEFINE c == FillTarget(q)
               a == L1Addr(q)
    <3>1. c \in Used /\ a \in Nat /\ \E r : Gives({c}, a, r)
      BY <2>3, MissFillsL1
    <3>2. ~Translation => ~Hit(c, a)
      BY <2>3, FillsWhereItLooked DEF ReadMissL1, HitsL1, PlaceInv
    <3> HIDE DEF c, a
    <3> QED
      BY <3>1, <3>2
  <2>4. CASE ReadMissBoth(q)
    <3> DEFINE c1 == FillTarget(q)
               c2 == L2Of(q)
               a == L2Addr(q)
               D == IF hung' THEN {c1} ELSE {c1, c2}
    <3>1. c1 \in Used /\ c2 \in Used /\ a \in Nat /\ c1 # Nothing /\ c2 # Nothing
          /\ \E r : Gives(D, a, r)
      BY <2>4, MissFillsBoth
    <3>2. ASSUME ~Translation, BlocksNest \/ ReadsFit, NEW d \in D PROVE ~Hit(d, a)
      <4>1. c1 = L1Of(q) /\ a = L1Addr(q)
        BY <3>1, <3>2, FillsWhereItLooked, OneAddress DEF PlaceInv
      <4>2. ~Hit(c1, a) /\ ~Hit(c2, a)
        BY <2>4, <3>1, <4>1 DEF ReadMissBoth, HitsL1, HitsL2
      <4> QED
        BY <4>2
    <3>3. D \in SUBSET Used
      BY <3>1
    <3> HIDE DEF D, a
    <3> QED
      BY <3>1, <3>2, <3>3
  <2> QED
    BY <1>2, <2>1, <2>2, <2>3, <2>4 DEF Read
<1> QED
  BY <1>1, <1>2 DEF Next

\* What a step does to one cache.
LEMMA OneCache ==
  ASSUME NEW D \in SUBSET Used, NEW a, NEW r, Gives(D, a, r), NEW c \in Used
  PROVE  /\ c \notin D => /\ ptr'[c] = ptr[c] /\ Thinned(lines'[c], lines[c])
                          /\ ~hung' => lines'[c] = lines[c] /\ older'[c] = older[c]
         /\ c \in D => LET k == Placed(c, a, r[c])
                       IN  /\ r[c] \in Random(c)
                           /\ ptr'[c] = k.ptr /\ Thinned(lines'[c], k.lines)
                           /\ ~hung' => lines'[c] = k.lines /\ older'[c] = k.older
BY DEF Gives, Contents

-----------------------------------------------------------------------------
(* Where blocks sit.                                                       *)

\* Losing lines disturbs nothing.
LEMMA ThinnedLines ==
  ASSUME NEW c, NEW ls, InOwnSet(c, ls), NEW ls2, Thinned(ls2, ls)
  PROVE  InOwnSet(c, ls2) /\ (OneLineEach(c, ls) => OneLineEach(c, ls2))
<1>1. DOMAIN ls = Line(c)
  BY DEF InOwnSet
<1>2. ls2 = [i \in Line(c) |-> ls2[i]] /\ \A i \in Line(c) : ls2[i] = ls[i] \/ ls2[i] = None
  BY <1>1 DEF Thinned
<1>3. InOwnSet(c, ls2)
  BY <1>2 DEF InOwnSet
<1>4. OneLineEach(c, ls) => OneLineEach(c, ls2)
  BY <1>2 DEF OneLineEach
<1> QED
  BY <1>3, <1>4

\* A block is given line "here" of a cache, and some others empty.
Refill(c, a, out, here, new) ==
  /\ here \in SetOf(c, a) \cap Line(c)
  /\ here = Least(FreeIn(c, SetOf(c, a)) \cup (out \cap SetOf(c, a)))
  /\ FreeIn(c, SetOf(c, a)) = {} => here \in out
  /\ new.lines = [i \in Line(c) |->
                    IF i = here THEN a ELSE IF i \in out THEN None ELSE lines[c][i]]
  /\ new.ptr = IF Policy = "FIFO" /\ ~Direct /\ out # {} THEN here + 1 ELSE ptr[c]
  /\ new.older = {p \in older[c] : p[1] \notin out /\ p[2] \notin out}
                   \cup ((Valid(c) \ out) \X {here})

LEMMA PlacedRefills ==
  ASSUME config \in Configurations, NEW c \in Cache, ptr[c] \in Nat,
         NEW a \in Nat, NEW r \in Random(c)
  PROVE  \E here \in SetOf(c, a) \cap Line(c) :
           Refill(c, a, Evicted(c, SetOf(c, a), r), here, Placed(c, a, r))
<1> DEFINE S == SetOf(c, a)
           out == Evicted(c, S, r)
           here == Least(FreeIn(c, S) \cup (out \cap S))
<1>1. here \in FreeIn(c, S) \cup (out \cap S) /\ here \in Line(c)
  BY RefillInSet
<1>2. here \in S \cap Line(c) /\ (FreeIn(c, S) = {} => here \in out)
  BY <1>1 DEF FreeIn
<1> QED
  BY <1>2 DEF Placed, Refill

LEMMA SameConfig ==
  ASSUME config' = config, NEW c
  PROVE  /\ Used' = Used /\ Size' = Size
         /\ InOwnSet(c, lines[c])' <=> InOwnSet(c, lines'[c])
         /\ OneLineEach(c, lines[c])' <=> OneLineEach(c, lines'[c])
BY DEF Used, InOwnSet, OneLineEach, LevelType, Line, Size, SetOf, SetId, Block, Unit,
       IndexSpan, NumSet, Ways, Direct, NumLines

LEMMA PlaceInit == Init => PlaceInv
<1> SUFFICES ASSUME Init, NEW c \in Used
             PROVE  ptr[c] \in 0 .. Size[c] /\ InOwnSet(c, lines[c])
  BY DEF Init, PlaceInv
<1>1. ptr[c] = 0 /\ lines[c] = [i \in Line(c) |-> None]
  BY DEF Init
<1>2. config \in Configurations /\ c \in Cache
  BY UsedCaches DEF Init
<1>3. Size[c] \in Nat
  BY <1>2, ConfigType
<1> QED
  BY <1>1, <1>3 DEF InOwnSet

\* A given line is in the set of its block, the others move or empty.
LEMMA RefillInOwnSet ==
  ASSUME config \in Configurations, NEW c \in Cache, ptr[c] \in 0 .. Size[c],
         InOwnSet(c, lines[c]), NEW a \in Nat,
         NEW out, NEW here, NEW new, Refill(c, a, out, here, new)
  PROVE  new.ptr \in 0 .. Size[c] /\ InOwnSet(c, new.lines)
<1>1. Size[c] \in Nat /\ ptr[c] \in Nat
  BY ConfigType
<1> DEFINE ls == new.lines
<1>2. /\ here \in SetOf(c, a) \cap Line(c)
      /\ ls = [i \in Line(c) |->
                 IF i = here THEN a ELSE IF i \in out THEN None ELSE lines[c][i]]
      /\ new.ptr = here + 1 \/ new.ptr = ptr[c]
  BY DEF Refill
<1> HIDE DEF ls
<1>3. new.ptr \in 0 .. Size[c]
  BY <1>1, <1>2 DEF Line
<1>4. ls \in [Line(c) -> Nat \cup {None}]
  BY <1>2 DEF InOwnSet
<1>5. ASSUME NEW i \in Line(c), ls[i] # None PROVE i \in SetOf(c, ls[i])
  <2>1. CASE i = here
    BY <1>2, <2>1
  <2>2. CASE i # here
    BY <1>2, <1>5, <2>2 DEF InOwnSet
  <2> QED
    BY <2>1, <2>2
<1> QED
  BY <1>3, <1>4, <1>5 DEF InOwnSet, ls

LEMMA PlaceStep == ASSUME PlaceInv, [Next]_vars PROVE PlaceInv'
<1>1. config \in Configurations /\ config' = config /\ Used' = Used /\ Size' = Size
  BY Steps, SameConfig DEF PlaceInv
<1>2. ASSUME NEW c \in Used PROVE ptr'[c] \in 0 .. Size[c] /\ InOwnSet(c, lines'[c])
  <2>1. c \in Cache /\ ptr[c] \in 0 .. Size[c] /\ InOwnSet(c, lines[c])
    BY <1>1, UsedCaches DEF PlaceInv
  <2>2. CASE UNCHANGED <<lines, ptr, older>>
    BY <2>1, <2>2
  <2>3. ASSUME NEW D \in SUBSET Used, NEW a \in Nat, NEW r, Gives(D, a, r)
        PROVE  ptr'[c] \in 0 .. Size[c] /\ InOwnSet(c, lines'[c])
    <3>1. CASE c \in D
      <4> DEFINE k == Placed(c, a, r[c])
      <4>1. r[c] \in Random(c) /\ ptr'[c] = k.ptr /\ Thinned(lines'[c], k.lines)
        BY <2>3, <3>1, OneCache
      <4>2. PICK here : Refill(c, a, Evicted(c, SetOf(c, a), r[c]), here, k)
        BY <1>1, <2>1, <2>3, <4>1, ConfigType, PlacedRefills
      <4>3. k.ptr \in 0 .. Size[c] /\ InOwnSet(c, k.lines)
        BY <1>1, <2>1, <2>3, <4>2, RefillInOwnSet
      <4> HIDE DEF k
      <4> QED
        BY <4>1, <4>3, ThinnedLines
    <3>2. CASE c \notin D
      BY <2>1, <2>3, <3>2, OneCache, ThinnedLines
    <3> QED
      BY <3>1, <3>2
  <2> QED
    BY <1>1, <2>2, <2>3, Steps
<1>3. \A c \in Used' : ptr'[c] \in 0 .. Size'[c] /\ InOwnSet(c, lines[c])'
  BY <1>1, <1>2, SameConfig
<1> QED
  BY <1>1, <1>3 DEF PlaceInv

\* A block that was looked up in a cache and not found is in no line of it, so
\* bringing it in puts no block in two lines.
LEMMA RefillOnce ==
  ASSUME NEW c, NEW a, NEW out, NEW here, NEW new, Refill(c, a, out, here, new),
         InOwnSet(c, lines[c]), OneLineEach(c, lines[c]), ~Hit(c, a)
  PROVE  OneLineEach(c, new.lines)
<1> DEFINE ls == new.lines
<1>2. ls = [i \in Line(c) |->
              IF i = here THEN a ELSE IF i \in out THEN None ELSE lines[c][i]]
  BY DEF Refill
<1> HIDE DEF ls
<1>3. ASSUME NEW i \in Line(c), i # here, ls[i] # None
      PROVE  Block(c, ls[i]) # Block(c, a)
  <2>1. ls[i] = lines[c][i] /\ lines[c][i] # None /\ i \in SetOf(c, lines[c][i])
    BY <1>2, <1>3 DEF InOwnSet
  <2>2. ~(i \in SetOf(c, a) /\ Tag(c, lines[c][i]) = Tag(c, a))
    BY <2>1 DEF Hit
  <2> QED
    BY <2>1, <2>2, SameBlock
<1>4. ASSUME NEW i \in Line(c), NEW j \in Line(c),
             i # j, ls[i] # None, ls[j] # None
      PROVE  Block(c, ls[i]) # Block(c, ls[j])
  <2>1. CASE i = here
    BY <1>2, <1>3, <1>4, <2>1
  <2>2. CASE j = here
    BY <1>2, <1>3, <1>4, <2>2
  <2>3. CASE i # here /\ j # here
    BY <1>2, <1>4, <2>3 DEF OneLineEach
  <2> QED
    BY <2>1, <2>2, <2>3
<1> QED
  BY <1>4 DEF OneLineEach, ls

LEMMA OnceInit == Init => CacheInv
<1> SUFFICES ASSUME Init, NEW c \in Used PROVE OneLineEach(c, lines[c])
  BY PlaceInit DEF CacheInv
<1>1. lines[c] = [i \in Line(c) |-> None]
  BY DEF Init
<1> QED
  BY <1>1 DEF OneLineEach

LEMMA OnceStep ==
  ASSUME CacheInv, ~Translation, BlocksNest \/ ReadsFit, [Next]_vars PROVE CacheInv'
<1>1. config \in Configurations /\ config' = config /\ Used' = Used
  BY Steps, SameConfig DEF CacheInv, PlaceInv
<1>2. ASSUME NEW c \in Used PROVE OneLineEach(c, lines'[c])
  <2>1. c \in Cache /\ ptr[c] \in 0 .. Size[c] /\ InOwnSet(c, lines[c])
        /\ OneLineEach(c, lines[c])
    BY <1>1, UsedCaches DEF CacheInv, PlaceInv
  <2>2. CASE UNCHANGED <<lines, ptr, older>>
    BY <2>1, <2>2
  <2>3. ASSUME NEW D \in SUBSET Used, NEW a \in Nat, NEW r, Gives(D, a, r),
               \A d \in D : ~Hit(d, a)
        PROVE  OneLineEach(c, lines'[c])
    <3>1. CASE c \in D
      <4> DEFINE k == Placed(c, a, r[c])
      <4>1. r[c] \in Random(c) /\ Thinned(lines'[c], k.lines)
        BY <2>3, <3>1, OneCache
      <4>2. PICK here : Refill(c, a, Evicted(c, SetOf(c, a), r[c]), here, k)
        BY <1>1, <2>1, <2>3, <4>1, ConfigType, PlacedRefills
      <4>3. OneLineEach(c, k.lines) /\ InOwnSet(c, k.lines)
        BY <1>1, <2>1, <2>3, <3>1, <4>2, RefillOnce, RefillInOwnSet
      <4> HIDE DEF k
      <4> QED
        BY <4>1, <4>3, ThinnedLines
    <3>2. CASE c \notin D
      BY <2>1, <2>3, <3>2, OneCache, ThinnedLines
    <3> QED
      BY <3>1, <3>2
  <2> QED
    BY <1>1, <2>2, <2>3, Steps DEF CacheInv
<1>3. \A c \in Used' : OneLineEach(c, lines[c])'
  BY <1>1, <1>2, SameConfig
<1> QED
  BY <1>3, PlaceStep DEF CacheInv

(* No block is in two lines of a cache, for every arrangement, geometry    *)
(* and policy, where virtual and physical addresses coincide and either    *)
(* blocks of L2 are not smaller than those of L1 or no read is wider than  *)
(* a block: read_cache writes a block only into caches it has looked it up *)
(* in.                                                                     *)
THEOREM BlocksOnce ==
  ASSUME ~Translation, BlocksNest \/ ReadsFit PROVE Spec => []NoBlockTwice
<1>1. CacheInv /\ [Next]_vars => CacheInv'
  BY OnceStep
<1>2. CacheInv => NoBlockTwice
  BY DEF CacheInv, OneLineEach, NoBlockTwice
<1> QED
  BY OnceInit, <1>1, <1>2, PTL DEF Spec

-----------------------------------------------------------------------------
(* Hits.                                                                   *)

LEMMA Remainders ==
  ASSUME NEW x \in Nat, NEW y \in Nat, NEW n \in Nat, n >= 1,
         x \div n = y \div n, x % n = y % n
  PROVE  x = y
<1>1. x % n = x - n * (x \div n)
  OBVIOUS
<1>2. y % n = y - n * (y \div n)
  OBVIOUS
<1>3. PICK q \in Nat : q = x \div n
  OBVIOUS
<1>4. PICK r \in Nat : r = x % n
  OBVIOUS
<1>5. n * q \in Nat /\ r = x - n * q /\ r = y - n * q
  BY <1>1, <1>2, <1>3, <1>4
<1> QED
  BY <1>5

LEMMA SmallRemainder ==
  ASSUME NEW x \in Nat, NEW n \in Nat, NEW m \in Nat, n >= 1, n =< m
  PROVE  (x % n) % m = x % n
<1>1. x % n \in 0 .. n - 1
  OBVIOUS
<1>2. PICK y \in 0 .. n - 1 : y = x % n
  BY <1>1
<1>3. y \in 0 .. m - 1
  BY <1>2
<1> QED
  BY <1>2, <1>3, Wraps

\* Blocks with one set in common have the same index, when none is lost.
LEMMA SameSet ==
  ASSUME config \in Configurations, IndexFits, NEW c \in Cache,
         NEW a \in Nat, NEW b \in Nat, NEW i \in SetOf(c, a) \cap SetOf(c, b)
  PROVE  Block(c, a) % IndexSpan(c) = Block(c, b) % IndexSpan(c)
<1>1. Block(c, a) \in Nat /\ Block(c, b) \in Nat
  BY ConfigType DEF Block
<1>2. PICK n \in Nat : n = IndexSpan(c) /\ n >= 1
  BY IndexPositive
<1>3. CASE n = 1
  BY <1>1, <1>2, <1>3
<1>4. CASE n # 1
  <2>1. SetId(c, a) = Block(c, a) % n /\ SetId(c, b) = Block(c, b) % n
    <3>1. n =< NumSet(c)
      BY <1>2 DEF IndexFits, IndexSpan, NumSet, Ways, Direct, NumLines, Size
    <3>2. NumSet(c) \in Nat
      <4>1. Size[c] \in Nat /\ Ways(c) \in Nat /\ Ways(c) >= 1 /\ Direct \in BOOLEAN
        BY ConfigType DEF Ways
      <4> QED
        BY <4>1, Division DEF NumSet
    <3> QED
      BY <1>1, <1>2, <3>1, <3>2, SmallRemainder DEF SetId
  <2>2. CASE Direct
    BY <1>2, <1>4, <2>1, <2>2 DEF SetOf
  <2>3. CASE ~Direct
    <3>1. PICK s \in Starts(c) : SetOf(c, a) = SetAt(c, s) /\ s = SetId(c, a) * Ways(c)
      BY <1>2, <1>4, <2>3, SetShape
    <3>2. PICK t \in Starts(c) : SetOf(c, b) = SetAt(c, t) /\ t = SetId(c, b) * Ways(c)
      BY <1>2, <1>4, <2>3, SetShape
    <3>3. s = t
      <4>1. ~(s < t) /\ ~(t < s) /\ s \in Nat /\ t \in Nat
        BY <3>1, <3>2, SetsApart DEF SetAt
      <4> QED
        BY <4>1
    <3>4. PICK x \in Nat, y \in Nat, w \in Nat \ {0} :
            x = SetId(c, a) /\ y = SetId(c, b) /\ w = Ways(c)
      <4>1. Block(c, a) % n \in Nat /\ Block(c, b) % n \in Nat
        BY <1>1, <1>2
      <4>2. Ways(c) \in Nat \ {0}
        BY <3>1, SetsApart
      <4> QED
        BY <2>1, <4>1, <4>2
    <3>5. x * w = y * w
      BY <3>1, <3>2, <3>3, <3>4
    <3>6. x = y
      BY <3>4, <3>5
    <3> QED
      BY <1>2, <2>1, <3>4, <3>6
  <2> QED
    BY <2>2, <2>3
<1> QED
  BY <1>3, <1>4

\* A hit is what it promises.
LEMMA HitIsResident ==
  ASSUME config \in Configurations, IndexFits, NEW c \in Cache,
         InOwnSet(c, lines[c]), NEW a \in Nat
  PROVE  Hit(c, a) <=> Resident(c, a)
<1>1. ASSUME NEW i \in Line(c), lines[c][i] # None, i \in SetOf(c, a),
             Tag(c, lines[c][i]) = Tag(c, a)
      PROVE  Block(c, lines[c][i]) = Block(c, a)
  <2>1. lines[c][i] \in Nat /\ i \in SetOf(c, lines[c][i])
    BY <1>1 DEF InOwnSet
  <2>2. PICK x \in Nat, y \in Nat : x = Block(c, lines[c][i]) /\ y = Block(c, a)
    BY <2>1, ConfigType DEF Block
  <2>3. PICK n \in Nat : n = IndexSpan(c) /\ n >= 1
    BY IndexPositive
  <2>4. x % n = y % n
    BY <1>1, <2>1, <2>2, <2>3, SameSet
  <2>5. x \div n = y \div n
    BY <1>1, <2>2, <2>3 DEF Tag
  <2> QED
    BY <2>2, <2>3, <2>4, <2>5, Remainders
<1>2. Hit(c, a) => Resident(c, a)
  BY <1>1, SetInCache DEF Hit, Resident
<1>3. Resident(c, a) => Hit(c, a)
  BY SameBlock DEF Hit, Resident, InOwnSet
<1> QED
  BY <1>2, <1>3

\* What is printed names the request.
LEMMA AskedIsRequest ==
  ASSUME NEW q \in Request, NEW l1, NEW l2 PROVE Asked(Printed(q, l1, l2)) = q
BY DEF Request, Asked, Printed

LEMMA Reports ==
  ASSUME PlaceInv, IndexFits, ReadsFit, Next PROVE TrueReport(last')
<1>1. PICK q \in Request : Read(q)
  BY DEF Next
<1>2. config \in Configurations
  BY DEF PlaceInv
<1>3. \A c \in Used, a \in Nat : Hit(c, a) <=> Resident(c, a)
  BY <1>2, UsedCaches, HitIsResident DEF PlaceInv
<1>4. /\ L1Of(q) \in Used /\ L1Addr(q) \in Nat
      /\ L2Of(q) # Nothing => L2Of(q) \in Used /\ L2Addr(q) \in Nat
      /\ L1Addr(q) = q.addr
  BY <1>2, LookUps, OneAddress
<1>5. HitsL1(q) <=> Resident(L1Of(q), L1Addr(q))
  BY <1>3, <1>4 DEF HitsL1
<1>6. L2Of(q) # Nothing => (HitsL2(q) <=> Resident(L2Of(q), L2Addr(q)))
  BY <1>3, <1>4 DEF HitsL2
<1>7. CASE ReadHitL1(q)
  <2>1. Asked(last') = q /\ last'.l1 = "hit" /\ last'.l2 = Nothing
    BY <1>7, AskedIsRequest DEF ReadHitL1, Printed
  <2> QED
    BY <1>5, <1>7, <2>1 DEF TrueReport, ReadHitL1, Nothing
<1>8. CASE ReadHitL2(q)
  <2>1. Asked(last') = q /\ last'.l1 = "miss" /\ last'.l2 = "hit"
    BY <1>8, AskedIsRequest DEF ReadHitL2, Printed
  <2>2. L2Of(q) # Nothing
    BY <1>8 DEF ReadHitL2, HitsL2
  <2> QED
    BY <1>5, <1>6, <1>8, <2>1, <2>2 DEF TrueReport, ReadHitL2
<1>9. CASE ReadMissL1(q)
  <2>1. Asked(last') = q /\ last'.l1 = "miss" /\ last'.l2 = Nothing
    BY <1>9, AskedIsRequest DEF ReadMissL1, Printed
  <2> QED
    BY <1>5, <1>9, <2>1 DEF TrueReport, ReadMissL1, Nothing
<1>10. CASE ReadMissBoth(q)
  <2>1. Asked(last') = q /\ last'.l1 = "miss" /\ last'.l2 = "miss"
    BY <1>10, AskedIsRequest DEF ReadMissBoth, Printed
  <2> QED
    BY <1>5, <1>6, <1>10, <2>1 DEF TrueReport, ReadMissBoth
<1> QED
  BY <1>1, <1>7, <1>8, <1>9, <1>10 DEF Read

LEMMA PlaceAlways == Spec => []PlaceInv
<1>1. PlaceInv /\ [Next]_vars => PlaceInv'
  BY PlaceStep
<1> QED
  BY PlaceInit, <1>1, PTL DEF Spec

(* What read_cache prints is true, in every arrangement and policy and     *)
(* whether or not addresses are translated: it reports a hit exactly when  *)
(* the block is in the cache, provided that the index bits tell no more    *)
(* sets apart than there are and that no read is wider than a block.       *)
THEOREM TruthfulReports == ASSUME IndexFits, ReadsFit PROVE Spec => ReportsAreTrue
<1>1. PlaceInv /\ [Next]_vars => [TrueReport(last')]_vars
  BY Reports
<1> QED
  BY PlaceAlways, <1>1, PTL DEF Spec, ReportsAreTrue

-----------------------------------------------------------------------------
(* What was read is cached.                                                *)

\* Resident, of the lines ls.
Holds(c, ls, a) ==
  \E i \in Line(c) : ls[i] # None /\ Block(c, ls[i]) = Block(c, a)

\* The block of the last read is in a cache the read consults.
Cached(q, ls) ==
  \/ Holds(L1Of(q), ls[L1Of(q)], q.addr)
  \/ L2Of(q) # Nothing /\ Holds(L2Of(q), ls[L2Of(q)], q.addr)

\* Giving block a lines in the caches of D puts it into each of them.
LEMMA GivenHolds ==
  ASSUME PlaceInv, NEW D \in SUBSET Used, NEW a \in Nat, NEW r, Gives(D, a, r), ~hung',
         NEW c \in D
  PROVE  Holds(c, lines'[c], a)
<1>1. config \in Configurations /\ c \in Cache /\ ptr[c] \in 0 .. Size[c] /\ r[c] \in Random(c)
  BY UsedCaches DEF PlaceInv, Gives
<1>2. ptr[c] \in Nat
  BY <1>1, ConfigType
<1>3. PICK here : Refill(c, a, Evicted(c, SetOf(c, a), r[c]), here, Placed(c, a, r[c]))
  BY <1>1, <1>2, PlacedRefills
<1>4. lines'[c] = Placed(c, a, r[c]).lines
  BY OneCache
<1>5. here \in Line(c) /\ lines'[c][here] = a
  BY <1>3, <1>4 DEF Refill
<1>6. a # None
  BY DEF None
<1> QED
  BY <1>5, <1>6 DEF Holds

LEMMA ReadCaches ==
  ASSUME PlaceInv, IndexFits, ReadsFit, FetchesFill, NEW q \in Request, Read(q), ~NoBranch(q)
  PROVE  hung' \/ Cached(q, lines')
<1>1. config \in Configurations
  BY DEF PlaceInv
<1>2. /\ L1Of(q) \in Used /\ L1Addr(q) = q.addr /\ q.addr \in Nat
      /\ L2Of(q) # Nothing => /\ L2Of(q) \in Used /\ L2Addr(q) = q.addr
                              /\ FillTarget(q) # Nothing
      /\ FillTarget(q) # Nothing => FillTarget(q) \in Used
  BY <1>1, RequestType, LookUps, OneAddress
<1>3. \A c \in Used : Hit(c, q.addr) <=> Holds(c, lines[c], q.addr)
  BY <1>1, <1>2, UsedCaches, HitIsResident DEF PlaceInv, Resident, Holds
<1>4. CASE ReadHitL1(q)
  BY <1>2, <1>3, <1>4 DEF ReadHitL1, HitsL1, Cached
<1>5. CASE ReadHitL2(q)
  BY <1>2, <1>3, <1>5 DEF ReadHitL2, HitsL2, Cached
<1>6. CASE ReadMissL1(q)
  <2>1. LevelType \in {0, 1}
    <3>1. "L1" \in Cache
      BY DEF Cache
    <3>2. LevelType \in 0 .. 5 /\ q.op \in {"fetch", "load"} /\ q.atPC \in BOOLEAN
      BY <1>1, <3>1, ConfigType, RequestType
    <3>3. L2Of(q) = Nothing
      BY <1>6 DEF ReadMissL1
    <3>4. CASE LevelType = 4
      BY <3>2, <3>3, <3>4 DEF L2Of, Nothing
    <3> QED
      BY <3>2, <3>3, <3>4 DEF L2Of, NoBranch, Nothing
  <2>2. FillTarget(q) = L1Of(q)
    BY <1>1, <2>1 DEF FillTarget, FetchesFill, Unit, LevelType
  <2>3. FillTarget(q) # Nothing
    BY <2>1, <2>2 DEF L1Of, Nothing
  <2>4. /\ ~hung' /\ FillTarget(q) \in Used /\ L1Addr(q) \in Nat
        /\ \E r : Gives({FillTarget(q)}, L1Addr(q), r)
    BY <1>6, <2>3, MissFillsL1
  <2>5. Holds(L1Of(q), lines'[L1Of(q)], L1Addr(q))
    BY <2>2, <2>4, GivenHolds
  <2> QED
    BY <1>2, <2>5 DEF Cached
<1>7. CASE ReadMissBoth(q) /\ ~hung'
  <2>1. /\ FillTarget(q) \in Used /\ L2Of(q) \in Used /\ L2Of(q) # Nothing /\ L2Addr(q) \in Nat
        /\ \E r : Gives({FillTarget(q), L2Of(q)}, L2Addr(q), r)
    BY <1>7, MissFillsBoth
  <2>2. Holds(L2Of(q), lines'[L2Of(q)], L2Addr(q))
    BY <1>7, <2>1, GivenHolds
  <2> QED
    BY <1>2, <2>1, <2>2 DEF Cached
<1>8. CASE ReadMissBoth(q) /\ hung'
  BY <1>8
<1> QED
  BY <1>4, <1>5, <1>6, <1>7, <1>8 DEF Read

\* ReadIsCached of the next state.
LEMMA CachedNext ==
  ASSUME config' = config
  PROVE  ReadIsCached' <=>
           (last'.op # Nothing /\ ~NoBranch(Asked(last')) =>
              hung' \/ Cached(Asked(last'), lines'))
BY DEF ReadIsCached, Cached, Resident, Holds, NoBranch, Asked, L1Of, L2Of, LevelType,
       Line, Size, Block, Unit

LEMMA CachedStep ==
  ASSUME PlaceInv, IndexFits, ReadsFit, FetchesFill, ReadIsCached, [Next]_vars
  PROVE  ReadIsCached'
<1>1. CASE UNCHANGED vars
  BY <1>1 DEF vars, ReadIsCached, Resident, NoBranch, Asked, L1Of, L2Of, LevelType,
              Line, Size, Block, Unit
<1>2. CASE Next
  <2>1. config' = config
    BY <1>2 DEF Next
  <2>2. PICK q \in Request : Read(q)
    BY <1>2 DEF Next
  <2>3. Asked(last') = q
    BY <2>2, AskedIsRequest DEF Read, ReadHitL1, ReadHitL2, ReadMissL1, ReadMissBoth
  <2> QED
    BY <2>1, <2>2, <2>3, CachedNext, ReadCaches
<1> QED
  BY <1>1, <1>2

(* Reading an address brings its block in, in every arrangement and policy *)
(* and whether or not addresses are translated: the read, repeated, hits   *)
(* in one of the levels it consults, except where read_cache has no branch *)
(* for it and under the hypotheses of TruthfulReports.                     *)
THEOREM ReadsAreCached ==
  ASSUME IndexFits, ReadsFit, FetchesFill PROVE Spec => []ReadIsCached
<1>1. Init => ReadIsCached
  BY DEF Init, ReadIsCached, Printed, Nothing
<1>2. PlaceInv /\ ReadIsCached /\ [Next]_vars => ReadIsCached'
  BY CachedStep
<1> QED
  BY PlaceAlways, <1>1, <1>2, PTL DEF Spec

LEMMA RefillsEndStep ==
  ASSUME PlaceInv, Next PROVE hung' <=> last'.l2 = "miss" /\ Starves(Asked(last'))
<1>1. PICK q \in Request : Read(q)
  BY DEF Next
<1>2. ~hung /\ "miss" # Nothing
  BY DEF Next, Nothing
<1>3. CASE ReadHitL1(q) \/ ReadHitL2(q)
  BY <1>2, <1>3 DEF ReadHitL1, ReadHitL2, Printed, Nothing
<1>4. CASE ReadMissL1(q)
  <2>1. last'.l2 = Nothing
    BY <1>4 DEF ReadMissL1, Printed
  <2>2. CASE FillTarget(q) = Nothing
    BY <1>2, <1>4, <2>1, <2>2 DEF ReadMissL1
  <2>3. CASE FillTarget(q) # Nothing
    BY <1>2, <1>4, <2>1, <2>3, MissFillsL1
  <2> QED
    BY <2>2, <2>3
<1>5. CASE ReadMissBoth(q)
  <2>1. last' = Printed(q, "miss", "miss")
    BY <1>5 DEF ReadMissBoth
  <2>2. Asked(last') = q /\ last'.l2 = "miss"
    BY <2>1, AskedIsRequest DEF Printed
  <2>3. hung' <=> Starves(q)
    BY <1>5, MissFillsBoth
  <2> QED
    BY <2>2, <2>3
<1> QED
  BY <1>1, <1>3, <1>4, <1>5 DEF Read

(* The calls that write_cache and replace_cache make of each other come to *)
(* an end, in every arrangement, geometry and program: MaxTurns of them    *)
(* find a line under every policy, except, and then however many are made, *)
(* where random replacement must find it in a full set of a divided second *)
(* level.                                                                  *)
THEOREM RefillsEnd == Spec => RefillEnds
<1>1. PlaceInv /\ [Next]_vars => [hung' <=> last'.l2 = "miss" /\ Starves(Asked(last'))]_vars
  BY RefillsEndStep
<1> QED
  BY PlaceAlways, <1>1, PTL DEF Spec, RefillEnds

-----------------------------------------------------------------------------
(* FIFO replacement.                                                       *)

\* The pointer empties the lines up to the first of the set, round the end of
\* the cache when there is none before it.
LEMMA SweptShape ==
  ASSUME config \in Configurations, NEW c \in Cache, ptr[c] \in Nat,
         NEW S, S \subseteq Line(c), S # {}
  PROVE  \E h \in S :
           /\ Swept(c, S) \cap S = {h}
           /\ \/ SweepStart(c) =< h /\ Swept(c, S) = SweepStart(c) .. h
              \/ /\ h < SweepStart(c)
                 /\ Swept(c, S) = (SweepStart(c) .. Size[c] - 1) \cup (0 .. h)
<1>1. PICK m \in Nat, s \in Nat : m = Size[c] /\ s = SweepStart(c) /\ m >= 1 /\ s < m
  BY ConfigType DEF SweepStart
<1>2. PICK stop \in 0 .. m - 1 :
        /\ Passed(c, stop) \in S
        /\ \A k \in 0 .. m - 1 : Passed(c, k) \in S => stop =< k
        /\ Swept(c, S) = {Passed(c, k) : k \in 0 .. stop}
  BY <1>1, SweepStops DEF Line
<1>3. ASSUME NEW k \in 0 .. m - 1
      PROVE  Passed(c, k) = IF s + k < m THEN s + k ELSE s + k - m
  <2>1. CASE s + k < m
    <3>1. s + k \in 0 .. m - 1
      BY <1>1, <2>1
    <3>2. (s + k) % m = s + k
      BY <3>1, Wraps
    <3> QED
      BY <1>1, <2>1, <3>2 DEF Passed
  <2>2. CASE ~(s + k < m)
    <3>1. s + k - m \in 0 .. m - 1 /\ s + k = (s + k - m) + m
      BY <1>1, <2>2
    <3>2. ((s + k - m) + m) % m = s + k - m
      BY <3>1, Wraps
    <3>3. (s + k) % m = s + k - m
      BY <3>1, <3>2
    <3> QED
      BY <1>1, <2>2, <3>3 DEF Passed
  <2> QED
    BY <2>1, <2>2
<1> DEFINE h == Passed(c, stop)
           W == Swept(c, S)
<1>4. W \cap S = {h}
  <2>1. h \in W
    BY <1>2
  <2>2. ASSUME NEW x \in W \cap S PROVE x = h
    <3>1. PICK k \in 0 .. stop : x = Passed(c, k)
      BY <1>2
    <3>2. k \in 0 .. m - 1 /\ stop =< k
      BY <1>1, <1>2, <2>2, <3>1
    <3> QED
      BY <3>1, <3>2
  <2> QED
    BY <1>2, <2>1, <2>2
<1>5. CASE s + stop < m
  <2>1. h = s + stop
    BY <1>3, <1>5
  <2>2. W \subseteq s .. h
    <3> SUFFICES ASSUME NEW k \in 0 .. stop PROVE Passed(c, k) \in s .. h
      BY <1>2
    <3>1. k \in 0 .. m - 1 /\ s + k < m
      BY <1>1, <1>5
    <3>2. Passed(c, k) = s + k
      BY <1>3, <3>1
    <3> QED
      BY <1>1, <2>1, <3>1, <3>2
  <2>3. ASSUME NEW x \in s .. h PROVE x \in W
    <3>1. x - s \in 0 .. stop /\ Passed(c, x - s) = x
      BY <1>1, <1>3, <1>5, <2>1
    <3> QED
      BY <1>2, <3>1
  <2>4. W = s .. h
    BY <2>2, <2>3
  <2> QED
    BY <1>1, <1>2, <1>4, <2>1, <2>4
<1>6. CASE ~(s + stop < m)
  <2>1. h = s + stop - m /\ h < s
    BY <1>1, <1>3, <1>6
  <2>2. W \subseteq (s .. m - 1) \cup (0 .. h)
    <3> SUFFICES ASSUME NEW k \in 0 .. stop PROVE Passed(c, k) \in (s .. m - 1) \cup (0 .. h)
      BY <1>2
    <3> QED
      BY <1>1, <1>3, <1>6, <2>1
  <2>3. ASSUME NEW x \in s .. m - 1 PROVE x \in W
    <3>1. x - s \in 0 .. stop /\ Passed(c, x - s) = x
      BY <1>1, <1>3, <1>6
    <3> QED
      BY <1>2, <3>1
  <2>4. ASSUME NEW x \in 0 .. h PROVE x \in W
    <3>1. PICK k \in 0 .. m - 1 : k = x + m - s /\ k \in 0 .. stop /\ ~(s + k < m)
      <4> HIDE DEF h
      <4>1. x + m - s \in 0 .. m - 1 /\ x + m - s \in 0 .. stop
        BY <1>1, <1>6, <2>1
      <4> QED
        BY <1>1, <4>1
    <3>2. Passed(c, k) = s + k - m
      BY <1>3, <3>1
    <3>3. Passed(c, k) = x
      BY <1>1, <3>1, <3>2
    <3> QED
      BY <1>2, <3>1, <3>3
  <2>5. W = (s .. m - 1) \cup (0 .. h)
    BY <2>2, <2>3, <2>4
  <2> QED
    BY <1>1, <1>2, <1>4, <2>1, <2>5
<1> QED
  BY <1>5, <1>6

\* The pointer points into the set that begins at b.
Inside(b, w, p) == b < p /\ p < b + w

\* When line i of that set will be given away: the lines from the pointer on
\* first, then, in the next turn of the pointer, those before it.
Turn(b, w, p, i) == IF Inside(b, w, p) /\ i < p THEN i + w ELSE i

\* The valid lines of a set come first, are all of them when the pointer is
\* inside, and their turn is the order in which they were filled.
FifoSet(b, w, ls, p, old) ==
  /\ \A i, j \in b .. b + w - 1 : i < j /\ ls[j] # None => ls[i] # None
  /\ Inside(b, w, p) => \A i \in b .. b + w - 1 : ls[i] # None
  /\ \A i, j \in b .. b + w - 1 :
       /\ ls[i] # None /\ ls[j] # None
       /\ Turn(b, w, p, i) < Turn(b, w, p, j)
       => <<i, j>> \in old

FifoCache(c, ls, p, old) ==
  Policy = "FIFO" /\ ~Direct => \A b \in Starts(c) : FifoSet(b, Ways(c), ls, p, old)

FifoInv ==
  /\ PlaceInv
  /\ \A c \in Used : FifoCache(c, lines[c], ptr[c], older[c])

\* In a full set, no line comes before the one the pointer stops at.
LEMMA FirstTurn ==
  ASSUME NEW b \in Nat, NEW w \in Nat, NEW p \in Nat, NEW m \in Nat, NEW s \in Nat,
         s = (IF p >= m THEN 0 ELSE p), b + w =< m,
         NEW h \in b .. b + w - 1, NEW W, W \cap (b .. b + w - 1) = {h},
         \/ s =< h /\ W = s .. h
         \/ h < s /\ W = (s .. m - 1) \cup (0 .. h)
  PROVE  /\ Inside(b, w, p) => h = p
         /\ ~Inside(b, w, p) => h = b
         /\ \A i \in b .. b + w - 1 : i # h => Turn(b, w, p, h) < Turn(b, w, p, i)
<1>1. CASE Inside(b, w, p)
  <2>1. s = p /\ b < p /\ p < b + w
    BY <1>1 DEF Inside
  <2>2. p \in W /\ p \in b .. b + w - 1
    BY <2>1
  <2>3. h = p
    BY <2>2
  <2> QED
    BY <1>1, <2>1, <2>3 DEF Turn
<1>2. CASE ~Inside(b, w, p)
  <2>1. b \in b .. b + w - 1
    OBVIOUS
  <2>2. b \in W
    BY <1>2 DEF Inside
  <2>3. h = b
    BY <2>1, <2>2
  <2> QED
    BY <1>2, <2>3 DEF Turn
<1> QED
  BY <1>1, <1>2

\* Bringing a block in, in four parts.  Its set had a free line:
LEMMA FillsFree ==
  ASSUME NEW b \in Nat, NEW w \in Nat, NEW p \in Nat, NEW ls, NEW ls2, NEW old, NEW old2,
         FifoSet(b, w, ls, p, old),
         NEW h \in b .. b + w - 1, ls[h] = None,
         \A j \in b .. b + w - 1 : ls[j] = None => h =< j,
         ls2[h] # None, \A i \in b .. b + w - 1 : i # h => ls2[i] = ls[i],
         old \subseteq old2, \A i \in b .. b + w - 1 : ls[i] # None => <<i, h>> \in old2
  PROVE  FifoSet(b, w, ls2, p, old2)
<1> DEFINE B == b .. b + w - 1
<1>1. ~Inside(b, w, p)
  BY DEF FifoSet
<1>2. \A i \in B : ls[i] # None <=> i < h
  BY DEF FifoSet
<1>3. ASSUME NEW i \in B, NEW j \in B, i < j, ls2[j] # None PROVE ls2[i] # None
  BY <1>2, <1>3
<1>4. ASSUME NEW i \in B, NEW j \in B, ls2[i] # None, ls2[j] # None,
             Turn(b, w, p, i) < Turn(b, w, p, j)
      PROVE  <<i, j>> \in old2
  <2>1. i < j
    BY <1>1, <1>4 DEF Turn
  <2>2. CASE j = h
    BY <1>2, <2>1, <2>2
  <2>3. CASE j # h
    <3>1. i # h
      BY <1>2, <1>4, <2>1, <2>3
    <3> QED
      BY <1>4, <2>3, <3>1 DEF FifoSet
  <2> QED
    BY <2>2, <2>3
<1> QED
  BY <1>1, <1>3, <1>4 DEF FifoSet

\* Its set was full, and the line the pointer stopped at was given away:
LEMMA TakesFirst ==
  ASSUME NEW b \in Nat, NEW w \in Nat, NEW p \in Nat, NEW ls, NEW ls2, NEW old, NEW old2,
         FifoSet(b, w, ls, p, old), \A i \in b .. b + w - 1 : ls[i] # None,
         NEW h \in b .. b + w - 1, Inside(b, w, p) => h = p, ~Inside(b, w, p) => h = b,
         \A i \in b .. b + w - 1 : ls2[i] # None,
         \A i, j \in b .. b + w - 1 : i # h /\ j # h /\ <<i, j>> \in old => <<i, j>> \in old2,
         \A i \in b .. b + w - 1 : i # h => <<i, h>> \in old2
  PROVE  FifoSet(b, w, ls2, h + 1, old2)
<1> DEFINE B == b .. b + w - 1
<1>1. ASSUME NEW i \in B, NEW j \in B, Turn(b, w, h + 1, i) < Turn(b, w, h + 1, j)
      PROVE  i # h /\ (j # h => Turn(b, w, p, i) < Turn(b, w, p, j))
  <2>1. CASE Inside(b, w, p)
    <3>1. CASE Inside(b, w, h + 1)
      BY <1>1, <2>1, <3>1 DEF Turn
    <3>2. CASE ~Inside(b, w, h + 1)
      <4>1. h + 1 = b + w
        BY <2>1, <3>2 DEF Inside
      <4> QED
        BY <1>1, <2>1, <3>2, <4>1 DEF Turn
    <3> QED
      BY <3>1, <3>2
  <2>2. CASE ~Inside(b, w, p)
    <3>1. CASE Inside(b, w, h + 1)
      BY <1>1, <2>2, <3>1 DEF Turn
    <3>2. CASE ~Inside(b, w, h + 1)
      <4>1. w = 1
        BY <2>2, <3>2 DEF Inside
      <4> QED
        BY <1>1, <4>1 DEF Turn
    <3> QED
      BY <3>1, <3>2
  <2> QED
    BY <2>1, <2>2
<1>2. ASSUME NEW i \in B, NEW j \in B, Turn(b, w, h + 1, i) < Turn(b, w, h + 1, j)
      PROVE  <<i, j>> \in old2
  <2>1. CASE j = h
    BY <1>1, <1>2, <2>1
  <2>2. CASE j # h
    <3>1. i # h /\ Turn(b, w, p, i) < Turn(b, w, p, j)
      BY <1>1, <1>2, <2>2
    <3>2. <<i, j>> \in old
      BY <3>1 DEF FifoSet
    <3> QED
      BY <2>2, <3>1, <3>2
  <2> QED
    BY <2>1, <2>2
<1> QED
  BY <1>2 DEF FifoSet

\* Another set was passed by the pointer on its way, or was not:
EmptiedBy(b, w, W, ls, ls2, old, old2) ==
  /\ \A i \in b .. b + w - 1 : ls2[i] = IF i \in W THEN None ELSE ls[i]
  /\ \A i, j \in b .. b + w - 1 :
       i \notin W /\ j \notin W /\ <<i, j>> \in old => <<i, j>> \in old2

LEMMA SweptOver ==
  ASSUME NEW b \in Nat, NEW w \in Nat, NEW p \in Nat, NEW ls, NEW ls2, NEW old, NEW old2,
         FifoSet(b, w, ls, p, old), w >= 1,
         NEW m \in Nat, NEW s \in Nat, s = (IF p >= m THEN 0 ELSE p), b + w =< m,
         NEW h \in Nat, h < b \/ b + w =< h, NEW W,
         \/ s =< h /\ W = s .. h
         \/ h < s /\ W = (s .. m - 1) \cup (0 .. h),
         EmptiedBy(b, w, W, ls, ls2, old, old2)
  PROVE  FifoSet(b, w, ls2, h + 1, old2)
<1> DEFINE B == b .. b + w - 1
<1> USE DEF EmptiedBy
<1>1. ~Inside(b, w, h + 1)
  BY DEF Inside
<1>2. CASE Inside(b, w, p)
  <2>1. \A i \in B : i \in W <=> p =< i
    BY <1>2 DEF Inside
  <2>2. \A i \in B : ls2[i] # None <=> i < p
    BY <1>2, <2>1 DEF FifoSet, Inside
  <2>3. ASSUME NEW i \in B, NEW j \in B, ls2[i] # None, ls2[j] # None, i < j
        PROVE  <<i, j>> \in old2
    <3>1. i < p /\ j < p
      BY <2>2, <2>3
    <3>2. Turn(b, w, p, i) < Turn(b, w, p, j)
      BY <1>2, <2>3, <3>1 DEF Turn
    <3>3. <<i, j>> \in old
      BY <1>2, <3>2 DEF FifoSet
    <3> QED
      BY <2>1, <3>1, <3>3
  <2>4. ASSUME NEW i \in B, NEW j \in B, i < j, ls2[j] # None PROVE ls2[i] # None
    BY <2>2, <2>4
  <2> QED
    BY <1>1, <2>3, <2>4 DEF FifoSet, Turn
<1>3. CASE ~Inside(b, w, p)
  <2>1. \/ \A i \in B : i \in W
        \/ \A i \in B : i \notin W
    BY <1>3 DEF Inside
  <2>2. CASE \A i \in B : i \in W
    BY <1>1, <2>2 DEF FifoSet
  <2>3. CASE \A i \in B : i \notin W
    <3>1. \A i \in B : ls2[i] = ls[i]
      BY <2>3
    <3>2. \A i, j \in B : <<i, j>> \in old => <<i, j>> \in old2
      BY <2>3
    <3> QED
      BY <1>1, <1>3, <3>1, <3>2 DEF FifoSet, Turn
  <2> QED
    BY <2>1, <2>2, <2>3
<1> QED
  BY <1>2, <1>3

\* And another set that nothing passed:
LEMMA LeftAlone ==
  ASSUME NEW b \in Nat, NEW w \in Nat, NEW p, NEW ls, NEW ls2, NEW old, NEW old2,
         FifoSet(b, w, ls, p, old), old \subseteq old2,
         \A i \in b .. b + w - 1 : ls2[i] = ls[i]
  PROVE  FifoSet(b, w, ls2, p, old2)
BY DEF FifoSet

\* Together: the line given away was the first filled of its set, and the order
\* of every set is kept.
LEMMA RefillFifo ==
  ASSUME config \in Configurations, NEW c \in Cache, ptr[c] \in 0 .. Size[c],
         Policy = "FIFO", ~Direct, FifoCache(c, lines[c], ptr[c], older[c]),
         NEW a \in Nat, NEW r, NEW here, NEW new,
         Refill(c, a, Evicted(c, SetOf(c, a), r), here, new)
  PROVE  /\ FifoCache(c, new.lines, new.ptr, new.older)
         /\ lines[c][here] # None =>
              \A k \in SetOf(c, a) : /\ lines[c][k] # None
                                     /\ k # here => <<here, k>> \in older[c]
<1> DEFINE out == Evicted(c, SetOf(c, a), r)
<1>1. PICK m \in Nat, w \in Nat, p \in Nat : m = Size[c] /\ w = Ways(c) /\ p = ptr[c]
                                             /\ w >= 1
  <2>1. Size[c] \in Nat /\ Ways(c) \in Nat /\ Ways(c) >= 1
    BY ConfigType DEF Ways
  <2> QED
    BY <2>1
<1>2. PICK b \in Starts(c) : SetOf(c, a) = b .. b + w - 1
  BY <1>1, SetShape DEF SetAt
<1>3. \A d \in Starts(c) : /\ d \in Nat /\ d + w =< m
                           /\ d # b => d + w =< b \/ b + w =< d
  <2>1. \A d \in Starts(c) : /\ d \in Nat /\ d + w =< m
                             /\ \A e \in Starts(c) : d < e => d + w =< e
    BY <1>1, SetsApart
  <2> QED
    BY <2>1
<1>4. \A d \in Starts(c) : FifoSet(d, w, lines[c], p, older[c])
  BY <1>1 DEF FifoCache
<1> DEFINE S == b .. b + w - 1
           ls == new.lines
           old2 == new.older
<1>5. /\ here \in S /\ here \in Line(c)
      /\ here = Least(FreeIn(c, S) \cup (out \cap S))
      /\ ls = [i \in Line(c) |->
                 IF i = here THEN a ELSE IF i \in out THEN None ELSE lines[c][i]]
      /\ new.ptr = IF out # {} THEN here + 1 ELSE p
      /\ old2 = {q \in older[c] : q[1] \notin out /\ q[2] \notin out}
                  \cup ((Valid(c) \ out) \X {here})
  BY <1>1, <1>2 DEF Refill
<1>6. a # None
  BY DEF None
<1>7. \A d \in Starts(c) : d .. d + w - 1 \subseteq Line(c)
  BY <1>1, <1>3 DEF Line
<1>8. CASE FreeIn(c, S) # {}
  <2>1. out = {}
    BY <1>2, <1>8 DEF Evicted
  <2>2. here \in FreeIn(c, S) /\ \A j \in FreeIn(c, S) : here =< j
    <3>1. FreeIn(c, S) \in SUBSET Nat
      BY <1>3 DEF FreeIn
    <3>2. here = Least(FreeIn(c, S))
      BY <1>5, <2>1
    <3> QED
      BY <1>8, <3>1, <3>2, LeastIsMember
  <2>3. lines[c][here] = None /\ \A j \in S : lines[c][j] = None => here =< j
    BY <2>2 DEF FreeIn
  <2>4. new.ptr = p /\ older[c] \subseteq old2
        /\ \A i \in Line(c) : ls[i] = IF i = here THEN a ELSE lines[c][i]
    BY <1>5, <2>1
  <2>5. \A i \in S : lines[c][i] # None => <<i, here>> \in old2
    BY <1>5, <1>7, <2>1 DEF Valid
  <2> HIDE DEF ls, old2, out
  <2>6. ASSUME NEW d \in Starts(c) PROVE FifoSet(d, w, ls, p, old2)
    <3>1. CASE d = b
      <4>1. ls[here] # None /\ \A i \in S : i # here => ls[i] = lines[c][i]
        BY <1>5, <1>6, <1>7, <2>4
      <4>2. b \in Nat /\ here \in b .. b + w - 1 /\ lines[c][here] = None
        BY <1>3, <1>5, <2>3
      <4>3. FifoSet(b, w, lines[c], p, older[c]) /\ older[c] \subseteq old2
        BY <1>4, <2>4
      <4> QED
        BY <2>3, <2>5, <3>1, <4>1, <4>2, <4>3, FillsFree
    <3>2. CASE d # b
      <4>1. here \in b .. b + w - 1 /\ b \in Nat /\ d \in Nat
            /\ (d + w =< b \/ b + w =< d)
        BY <1>3, <1>5, <3>2
      <4>2. here \notin d .. d + w - 1
        BY <4>1
      <4>3. \A i \in d .. d + w - 1 : ls[i] = lines[c][i]
        BY <1>7, <2>4, <4>2
      <4> QED
        BY <1>4, <2>4, <4>1, <4>3, LeftAlone
    <3> QED
      BY <3>1, <3>2
  <2> QED
    BY <1>1, <2>3, <2>4, <2>6 DEF FifoCache, ls, old2
<1>9. CASE FreeIn(c, S) = {}
  <2>1. out = Swept(c, S)
    BY <1>2, <1>9 DEF Evicted
  <2>2. PICK s \in Nat : s = SweepStart(c) /\ s = IF p >= m THEN 0 ELSE p
    BY <1>1 DEF SweepStart
  <2>3. PICK h \in S : /\ out \cap S = {h}
                       /\ \/ s =< h /\ out = s .. h
                          \/ h < s /\ out = (s .. m - 1) \cup (0 .. h)
    <3>1. S # {} /\ S \subseteq Line(c)
      BY <1>1, <1>3, <1>7
    <3>2. ptr[c] \in Nat
      BY <1>1
    <3>3. \E h \in S :
            /\ Swept(c, S) \cap S = {h}
            /\ \/ SweepStart(c) =< h /\ Swept(c, S) = SweepStart(c) .. h
               \/ /\ h < SweepStart(c)
                  /\ Swept(c, S) = (SweepStart(c) .. Size[c] - 1) \cup (0 .. h)
      <4> HIDE DEF S, out
      <4> QED
        BY <3>1, <3>2, SweptShape
    <3> HIDE DEF S, out
    <3> QED
      BY <1>1, <2>1, <2>2, <3>3
  <2>4. here = h
    <3>1. {h} \in SUBSET Nat /\ FreeIn(c, S) \cup (out \cap S) = {h}
      BY <1>3, <1>9, <2>3
    <3>2. Least({h}) \in {h}
      BY <3>1, LeastIsMember
    <3> QED
      BY <1>5, <3>1, <3>2
  <2>5. new.ptr = h + 1
    BY <1>5, <2>3, <2>4
  <2>6. \A i \in S : lines[c][i] # None
    BY <1>9 DEF FreeIn
  <2>7. /\ \A i \in Line(c) : ls[i] = IF i = h THEN a ELSE IF i \in out THEN None
                                      ELSE lines[c][i]
        /\ \A i, j : i \notin out /\ j \notin out /\ <<i, j>> \in older[c] => <<i, j>> \in old2
        /\ \A i \in Line(c) : lines[c][i] # None /\ i \notin out => <<i, h>> \in old2
    BY <1>5, <2>4 DEF Valid
  <2> HIDE DEF ls, old2, out
  <2>8. /\ Inside(b, w, p) => h = p
        /\ ~Inside(b, w, p) => h = b
        /\ \A i \in S : i # h => Turn(b, w, p, h) < Turn(b, w, p, i)
    BY <1>3, <2>2, <2>3, FirstTurn
  <2>9. ASSUME NEW d \in Starts(c) PROVE FifoSet(d, w, ls, h + 1, old2)
    <3>1. CASE d = b
      <4>1. \A i \in S : i # h => i \notin out
        BY <2>3
      <4>2. \A i \in S : ls[i] # None
        BY <1>6, <1>7, <2>6, <2>7, <4>1
      <4>3. \A i, j \in S : i # h /\ j # h /\ <<i, j>> \in older[c] => <<i, j>> \in old2
        BY <2>7, <4>1
      <4>4. \A i \in S : i # h => <<i, h>> \in old2
        BY <1>7, <2>6, <2>7, <4>1
      <4> QED
        BY <1>3, <1>4, <2>6, <2>8, <3>1, <4>2, <4>3, <4>4, TakesFirst
    <3>2. CASE d # b
      <4>1. h \in Nat /\ (h < d \/ d + w =< h)
        BY <1>3, <3>2
      <4>2. \A i \in d .. d + w - 1 : ls[i] = IF i \in out THEN None ELSE lines[c][i]
        BY <1>3, <1>7, <2>7, <4>1
      <4>3. \A i, j \in d .. d + w - 1 :
              i \notin out /\ j \notin out /\ <<i, j>> \in older[c] => <<i, j>> \in old2
        BY <2>7
      <4>4. d \in Nat /\ d + w =< m /\ FifoSet(d, w, lines[c], p, older[c])
        BY <1>3, <1>4
      <4>5. \/ s =< h /\ out = s .. h
            \/ h < s /\ out = (s .. m - 1) \cup (0 .. h)
        BY <2>3
      <4>6. EmptiedBy(d, w, out, lines[c], ls, older[c], old2)
        BY <4>2, <4>3 DEF EmptiedBy
      <4> QED
        BY <1>1, <2>2, <4>1, <4>4, <4>5, <4>6, SweptOver
    <3> QED
      BY <3>1, <3>2
  <2>10. ASSUME NEW k \in S, k # h PROVE <<h, k>> \in older[c]
    BY <1>4, <2>6, <2>8, <2>10 DEF FifoSet
  <2> QED
    BY <1>1, <1>2, <2>4, <2>5, <2>6, <2>9, <2>10 DEF FifoCache, ls, old2
<1> QED
  BY <1>8, <1>9

LEMMA FifoInit == Init => FifoInv
<1> SUFFICES ASSUME Init, NEW c \in Used, NEW b \in Starts(c)
             PROVE  FifoSet(b, Ways(c), lines[c], ptr[c], older[c])
  BY PlaceInit DEF FifoInv, FifoCache
<1>1. config \in Configurations /\ c \in Cache
  BY UsedCaches DEF Init
<1>2. b \in Nat /\ Ways(c) \in Nat /\ b + Ways(c) =< Size[c]
  BY <1>1, SetsApart
<1>3. ptr[c] = 0 /\ lines[c] = [i \in Line(c) |-> None]
  BY DEF Init
<1>4. b .. b + Ways(c) - 1 \subseteq Line(c)
  BY <1>1, <1>2, ConfigType DEF Line
<1>5. \A i \in b .. b + Ways(c) - 1 : lines[c][i] = None
  BY <1>3, <1>4
<1>6. ~Inside(b, Ways(c), ptr[c])
  BY <1>2, <1>3 DEF Inside
<1> QED
  BY <1>5, <1>6 DEF FifoSet

\* What a step does to a cache of a FIFO configuration.
LEMMA FifoCacheStep ==
  ASSUME FifoInv, [Next]_vars, NEW c \in Used
  PROVE  FifoCache(c, lines'[c], ptr'[c], older'[c])
<1>1. config \in Configurations /\ c \in Cache /\ ptr[c] \in 0 .. Size[c]
      /\ FifoCache(c, lines[c], ptr[c], older[c])
  BY UsedCaches DEF FifoInv, PlaceInv
<1>2. CASE UNCHANGED <<lines, ptr, older>>
  BY <1>1, <1>2
<1>3. ASSUME NEW D \in SUBSET Used, NEW a \in Nat, NEW r, Gives(D, a, r)
      PROVE  FifoCache(c, lines'[c], ptr'[c], older'[c])
  <2>1. CASE c \notin D /\ Policy = "FIFO"
    <3>1. ~hung'
      BY <1>3, <2>1 DEF Gives
    <3> QED
      BY <1>1, <1>3, <2>1, <3>1, OneCache
  <2>2. CASE c \in D /\ Policy = "FIFO" /\ ~Direct
    <3>1. r[c] \in Random(c) /\ ~hung'
      BY <1>3, <2>2 DEF Gives
    <3>2. PICK here : Refill(c, a, Evicted(c, SetOf(c, a), r[c]), here, Placed(c, a, r[c]))
      BY <1>1, <1>3, <3>1, ConfigType, PlacedRefills
    <3>3. /\ lines'[c] = Placed(c, a, r[c]).lines /\ ptr'[c] = Placed(c, a, r[c]).ptr
          /\ older'[c] = Placed(c, a, r[c]).older
      BY <1>3, <2>2, <3>1, OneCache
    <3>4. FifoCache(c, Placed(c, a, r[c]).lines, Placed(c, a, r[c]).ptr, Placed(c, a, r[c]).older)
      BY <1>1, <1>3, <2>2, <3>2, RefillFifo
    <3> QED
      BY <3>3, <3>4
  <2>3. CASE ~(Policy = "FIFO" /\ ~Direct)
    BY <2>3 DEF FifoCache
  <2> QED
    BY <2>1, <2>2, <2>3
<1> QED
  BY <1>1, <1>2, <1>3, Steps DEF FifoInv

LEMMA FifoStep == ASSUME FifoInv, [Next]_vars PROVE FifoInv'
<1>1. config' = config /\ PlaceInv'
  BY Steps, PlaceStep DEF FifoInv, PlaceInv
<1>2. /\ Used' = Used
      /\ \A c : FifoCache(c, lines[c], ptr[c], older[c])'
                  <=> FifoCache(c, lines'[c], ptr'[c], older'[c])
  BY <1>1 DEF Used, FifoCache, LevelType, Policy, Direct, Starts, Size, Ways, NumLines
<1>3. \A c \in Used' : FifoCache(c, lines[c], ptr[c], older[c])'
  BY <1>2, FifoCacheStep
<1> QED
  BY <1>1, <1>3 DEF FifoInv

\* The lines a step gives away, one in each cache of D.
LEMMA GivenIsHere ==
  ASSUME NEW c, NEW a \in Nat, NEW out, NEW here, NEW new, Refill(c, a, out, here, new),
         lines'[c] = new.lines, NEW i \in Given(c)
  PROVE  i = here /\ lines'[c][i] = a /\ i \in SetOf(c, a)
<1>1. /\ here \in SetOf(c, a)
      /\ lines'[c] = [k \in Line(c) |->
                        IF k = here THEN a ELSE IF k \in out THEN None ELSE lines[c][k]]
  BY DEF Refill
<1>2. i \in Line(c) /\ lines'[c][i] # None /\ lines'[c][i] # lines[c][i]
  BY DEF Given
<1> QED
  BY <1>1, <1>2

LEMMA RightLineGiven ==
  ASSUME FifoInv, DirectMaps, Next, ~hung' PROVE RightLine
<1>1. config \in Configurations
  BY DEF FifoInv, PlaceInv
<1>2. CASE UNCHANGED <<lines, ptr, older>>
  <2>1. \A c : Given(c) = {}
    BY <1>2 DEF Given
  <2> QED
    BY <2>1 DEF RightLine, OldestLeaves, KeepsOtherSets
<1>3. ASSUME NEW D \in SUBSET Used, NEW a \in Nat, NEW r, Gives(D, a, r) PROVE RightLine
  <2> SUFFICES ASSUME NEW c \in Used, NEW i \in Given(c)
               PROVE  /\ Policy = "FIFO" /\ lines[c][i] # None =>
                           \A k \in SetOf(c, lines'[c][i]) :
                             lines[c][k] # None /\ (k # i => <<i, k>> \in older[c])
                      /\ Policy = "Random" \/ Direct =>
                           \A k \in Line(c) :
                             lines'[c][k] # lines[c][k] => k \in SetOf(c, lines'[c][i])
    BY DEF RightLine, OldestLeaves, KeepsOtherSets
  <2>1. c \in Cache /\ ptr[c] \in 0 .. Size[c] /\ FifoCache(c, lines[c], ptr[c], older[c])
        /\ ptr[c] \in Nat
    BY <1>1, UsedCaches, ConfigType DEF FifoInv, PlaceInv
  <2>2. c \in D
    BY <1>3, OneCache DEF Given
  <2> DEFINE S == SetOf(c, a)
             out == Evicted(c, S, r[c])
             new == Placed(c, a, r[c])
  <2>3. r[c] \in Random(c) /\ lines'[c] = new.lines
    BY <1>3, <2>2, OneCache
  <2>4. PICK here : Refill(c, a, out, here, new)
    BY <1>1, <1>3, <2>1, <2>3, PlacedRefills
  <2>5. i = here /\ lines'[c][i] = a /\ i \in S
    <3> HIDE DEF S, out, new
    <3> QED
      BY <1>3, <2>3, <2>4, GivenIsHere DEF S
  <2>6. ASSUME Policy = "FIFO", lines[c][i] # None, ~Direct, NEW k \in S
        PROVE  lines[c][k] # None /\ (k # i => <<i, k>> \in older[c])
    BY <1>1, <1>3, <2>1, <2>4, <2>5, <2>6, RefillFifo
  <2>7. ASSUME Direct, NEW k \in S PROVE k = i
    <3>1. CASE IndexSpan(c) # 1
      BY <1>1, <1>3, <2>1, <2>5, <2>7, <3>1, SetShape
    <3>2. CASE IndexSpan(c) = 1
      <4>1. NumLines[c] \in Nat /\ NumLines[c] = 1
        <5>1. NumLines[c] \in 1 .. MaxLines
          BY <1>1, <2>1, ConfigType
        <5>2. Pow2Above(NumLines[c]) >= NumLines[c]
          BY <5>1, Pow2Positive
        <5> QED
          BY <2>7, <3>2, <5>1, <5>2 DEF IndexSpan
      <4>2. Ways(c) = 1
        BY <1>1, <2>1, <2>7, <4>1 DEF DirectMaps, Ways, NumLines, Direct
      <4>3. S = 0 .. 0
        BY <3>2, <4>2 DEF SetOf
      <4> QED
        BY <2>5, <2>7, <4>3
    <3> QED
      BY <3>1, <3>2
  <2>8. ASSUME Policy = "Random" \/ Direct, NEW k \in Line(c), lines'[c][k] # lines[c][k]
        PROVE  k \in S
    <3>1. k = here \/ k \in out
      BY <2>3, <2>4, <2>8 DEF Refill
    <3>2. Least(S) \in S /\ (Direct \/ S = SetAt(c, Least(S))) /\ S \in SUBSET Nat
      BY <1>1, <1>3, <2>1, SetInCache
    <3>3. CASE Direct
      BY <2>5, <3>1, <3>2, <3>3 DEF Evicted
    <3>4. CASE ~Direct
      <4>1. Policy = "Random" /\ r[c] \in 0 .. Ways(c) - 1
        BY <2>3, <2>8, <3>4 DEF Random
      <4>2. Ways(c) \in 1 .. MaxLines
        BY <1>1, <2>1, ConfigType DEF Ways
      <4>3. Least(S) + r[c] \in S
        BY <3>2, <3>4, <4>1, <4>2 DEF SetAt
      <4> QED
        BY <2>5, <3>1, <3>4, <4>1, <4>3 DEF Evicted
    <3> QED
      BY <3>3, <3>4
  <2> QED
    BY <2>5, <2>6, <2>7, <2>8
<1> QED
  BY <1>1, <1>2, <1>3, Steps DEF FifoInv

(* The right line is given away, for every arrangement, geometry and       *)
(* program: under FIFO replacement the line of the full set that was       *)
(* filled first, although one pointer serves all the sets and empties the  *)
(* lines it passes; under random replacement and direct mapping no line of *)
(* another set.  A direct-mapped cache of one line is taken to have sets   *)
(* of one line.                                                            *)
THEOREM RightLineLeaves == ASSUME DirectMaps PROVE Spec => RightVictim
<1>1. FifoInv /\ [Next]_vars => FifoInv'
  BY FifoStep
<1>2. FifoInv /\ [Next]_vars => [hung' \/ RightLine]_vars
  BY RightLineGiven
<1> QED
  BY FifoInit, <1>1, <1>2, PTL DEF Spec, RightVictim
==============================================================================

-------------------------- MODULE Arithmetic_proofs --------------------------
(***************************************************************************)
(* Facts about numbers that the proofs about several components need:      *)
(* induction up to a bound, division, and powers of two.                   *)
(***************************************************************************)
EXTENDS Integers, TLAPS, FiniteSetTheorems

-----------------------------------------------------------------------------
(* Induction up to a bound, for recursive functions.                       *)

LEMMA LeastMember ==
  ASSUME NEW T \in SUBSET Nat, T # {}
  PROVE  \E i \in T : \A j \in T : i =< j
<1> DEFINE Segments == {0 .. i : i \in T}
           R == StrictSubsetOrdering(Nat)
<1>1. Segments \subseteq FiniteSubsetsOf(Nat)
  <2> SUFFICES ASSUME NEW i \in T PROVE 0 .. i \in FiniteSubsetsOf(Nat)
    OBVIOUS
  <2>1. IsFiniteSet(0 .. i)
    BY FS_Interval
  <2> QED
    BY <2>1 DEF FiniteSubsetsOf
<1>2. IsWellFoundedOn(R, FiniteSubsetsOf(Nat))
  BY FS_StrictSubsetOrderingWellFounded
<1>3. \E x \in Segments : \A y \in Segments : ~(<<y, x>> \in R)
  <2>1. Segments # {}
    OBVIOUS
  <2> HIDE DEF R, Segments
  <2> QED
    BY <1>1, <1>2, <2>1, WFMin
<1>4. PICK i \in T : \A j \in T : ~(<<0 .. j, 0 .. i>> \in R)
  BY <1>3
<1>5. ASSUME NEW j \in T, j < i PROVE FALSE
  <2>1. /\ 0 .. j \subseteq 0 .. i /\ i \in 0 .. i /\ i \notin 0 .. j
        /\ 0 .. j \in SUBSET Nat /\ 0 .. i \in SUBSET Nat
    BY <1>5
  <2>2. <<0 .. j, 0 .. i>> \in R
    BY <2>1 DEF StrictSubsetOrdering
  <2> QED
    BY <1>4, <2>2
<1> QED
  BY <1>5

\* G holds the numbers a statement is true of.
LEMMA UpTo ==
  ASSUME NEW n \in Nat, NEW G, 0 \in G, \A k \in 0 .. n - 1 : k \in G => k + 1 \in G
  PROVE  \A k \in 0 .. n : k \in G
<1> DEFINE T == {k \in 0 .. n : k \notin G}
<1> SUFFICES ASSUME T # {} PROVE FALSE
  OBVIOUS
<1>1. PICK i \in T : \A j \in T : i =< j
  <2>1. T \in SUBSET Nat
    OBVIOUS
  <2> HIDE DEF T
  <2> QED
    BY <2>1, LeastMember
<1>2. i \in 0 .. n /\ i # 0 /\ i - 1 \in 0 .. n - 1
  BY <1>1
<1>3. i - 1 \in G
  BY <1>1, <1>2
<1>4. (i - 1) + 1 = i
  BY <1>2
<1> QED
  BY <1>1, <1>2, <1>3, <1>4

LEMMA Upward ==
  ASSUME NEW n \in Nat, NEW G, \A k \in 0 .. n : (k # 0 => k - 1 \in G) => k \in G
  PROVE  \A k \in 0 .. n : k \in G
<1>1. 0 \in G
  OBVIOUS
<1>2. ASSUME NEW k \in 0 .. n - 1, k \in G PROVE k + 1 \in G
  <2>1. k + 1 \in 0 .. n /\ (k + 1) - 1 = k
    OBVIOUS
  <2> QED
    BY <1>2, <2>1
<1> QED
  BY <1>1, <1>2, UpTo

-----------------------------------------------------------------------------
(* Division.                                                               *)

LEMMA Division ==
  ASSUME NEW a \in Nat, NEW n \in Nat \ {0}
  PROVE  a \div n \in Nat /\ a % n \in 0 .. n - 1 /\ a = n * (a \div n) + (a % n)
OBVIOUS

LEMMA DivisionUnique ==
  ASSUME NEW a \in Nat, NEW n \in Nat \ {0}, NEW q \in Nat, NEW r \in 0 .. n - 1,
         a = n * q + r
  PROVE  a \div n = q /\ a % n = r
<1> DEFINE d == a \div n
           m == a % n
<1>1. d \in Nat /\ m \in 0 .. n - 1 /\ a = n * d + m
  BY Division
<1> HIDE DEF d, m
<1>2. ASSUME NEW x \in Nat, NEW y \in Nat, NEW u \in 0 .. n - 1, NEW v \in 0 .. n - 1,
             n * x + u = n * y + v, x < y
      PROVE  FALSE
  <2>1. PICK z \in Nat : y = x + 1 + z
    <3>1. y - x - 1 \in Nat /\ y = x + 1 + (y - x - 1)
      BY <1>2
    <3> QED
      BY <3>1
  <2>2. n * y = n * x + n + n * z /\ n * z \in Nat
    BY <2>1
  <2> QED
    BY <1>2, <2>2
<1>3. ~(d < q) /\ ~(q < d)
  BY <1>1, <1>2
<1>4. d = q
  BY <1>1, <1>3
<1>5. n * d = n * q /\ n * q \in Nat
  BY <1>4
<1>6. m = r
  BY <1>1, <1>5
<1> QED
  BY <1>4, <1>6 DEF d, m

LEMMA DivideTwice ==
  ASSUME NEW a \in Nat, NEW n \in Nat \ {0}, NEW c \in Nat \ {0}
  PROVE  a \div (n * c) = (a \div n) \div c
<1> DEFINE q == a \div n
           r == a % n
           q2 == q \div c
           r2 == q % c
<1>1. q \in Nat /\ r \in 0 .. n - 1 /\ a = n * q + r
  BY Division
<1>2. q2 \in Nat /\ r2 \in 0 .. c - 1 /\ q = c * q2 + r2
  BY <1>1, Division
<1> HIDE DEF q, r, q2, r2
<1>3. a = (n * c) * q2 + (n * r2 + r)
  BY <1>1, <1>2
<1>4. n * r2 + r \in 0 .. n * c - 1
  <2>1. n * r2 =< n * (c - 1) /\ n * r2 >= 0
    BY <1>2
  <2> QED
    BY <1>1, <1>2, <2>1
<1>5. n * c \in Nat \ {0}
  OBVIOUS
<1>6. a \div (n * c) = q2
  BY <1>2, <1>3, <1>4, <1>5, DivisionUnique
<1> QED
  BY <1>6 DEF q2, q

LEMMA ProductGrows ==
  ASSUME NEW a \in Nat, NEW b \in Nat, NEW c \in Nat, a =< b
  PROVE  a * c =< b * c /\ a * c \in Nat /\ b * c \in Nat
<1>1. PICK d \in Nat : b = a + d
  <2>1. b - a \in Nat /\ b = a + (b - a)
    OBVIOUS
  <2> QED
    BY <2>1
<1>2. b * c = a * c + d * c /\ a * c \in Nat /\ d * c \in Nat /\ b * c \in Nat
  BY <1>1
<1> QED
  BY <1>2

\* The elements of the first n segments of nf.
LEMMA InSegments ==
  ASSUME NEW e \in Nat, NEW n \in Nat, NEW nf \in Nat \ {0}
  PROVE  (e < n * nf) = (e \div nf < n)
<1> DEFINE k == e \div nf
           j == e % nf
<1>1. k \in Nat /\ j \in 0 .. nf - 1 /\ e = nf * k + j
  BY Division
<1> HIDE DEF k, j
<1>2. e = k * nf + j /\ k * nf \in Nat /\ n * nf \in Nat
  BY <1>1
<1>3. CASE k < n
  <2>1. k + 1 =< n /\ k + 1 \in Nat
    BY <1>1, <1>3
  <2>2. (k + 1) * nf =< n * nf
    BY <2>1, ProductGrows
  <2>3. (k + 1) * nf = k * nf + nf
    BY <1>1
  <2> QED
    BY <1>1, <1>2, <1>3, <2>2, <2>3 DEF k
<1>4. CASE ~(k < n)
  <2>1. n =< k
    BY <1>1, <1>4
  <2>2. n * nf =< k * nf
    BY <1>1, <2>1, ProductGrows
  <2> QED
    BY <1>1, <1>2, <1>4, <2>2 DEF k
<1> QED
  BY <1>3, <1>4

-----------------------------------------------------------------------------
(* Powers of two, as far as their recursion is known.                      *)

LEMMA PowerPositive ==
  ASSUME NEW m \in Nat, \A n \in 0 .. m : 2^(n + 1) = 2 * 2^n
  PROVE  \A n \in 0 .. m + 1 : 2^n \in Nat \ {0}
<1> DEFINE G == {n \in 0 .. m + 1 : 2^n \in Nat \ {0}}
<1>1. 0 \in G
  OBVIOUS
<1>2. ASSUME NEW n \in 0 .. m + 1 - 1, n \in G PROVE n + 1 \in G
  <2>1. n \in 0 .. m /\ n + 1 \in 0 .. m + 1
    OBVIOUS
  <2>2. 2^(n + 1) = 2 * 2^n /\ 2^n \in Nat \ {0}
    BY <1>2, <2>1
  <2> QED
    BY <2>1, <2>2
<1> HIDE DEF G
<1>3. \A n \in 0 .. m + 1 : n \in G
  BY <1>1, <1>2, UpTo
<1> QED
  BY <1>3 DEF G

LEMMA PowerSum ==
  ASSUME NEW m \in Nat, \A n \in 0 .. m : 2^(n + 1) = 2 * 2^n,
         NEW j \in Nat, NEW k \in Nat, j + k =< m + 1
  PROVE  2^(j + k) = 2^j * 2^k
<1> DEFINE G == {i \in 0 .. k : 2^(j + i) = 2^j * 2^i}
<1>0. \A n \in 0 .. m + 1 : 2^n \in Nat \ {0}
  BY PowerPositive
<1>1. 0 \in G
  <2>1. 2^0 = 1 /\ j + 0 = j /\ 2^j \in Nat
    BY <1>0
  <2> QED
    BY <2>1
<1>2. ASSUME NEW i \in 0 .. k - 1, i \in G PROVE i + 1 \in G
  <2>1. j + i \in 0 .. m /\ i \in 0 .. m /\ j + (i + 1) = (j + i) + 1 /\ i + 1 \in 0 .. k
        /\ j \in 0 .. m + 1 /\ i \in 0 .. m + 1
    OBVIOUS
  <2>2. 2^((j + i) + 1) = 2 * 2^(j + i) /\ 2^(i + 1) = 2 * 2^i
    BY <2>1
  <2>3. 2^i \in Nat /\ 2^j \in Nat
    BY <1>0, <2>1
  <2>4. ASSUME NEW x \in Nat, NEW y \in Nat PROVE 2 * (x * y) = x * (2 * y)
    OBVIOUS
  <2>5. 2 * (2^j * 2^i) = 2^j * (2 * 2^i)
    BY <2>3, <2>4
  <2>6. 2^(j + i) = 2^j * 2^i
    BY <1>2
  <2>7. 2^(j + (i + 1)) = 2^j * 2^(i + 1)
    BY <2>1, <2>2, <2>5, <2>6
  <2> QED
    BY <2>1, <2>7
<1> HIDE DEF G
<1>3. \A i \in 0 .. k : i \in G
  BY <1>1, <1>2, UpTo
<1>4. k \in G
  BY <1>3
<1> QED
  BY <1>4 DEF G

=============================================================================

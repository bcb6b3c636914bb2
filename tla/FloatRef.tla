------------------------------ MODULE FloatRef ------------------------------
(* What IEEE 754 asks of an operation, as a reference for SoftFloat: numbers  *)
(* are exact, and a result is the exact one rounded once. A number is         *)
(* (-1)^s * n * 2^k, a little more in magnitude when "more" holds; TLC's      *)
(* integers leave it BITS bits.                                               *)
EXTENDS SoftFloat

BITS == 29

Num(s, n, k, more) == [s |-> s, n |-> n, k |-> k, more |-> more]
Top(x) == BitLength(x.n) + x.k
\* No trailing zeros, so that products stay small.
Stripped(x) ==
  LET t == CHOOSE t \in 0..BITS : x.n % 2^t = 0 /\ (t = BITS \/ x.n % 2^(t + 1) # 0)
  IN IF x.n = 0 THEN x ELSE Num(x.s, x.n \div 2^t, x.k + t, x.more)
Number(F, u) ==
  Stripped(Num(sign(F, u), frac(F, u) + (IF exp(F, u) = 0 THEN 0 ELSE 2^F.p),
               (IF exp(F, u) = 0 THEN 1 ELSE exp(F, u)) - F.bias - F.p, FALSE))
Negated(x) == [x EXCEPT !.s = 1 - x.s]
IsZero(x) == x.n = 0 /\ ~x.more

IsInf(F, u) == exp(F, u) = F.max /\ frac(F, u) = 0
SomeNaN(F, us) == \E u \in us : isNaN(F, u)
NaNOf(F, us) == R(defaultNaN(F), When(\E u \in us : isSigNaN(F, u), {"NV"}))

-----------------------------------------------------------------------------
(* Rounding. *)

\* The magnitude as a multiple of 2^q: which of its two neighbours.
Multiple(mode, x, q) ==
  LET d == IF q - x.k > BITS + 1 THEN BITS + 1 ELSE q - x.k
      low == x.n \div 2^d
      rest == x.n % 2^d
      half == 2^(d - 1)
      away == CASE mode = RNE -> \/ rest > half
                                 \/ rest = half /\ (x.more \/ low % 2 = 1)
                [] mode = RMM -> rest >= half
                [] mode = RDN -> x.s = 1
                [] mode = RUP -> x.s = 0
                [] mode = RTZ -> FALSE
      inexact == rest # 0 \/ x.more
  IN IF q <= x.k THEN [m |-> x.n * 2^(x.k - q), inexact |-> FALSE]
     ELSE [m |-> IF inexact /\ away THEN low + 1 ELSE low, inexact |-> inexact]

\* Below the least normal number after rounding as if exponents had no bound.
IsTiny(F, mode, x) ==
  LET q == Top(x) - F.p - 1
  IN q + F.p + (IF Multiple(mode, x, q).m = 2^(F.p + 1) THEN 1 ELSE 0) < 1 - F.bias

Rounded(F, mode, x) ==
  LET least == 1 - F.bias - F.p
      q == IF Top(x) - F.p - 1 > least THEN Top(x) - F.p - 1 ELSE least
      r == Multiple(mode, x, q)
      z == (q - least) * 2^F.p + r.m
      stays == mode \in {RTZ, IF x.s = 1 THEN RUP ELSE RDN}
  IN IF IsZero(x) THEN R(pack(F, x.s, 0, 0), {})
     ELSE IF z >= F.max * 2^F.p
     THEN R(Infinity(F, x.s) - (IF stays THEN 1 ELSE 0), {"OF", "NX"})
     ELSE R(pack(F, x.s, 0, z),
            When(r.inexact, {"NX"} \cup When(IsTiny(F, mode, x), {"UF"})))

-----------------------------------------------------------------------------
(* Exact arithmetic. *)

Xor(s, t) == (s + t) % 2
ZeroSign(mode) == IF mode = RDN THEN 1 ELSE 0

\* The smaller number may be cut off below the larger.
Plus(mode, x, y) ==
  LET big == IF Top(x) >= Top(y) THEN x ELSE y
      small == IF Top(x) >= Top(y) THEN y ELSE x
      low == IF x.k < y.k THEN x.k ELSE y.k
      k == IF Top(big) - BITS + 1 > low THEN Top(big) - BITS + 1 ELSE low
      b == big.n * 2^(big.k - k)
      d == IF k - small.k > BITS THEN BITS ELSE k - small.k
      a == IF d <= 0 THEN small.n * 2^(-d) ELSE small.n \div 2^d
      lost == d > 0 /\ small.n % 2^d # 0
      diff == b - a - (IF lost THEN 1 ELSE 0)
  IN IF IsZero(x) /\ IsZero(y)
     THEN Num(IF x.s = y.s THEN x.s ELSE ZeroSign(mode), 0, 0, FALSE)
     ELSE IF IsZero(x) THEN y
     ELSE IF IsZero(y) THEN x
     ELSE IF x.s = y.s THEN Num(x.s, a + b, k, lost)
     ELSE IF diff = 0 THEN Num(ZeroSign(mode), 0, 0, FALSE)
     ELSE IF diff < 0 THEN Num(small.s, -diff, k, FALSE)
     ELSE Num(big.s, diff, k, lost)

Times(x, y) == Num(Xor(x.s, y.s), x.n * y.n, x.k + y.k, FALSE)

\* Twenty-four binary digits of a quotient, eight at a time.
Over(x, y) ==
  LET a == x.n * 2^(19 - BitLength(x.n))
      b == y.n * 2^(19 - BitLength(y.n))
      More(t) == <<t[1] * 256 + ((t[2] * 256) \div b), (t[2] * 256) % b>>
      t == More(More(More(<<a \div b, a % b>>)))
  IN Num(Xor(x.s, y.s), t[1],
         x.k + BitLength(x.n) - y.k - BitLength(y.n) - 24, t[2] # 0)

\* The integer root of n below 2^28, and the root of a number from it.
IntRoot(n) ==
  LET r[i \in 0..14] ==
        IF i = 0 THEN 0
        ELSE LET t == r[i - 1] + 2^(14 - i) IN IF t * t <= n THEN t ELSE r[i - 1]
  IN r[14]
RootOf(x) ==
  LET up == 26 - BitLength(x.n) + ((x.k + BitLength(x.n)) % 2)
      n == x.n * 2^up
      r == IntRoot(n)
  IN Num(0, r, (x.k - up) \div 2, r * r # n)

-----------------------------------------------------------------------------
(* The operations. *)

RefAdd(F, mode, a, b) ==
  IF SomeNaN(F, {a, b}) THEN NaNOf(F, {a, b})
  ELSE IF IsInf(F, a) /\ IsInf(F, b) /\ a # b THEN Invalid(F)
  ELSE IF IsInf(F, a) THEN R(a, {})
  ELSE IF IsInf(F, b) THEN R(b, {})
  ELSE Rounded(F, mode, Plus(mode, Number(F, a), Number(F, b)))

Opposite(F, u) == pack(F, 1 - sign(F, u), exp(F, u), frac(F, u))
RefSub(F, mode, a, b) == RefAdd(F, mode, a, Opposite(F, b))

\* Zero times infinity.
NoProduct(F, a, b) == \E p \in {<<a, b>>, <<b, a>>} :
                         IsInf(F, p[1]) /\ p[2] % 2^(F.W - 1) = 0

RefMul(F, mode, a, b) ==
  IF SomeNaN(F, {a, b}) THEN NaNOf(F, {a, b})
  ELSE IF NoProduct(F, a, b) THEN Invalid(F)
  ELSE IF IsInf(F, a) \/ IsInf(F, b)
  THEN R(Infinity(F, Xor(sign(F, a), sign(F, b))), {})
  ELSE Rounded(F, mode, Times(Number(F, a), Number(F, b)))

RefDiv(F, mode, a, b) ==
  LET s == Xor(sign(F, a), sign(F, b))
      x == Number(F, a)
      y == Number(F, b)
  IN IF SomeNaN(F, {a, b}) THEN NaNOf(F, {a, b})
     ELSE IF IsInf(F, a) /\ IsInf(F, b) THEN Invalid(F)
     ELSE IF IsInf(F, a) THEN R(a - sign(F, a) * 2^(F.W - 1) + s * 2^(F.W - 1), {})
     ELSE IF IsInf(F, b) THEN R(pack(F, s, 0, 0), {})
     ELSE IF IsZero(y) THEN IF IsZero(x) THEN Invalid(F) ELSE R(Infinity(F, s), {"DZ"})
     ELSE IF IsZero(x) THEN R(pack(F, s, 0, 0), {})
     ELSE Rounded(F, mode, Over(x, y))

RefSqrt(F, mode, a) ==
  IF isNaN(F, a) THEN NaNOf(F, {a})
  ELSE IF a % 2^(F.W - 1) = 0 \/ a = Infinity(F, 0) THEN R(a, {})
  ELSE IF sign(F, a) = 1 THEN Invalid(F)
  ELSE Rounded(F, mode, RootOf(Number(F, a)))

\* The invalid product is invalid whatever the addend.
RefMulAdd(F, mode, a, b, c) ==
  LET product == Times(Number(F, a), Number(F, b))
      inf == IsInf(F, a) \/ IsInf(F, b)
  IN IF ~SomeNaN(F, {a, b}) /\ NoProduct(F, a, b) THEN Invalid(F)
     ELSE IF SomeNaN(F, {a, b, c}) THEN NaNOf(F, {a, b, c})
     ELSE IF inf /\ c = Infinity(F, 1 - product.s) THEN Invalid(F)
     ELSE IF inf THEN R(Infinity(F, product.s), {})
     ELSE IF IsInf(F, c) THEN R(c, {})
     ELSE Rounded(F, mode, Plus(mode, product, Number(F, c)))

\* Integers: of the given width, signed or not, as a word.
RefToInt(F, mode, width, signed, a) ==
  LET lowest == IF signed THEN -(2^(width - 1)) ELSE 0
      highest == IF signed THEN 2^(width - 1) - 1 ELSE 2^width - 1
      x == Number(F, a)
      r == Multiple(mode, x, 0)
      v == IF x.s = 1 THEN -r.m ELSE r.m
      high == exp(F, a) = F.max \/ Top(x) > width
  IN IF isNaN(F, a) THEN R(highest, {"NV"})
     ELSE IF x.s = 1 /\ (high \/ v < lowest) THEN R(lowest % 2^width, {"NV"})
     ELSE IF high \/ v > highest THEN R(highest, {"NV"})
     ELSE R(v % 2^width, When(r.inexact, {"NX"}))

RefFromInt(F, mode, width, signed, v) ==
  IF signed /\ v >= 2^(width - 1)
  THEN Rounded(F, mode, Num(1, 2^width - v, 0, FALSE))
  ELSE Rounded(F, mode, Num(0, v, 0, FALSE))

RefConvert(F, G, mode, a) ==
  IF isNaN(F, a) THEN R(defaultNaN(G), NaNOf(F, {a}).flags)
  ELSE IF IsInf(F, a) THEN R(Infinity(G, sign(F, a)), {})
  ELSE Rounded(G, mode, Number(F, a))

RefRoundToInt(F, mode, exact, a) ==
  LET x == Number(F, a)
      r == Multiple(mode, x, 0)
  IN IF isNaN(F, a) THEN NaNOf(F, {a})
     ELSE IF IsInf(F, a) \/ x.k >= 0 THEN R(a, {})
     ELSE R(Rounded(F, mode, Num(x.s, r.m, 0, FALSE)).z,
            When(exact /\ r.inexact, {"NX"}))

\* The sign of a - b: -1, 0 or 1, infinities beyond every number.
Order(F, a, b) ==
  LET d == Plus(RNE, Number(F, a), Negated(Number(F, b)))
  IN IF IsZero(d) THEN 0 ELSE IF d.s = 1 THEN -1 ELSE 1

RefCompare(F, quiet, holds, a, b) ==
  IF SomeNaN(F, {a, b})
  THEN R(0, IF quiet THEN NaNOf(F, {a, b}).flags ELSE {"NV"})
  ELSE R(IF Order(F, a, b) \in holds THEN 1 ELSE 0, {})

\* The lesser (want = -1) or the greater. A number wins over a NaN, unless
\* the NaN is to propagate.
RefMinMax(F, want, propagates, a, b) ==
  LET zeros == a % 2^(F.W - 1) = 0 /\ b % 2^(F.W - 1) = 0
      first == IF zeros THEN sign(F, a) = (IF want = -1 THEN 1 ELSE 0)
               ELSE Order(F, a, b) = want
      z == IF isNaN(F, a) /\ isNaN(F, b) THEN defaultNaN(F)
           ELSE IF propagates /\ SomeNaN(F, {a, b}) THEN defaultNaN(F)
           ELSE IF isNaN(F, a) THEN b
           ELSE IF isNaN(F, b) \/ first THEN a ELSE b
  IN R(z, NaNOf(F, {a, b}).flags)

\* The integer part modulo the width, with the flags of a conversion that
\* saturates: the low bits of n * 2^k, n first cut to the bits that stay.
RefToIntModulo(F, width, a) ==
  LET x == Number(F, a)
      up == IF x.k < 0 THEN 0 ELSE IF x.k > width THEN width ELSE x.k
      cut == IF x.k < 0 THEN Multiple(RTZ, x, 0).m ELSE x.n
      mag == (cut % 2^(width - up)) * 2^up
  IN R(IF exp(F, a) = F.max THEN 0
       ELSE (IF x.s = 1 THEN -mag ELSE mag) % 2^width,
       RefToInt(F, RTZ, width, TRUE, a).flags)
=============================================================================

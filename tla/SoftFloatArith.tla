--------------------------- MODULE SoftFloatArith ---------------------------
(* SoftFloat's multiplication, division, square root and fused multiply-add.  *)
(* A double word of the 64-bit format is a pair [hi, lo] of words, as in the  *)
(* code. Division and square root take the exact quotient and root with a     *)
(* sticky bit, where the code corrects an approximation until it has them.    *)
EXTENDS SoftFloat

Word64 == 2^F64.W
HalfWord == 2^(F64.W \div 2)
Pair(hi, lo) == [hi |-> hi, lo |-> lo]

\* The product of two words by half words.
mul64To128(a, b) ==
  LET a1 == a \div HalfWord
      a0 == a % HalfWord
      b1 == b \div HalfWord
      b0 == b % HalfWord
      mid == a1 * b0 + a0 * b1 + ((a0 * b0) \div HalfWord)
  IN Pair(a1 * b1 + (mid \div HalfWord),
          (mid % HalfWord) * HalfWord + ((a0 * b0) % HalfWord))

add128(x, y) ==
  Pair((x.hi + y.hi + ((x.lo + y.lo) \div Word64)) % Word64,
       (x.lo + y.lo) % Word64)
sub128(x, y) ==
  Pair((x.hi - y.hi - (IF x.lo < y.lo THEN 1 ELSE 0)) % Word64,
       (x.lo - y.lo) % Word64)
shortShiftLeft128(x, d) ==
  Pair((x.hi % 2^(F64.W - d)) * 2^d + (x.lo \div 2^(F64.W - d)),
       (x.lo % 2^(F64.W - d)) * 2^d)
\* What leaves the high word enters the low one; what leaves that is sticky.
shiftRightJam128(x, d) ==
  IF d < F64.W
  THEN Pair(x.hi \div 2^d,
            SetLow((x.hi % 2^d) * 2^(F64.W - d) + (x.lo \div 2^d),
                   x.lo % 2^d # 0))
  ELSE Pair(0, SetLow(ShiftRightJam(x.hi, d - F64.W), x.lo # 0))

-----------------------------------------------------------------------------
(* Multiplication. *)

\* The high word of the product of two significands, with a sticky bit.
HighProduct(F, a, b) ==
  LET x == a * 2^F.g
      y == b * 2^(F.g + 1)
  IN IF F = F64 THEN LET z == mul64To128(x, y) IN SetLow(z.hi, z.lo # 0)
     ELSE ShiftRightJam(x * y, F.W)

\* A product with an infinite or NaN operand.
InfProduct(F, s, a, b) ==
  IF isNaN(F, a) \/ isNaN(F, b) THEN propagateNaN(F, a, b)
  ELSE IF 0 \in {a % 2^(F.W - 1), b % 2^(F.W - 1)} THEN Invalid(F)
  ELSE R(Infinity(F, s), {})

ProductSign(F, a, b) == (sign(F, a) + sign(F, b)) % 2
Zero(F, s) == R(pack(F, s, 0, 0), {})

mul(F, mode, a, b) ==
  LET s == ProductSign(F, a, b)
      x == Normal(F, a)
      y == Normal(F, b)
      e == x.e + y.e - F.bias
      z == HighProduct(F, x.sig, y.sig)
  IN IF F.max \in {exp(F, a), exp(F, b)} THEN InfProduct(F, s, a, b)
     ELSE IF 0 \in {a % 2^(F.W - 1), b % 2^(F.W - 1)} THEN Zero(F, s)
     ELSE IF z < 2^(F.W - 2) THEN roundPack(F, mode, s, e - 1, 2 * z)
     ELSE roundPack(F, mode, s, e, z)

f16_mul(mode, a, b) == mul(F16, mode, a, b)
f32_mul(mode, a, b) == mul(F32, mode, a, b)
f64_mul(mode, a, b) == mul(F64, mode, a, b)

-----------------------------------------------------------------------------
(* Division. *)

\* The first n binary digits of a / b after the units, with a sticky bit.
Quotient(a, b, n) ==
  LET Rem[i \in 0..n] ==
        IF i = 0 THEN <<a \div b, a % b>>
        ELSE LET r == Rem[i - 1]
             IN <<2 * r[1] + ((2 * r[2]) \div b), (2 * r[2]) % b>>
  IN SetLow(Rem[n][1], Rem[n][2] # 0)

DivSpecial(F, s, a, b) ==
  IF isNaN(F, a) \/ isNaN(F, b) THEN propagateNaN(F, a, b)
  ELSE IF exp(F, a) = F.max
  THEN IF exp(F, b) = F.max THEN Invalid(F) ELSE R(Infinity(F, s), {})
  ELSE IF exp(F, b) = F.max THEN Zero(F, s)
  ELSE IF b % 2^(F.W - 1) = 0
  THEN IF a % 2^(F.W - 1) = 0 THEN Invalid(F) ELSE R(Infinity(F, s), {"DZ"})
  ELSE Zero(F, s)

div(F, mode, a, b) ==
  LET s == ProductSign(F, a, b)
      x == Normal(F, a)
      y == Normal(F, b)
      e == x.e - y.e + F.bias - 1
  IN IF \/ F.max \in {exp(F, a), exp(F, b)}
        \/ 0 \in {a % 2^(F.W - 1), b % 2^(F.W - 1)}
     THEN DivSpecial(F, s, a, b)
     ELSE IF x.sig < y.sig
     THEN roundPack(F, mode, s, e - 1, Quotient(x.sig, y.sig, F.W - 1))
     ELSE roundPack(F, mode, s, e, Quotient(x.sig, y.sig, F.W - 2))

f16_div(mode, a, b) == div(F16, mode, a, b)
f32_div(mode, a, b) == div(F32, mode, a, b)
f64_div(mode, a, b) == div(F64, mode, a, b)

-----------------------------------------------------------------------------
(* Square root. *)

\* The first n + 1 binary digits of the root of a * 2^n * 2^n, sticky: digit by
\* digit, keeping the remainder. a is below 4.
Root(digits, n) ==
  LET Step[i \in 0..n] ==
        IF i = 0 THEN <<1, digits[0] - 1>>
        ELSE LET p == Step[i - 1]
                 r == 4 * p[2] + digits[i]
                 t == 4 * p[1] + 1
             IN IF r >= t THEN <<2 * p[1] + 1, r - t>> ELSE <<2 * p[1], r>>
  IN SetLow(Step[n][1], Step[n][2] # 0)

\* Pairs of binary digits of a significand, from the units down.
RootDigits(F, sig, odd, n) ==
  LET top == IF odd THEN 2 * sig ELSE sig
      Bits(k) == IF k >= 0 THEN (top \div 2^k) % 4
                 ELSE IF k = -1 THEN 2 * (top % 2) ELSE 0
  IN [i \in 0..n |-> Bits(F.p - 2 * i)]

sqrt(F, mode, a) ==
  LET x == Normal(F, a)
      odd == x.e % 2 = 0
      e == ((x.e - F.bias) \div 2) + F.bias - 1
  IN IF isNaN(F, a) THEN propagateNaN(F, a, 0)
     ELSE IF a % 2^(F.W - 1) = 0 \/ a = Infinity(F, 0) THEN R(a, {})
     ELSE IF sign(F, a) = 1 THEN Invalid(F)
     ELSE roundPack(F, mode, 0, e,
                    Root(RootDigits(F, x.sig, odd, F.W - 2), F.W - 2))

f16_sqrt(mode, a) == sqrt(F16, mode, a)
f32_sqrt(mode, a) == sqrt(F32, mode, a)
f64_sqrt(mode, a) == sqrt(F64, mode, a)

-----------------------------------------------------------------------------
(* Fused multiply-add: a * b + c with one rounding. *)

\* An infinite product: minus an infinity of the other sign it is invalid.
InfProdPlus(F, s, a, b, c) ==
  LET zero == 0 \in {a % 2^(F.W - 1), b % 2^(F.W - 1)}
      nan == propagateNaN(F, defaultNaN(F), c)
  IN IF \/ zero
        \/ c = Infinity(F, 1 - s)
     THEN R(nan.z, nan.flags \cup {"NV"})
     ELSE IF isNaN(F, c) THEN nan ELSE R(Infinity(F, s), {})

mulAddSpecial(F, mode, s, a, b, c) ==
  LET ab == propagateNaN(F, a, b)
  IN IF isNaN(F, a) \/ isNaN(F, b)
     THEN R(ab.z, ab.flags \cup propagateNaN(F, ab.z, c).flags)
     ELSE IF F.max \in {exp(F, a), exp(F, b)} THEN InfProdPlus(F, s, a, b, c)
     ELSE IF isNaN(F, c) THEN propagateNaN(F, 0, c)
     ELSE IF c = pack(F, 1 - s, 0, 0) THEN CancelledZero(F, mode) ELSE R(c, {})

\* A double word is normalised and rounded to one.
roundWide(F, mode, s, e, wide) ==
  LET sh == CountLeadingZeros(2 * F.W, wide) - 1
  IN roundPack(F, mode, s, e - sh,
               IF sh < F.W THEN ShiftRightJam(wide, F.W - sh)
               ELSE wide * 2^(sh - F.W))

\* A sum of magnitudes with its hidden bit at W - 2 or W - 3.
roundSum(F, mode, s, e, sig) ==
  IF sig < 2^(F.W - 2) THEN roundPack(F, mode, s, e - 1, 2 * sig)
  ELSE roundPack(F, mode, s, e, sig)

\* Mutant: the product is rounded to one word before the sum.
mulAddFinite_Twice(F, mode, s, x, y, c) ==
  LET z == mul(F, mode, pack(F, s, x.e, x.sig % 2^F.p), pack(F, 0, y.e, y.sig % 2^F.p))
  IN IF sign(F, z.z) = sign(F, c) THEN addMags(F, mode, z.z, c)
     ELSE subMags(F, mode, z.z, c)

\* mulAddF16 and mulAddF32: a product that is a double word P of exponent e.
mulAddFinite(F, mode, s, x, y, c) ==
  LET raw == (x.sig * 2^F.g) * (y.sig * 2^F.g)
      high == raw >= 2^(2 * F.W - 3)
      P == IF high THEN raw ELSE 2 * raw
      e == x.e + y.e - (F.bias - 1) - (IF high THEN 0 ELSE 1)
      z == Normal(F, c)
      C == z.sig * 2^(F.g - 1)
      wideC == C * 2^F.W
      d == e - z.e
      diff == P - wideC
  IN IF c % 2^(F.W - 1) = 0
     THEN roundPack(F, mode, s, e - 1, ShiftRightJam(P, F.W - 1))
     ELSE IF s = sign(F, c)
     THEN IF d <= 0 THEN roundSum(F, mode, s, z.e, C + ShiftRightJam(P, F.W - d))
          ELSE roundSum(F, mode, s, e,
                        ShiftRightJam(P + ShiftRightJam(wideC, d), F.W))
     ELSE IF d < 0
     THEN roundWide(F, mode, 1 - s, z.e, wideC - ShiftRightJam(P, -d))
     ELSE IF d > 0 THEN roundWide(F, mode, s, e, P - ShiftRightJam(wideC, d))
     ELSE IF diff = 0 THEN CancelledZero(F, mode)
     ELSE IF diff > 0 THEN roundWide(F, mode, s, e, diff)
     ELSE roundWide(F, mode, 1 - s, e, -diff)

\* A pair is normalised and rounded to one word.
roundPair(mode, s, e, t) ==
  LET up == IF t.hi = 0 THEN Pair(t.lo, 0) ELSE t
      ez == IF t.hi = 0 THEN e - F64.W ELSE e
      sh == CountLeadingZeros(F64.W, up.hi) - 1
      z == shortShiftLeft128(up, sh)
  IN IF sh < 0 THEN roundPack(F64, mode, s, ez - sh,
                              SetLow(ShiftRightJam(up.hi, 1), up.lo # 0))
     ELSE roundPack(F64, mode, s, ez - sh, SetLow(z.hi, z.lo # 0))

\* mulAddF64: below the addend only the high word of the product is aligned.
mulAddFiniteF64(mode, s, x, y, c) ==
  LET raw == mul64To128(x.sig * 2^F64.g, y.sig * 2^F64.g)
      high == raw.hi >= 2^(F64.W - 3)
      P == IF high THEN raw ELSE add128(raw, raw)
      e == x.e + y.e - (F64.bias - 1) - (IF high THEN 0 ELSE 1)
      z == Normal(F64, c)
      C == Pair(z.sig * 2^(F64.g - 1), 0)
      d == e - z.e
      same == s = sign(F64, c)
      low == IF d = -1 /\ ~same THEN shiftRightJam128(P, 1)
             ELSE Pair(ShiftRightJam(P.hi, -d), P.lo)
      sum == IF d <= 0 THEN Pair(C.hi + low.hi, low.lo)
             ELSE add128(P, shiftRightJam128(C, d))
      diff == sub128(P, C)
  IN IF c % 2^(F64.W - 1) = 0
     THEN roundPack(F64, mode, s, e - 1, SetLow(2 * P.hi, P.lo # 0))
     ELSE IF same
     THEN roundSum(F64, mode, s, IF d <= 0 THEN z.e ELSE e,
                   SetLow(sum.hi, sum.lo # 0))
     ELSE IF d < 0 THEN roundPair(mode, 1 - s, z.e, sub128(C, low))
     ELSE IF d > 0 THEN roundPair(mode, s, e, sub128(P, shiftRightJam128(C, d)))
     ELSE IF diff = Pair(0, 0) THEN CancelledZero(F64, mode)
     ELSE IF diff.hi < 2^(F64.W - 1) THEN roundPair(mode, s, e, diff)
     ELSE roundPair(mode, 1 - s, e, sub128(Pair(0, 0), diff))

mulAdd(F, mode, a, b, c) ==
  LET s == ProductSign(F, a, b)
      x == Normal(F, a)
      y == Normal(F, b)
  IN IF \/ F.max \in {exp(F, a), exp(F, b), exp(F, c)}
        \/ 0 \in {a % 2^(F.W - 1), b % 2^(F.W - 1)}
     THEN mulAddSpecial(F, mode, s, a, b, c)
     ELSE IF F = F64 THEN mulAddFiniteF64(mode, s, x, y, c)
     ELSE mulAddFinite(F, mode, s, x, y, c)

f16_mulAdd(mode, a, b, c) == mulAdd(F16, mode, a, b, c)
f32_mulAdd(mode, a, b, c) == mulAdd(F32, mode, a, b, c)
f64_mulAdd(mode, a, b, c) == mulAdd(F64, mode, a, b, c)
=============================================================================

---------------------------- MODULE SoftFloatConv ----------------------------
(* SoftFloat's conversions, comparisons and rounding to an integral value.    *)
(* A 32-bit integer has the width of F32's word and a 64-bit one that of      *)
(* F64's; an integer result is the word, in two's complement.                 *)
EXTENDS SoftFloat

W32 == F32.W
W64 == F64.W
\* The fraction bits of the fixed-point number that is rounded to 32 bits.
Q == F16.p + 2

\* A sign and a magnitude as a word of the given width.
Word(width, s, mag) == (IF s = 1 THEN -mag ELSE mag) % 2^width
MaxInt(width) == 2^(width - 1) - 1
MaxUInt(width) == 2^width - 1

\* *_fromPosOverflow, *_fromNegOverflow and *_fromNaN.
IntOverflow(width, s) ==
  R(IF s = 1 THEN 2^(width - 1) ELSE MaxInt(width), {"NV"})
UIntOverflow(width, s) == R(IF s = 1 THEN 0 ELSE MaxUInt(width), {"NV"})

-----------------------------------------------------------------------------
(* Rounding to an integer: of a fixed-point number with Q fraction bits, or   *)
(* of a word with an extra word below it.                                     *)

Directed(mode, s) == IF s = 1 THEN mode \in {RDN, ODD} ELSE mode = RUP
IntIncrement(mode, s) ==
  IF mode \in {RNE, RMM} THEN 2^(Q - 1)
  ELSE IF Directed(mode, s) THEN 2^Q - 1 ELSE 0
OddBit(mode, z, inexact) == IF inexact /\ mode = ODD THEN SetLow(z, TRUE) ELSE z

roundToI32(mode, s, sig) ==
  LET bits == sig % 2^Q
      up == (sig + IntIncrement(mode, s)) \div 2^Q
      z == IF mode = RNE /\ bits = 2^(Q - 1) THEN up - (up % 2) ELSE up
  IN IF \/ up >= 2^W32
        \/ z > MaxInt(W32) + s
     THEN IntOverflow(W32, s)
     ELSE R(OddBit(mode, Word(W32, s, z), bits # 0), When(bits # 0, {"NX"}))

roundToUI32(mode, s, sig) ==
  LET bits == sig % 2^Q
      inc == IF s = 1 /\ mode \notin {RNE, RMM} THEN 0 ELSE IntIncrement(mode, 0)
      up == (sig + inc) \div 2^Q
      z == IF mode = RNE /\ bits = 2^(Q - 1) THEN up - (up % 2) ELSE up
  IN IF sig = 0 /\ s = 1 THEN R(0, {})
     ELSE IF \/ s = 1 /\ mode \in {RDN, ODD}
             \/ up >= 2^W32
             \/ s = 1 /\ z # 0
     THEN UIntOverflow(W32, s)
     ELSE R(OddBit(mode, z, bits # 0), When(bits # 0, {"NX"}))

\* The word after the extra word below it is rounded away.
Carried(mode, s, sig, extra) ==
  IF mode \in {RNE, RMM}
  THEN IF extra < 2^(W64 - 1) THEN sig
       ELSE IF mode = RNE /\ extra = 2^(W64 - 1)
       THEN sig + 1 - ((sig + 1) % 2) ELSE sig + 1
  ELSE IF extra # 0 /\ Directed(mode, s) THEN sig + 1 ELSE sig

roundToI64(mode, s, sig, extra) ==
  LET z == Carried(mode, s, sig, extra)
  IN IF z > MaxInt(W64) + s THEN IntOverflow(W64, s)
     ELSE R(OddBit(mode, Word(W64, s, z), extra # 0), When(extra # 0, {"NX"}))

roundToUI64(mode, s, sig, extra) ==
  LET z == IF s = 1 /\ mode \notin {RNE, RMM} THEN sig
           ELSE Carried(mode, 0, sig, extra)
  IN IF sig = 0 /\ extra = 0 THEN R(0, {})
     ELSE IF \/ s = 1 /\ (mode \in {RDN, ODD} \/ z # 0)
             \/ z = 2^W64
     THEN UIntOverflow(W64, s)
     ELSE R(OddBit(mode, z, extra # 0), When(extra # 0, {"NX"}))

-----------------------------------------------------------------------------
(* To integers. *)

\* A significand with its hidden bit, subnormals as they are.
Sig(F, a) == (IF exp(F, a) = 0 THEN 0 ELSE 2^F.p) + frac(F, a)
\* Overflow of the sign a NaN or an infinity stands for.
OverflowSign(F, a) == IF isNaN(F, a) THEN 0 ELSE sign(F, a)

\* Half precision fits: whole numbers are returned, the rest is rounded.
FixedF16(a) == Sig(F16, a) * 2^(IF exp(F16, a) > F16.bias + F16.p - Q
                                THEN exp(F16, a) - (F16.bias + F16.p - Q) ELSE 0)
IsWhole(a) == exp(F16, a) >= F16.bias + F16.p
WholeF16(a) == Sig(F16, a) * 2^(exp(F16, a) - (F16.bias + F16.p))

f16_to_i32(mode, a) ==
  IF exp(F16, a) = F16.max THEN IntOverflow(W32, OverflowSign(F16, a))
  ELSE IF IsWhole(a) THEN R(Word(W32, sign(F16, a), WholeF16(a)), {})
  ELSE roundToI32(mode, sign(F16, a), FixedF16(a))

\* The 32-bit result is sign-extended to 64.
f16_to_i64(mode, a) ==
  LET r == roundToI32(mode, sign(F16, a), FixedF16(a))
  IN IF exp(F16, a) = F16.max THEN IntOverflow(W64, OverflowSign(F16, a))
     ELSE IF IsWhole(a) THEN R(Word(W64, sign(F16, a), WholeF16(a)), {})
     ELSE R(IF r.z > MaxInt(W32) THEN r.z + 2^W64 - 2^W32 ELSE r.z, r.flags)

f16_to_ui32(mode, a) ==
  IF exp(F16, a) = F16.max THEN UIntOverflow(W32, OverflowSign(F16, a))
  ELSE IF IsWhole(a) /\ sign(F16, a) = 0 THEN R(WholeF16(a), {})
  ELSE roundToUI32(mode, sign(F16, a), FixedF16(a))

f16_to_ui64(mode, a) ==
  LET x == FixedF16(a)
  IN IF exp(F16, a) = F16.max THEN UIntOverflow(W64, OverflowSign(F16, a))
     ELSE IF IsWhole(a) /\ sign(F16, a) = 0 THEN R(WholeF16(a), {})
     ELSE roundToUI64(mode, sign(F16, a), x \div 2^Q, (x % 2^Q) * 2^(W64 - Q))

\* Single precision is first widened by a word; large numbers are left at
\* a value that overflows.
FixedF32(a) ==
  LET d == F32.bias + F32.p + W32 - Q - exp(F32, a)
      sig == Sig(F32, a)
  IN IF d >= W32 THEN ShiftRightJam(sig, d - W32)
     ELSE sig * 2^(W32 - (IF d > 0 THEN d ELSE 0))
FixedF64(a) ==
  LET d == F64.bias + F64.p - Q - exp(F64, a)
  IN IF d > 0 THEN ShiftRightJam(Sig(F64, a), d) ELSE Sig(F64, a)

f32_to_i32(mode, a) == roundToI32(mode, OverflowSign(F32, a), FixedF32(a))
f32_to_ui32(mode, a) == roundToUI32(mode, OverflowSign(F32, a), FixedF32(a))
f64_to_i32(mode, a) == roundToI32(mode, OverflowSign(F64, a), FixedF64(a))
f64_to_ui32(mode, a) == roundToUI32(mode, OverflowSign(F64, a), FixedF64(a))

\* A word shifted right by d, what leaves it kept in the extra word.
ShiftRightJamExtra(a, d) ==
  IF d = 0 THEN <<a, 0>>
  ELSE IF d < W64 THEN <<a \div 2^d, (a % 2^d) * 2^(W64 - d)>>
  ELSE <<0, IF d = W64 THEN a ELSE IF a = 0 THEN 0 ELSE 1>>

\* A number too large for 64 bits, or its word and extra word.
TooLarge32(a) == exp(F32, a) > F32.bias + W64 - 1
Extended32(a) == ShiftRightJamExtra(Sig(F32, a) * 2^(W64 - F32.p - 1),
                                    F32.bias + W64 - 1 - exp(F32, a))
TooLarge64(a) == exp(F64, a) > F64.bias + W64 - 1
Extended64(a) ==
  LET d == F64.bias + F64.p - exp(F64, a)
  IN IF d <= 0 THEN <<Sig(F64, a) * 2^(-d), 0>>
     ELSE ShiftRightJamExtra(Sig(F64, a), d)

f32_to_i64(mode, a) ==
  LET x == Extended32(a)
  IN IF TooLarge32(a) THEN IntOverflow(W64, OverflowSign(F32, a))
     ELSE roundToI64(mode, sign(F32, a), x[1], x[2])
f32_to_ui64(mode, a) ==
  LET x == Extended32(a)
  IN IF TooLarge32(a) THEN UIntOverflow(W64, OverflowSign(F32, a))
     ELSE roundToUI64(mode, sign(F32, a), x[1], x[2])
f64_to_i64(mode, a) ==
  LET x == Extended64(a)
  IN IF TooLarge64(a) THEN IntOverflow(W64, OverflowSign(F64, a))
     ELSE roundToI64(mode, sign(F64, a), x[1], x[2])
f64_to_ui64(mode, a) ==
  LET x == Extended64(a)
  IN IF TooLarge64(a) THEN UIntOverflow(W64, OverflowSign(F64, a))
     ELSE roundToUI64(mode, sign(F64, a), x[1], x[2])

-----------------------------------------------------------------------------
(* From integers: a sign and a magnitude below 2^width. *)

\* A magnitude that may have more bits than the format: exact or rounded.
FromInt(F, mode, width, s, mag) ==
  LET sh == CountLeadingZeros(width, mag) - (width - F.p - 1)
      d == sh + F.g
  IN IF mag = 0 THEN R(0, {})
     ELSE IF sh >= 0 THEN R(pack(F, s, F.bias + F.p - 1 - sh, mag * 2^sh), {})
     ELSE roundPack(F, mode, s, F.bias + F.W - 3 - d,
                    IF d < 0 THEN ShiftRightJam(mag, -d) ELSE mag * 2^d)

\* A magnitude as wide as the format's word.
FromWord(F, mode, s, mag) ==
  IF mag = 0 THEN R(0, {})
  ELSE IF mag < 2^(F.W - 1) THEN normRoundPack(F, mode, s, F.bias + F.W - 3, mag)
  ELSE IF s = 1 THEN R(pack(F, 1, F.bias + F.W - 1, 0), {})
  ELSE roundPack(F, mode, 0, F.bias + F.W - 2, ShiftRightJam(mag, 1))

\* A magnitude the double format holds exactly.
FromInt32(s, mag) ==
  LET sh == CountLeadingZeros(W32, mag) + F64.p - W32 + 1
  IN IF mag = 0 THEN R(0, {})
     ELSE R(pack(F64, s, F64.bias + F64.p - 1 - sh, mag * 2^sh), {})

IntSign(width, v) == IF v > MaxInt(width) THEN 1 ELSE 0
Magnitude(width, v) == IF v > MaxInt(width) THEN 2^width - v ELSE v

i32_to_f16(mode, v) == FromInt(F16, mode, W32, IntSign(W32, v), Magnitude(W32, v))
i64_to_f16(mode, v) == FromInt(F16, mode, W64, IntSign(W64, v), Magnitude(W64, v))
ui32_to_f16(mode, v) == FromInt(F16, mode, W32, 0, v)
ui64_to_f16(mode, v) == FromInt(F16, mode, W64, 0, v)
i32_to_f32(mode, v) == FromWord(F32, mode, IntSign(W32, v), Magnitude(W32, v))
i64_to_f32(mode, v) == FromInt(F32, mode, W64, IntSign(W64, v), Magnitude(W64, v))
ui32_to_f32(mode, v) == FromWord(F32, mode, 0, v)
ui64_to_f32(mode, v) == FromInt(F32, mode, W64, 0, v)
i32_to_f64(mode, v) == FromInt32(IntSign(W32, v), Magnitude(W32, v))
i64_to_f64(mode, v) == FromWord(F64, mode, IntSign(W64, v), Magnitude(W64, v))
ui32_to_f64(mode, v) == FromInt32(0, v)
ui64_to_f64(mode, v) == FromWord(F64, mode, 0, v)

-----------------------------------------------------------------------------
(* Between formats. *)

\* A NaN or an infinity of one format in another.
ToSpecial(F, G, a) ==
  IF isNaN(F, a) THEN R(defaultNaN(G), When(isSigNaN(F, a), {"NV"}))
  ELSE R(Infinity(G, sign(F, a)), {})

\* Widening is exact: a subnormal becomes normal.
Widen(F, G, a) ==
  LET x == normSubnormalSig(F, frac(F, a))
      e == IF exp(F, a) = 0 THEN x.e - 1 ELSE exp(F, a)
      f == IF exp(F, a) = 0 THEN x.sig ELSE frac(F, a)
  IN IF exp(F, a) = F.max THEN ToSpecial(F, G, a)
     ELSE IF a % 2^(F.W - 1) = 0 THEN R(pack(G, sign(F, a), 0, 0), {})
     ELSE R(pack(G, sign(F, a), e + G.bias - F.bias, f * 2^(G.p - F.p)), {})

Narrow(F, G, mode, a) ==
  LET f == ShiftRightJam(frac(F, a), F.p - G.p - G.g)
  IN IF exp(F, a) = F.max THEN ToSpecial(F, G, a)
     ELSE IF exp(F, a) = 0 /\ f = 0 THEN R(pack(G, sign(F, a), 0, 0), {})
     ELSE roundPack(G, mode, sign(F, a), exp(F, a) - (F.bias - G.bias) - 1,
                    f + 2^(G.W - 2))

f16_to_f32(mode, a) == Widen(F16, F32, a)
f16_to_f64(mode, a) == Widen(F16, F64, a)
f32_to_f64(mode, a) == Widen(F32, F64, a)
f32_to_f16(mode, a) == Narrow(F32, F16, mode, a)
f64_to_f16(mode, a) == Narrow(F64, F16, mode, a)
f64_to_f32(mode, a) == Narrow(F64, F32, mode, a)

-----------------------------------------------------------------------------
(* Comparisons: a result of 1 or 0. *)

Bool(b) == IF b THEN 1 ELSE 0
\* The quiet comparisons raise on a signalling NaN only.
Unordered(F, quiet, a, b) ==
  R(0, When(~quiet \/ isSigNaN(F, a) \/ isSigNaN(F, b), {"NV"}))
EitherNaN(F, a, b) == isNaN(F, a) \/ isNaN(F, b)
BothZero(F, a, b) == a % 2^(F.W - 1) = 0 /\ b % 2^(F.W - 1) = 0

eq(F, a, b) ==
  IF EitherNaN(F, a, b) THEN Unordered(F, TRUE, a, b)
  ELSE R(Bool(a = b \/ BothZero(F, a, b)), {})

\* Words of one sign compare as integers, negative ones the other way round.
Below(F, a, b) ==
  IF sign(F, a) # sign(F, b) THEN sign(F, a) = 1 /\ ~BothZero(F, a, b)
  ELSE a # b /\ (sign(F, a) = 1) # (a < b)
AtMost(F, a, b) ==
  IF sign(F, a) # sign(F, b) THEN sign(F, a) = 1 \/ BothZero(F, a, b)
  ELSE a = b \/ (sign(F, a) = 1) # (a < b)

lt(F, quiet, a, b) ==
  IF EitherNaN(F, a, b) THEN Unordered(F, quiet, a, b)
  ELSE R(Bool(Below(F, a, b)), {})
le(F, quiet, a, b) ==
  IF EitherNaN(F, a, b) THEN Unordered(F, quiet, a, b)
  ELSE R(Bool(AtMost(F, a, b)), {})

f16_eq(a, b) == eq(F16, a, b)
f32_eq(a, b) == eq(F32, a, b)
f64_eq(a, b) == eq(F64, a, b)
f16_lt(a, b) == lt(F16, FALSE, a, b)
f32_lt(a, b) == lt(F32, FALSE, a, b)
f64_lt(a, b) == lt(F64, FALSE, a, b)
f16_le(a, b) == le(F16, FALSE, a, b)
f32_le(a, b) == le(F32, FALSE, a, b)
f64_le(a, b) == le(F64, FALSE, a, b)
f16_lt_quiet(a, b) == lt(F16, TRUE, a, b)
f32_lt_quiet(a, b) == lt(F32, TRUE, a, b)
f64_lt_quiet(a, b) == lt(F64, TRUE, a, b)
f16_le_quiet(a, b) == le(F16, TRUE, a, b)
f32_le_quiet(a, b) == le(F32, TRUE, a, b)
f64_le_quiet(a, b) == le(F64, TRUE, a, b)

-----------------------------------------------------------------------------
(* Rounding to an integral value of the same format. *)

\* A magnitude below one rounds to zero or to one.
RoundsToOne(F, mode, a) ==
  \/ mode = RNE /\ frac(F, a) # 0 /\ exp(F, a) = F.bias - 1
  \/ mode = RMM /\ exp(F, a) = F.bias - 1
  \/ mode = (IF sign(F, a) = 1 THEN RDN ELSE RUP)
  \/ mode = ODD

\* The word with its last integral bit and what is below it rounded.
ToIntegral(F, mode, a) ==
  LET unit == 2^(F.bias + F.p - exp(F, a))
      half == a + unit \div 2
      up == IF mode = RMM \/ (mode = RNE /\ half % unit # 0) THEN half
            ELSE IF mode = RNE THEN half - ((half \div unit) % 2) * unit
            ELSE IF mode = (IF sign(F, a) = 1 THEN RDN ELSE RUP)
            THEN a + unit - 1 ELSE a
      z == up - (up % unit)
  IN IF z # a /\ mode = ODD /\ (z \div unit) % 2 = 0 THEN z + unit ELSE z

roundToInt(F, mode, exact, a) ==
  LET z == ToIntegral(F, mode, a)
  IN IF exp(F, a) < F.bias
     THEN IF a % 2^(F.W - 1) = 0 THEN R(a, {})
          ELSE R(pack(F, sign(F, a), IF RoundsToOne(F, mode, a) THEN F.bias ELSE 0, 0),
                 When(exact, {"NX"}))
     ELSE IF isNaN(F, a) THEN propagateNaN(F, a, 0)
     ELSE IF exp(F, a) >= F.bias + F.p THEN R(a, {})
     ELSE R(z, When(exact /\ z # a, {"NX"}))

f16_roundToInt(mode, exact, a) == roundToInt(F16, mode, exact, a)
f32_roundToInt(mode, exact, a) == roundToInt(F32, mode, exact, a)
f64_roundToInt(mode, exact, a) == roundToInt(F64, mode, exact, a)
=============================================================================

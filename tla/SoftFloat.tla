----------------------------- MODULE SoftFloat -----------------------------
(* The core of SoftFloat-3e as the emulator builds it (RISCV specialisation): *)
(* formats, rounding and packing, addition and subtraction. A number is the   *)
(* word the C code passes around, and a result is a word with the flags the   *)
(* operation raised. The three formats are constants, kept small for TLC, in  *)
(* the proportions of binary16, binary32 and binary64.                        *)
EXTENDS Integers, FiniteSets

CONSTANTS F16, F32, F64

\* A format: exponent and fraction bits, the word, and the guard bits a
\* significand has below it when it is rounded.
Format(w, p) == [w |-> w, p |-> p, W |-> 1 + w + p, g |-> w - 1,
                 max |-> 2^w - 1, bias |-> 2^(w - 1) - 1]

\* What the code relies on when it narrows one width to another without a jam.
ASSUME FormatsAssumption ==
  /\ F32.p >= F16.p + F16.g + 1 /\ F64.p >= F32.p + F32.g + 1
  /\ F16.p >= 2 /\ F16.g >= 3 /\ F64.W % 2 = 0
  /\ F64.p >= F32.W + F16.p + 2
  /\ F16.w < F32.w /\ F32.w < F64.w

\* softfloat_roundingMode
RNE == 0
RTZ == 1
RDN == 2
RUP == 3
RMM == 4
ODD == 6

R(z, raised) == [z |-> z, flags |-> raised]
When(c, raised) == IF c THEN raised ELSE {}

sign(F, u) == u \div 2^(F.W - 1)
exp(F, u) == (u \div 2^F.p) % 2^F.w
frac(F, u) == u % 2^F.p
pack(F, s, e, f) == s * 2^(F.W - 1) + e * 2^F.p + f

SetLow(x, b) == IF b /\ x % 2 = 0 THEN x + 1 ELSE x
\* A right shift that keeps in the lowest bit whether it lost anything.
ShiftRightJam(a, d) ==
  IF d >= 30 THEN (IF a # 0 THEN 1 ELSE 0)
  ELSE SetLow(a \div 2^d, a % 2^d # 0)

BitLength(a) == CHOOSE k \in 0..30 : a < 2^k /\ (k = 0 \/ a >= 2^(k - 1))
CountLeadingZeros(width, a) == width - BitLength(a)

-----------------------------------------------------------------------------
(* NaNs: every NaN a result can be is the canonical one. *)

defaultNaN(F) == pack(F, 0, F.max, 2^(F.p - 1))
isNaN(F, u) == exp(F, u) = F.max /\ frac(F, u) # 0
isSigNaN(F, u) == isNaN(F, u) /\ frac(F, u) < 2^(F.p - 1)
Infinity(F, s) == pack(F, s, F.max, 0)
Invalid(F) == R(defaultNaN(F), {"NV"})

propagateNaN(F, a, b) ==
  R(defaultNaN(F), When(isSigNaN(F, a) \/ isSigNaN(F, b), {"NV"}))

-----------------------------------------------------------------------------
(* Rounding. The significand has its hidden bit at W - 2; the exponent is one *)
(* less than the value's, since packing adds the hidden bit to it.            *)

Increment(F, mode, s) ==
  IF mode \in {RNE, RMM} THEN 2^(F.g - 1)
  ELSE IF mode = (IF s = 1 THEN RDN ELSE RUP) THEN 2^F.g - 1 ELSE 0

roundPack(F, mode, s, e, sig) ==
  LET inc  == Increment(F, mode, s)
      tiny == e < -1 \/ (e < 0 /\ sig + inc < 2^(F.W - 1))
      kept == IF e < 0 THEN ShiftRightJam(sig, -e) ELSE sig
      bits == kept % 2^F.g
      up   == (kept + inc) \div 2^F.g
      q    == IF bits # 0 /\ mode = ODD THEN SetLow(up, TRUE)
              ELSE IF mode = RNE /\ bits = 2^(F.g - 1) THEN up - (up % 2) ELSE up
  IN IF \/ e > F.max - 2
        \/ e = F.max - 2 /\ sig + inc >= 2^(F.W - 1)
     THEN R(Infinity(F, s) - (IF inc = 0 THEN 1 ELSE 0), {"OF", "NX"})
     ELSE R(pack(F, s, IF q = 0 \/ e < 0 THEN 0 ELSE e, q),
            When(bits # 0, {"NX"}) \cup When(tiny /\ bits # 0, {"UF"}))

roundPackToF16(mode, s, e, sig) == roundPack(F16, mode, s, e, sig)
roundPackToF64(mode, s, e, sig) == roundPack(F64, mode, s, e, sig)

normRoundPack(F, mode, s, e, sig) ==
  LET sh == CountLeadingZeros(F.W, sig) - 1
      ez == e - sh
  IN IF sh >= F.g /\ ez \in 0..F.max - 3
     THEN R(pack(F, s, IF sig = 0 THEN 0 ELSE ez, sig * 2^(sh - F.g)), {})
     ELSE roundPack(F, mode, s, ez, sig * 2^sh)

normRoundPackToF64(mode, s, e, sig) == normRoundPack(F64, mode, s, e, sig)

\* A subnormal significand with its top bit where the hidden bit would be.
normSubnormalSig(F, sig) ==
  LET sh == CountLeadingZeros(F.W, sig) - (F.W - 1 - F.p)
  IN [e |-> 1 - sh, sig |-> sig * 2^sh]
\* Exponent and significand of a finite number, subnormals normalised.
Normal(F, u) ==
  IF exp(F, u) = 0 THEN normSubnormalSig(F, frac(F, u))
  ELSE [e |-> exp(F, u), sig |-> 2^F.p + frac(F, u)]

-----------------------------------------------------------------------------
(* Addition and subtraction of magnitudes. *)

\* One operand is not finite: the sum or difference takes sign s of it.
NotFinite(F, s, a, b) ==
  IF isNaN(F, a) \/ isNaN(F, b) THEN propagateNaN(F, a, b)
  ELSE R(Infinity(F, s), {})

\* The smaller significand, lifted and then shifted to the larger exponent; a
\* subnormal one counts as if its exponent were zero.
Aligned(F, u, lift, d) ==
  ShiftRightJam((IF exp(F, u) = 0 THEN 2 * frac(F, u) ELSE 2^F.p + frac(F, u))
                * 2^lift, d)

\* The larger operand of two with different exponents, and the other.
Larger(F, a, b) == IF exp(F, a) > exp(F, b) THEN a ELSE b
Smaller(F, a, b) == IF exp(F, a) > exp(F, b) THEN b ELSE a
Distance(F, a, b) == exp(F, Larger(F, a, b)) - exp(F, Smaller(F, a, b))

\* Equal exponents: the sum has one bit more.
addMagsEqual(F, mode, a, b) ==
  LET sig == 2^(F.p + 1) + frac(F, a) + frac(F, b)
      e == exp(F, a)
  IN IF e = 0 THEN R(a + frac(F, b), {})
     ELSE IF e = F.max THEN NotFinite(F, sign(F, a), a, b)
     ELSE IF F # F64 /\ sig % 2 = 0 /\ e < F.max - 1
     THEN R(pack(F, sign(F, a), e, sig \div 2), {})
     ELSE roundPack(F, mode, sign(F, a), e, sig * 2^(F.g - 1))

addMags(F, mode, a, b) ==
  LET x == Larger(F, a, b)
      y == Smaller(F, a, b)
      sum == 2^(F.W - 3) + frac(F, x) * 2^(F.g - 1)
               + Aligned(F, y, F.g - 1, Distance(F, a, b))
  IN IF exp(F, a) = exp(F, b) THEN addMagsEqual(F, mode, a, b)
     ELSE IF exp(F, x) = F.max THEN NotFinite(F, sign(F, a), a, b)
     ELSE IF sum < 2^(F.W - 2)
     THEN roundPack(F, mode, sign(F, a), exp(F, x) - 1, 2 * sum)
     ELSE roundPack(F, mode, sign(F, a), exp(F, x), sum)

addMagsF64(mode, a, b) == addMags(F64, mode, a, b)

\* The zero that x - x is.
CancelledZero(F, mode) == R(pack(F, IF mode = RDN THEN 1 ELSE 0, 0, 0), {})

\* Equal exponents: the difference is exact.
subMagsEqual(F, mode, a, b) ==
  LET diff == frac(F, a) - frac(F, b)
      mag == IF diff < 0 THEN -diff ELSE diff
      s == IF diff < 0 THEN 1 - sign(F, a) ELSE sign(F, a)
      e == IF exp(F, a) = 0 THEN 0 ELSE exp(F, a) - 1
      sh == CountLeadingZeros(F.W, mag) - (F.W - 1 - F.p)
  IN IF exp(F, a) = F.max
     THEN IF isNaN(F, a) \/ isNaN(F, b) THEN propagateNaN(F, a, b) ELSE Invalid(F)
     ELSE IF diff = 0 THEN CancelledZero(F, mode)
     ELSE IF e < sh THEN R(pack(F, s, 0, mag * 2^e), {})
     ELSE R(pack(F, s, e - sh, mag * 2^sh), {})

\* The sign of a difference of unequal exponents.
DifferenceSign(F, a, b) ==
  IF exp(F, a) < exp(F, b) THEN 1 - sign(F, a) ELSE sign(F, a)

subMags(F, mode, a, b) ==
  LET x == Larger(F, a, b)
      y == Smaller(F, a, b)
      s == DifferenceSign(F, a, b)
  IN IF exp(F, a) = exp(F, b) THEN subMagsEqual(F, mode, a, b)
     ELSE IF exp(F, x) = F.max THEN NotFinite(F, s, a, b)
     ELSE normRoundPack(F, mode, s, exp(F, x) - 1,
                        2^(F.W - 2) + frac(F, x) * 2^F.g
                          - Aligned(F, y, F.g, Distance(F, a, b)))

subMagsF64(mode, a, b) == subMags(F64, mode, a, b)

-----------------------------------------------------------------------------
(* Half precision aligns in a double word and treats a far operand apart. *)

FarF16 == F16.p + 3
ExtraF16 == F16.W + F16.g - 1

\* The far operand only pushes the result off its value.
addEpsilon(mode, z) ==
  IF mode = (IF sign(F16, z) = 1 THEN RDN ELSE RUP)
  THEN R(z + 1, {"NX"} \cup When(exp(F16, z + 1) = F16.max, {"OF"}))
  ELSE R(IF mode = ODD THEN SetLow(z, TRUE) ELSE z, {"NX"})

subEpsilon(mode, z) ==
  IF mode \in {RTZ, IF sign(F16, z) = 1 THEN RUP ELSE RDN} THEN R(z - 1, {"NX"})
  ELSE R(IF mode = ODD THEN SetLow(z - 1, TRUE) ELSE z, {"NX"})

\* A double word with its hidden bit at 2W - 2: exact results are packed.
packWide(mode, s, e, wide) ==
  LET sig == ShiftRightJam(wide, F16.W)
  IN IF wide % 2^(F16.W + F16.g) = 0 /\ e \in 0..F16.max - 2
     THEN R(pack(F16, s, e, sig \div 2^F16.g), {})
     ELSE roundPack(F16, mode, s, e, sig)

addMagsF16(mode, a, b) ==
  LET x == Larger(F16, a, b)
      y == Smaller(F16, a, b)
      s == sign(F16, a)
      d == Distance(F16, a, b)
      z == pack(F16, s, exp(F16, x), frac(F16, x))
      sum == (2^F16.p + frac(F16, x)) * 2^ExtraF16
               + Aligned(F16, y, ExtraF16 - d, 0)
  IN IF exp(F16, a) = exp(F16, b) THEN addMagsEqual(F16, mode, a, b)
     ELSE IF exp(F16, x) = F16.max THEN NotFinite(F16, s, a, b)
     ELSE IF d >= FarF16
     THEN IF y % 2^(F16.W - 1) # 0 THEN addEpsilon(mode, z) ELSE R(z, {})
     ELSE IF sum < 2^(2 * F16.W - 2)
     THEN packWide(mode, s, exp(F16, x) - 1, 2 * sum)
     ELSE packWide(mode, s, exp(F16, x), sum)

subMagsF16(mode, a, b) ==
  LET x == Larger(F16, a, b)
      y == Smaller(F16, a, b)
      s == DifferenceSign(F16, a, b)
      d == Distance(F16, a, b)
      z == pack(F16, s, exp(F16, x), frac(F16, x))
      diff == (2^F16.p + frac(F16, x)) * 2^d - Aligned(F16, y, 0, 0)
      sh == CountLeadingZeros(2 * F16.W, diff) - 1
  IN IF exp(F16, a) = exp(F16, b) THEN subMagsEqual(F16, mode, a, b)
     ELSE IF exp(F16, x) = F16.max THEN NotFinite(F16, s, a, b)
     ELSE IF d >= FarF16
     THEN IF y % 2^(F16.W - 1) # 0 THEN subEpsilon(mode, z) ELSE R(z, {})
     ELSE packWide(mode, s, exp(F16, y) + ExtraF16 - sh, diff * 2^sh)

-----------------------------------------------------------------------------
\* f*_add and f*_sub choose between the two by the signs.
Add(sum(_, _, _), diff(_, _, _), F, mode, a, b) ==
  IF sign(F, a) = sign(F, b) THEN sum(mode, a, b) ELSE diff(mode, a, b)

addMagsF32(mode, a, b) == addMags(F32, mode, a, b)
subMagsF32(mode, a, b) == subMags(F32, mode, a, b)

f16_add(mode, a, b) == Add(addMagsF16, subMagsF16, F16, mode, a, b)
f32_add(mode, a, b) == Add(addMagsF32, subMagsF32, F32, mode, a, b)
f64_add(mode, a, b) == Add(addMagsF64, subMagsF64, F64, mode, a, b)
f16_sub(mode, a, b) == Add(subMagsF16, addMagsF16, F16, mode, a, b)
f32_sub(mode, a, b) == Add(subMagsF32, addMagsF32, F32, mode, a, b)
f64_sub(mode, a, b) == Add(subMagsF64, addMagsF64, F64, mode, a, b)
=============================================================================

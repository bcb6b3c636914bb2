----------------------------- MODULE FloatUnit -----------------------------
(* The floating-point instructions: a Sail clause reads its operands from the *)
(* f registers, picks a rounding mode, calls SoftFloat through the emulator's *)
(* wrapper, ORs the flags into fcsr and writes the result. SoftFloat keeps    *)
(* mode and flags in globals that outlive the call. RV64, FLEN 64.            *)
EXTENDS SoftFloatArith, SoftFloatConv, FloatRef, Sequences

VARIABLES
  f,                          \* three f registers: the sources, f[1] the target
  x,                          \* the integer register, source or target
  fcsr,                       \* rounding mode and accrued flags
  softfloat_exceptionFlags,
  softfloat_roundingMode,
  program                     \* the instructions still to execute

globals == <<softfloat_exceptionFlags, softfloat_roundingMode>>
vars == <<f, x, fcsr, globals, program>>

ByName == [H |-> F16, S |-> F32, D |-> F64]
DYN == 7
instr == Head(program)
F == ByName[instr.fmt]

\* Narrower numbers are boxed with zeros; a word that is not boxed is a NaN.
nan_box(G, z) == z
nan_unbox(G, u) == IF u < 2^G.W THEN u ELSE defaultNaN(G)
rs(n) == nan_unbox(F, f[n])

SignExtend(width, z) == IF z > MaxInt(width) THEN z + 2^W64 - 2^width ELSE z

-----------------------------------------------------------------------------
(* The wrappers, a group for each kind of operation. *)

Pick(h, s, d) == CASE instr.fmt = "H" -> h [] instr.fmt = "S" -> s [] instr.fmt = "D" -> d

softfloat_f16(m, a, b) ==
  CASE instr.op = "fadd" -> f16_add(m, a, b) [] instr.op = "fsub" -> f16_sub(m, a, b)
    [] instr.op = "fmul" -> f16_mul(m, a, b) [] instr.op = "fdiv" -> f16_div(m, a, b)
softfloat_f32(m, a, b) ==
  CASE instr.op = "fadd" -> f32_add(m, a, b) [] instr.op = "fsub" -> f32_sub(m, a, b)
    [] instr.op = "fmul" -> f32_mul(m, a, b) [] instr.op = "fdiv" -> f32_div(m, a, b)
softfloat_f64(m, a, b) ==
  CASE instr.op = "fadd" -> f64_add(m, a, b) [] instr.op = "fsub" -> f64_sub(m, a, b)
    [] instr.op = "fmul" -> f64_mul(m, a, b) [] instr.op = "fdiv" -> f64_div(m, a, b)

softfloat_muladd(m, a, b, c) ==
  Pick(f16_mulAdd(m, a, b, c), f32_mulAdd(m, a, b, c), f64_mulAdd(m, a, b, c))
softfloat_sqrt(m, a) == Pick(f16_sqrt(m, a), f32_sqrt(m, a), f64_sqrt(m, a))

softfloat_f16toint(m, a) ==
  CASE instr.to = "W" -> f16_to_i32(m, a) [] instr.to = "WU" -> f16_to_ui32(m, a)
    [] instr.to = "L" -> f16_to_i64(m, a) [] instr.to = "LU" -> f16_to_ui64(m, a)
softfloat_f32toint(m, a) ==
  CASE instr.to = "W" -> f32_to_i32(m, a) [] instr.to = "WU" -> f32_to_ui32(m, a)
    [] instr.to = "L" -> f32_to_i64(m, a) [] instr.to = "LU" -> f32_to_ui64(m, a)
softfloat_f64toint(m, a) ==
  CASE instr.to = "W" -> f64_to_i32(m, a) [] instr.to = "WU" -> f64_to_ui32(m, a)
    [] instr.to = "L" -> f64_to_i64(m, a) [] instr.to = "LU" -> f64_to_ui64(m, a)

softfloat_inttof16(m, v) ==
  CASE instr.to = "W" -> i32_to_f16(m, v) [] instr.to = "WU" -> ui32_to_f16(m, v)
    [] instr.to = "L" -> i64_to_f16(m, v) [] instr.to = "LU" -> ui64_to_f16(m, v)
softfloat_inttof32(m, v) ==
  CASE instr.to = "W" -> i32_to_f32(m, v) [] instr.to = "WU" -> ui32_to_f32(m, v)
    [] instr.to = "L" -> i64_to_f32(m, v) [] instr.to = "LU" -> ui64_to_f32(m, v)
softfloat_inttof64(m, v) ==
  CASE instr.to = "W" -> i32_to_f64(m, v) [] instr.to = "WU" -> ui32_to_f64(m, v)
    [] instr.to = "L" -> i64_to_f64(m, v) [] instr.to = "LU" -> ui64_to_f64(m, v)

softfloat_ftof(m, a) ==
  CASE instr.to = "H" -> Pick(R(a, {}), f32_to_f16(m, a), f64_to_f16(m, a))
    [] instr.to = "S" -> Pick(f16_to_f32(m, a), R(a, {}), f64_to_f32(m, a))
    [] instr.to = "D" -> Pick(f16_to_f64(m, a), f32_to_f64(m, a), R(a, {}))

softfloat_f16cmp(a, b) ==
  CASE instr.op = "flt" -> f16_lt(a, b) [] instr.op = "fle" -> f16_le(a, b)
    [] instr.op = "fltq" -> f16_lt_quiet(a, b) [] instr.op = "fleq" -> f16_le_quiet(a, b)
    [] instr.op = "feq" -> f16_eq(a, b)
softfloat_f32cmp(a, b) ==
  CASE instr.op = "flt" -> f32_lt(a, b) [] instr.op = "fle" -> f32_le(a, b)
    [] instr.op = "fltq" -> f32_lt_quiet(a, b) [] instr.op = "fleq" -> f32_le_quiet(a, b)
    [] instr.op = "feq" -> f32_eq(a, b)
softfloat_f64cmp(a, b) ==
  CASE instr.op = "flt" -> f64_lt(a, b) [] instr.op = "fle" -> f64_le(a, b)
    [] instr.op = "fltq" -> f64_lt_quiet(a, b) [] instr.op = "fleq" -> f64_le_quiet(a, b)
    [] instr.op = "feq" -> f64_eq(a, b)

softfloat_roundToInt(m, exact, a) ==
  Pick(f16_roundToInt(m, exact, a), f32_roundToInt(m, exact, a),
       f64_roundToInt(m, exact, a))

-----------------------------------------------------------------------------
(* Steps common to the clauses. *)

select_instr_or_fcsr_rm == IF instr.rm = DYN THEN fcsr.frm ELSE instr.rm
\* An instruction that rounds, in a mode there is.
Rounds(ops) == instr.op \in ops /\ select_instr_or_fcsr_rm \in RNE..RMM

accrue_fflags(raised) == fcsr' = [fcsr EXCEPT !.fflags = @ \cup raised]

\* Mutant: the flags of earlier calls are still in the global.
Call_Stale(m, r) ==
  /\ softfloat_roundingMode' = m
  /\ softfloat_exceptionFlags' = softfloat_exceptionFlags \cup r.flags
  /\ accrue_fflags(softfloat_exceptionFlags')
\* A call: the prelude sets the mode and clears the flags, the operation raises
\* its own, and the caller accrues what it finds.
Call(m, r) ==
  /\ softfloat_roundingMode' = m
  /\ softfloat_exceptionFlags' = r.flags
  /\ accrue_fflags(softfloat_exceptionFlags')

WriteF(G, z) == f' = [f EXCEPT ![1] = nan_box(G, z)] /\ UNCHANGED x
WriteX(z) == x' = z /\ UNCHANGED f

-----------------------------------------------------------------------------
(* The clauses. *)

negate(G, u) == pack(G, 1 - sign(G, u), exp(G, u), frac(G, u))

F_MADD_TYPE ==
  LET m == select_instr_or_fcsr_rm
      a == IF instr.op \in {"fnmsub", "fnmadd"} THEN negate(F, rs(1)) ELSE rs(1)
      c == IF instr.op \in {"fmsub", "fnmadd"} THEN negate(F, rs(3)) ELSE rs(3)
      r == softfloat_muladd(m, a, rs(2), c)
  IN /\ Rounds({"fmadd", "fmsub", "fnmsub", "fnmadd"})
     /\ Call(m, r) /\ WriteF(F, r.z)

F_BIN_RM_TYPE ==
  LET m == select_instr_or_fcsr_rm
      r == Pick(softfloat_f16(m, rs(1), rs(2)), softfloat_f32(m, rs(1), rs(2)),
                softfloat_f64(m, rs(1), rs(2)))
  IN Rounds({"fadd", "fsub", "fmul", "fdiv"}) /\ Call(m, r) /\ WriteF(F, r.z)

FSQRT ==
  LET m == select_instr_or_fcsr_rm
      r == softfloat_sqrt(m, rs(1))
  IN Rounds({"fsqrt"}) /\ Call(m, r) /\ WriteF(F, r.z)

\* A 32-bit integer, signed or not, is sign-extended.
FCVT_X_F ==
  LET m == select_instr_or_fcsr_rm
      r == Pick(softfloat_f16toint(m, rs(1)), softfloat_f32toint(m, rs(1)),
                softfloat_f64toint(m, rs(1)))
  IN /\ Rounds({"fcvtx"}) /\ Call(m, r)
     /\ WriteX(IF instr.to \in {"W", "WU"} THEN SignExtend(W32, r.z) ELSE r.z)

FCVT_F_X ==
  LET m == select_instr_or_fcsr_rm
      v == IF instr.to \in {"W", "WU"} THEN x % 2^W32 ELSE x
      r == Pick(softfloat_inttof16(m, v), softfloat_inttof32(m, v),
                softfloat_inttof64(m, v))
  IN Rounds({"fcvtf"}) /\ Call(m, r) /\ WriteF(F, r.z)

FCVT_F_F ==
  LET m == select_instr_or_fcsr_rm
      r == softfloat_ftof(m, rs(1))
  IN Rounds({"fcvtff"}) /\ Call(m, r) /\ WriteF(ByName[instr.to], r.z)

FROUND ==
  LET m == select_instr_or_fcsr_rm
      r == softfloat_roundToInt(m, instr.op = "froundnx", rs(1))
  IN Rounds({"fround", "froundnx"}) /\ Call(m, r) /\ WriteF(F, r.z)

FCMP ==
  LET r == Pick(softfloat_f16cmp(rs(1), rs(2)), softfloat_f32cmp(rs(1), rs(2)),
                softfloat_f64cmp(rs(1), rs(2)))
  IN instr.op \in {"flt", "fle", "fltq", "fleq", "feq"} /\ Call(RNE, r) /\ WriteX(r.z)

\* The Sail code's own comparison, on sign and magnitude.
fle(G, a, b) ==
  IF sign(G, a) = sign(G, b) THEN (IF sign(G, a) = 0 THEN a <= b ELSE a >= b)
  ELSE sign(G, a) = 1 \/ BothZero(G, a, b)

\* fminm and fmaxm make any NaN a NaN; zeros are ordered by sign.
MinMax(a, b) ==
  LET least == instr.op \in {"fmin", "fminm"}
      first == IF BothZero(F, a, b) /\ a # b
               THEN (sign(F, a) = 1) = least
               ELSE IF least THEN fle(F, a, b) ELSE fle(F, b, a)
  IN IF \/ isNaN(F, a) /\ isNaN(F, b)
        \/ EitherNaN(F, a, b) /\ instr.op \in {"fminm", "fmaxm"}
     THEN defaultNaN(F)
     ELSE IF isNaN(F, a) THEN b
     ELSE IF isNaN(F, b) \/ first THEN a ELSE b

FMINMAX ==
  /\ instr.op \in {"fmin", "fmax", "fminm", "fmaxm"}
  /\ accrue_fflags(When(isSigNaN(F, rs(1)) \/ isSigNaN(F, rs(2)), {"NV"}))
  /\ WriteF(F, MinMax(rs(1), rs(2)))
  /\ UNCHANGED globals

FSGNJ ==
  LET s == CASE instr.op = "fsgnj" -> sign(F, rs(2))
             [] instr.op = "fsgnjn" -> 1 - sign(F, rs(2))
             [] instr.op = "fsgnjx" -> (sign(F, rs(1)) + sign(F, rs(2))) % 2
  IN /\ instr.op \in {"fsgnj", "fsgnjn", "fsgnjx"}
     /\ WriteF(F, pack(F, s, exp(F, rs(1)), frac(F, rs(1))))
     /\ UNCHANGED <<fcsr, globals>>

\* One of ten classes, a bit for each: the negative ones mirror the positive.
FCLASS ==
  LET a == rs(1)
      class == IF exp(F, a) = F.max THEN 0
               ELSE IF exp(F, a) # 0 THEN 1 ELSE IF frac(F, a) # 0 THEN 2 ELSE 3
  IN /\ instr.op = "fclass"
     /\ WriteX(IF isNaN(F, a) THEN (IF isSigNaN(F, a) THEN 2^8 ELSE 2^9)
               ELSE IF sign(F, a) = 1 THEN 2^class ELSE 2^(7 - class))
     /\ UNCHANGED <<fcsr, globals>>

FMV ==
  /\ \/ instr.op = "fmvx" /\ WriteX(SignExtend(F.W, f[1] % 2^F.W))
     \/ instr.op = "fmvf" /\ WriteF(F, x % 2^F.W)
  /\ UNCHANGED <<fcsr, globals>>

\* Double to word, modulo the word instead of saturated, rounded to zero.
FCVTMOD ==
  LET a == f[1]
      e == exp(F64, a) - F64.bias
      sig == 2^F64.p + frac(F64, a)
      integer == IF e <= F64.p THEN (sig \div 2^(F64.p - e)) % 2^W32
                 ELSE (sig % 2^(W32 - (e - F64.p))) * 2^(e - F64.p)
      inexact == e < F64.p /\ sig % 2^(F64.p - e) # 0
      toobig == e >= W32 \/ integer > MaxInt(W32) + sign(F64, a)
      none == exp(F64, a) = F64.max \/ e >= F64.p + W32 \/ e < 0
  IN /\ instr.op = "fcvtmod"
     /\ IF none
        THEN /\ accrue_fflags(IF a % 2^(F64.W - 1) = 0 THEN {}
                              ELSE IF e < 0 THEN {"NX"} ELSE {"NV"})
             /\ WriteX(0)
        ELSE /\ accrue_fflags(IF toobig THEN {"NV"} ELSE When(inexact, {"NX"}))
             /\ WriteX(SignExtend(W32, Word(W32, sign(F64, a), integer)))
     /\ UNCHANGED globals

\* A write of fcsr, where the mode may be one there is not.
ext_write_fcsr ==
  /\ instr.op = "fscsr"
  /\ fcsr' = [frm |-> instr.rm, fflags |-> {}]
  /\ UNCHANGED <<f, x, globals>>

\* No rounding mode: an illegal instruction, and nothing is written.
Illegal ==
  /\ "rm" \in DOMAIN instr /\ instr.op # "fscsr"
  /\ select_instr_or_fcsr_rm \notin RNE..RMM
  /\ UNCHANGED <<f, x, fcsr, globals>>

Execute ==
  \/ F_MADD_TYPE \/ F_BIN_RM_TYPE \/ FSQRT \/ FCVT_X_F \/ FCVT_F_X \/ FCVT_F_F
  \/ FROUND \/ FCMP \/ FMINMAX \/ FSGNJ \/ FCLASS \/ FMV \/ FCVTMOD
  \/ ext_write_fcsr \/ Illegal

Formats == DOMAIN ByName
Ints == {"W", "WU", "L", "LU"}
Instructions ==
  [op : {"fadd", "fsub", "fmul", "fdiv", "fsqrt", "fmadd", "fmsub", "fnmsub",
         "fnmadd", "fround", "froundnx"}, fmt : Formats, rm : (RNE..RMM) \cup {DYN}]
  \cup [op : {"fcvtx", "fcvtf", "fcvtff"}, fmt : Formats, to : Ints \cup Formats,
        rm : (RNE..RMM) \cup {DYN}]
  \cup [op : {"feq", "flt", "fle", "fltq", "fleq", "fmin", "fmax", "fminm", "fmaxm",
              "fsgnj", "fsgnjn", "fsgnjx", "fclass", "fmvx", "fmvf", "fcvtmod"},
        fmt : Formats]
  \cup [op : {"fscsr"}, rm : 0..7]

Reset ==
  /\ fcsr = [frm |-> RNE, fflags |-> {}]
  /\ softfloat_exceptionFlags = {}
  /\ softfloat_roundingMode = RNE
Init ==
  /\ f \in [1..3 -> 0..(2^W64 - 1)] /\ x \in 0..(2^W64 - 1)
  /\ program \in Seq(Instructions)
  /\ Reset
Finished == program = <<>> /\ UNCHANGED vars
Next == (program # <<>> /\ Execute /\ program' = Tail(program)) \/ Finished
Spec == Init /\ [][Next]_vars

-----------------------------------------------------------------------------
(* Properties. *)

Width(to) == IF to \in {"W", "WU"} THEN W32 ELSE W64
Signed(to) == to \in {"W", "L"}

\* What the instruction should compute: value and flags.
Arithmetic ==
  LET m == select_instr_or_fcsr_rm
      minus(u) == Opposite(F, u)
  IN CASE instr.op = "fadd" -> RefAdd(F, m, rs(1), rs(2))
       [] instr.op = "fsub" -> RefSub(F, m, rs(1), rs(2))
       [] instr.op = "fmul" -> RefMul(F, m, rs(1), rs(2))
       [] instr.op = "fdiv" -> RefDiv(F, m, rs(1), rs(2))
       [] instr.op = "fsqrt" -> RefSqrt(F, m, rs(1))
       [] instr.op = "fmadd" -> RefMulAdd(F, m, rs(1), rs(2), rs(3))
       [] instr.op = "fmsub" -> RefMulAdd(F, m, rs(1), rs(2), minus(rs(3)))
       [] instr.op = "fnmsub" -> RefMulAdd(F, m, minus(rs(1)), rs(2), rs(3))
       [] instr.op = "fnmadd" -> RefMulAdd(F, m, minus(rs(1)), rs(2), minus(rs(3)))
       [] instr.op = "fcvtff" -> RefConvert(F, ByName[instr.to], m, rs(1))
       [] instr.op = "fcvtf" ->
            RefFromInt(F, m, Width(instr.to), Signed(instr.to), x % 2^Width(instr.to))
       [] instr.op \in {"fround", "froundnx"} ->
            RefRoundToInt(F, m, instr.op = "froundnx", rs(1))
       [] instr.op \in {"fmin", "fminm"} ->
            RefMinMax(F, -1, instr.op = "fminm", rs(1), rs(2))
       [] instr.op \in {"fmax", "fmaxm"} ->
            RefMinMax(F, 1, instr.op = "fmaxm", rs(1), rs(2))

\* The same for an integer result.
ToX ==
  LET m == select_instr_or_fcsr_rm
  IN CASE instr.op = "fcvtx" ->
            RefToInt(F, m, Width(instr.to), Signed(instr.to), rs(1))
       [] instr.op = "fcvtmod" -> RefToIntModulo(F, W32, rs(1))
       [] instr.op = "feq" -> RefCompare(F, TRUE, {0}, rs(1), rs(2))
       [] instr.op \in {"flt", "fltq"} ->
            RefCompare(F, instr.op = "fltq", {-1}, rs(1), rs(2))
       [] instr.op \in {"fle", "fleq"} ->
            RefCompare(F, instr.op = "fleq", {-1, 0}, rs(1), rs(2))

Rounding == {"fadd", "fsub", "fmul", "fdiv", "fsqrt", "fmadd", "fmsub",
             "fnmsub", "fnmadd", "fcvtff", "fcvtf", "fround", "froundnx"}
Selecting == {"fmin", "fmax", "fminm", "fmaxm"}
Integral == {"fcvtmod", "feq", "flt", "fltq", "fle", "fleq"}

\* The narrow integer a conversion leaves, sign-extended as the register has it.
InX(z) == IF instr.op = "fcvtmod" \/ (instr.op = "fcvtx" /\ Width(instr.to) = W32)
          THEN SignExtend(W32, z) ELSE z

Target == IF instr.op = "fcvtff" THEN ByName[instr.to] ELSE F

\* The sources are as the unit itself leaves numbers of the format.
Boxed ==
  "fmt" \in DOMAIN instr /\ \A n \in DOMAIN f : f[n] = nan_box(F, f[n] % 2^F.W)

\* The result of every instruction is the exact one rounded once in the mode the
\* instruction or fcsr asks for, or the special value IEEE 754 and the ISA give
\* it: across carries into the exponent, subnormal results, cancellation and
\* saturation (riscv_softfloat.c and the SoftFloat files it calls).  It is the number
\* in the low bits: what is above them, and words that are not boxed, are left open.
RoundsCorrectly ==
  [][program # <<>> /\ Boxed =>
       /\ Rounds(Rounding) \/ instr.op \in Selecting
            => f'[1] % 2^Target.W = Arithmetic.z
       /\ Rounds({"fcvtx"}) \/ instr.op \in Integral => x' = InX(ToX.z)]_vars

\* An instruction accrues the flags of its own operation and no others: none
\* missed, none from an earlier call left in SoftFloat's global, tininess after
\* rounding (riscv_softfloat.c:14, s_roundPackToF32.c:63).
FlagsAreExact ==
  [][program # <<>> =>
       /\ Rounds(Rounding) \/ instr.op \in Selecting
            => fcsr'.fflags = fcsr.fflags \cup Arithmetic.flags
       /\ Rounds({"fcvtx"}) \/ instr.op \in Integral
            => fcsr'.fflags = fcsr.fflags \cup ToX.flags]_vars
=============================================================================

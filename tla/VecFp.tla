------------------------------- MODULE VecFp -------------------------------
(***************************************************************************)
(* The floating-point vector instructions of the 64-bit build, one         *)
(* operator per execute clause of riscv_insts_vext_fp, _fp_vm and          *)
(* _fp_red.sail.  They have the shapes of the integer ones; a scalar       *)
(* operand comes from a floating-point register, which must be wide        *)
(* enough.                                                                 *)
(***************************************************************************)
EXTENDS VecArith

valid_fp_op(i) == SEW >= 4 /\ i.rm \notin {5, 6, 7}

\* The illegal_fp_* checks: those of the integer shapes, and valid_fp_op.
Fp(i, outcome) == IF valid_fp_op(i) THEN outcome ELSE Illegal

\* get_scalar_fp asserts that flen holds the scalar (a widening instruction
\* takes a scalar of half of ELEN at most, which it always does).
FpScalar(i, illegal, outcome) ==
  Fp(i, IF ~illegal /\ Width > Flen THEN Abort ELSE outcome)

(***************************************************************************)
(* Vector and vector.                                                      *)
(***************************************************************************)
FVVTYPE(i)    == Fp(i, MVVTYPE(i))
FVVMATYPE(i)  == Fp(i, MVVMATYPE(i))
FWVVTYPE(i)   == Fp(i, WVVTYPE(i))
FWVVMATYPE(i) == Fp(i, WMVVTYPE(i))
FWVTYPE(i)    == Fp(i, WVTYPE(i))

Unary(i) == Elementwise(i, illegal_normal(i), {i.vd, i.vs2}, LAMBDA k : <<At(i.vs2, k)>>)
VFUNARY0(i) == Fp(i, Unary(i))
VFUNARY1(i) == Fp(i, Unary(i))
VFWUNARY0(i) == Fp(i, Widening(i, {i.vs2}, {i.vs2}, {}, LAMBDA k : <<At(i.vs2, k)>>))
VFNUNARY0(i) == Fp(i, Narrowing(i, {}, LAMBDA k : <<Wide(i.vs2, k)>>))

VFMVFS(i) ==
  Fp(i, Checked(illegal_vd_unmasked \/ Width > Flen, TRUE,
                [Now EXCEPT !.x = At(i.vs2, 0), !.vstart = 0]))

(***************************************************************************)
(* Vector and scalar.                                                      *)
(***************************************************************************)
FVFTYPE(i)    == FpScalar(i, illegal_normal(i), MVXTYPE(i))
FVFMATYPE(i)  == FpScalar(i, illegal_normal(i), MVXMATYPE(i))
FWVFTYPE(i)   == Fp(i, WVXTYPE(i))
FWVFMATYPE(i) == Fp(i, WMVXTYPE(i))
FWFTYPE(i)    == Fp(i, WXTYPE(i))
VFMERGE(i)    == FpScalar(i, illegal_vd_masked(i), MASKTYPEX(i))
VFMV(i)       == FpScalar(i, illegal_vd_unmasked, MOVETYPEX(i))
VFMVSF(i)     == FpScalar(i, illegal_vd_unmasked, VMVSX(i))

(***************************************************************************)
(* Comparisons and reductions.                                             *)
(***************************************************************************)
FVVMTYPE(i) == Fp(i, VVCMPTYPE(i))
FVFMTYPE(i) == FpScalar(i, illegal_vd_unmasked, VXCMPTYPE(i))

WideningSums == {"FVV_VFWREDOSUM", "FVV_VFWREDUSUM"}

RFVVTYPE(i) ==
  IF i.op \in WideningSums
  THEN IF SEW + 1 > VlenPow THEN Abort ELSE Fp(i, RIVVTYPE(i))
  ELSE Fp(i, RMVVTYPE(i))
=============================================================================

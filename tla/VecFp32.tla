------------------------------ MODULE VecFp32 ------------------------------
(***************************************************************************)
(* The floating-point vector instructions of the 32-bit build, after       *)
(* riscv_insts_vext_fp32.sail.  Where an instruction works on doubles and  *)
(* a register holds exactly the eight that the register vector_to_store    *)
(* has room for, the code pushes results into vector_to_store              *)
(* (fill_vector), and write_single_vreg stores what was pushed in place of *)
(* the result.  Every other case is that of the 64-bit build.              *)
(***************************************************************************)
EXTENDS VecFp

Doubles == SEW = DoublePow
Staging == Doubles /\ NumElem = Slots

\* The outcome once the elements ks of the result are pushed, in their order,
\* if the instruction got so far as to write one.
Stage(i, outcome, ks) ==
  LET order  == InOrder(ks)
      pushed == [n \in DOMAIN order |->
                   [b \in 0 .. Width - 1 |->
                      outcome.v[i.vd * VLEN + order[n] * Width + b]]]
  IN  IF ks = {} \/ outcome \in {Illegal, Abort} THEN outcome
      ELSE [outcome EXCEPT !.v = Written(i.vd, Width, fill_vector(pushed)), !.double = NoDouble]

Everything == 0 .. Slots - 1

\* The arithmetic on doubles does not accrue its exceptions.
Quietly(outcome) == [outcome EXCEPT !.fflags = fflags]

(***************************************************************************)
(* Instructions that push their active elements.                           *)
(***************************************************************************)
\* On doubles this one requires that the eight are all there is.
FVVTYPE_rv32(i) ==
  CASE Doubles /\ Staging -> Quietly(Stage(i, FVVTYPE(i), Active(i)))
    [] Doubles /\ ~Staging -> Fp(i, Checked(illegal_normal(i), FALSE, Now))
    [] OTHER -> FVVTYPE(i)

FVVMATYPE_rv32(i) ==
  IF Staging THEN Quietly(Stage(i, FVVMATYPE(i), Active(i))) ELSE FVVMATYPE(i)
FVFTYPE_rv32(i) ==
  IF Staging THEN Quietly(Stage(i, FVFTYPE(i), Active(i))) ELSE FVFTYPE(i)
FVFMATYPE_rv32(i) ==
  IF Staging THEN Quietly(Stage(i, FVFMATYPE(i), Active(i))) ELSE FVFMATYPE(i)
VFUNARY1_rv32(i) ==
  IF Staging THEN Stage(i, VFUNARY1(i), Active(i)) ELSE VFUNARY1(i)

(***************************************************************************)
(* Instructions that push every element, or every one but the first.       *)
(***************************************************************************)
VFMERGE_rv32(i) == IF Staging THEN Stage(i, VFMERGE(i), Everything) ELSE VFMERGE(i)
VFMV_rv32(i)    == IF Staging THEN Stage(i, VFMV(i), Everything) ELSE VFMV(i)

\* get_num_elem(0, SEW) is the number of slots whatever LMUL is.
VFMVSF_rv32(i) == IF Doubles THEN Stage(i, VFMVSF(i), Everything \ {0}) ELSE VFMVSF(i)

(***************************************************************************)
(* Instructions that do not stage.                                         *)
(***************************************************************************)
FWVVTYPE_rv32(i)   == FWVVTYPE(i)
FWVVMATYPE_rv32(i) == FWVVMATYPE(i)
FWVTYPE_rv32(i)    == FWVTYPE(i)
VFUNARY0_rv32(i)   == VFUNARY0(i)
VFWUNARY0_rv32(i)  == VFWUNARY0(i)
VFNUNARY0_rv32(i)  == VFNUNARY0(i)
VFMVFS_rv32(i)     == VFMVFS(i)
FWVFTYPE_rv32(i)   == FWVFTYPE(i)
FWVFMATYPE_rv32(i) == FWVFMATYPE(i)
FWFTYPE_rv32(i)    == FWFTYPE(i)
=============================================================================

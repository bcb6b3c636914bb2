------------------------------ MODULE VecArith ------------------------------
(***************************************************************************)
(* The integer and mask instructions of the vector extension, one operator *)
(* per execute clause of riscv_insts_vext_arith, _vm, _mask and _red.sail. *)
(* An operator gives the outcome of the instruction i in the present       *)
(* state; what one element becomes is Alu(i.op, width, operands).          *)
(***************************************************************************)
EXTENDS VecRegs, SequencesExt

(***************************************************************************)
(* The shapes the clauses share.                                           *)
(***************************************************************************)
Elementwise(i, illegal, rs, Args(_)) ==
  Checked(illegal, CanRead(LMUL, rs),
          Compute(i.vd, Width, i.op, [k \in Active(i) |-> Args(k)]))

\* A source group of twice the width, a result of the present one.
Narrowing(i, rs, Args(_)) ==
  Checked(\/ illegal_variable_width(i, SEW + 1, LMUL + 1)
          \/ ~valid_reg_overlap(i.vs2, i.vd, LMUL + 1, LMUL),
          CanRead(LMUL, {i.vd} \cup rs) /\ CanRead(LMUL + 1, {i.vs2}),
          Compute(i.vd, Width, i.op, [k \in Active(i) |-> Args(k)]))

\* A result of twice the width; apart may overlap it only at its top.
Widening(i, apart, narrow, wide, Args(_)) ==
  Checked(\/ illegal_variable_width(i, SEW + 1, LMUL + 1)
          \/ \E r \in apart : ~valid_reg_overlap(r, i.vd, LMUL, LMUL + 1),
          CanRead(LMUL, narrow) /\ CanRead(LMUL + 1, {i.vd} \cup wide),
          Compute(i.vd, 2 * Width, i.op, [k \in ActiveWide(i) |-> Args(k)]))

\* The groups that must differ are compared, and the group of the 16-bit
\* indices is read, at the first active element.
Permute(i, clash, rs, indexed, Value(_)) ==
  LET active == Active(i)
  IN  Checked(illegal_normal(i), CanRead(LMUL, {i.vd} \cup rs),
              Checked(active # {} /\ clash, active # {} => indexed,
                      Put(i.vd, Width, [k \in active |-> Value(k)])))

\* The merge operates on all body elements.
Merge(i, rs, Chosen(_)) ==
  Checked(illegal_vd_masked(i), CanRead(LMUL, {i.vd, i.vs2} \cup rs),
          LET real_num_elem == IF LMUL >= 0 THEN NumElem ELSE NumElem \div (-LMUL)
              body == {k \in 0 .. real_num_elem - 1 : vstart <= k /\ k < vl}
          IN  Put(i.vd, Width,
                  [k \in body |-> IF BitSet(0, k) THEN Chosen(k) ELSE At(i.vs2, k)]))

Move(i, rs, Value(_)) ==
  Checked(illegal_vd_unmasked, CanRead(LMUL, {i.vd} \cup rs),
          Put(i.vd, Width, [k \in Body(NumElem, LMUL) |-> Value(k)]))

Wide(r, k)  == Elem(r, 2 * Width, k)
Scalar(i)   == Bits(i.x, Width)
SourceAt(i, k) == IF k < VLMAX THEN At(i.vs2, k) ELSE Bits(0, Width)
OldAt(i, k) == At(i.vd, k)

(***************************************************************************)
(* riscv_insts_vext_arith.sail.                                            *)
(***************************************************************************)
VVTYPE(i) ==
  CASE i.op = "VV_VRGATHER" ->
         Permute(i, i.vd \in {i.vs1, i.vs2}, {i.vs1, i.vs2}, TRUE,
                 LAMBDA k : SourceAt(i, Number(At(i.vs1, k), Width)))
    [] i.op = "VV_VRGATHEREI16" ->
         Permute(i, i.vd \in {i.vs1, i.vs2}, {i.vs1, i.vs2}, CanRead(4 + LMUL - SEW, {i.vs1}),
                 LAMBDA k : SourceAt(i, Number(Elem(i.vs1, 16, k), 16)))
    [] OTHER -> Elementwise(i, illegal_normal(i), {i.vd, i.vs1, i.vs2},
                            LAMBDA k : <<At(i.vs2, k), At(i.vs1, k)>>)

NVSTYPE(i) == Narrowing(i, {i.vs1}, LAMBDA k : <<Wide(i.vs2, k), At(i.vs1, k)>>)
NVTYPE(i)  == Narrowing(i, {i.vs1}, LAMBDA k : <<Wide(i.vs2, k), At(i.vs1, k)>>)
NXSTYPE(i) == Narrowing(i, {}, LAMBDA k : <<Wide(i.vs2, k), Scalar(i)>>)
NXTYPE(i)  == Narrowing(i, {}, LAMBDA k : <<Wide(i.vs2, k), Scalar(i)>>)
NISTYPE(i) == Narrowing(i, {}, LAMBDA k : <<Wide(i.vs2, k), Scalar(i)>>)
NITYPE(i)  == Narrowing(i, {}, LAMBDA k : <<Wide(i.vs2, k), Scalar(i)>>)

MASKTYPEV(i) == Merge(i, {i.vs1}, LAMBDA k : At(i.vs1, k))
MASKTYPEX(i) == Merge(i, {}, LAMBDA k : Scalar(i))
MASKTYPEI(i) == Merge(i, {}, LAMBDA k : Scalar(i))

MOVETYPEV(i) == Move(i, {i.vs1}, LAMBDA k : At(i.vs1, k))
MOVETYPEX(i) == Move(i, {}, LAMBDA k : Scalar(i))
MOVETYPEI(i) == Move(i, {}, LAMBDA k : Scalar(i))

VXTYPE(i) == Elementwise(i, illegal_normal(i), {i.vd, i.vs2},
                         LAMBDA k : <<At(i.vs2, k), Scalar(i)>>)
VITYPE(i) == VXTYPE(i)

Slide(i) ==
  CASE i.op = "SLIDEUP" ->
         Permute(i, i.vs2 = i.vd, {i.vs2}, TRUE,
                 LAMBDA k : IF k >= i.x THEN At(i.vs2, k - i.x) ELSE OldAt(i, k))
    [] i.op = "SLIDEDOWN" -> Permute(i, FALSE, {i.vs2}, TRUE,
                                     LAMBDA k : SourceAt(i, k + i.x))
    [] i.op = "RGATHER" -> Permute(i, i.vs2 = i.vd, {i.vs2}, TRUE,
                                   LAMBDA k : SourceAt(i, i.x))

VXSG(i) == Slide(i)
VISG(i) == Slide(i)

\* Whole registers, whatever vtype says.
VMVRTYPE(i) ==
  IF i.x + 1 \notin {1, 2, 4, 8} THEN Illegal
  ELSE LET emul == CHOOSE e \in 0 .. 3 : 2^e = i.x + 1
       IN  IF ~CanRead(emul, {i.vd, i.vs2}) THEN Abort
           ELSE Put(i.vd, Width,
                    [k \in vstart .. get_num_elem(emul, SEW) - 1 |-> At(i.vs2, k)])

MVVTYPE(i) == Elementwise(i, illegal_normal(i), {i.vd, i.vs1, i.vs2},
                          LAMBDA k : <<At(i.vs2, k), At(i.vs1, k)>>)
MVVMATYPE(i) == Elementwise(i, illegal_normal(i), {i.vd, i.vs1, i.vs2},
                            LAMBDA k : <<At(i.vs2, k), At(i.vs1, k), OldAt(i, k)>>)

WVVTYPE(i) == Widening(i, {i.vs1, i.vs2}, {i.vs1, i.vs2}, {},
                       LAMBDA k : <<At(i.vs2, k), At(i.vs1, k)>>)
WVTYPE(i) == Widening(i, {i.vs1}, {i.vs1}, {i.vs2},
                      LAMBDA k : <<Wide(i.vs2, k), At(i.vs1, k)>>)
WMVVTYPE(i) == Widening(i, {i.vs1, i.vs2}, {i.vs1, i.vs2}, {},
                        LAMBDA k : <<At(i.vs2, k), At(i.vs1, k), Wide(i.vd, k)>>)
WVXTYPE(i) == Widening(i, {i.vs2}, {i.vs2}, {}, LAMBDA k : <<At(i.vs2, k), Scalar(i)>>)
WXTYPE(i)  == Widening(i, {}, {}, {i.vs2}, LAMBDA k : <<Wide(i.vs2, k), Scalar(i)>>)
WMVXTYPE(i) == Widening(i, {i.vs2}, {i.vs2}, {},
                        LAMBDA k : <<At(i.vs2, k), Scalar(i), Wide(i.vd, k)>>)

\* vzext and vsext from a half, a quarter or an eighth (2^j) of the width.
Extend(i, j) ==
  Checked(\/ illegal_variable_width(i, SEW - j, LMUL - j)
          \/ ~valid_reg_overlap(i.vs2, i.vd, LMUL - j, LMUL),
          CanRead(LMUL, {i.vd}) /\ CanRead(LMUL - j, {i.vs2}),
          Compute(i.vd, Width, i.op,
                  [k \in Active(i) |-> <<Elem(i.vs2, 2^(SEW - j), k)>>]))
VEXT2TYPE(i) == Extend(i, 1)
VEXT4TYPE(i) == Extend(i, 2)
VEXT8TYPE(i) == Extend(i, 3)

\* X(rd) is element 0, sign-extended or cut to xlen; vstart is not looked at.
VMVXS(i) ==
  Checked(illegal_vd_unmasked, TRUE,
          LET value == At(i.vs2, 0)
          IN  [Now EXCEPT !.x = [b \in 0 .. xlen - 1 |-> value[Min({b, Width - 1})]],
                          !.vstart = 0])

VMVSX(i) ==
  Checked(illegal_vd_unmasked, TRUE,
          Put(i.vd, Width,
              [k \in Body(get_num_elem(0, SEW), 0) \cap {0} |-> Scalar(i)]))

\* The elements the mask vs1 selects, packed at the start of vd.
MVVCOMPRESS(i) ==
  LET selected == {k \in 0 .. NumElem - 1 : k < vl /\ BitSet(i.vs1, k)}
      Rank(k)  == Cardinality({j \in selected : j < k})
      packed   == [p \in 0 .. Cardinality(selected) - 1 |->
                     At(i.vs2, CHOOSE k \in selected : Rank(k) = p)]
  IN  Checked(vstart # 0 \/ i.vd \in {i.vs1, i.vs2} \/ illegal_vd_unmasked,
              CanRead(LMUL, {i.vd, i.vs2}), Put(i.vd, Width, packed))

MVXTYPE(i) ==
  CASE i.op = "MVX_VSLIDE1UP" ->
         Permute(i, i.vs2 = i.vd, {i.vs2}, TRUE,
                 LAMBDA k : IF k = 0 THEN Scalar(i) ELSE At(i.vs2, k - 1))
    [] i.op = "MVX_VSLIDE1DOWN" ->
         Permute(i, FALSE, {i.vs2}, TRUE,
                 LAMBDA k : IF k < vl - 1 THEN At(i.vs2, k + 1) ELSE Scalar(i))
    [] OTHER -> VXTYPE(i)

MVXMATYPE(i) == Elementwise(i, illegal_normal(i), {i.vd, i.vs2},
                            LAMBDA k : <<At(i.vs2, k), Scalar(i), OldAt(i, k)>>)
(***************************************************************************)
(* riscv_insts_vext_vm.sail: carries, borrows and comparisons.             *)
(***************************************************************************)
ToMask(i, elements, rs, Args(_)) ==
  Checked(illegal_vd_unmasked, CanRead(LMUL, rs),
          Compute(i.vd, 1, i.op, [k \in elements |-> Args(k)]))

Carried(i, rs, Args(_)) ==
  Checked(illegal_vd_masked(i), CanRead(LMUL, {i.vd} \cup rs),
          Compute(i.vd, Width, i.op, [k \in Body(NumElem, LMUL) |-> Args(k)]))

Carry(k) == Elem(0, 1, k)

VVMTYPE(i)  == ToMask(i, Body(NumElem, LMUL), {i.vs1, i.vs2},
                      LAMBDA k : <<At(i.vs2, k), At(i.vs1, k), Carry(k)>>)
VVMCTYPE(i) == ToMask(i, Body(NumElem, LMUL), {i.vs1, i.vs2},
                      LAMBDA k : <<At(i.vs2, k), At(i.vs1, k)>>)
VVMSTYPE(i) == Carried(i, {i.vs1, i.vs2},
                       LAMBDA k : <<At(i.vs2, k), At(i.vs1, k), Carry(k)>>)
VVCMPTYPE(i) == ToMask(i, Active(i), {i.vs1, i.vs2},
                       LAMBDA k : <<At(i.vs2, k), At(i.vs1, k)>>)

VXMTYPE(i)  == ToMask(i, Body(NumElem, LMUL), {i.vs2},
                      LAMBDA k : <<At(i.vs2, k), Scalar(i), Carry(k)>>)
VXMCTYPE(i) == ToMask(i, Body(NumElem, LMUL), {i.vs2},
                      LAMBDA k : <<At(i.vs2, k), Scalar(i)>>)
VXMSTYPE(i) == Carried(i, {i.vs2}, LAMBDA k : <<At(i.vs2, k), Scalar(i), Carry(k)>>)
VXCMPTYPE(i) == ToMask(i, Active(i), {i.vs2}, LAMBDA k : <<At(i.vs2, k), Scalar(i)>>)

VIMTYPE(i)   == VXMTYPE(i)
VIMCTYPE(i)  == VXMCTYPE(i)
VIMSTYPE(i)  == VXMSTYPE(i)
VICMPTYPE(i) == VXCMPTYPE(i)

(***************************************************************************)
(* riscv_insts_vext_mask.sail: a mask register is VLEN elements of a bit.  *)
(***************************************************************************)
MMTYPE(i) ==
  Checked(illegal_vd_unmasked, TRUE,
          Compute(i.vd, 1, i.op,
                  [k \in Body(VLEN, 0) |-> <<Elem(i.vs2, 1, k), Elem(i.vs1, 1, k)>>]))

ActiveBits(i) == Masked(VLEN, 0, read_vmask(VLEN, i.vm, 0))
Found(i) == {k \in ActiveBits(i) : BitSet(i.vs2, k)}

VCPOP_M(i) == Checked(illegal_reduction, TRUE,
                      [Retire EXCEPT !.x = <<Cardinality(Found(i))>>])
VFIRST_M(i) ==
  Checked(illegal_reduction, TRUE,
          [Retire EXCEPT !.x = <<IF Found(i) = {} THEN -1 ELSE Min(Found(i))>>])

\* Set(k, F): the bit k, from the positions F of the bits found.
SetBits(i, Set(_, _)) ==
  LET found == Found(i)
  IN  Checked(illegal_normal(i) \/ vstart # 0 \/ i.vd = i.vs2, TRUE,
              Put(i.vd, 1, [k \in ActiveBits(i) |-> Bits(IF Set(k, found) THEN 1 ELSE 0, 1)]))

VMSBF_M(i) == SetBits(i, LAMBDA k, F : \A j \in F : k < j)
VMSIF_M(i) == SetBits(i, LAMBDA k, F : \A j \in F : k <= j)
VMSOF_M(i) == SetBits(i, LAMBDA k, F : k \in F /\ \A j \in F : k <= j)

VIOTA_M(i) ==
  LET counted == {k \in Active(i) : BitSet(i.vs2, k)}
  IN  Checked(illegal_normal(i) \/ vstart # 0 \/ i.vd = i.vs2, CanRead(LMUL, {i.vd}),
              Put(i.vd, Width,
                  [k \in Active(i) |-> Bits(Cardinality({j \in counted : j < k}), Width)]))

VID_V(i) == Checked(illegal_normal(i), CanRead(LMUL, {i.vd}),
                    Put(i.vd, Width, [k \in Active(i) |-> Bits(k, Width)]))

(***************************************************************************)
(* riscv_insts_vext_red.sail.  The operands of a reduction are element 0   *)
(* of vs1 and then the active elements of vs2, in their order.             *)
(***************************************************************************)
Reduction(i, w) ==
  LET operands == InOrder(Active(i))
  IN  IF vl = 0 THEN Now
      ELSE Checked(FALSE, CanRead(LMUL, {i.vs2}),
                   Compute(i.vd, w, i.op,
                           [k \in {0} |-> <<Elem(i.vs1, w, 0)>>
                              \o [n \in DOMAIN operands |-> At(i.vs2, operands[n])]]))

\* get_num_elem asserts that a register holds an element of twice the width.
RIVVTYPE(i) == IF SEW + 1 > VlenPow THEN Abort
               ELSE Checked(illegal_reduction_widen(SEW + 1, LMUL + 1), TRUE,
                            Reduction(i, 2 * Width))
RMVVTYPE(i) == Checked(illegal_reduction, TRUE, Reduction(i, Width))
=============================================================================

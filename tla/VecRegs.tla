------------------------------ MODULE VecRegs -------------------------------
(***************************************************************************)
(* The vector registers and vector CSRs of riscv_vext_regs.sail, the       *)
(* checks and masks of riscv_insts_vext_utils.sail, and the instructions   *)
(* of riscv_insts_vext_vset.sail.  Widths and group sizes are powers of    *)
(* two, named as in the code by their exponents (sew 3 is SEW = 8).        *)
(*                                                                         *)
(* A value is a function from bit positions to {0, 1}.  The register file  *)
(* is one such function: element k of width 2^w of the group that starts   *)
(* at register r has its lowest bit at r * VLEN + k * 2^w, so a group of   *)
(* registers, a mask register and a change of SEW need no conversion.      *)
(***************************************************************************)
EXTENDS Integers, Sequences, FiniteSetsExt

CONSTANTS
  VlenPow,            \* get_vlen_pow
  ElenPow,            \* get_elen_pow
  Flen,               \* flen
  NumRegs,            \* 32 in the code
  PageBytes, Pages,   \* memory: Pages pages of PageBytes bytes, from address 0
  DoublePow, Slots,   \* 6 and 8: what the 32-bit build stages in vector_to_store
  Alu(_, _, _),       \* op, width, operands: the value of one element
  Saturates(_, _, _), \* op, width, operands: -1, or the value given to vxsat
  Raises(_, _, _)     \* op, width, operands: the floating-point exceptions

ASSUME WidthsAssumption ==
  /\ VlenPow \in Nat /\ VlenPow >= 6    \* a register holds an element of any width
  /\ ElenPow \in 3 .. VlenPow /\ DoublePow \in 5 .. ElenPow
  /\ NumRegs \in Nat \ {0} /\ Slots = 2^(VlenPow - DoublePow)
  /\ Pages \in Nat \ {0} /\ PageBytes \in Nat \ {0}

\* What the proofs use of powers of two: arithmetic, which the provers leave out.
ASSUME PowersAssumption == \A n \in 0 .. VlenPow + 10 : 2^(n + 1) = 2 * 2^n

VARIABLES
  xlen,     \* 32 or 64: which build runs
  v, mem,   \* the register file and the memory, bit by bit
  vl, vstart, vtype, vxsat, fflags,
  dirty,    \* mstatus.VS is Dirty
  double,   \* double_to_store, which the 32-bit build stores in place of a double
  x,        \* the last scalar result
  wants,    \* the page the last instruction faulted on, if it did
  how       \* how the last instruction ended

regs == <<v, mem, vl, vstart, vtype, vxsat, fflags, dirty, double, x, wants, how>>

VLEN  == 2^VlenPow
SEW   == vtype.sew
LMUL  == vtype.lmul
Width == 2^SEW
VLMAXof(type) == 2^(VlenPow + type.lmul - type.sew)
VLMAX == VLMAXof(vtype)

AtLeast0(n) == IF n < 0 THEN 0 ELSE n

\* A set of element numbers in the order in which the loops visit them.
InOrder(elements) ==
  SelectSeq([n \in 1 .. VLEN |-> n - 1], LAMBDA k : k \in elements)

\* X(rs)[w - 1 .. 0], sign-extended when the register is narrower than w.
Bits(n, w) ==
  [b \in 0 .. w - 1 |-> IF b < 30 THEN (n \div 2^b) % 2 ELSE IF n < 0 THEN 1 ELSE 0]

Number(value, w) ==
  LET low[n \in 0 .. w] ==
        IF n = 0 THEN 0
        ELSE low[n - 1] + IF n <= 30 /\ value[n - 1] = 1 THEN 2^(n - 1) ELSE 0
  IN  low[w]

\* The function f with the values of new where new has one.
Updated(f, new) == [b \in DOMAIN f |-> IF b \in DOMAIN new THEN new[b] ELSE f[b]]

(***************************************************************************)
(* Registers.                                                              *)
(***************************************************************************)
get_num_elem(lmul, sew) == 2^(AtLeast0(lmul) + VlenPow - sew)

\* Element k of width w bits of the group at register r; register numbers wrap.
Elem(r, w, k) == [b \in 0 .. w - 1 |-> v[(r * VLEN + k * w + b) % (NumRegs * VLEN)]]

At(r, k) == Elem(r, Width, k)
BitSet(r, k) == Elem(r, 1, k)[0] = 1

\* read_vreg: the group must exist and be aligned.
CanRead(lmul, rs) ==
  \A r \in rs : r + 2^AtLeast0(lmul) <= NumRegs /\ r % 2^AtLeast0(lmul) = 0

\* The register file after the elements k of vals are written at width w.
Written(vd, w, vals) ==
  [b \in DOMAIN v |->
     LET offset == b - vd * VLEN
         k      == offset \div w
     IN  IF offset >= 0 /\ k \in DOMAIN vals THEN vals[k][offset % w] ELSE v[b]]

NoDouble == [b \in 0 .. 2^DoublePow - 1 |-> 0]

\* vector_to_store as it is stored in a register: what was pushed, from slot 0
\* on; past the last slot a push overwrites it, and the others are zero.
fill_vector(pushed) ==
  [s \in 0 .. Slots - 1 |->
     CASE s = Slots - 1 /\ Len(pushed) >= Slots -> pushed[Len(pushed)]
       [] s < Slots - 1 /\ s < Len(pushed) -> pushed[s + 1]
       [] OTHER -> NoDouble]

(***************************************************************************)
(* Checks.                                                                 *)
(***************************************************************************)
valid_vtype == ~vtype.vill
valid_eew_emul(eew, emul) == eew \in 3 .. ElenPow /\ emul \in -3 .. 3
valid_rd_mask(i) == i.vm \/ i.vd # 0

valid_reg_overlap(rs, rd, emul_rs, emul_rd) ==
  LET rs_group == 2^AtLeast0(emul_rs)
      rd_group == 2^AtLeast0(emul_rd)
  IN  /\ emul_rs < emul_rd =>
           \/ rs + rs_group <= rd \/ rs >= rd + rd_group
           \/ rs + rs_group = rd + rd_group /\ emul_rs >= 0
      /\ emul_rs > emul_rd => rd <= rs \/ rd >= rs + rs_group

valid_segment(nf, emul) ==
  IF emul < 0 THEN nf \div 2^(-emul) <= 8 ELSE nf * 2^emul <= 8

illegal_normal(i) == ~valid_vtype \/ ~valid_rd_mask(i)
illegal_vd_masked(i) == ~valid_vtype \/ i.vd = 0
illegal_vd_unmasked == ~valid_vtype
illegal_variable_width(i, sew, lmul) == illegal_normal(i) \/ ~valid_eew_emul(sew, lmul)
illegal_reduction == ~valid_vtype \/ vstart # 0
illegal_reduction_widen(sew, lmul) == illegal_reduction \/ ~valid_eew_emul(sew, lmul)
illegal_store(nf, eew, emul) ==
  ~valid_vtype \/ ~valid_eew_emul(eew, emul) \/ ~valid_segment(nf, emul)
illegal_load(i, nf, eew, emul) == illegal_store(nf, eew, emul) \/ ~valid_rd_mask(i)
illegal_indexed_store(nf, eew, emul, emul_data) ==
  ~valid_vtype \/ ~valid_eew_emul(eew, emul) \/ ~valid_segment(nf, emul_data)
illegal_indexed_load(i, nf, eew, emul, emul_data) ==
  illegal_indexed_store(nf, eew, emul, emul_data) \/ ~valid_rd_mask(i)

(***************************************************************************)
(* Masks, as the set of the elements that are active.                      *)
(***************************************************************************)
read_vmask(n, vm, r) == {k \in 0 .. n - 1 : vm \/ BitSet(r, k)}

\* Mutant: the first tail element counts as a body element.
Body_Through(n, lmul) == {k \in 0 .. n - 1 : vstart <= k /\ k <= vl}

\* init_masked_result_carry: only prestart and tail elements are left out.
Body(n, lmul) ==
  LET real_num_elem == IF lmul >= 0 THEN n ELSE n \div 2^(-lmul)
  IN  {k \in 0 .. n - 1 : vstart <= k /\ k < vl /\ k < real_num_elem}

\* init_masked_result, _source and _cmp.
Masked(n, lmul, vm_val) == Body(n, lmul) \cap vm_val

NumElem == get_num_elem(LMUL, SEW)
Active(i) == Masked(NumElem, LMUL, read_vmask(NumElem, i.vm, 0))
ActiveWide(i) == Masked(NumElem, LMUL + 1, read_vmask(NumElem, i.vm, 0))

(***************************************************************************)
(* Outcomes: the state an instruction leaves and how it ended.             *)
(***************************************************************************)
Now == [v |-> v, mem |-> mem, vl |-> vl, vstart |-> vstart, vtype |-> vtype,
        vxsat |-> vxsat, fflags |-> fflags, dirty |-> dirty, double |-> double, x |-> x,
        wants |-> {}, how |-> "done",
        staged |-> <<>>]   \* vector_to_store, empty when an instruction starts

Illegal == [Now EXCEPT !.how = "illegal"]   \* handle_illegal, RETIRE_FAIL
Abort   == [Now EXCEPT !.how = "abort"]     \* an assertion of the model fails

\* get_start_element traps on a vstart that no group of this SEW reaches, and
\* the instruction goes on.
get_start_element == IF vstart > 2^(3 + VlenPow - SEW) - 1 THEN "illegal" ELSE "done"

\* The end of most instructions: vstart = zeros(); RETIRE_SUCCESS.
Retire == [Now EXCEPT !.vstart = 0, !.how = get_start_element]

Checked(illegal, readable, outcome) ==
  IF illegal THEN Illegal ELSE IF ~readable THEN Abort ELSE outcome

Put(vd, w, vals) == [Retire EXCEPT !.v = Written(vd, w, vals), !.dirty = TRUE]

\* Element k of the result is op of the operands args[k]; each element that
\* saturates overwrites vxsat, and exceptions accrue.
Compute(vd, w, op, args) ==
  LET vals == [k \in DOMAIN args |-> Alu(op, w, args[k])]
      sats == {k \in DOMAIN args : Saturates(op, w, args[k]) # -1}
  IN  [Put(vd, w, vals) EXCEPT
         !.vxsat  = IF sats = {} THEN @ ELSE Saturates(op, w, args[Max(sats)]),
         !.fflags = @ \cup UNION {Raises(op, w, args[k]) : k \in DOMAIN args}]

(***************************************************************************)
(* vsetvli, vsetvl, vsetivli, and csrw vstart.                             *)
(***************************************************************************)
Reserved(type) == type.sew > 6 \/ type.lmul < -3

handle_illegal_vtype ==
  [Now EXCEPT !.vtype = [vill |-> TRUE, vta |-> FALSE, sew |-> 3, lmul |-> 0], !.vl = 0]

calculate_new_vl(AVL, vlmax) ==
  IF AVL <= vlmax THEN AVL
  ELSE IF AVL < 2 * vlmax THEN (AVL + 1) \div 2 ELSE vlmax

\* get_sew_pow and get_lmul_pow assert that the fields are not reserved.
SetType(type, length, result) ==
  CASE Reserved(type) -> Abort
    [] ~Reserved(type) /\ type.sew > type.lmul + ElenPow -> handle_illegal_vtype
    [] OTHER -> [Now EXCEPT !.vtype = type, !.vl = length, !.x = result, !.vstart = 0]

\* Mutant: vl is kept whatever the new type is.
VSETVL_AnyRatio(i) ==
  LET stripmined == calculate_new_vl(i.avl, VLMAXof(i.type))
  IN  CASE i.rs1 # 0 -> SetType(i.type, stripmined, <<stripmined>>)
        [] i.rs1 = 0 /\ i.rd # 0 -> SetType(i.type, VLMAXof(i.type), <<VLMAXof(i.type)>>)
        [] OTHER -> SetType(i.type, vl, x)

\* vsetvl takes the whole vtype from a register, vsetvli clears vill in it.
VSETVL(i) ==
  LET stripmined == calculate_new_vl(i.avl, VLMAXof(i.type))
      whole      == VLMAXof(i.type)
  IN  CASE i.rs1 # 0 -> SetType(i.type, stripmined, <<stripmined>>)
        [] i.rs1 = 0 /\ i.rd # 0 -> SetType(i.type, whole, <<whole>>)
        [] OTHER -> IF ~Reserved(i.type) /\ i.type.sew - i.type.lmul # SEW - LMUL
                    THEN handle_illegal_vtype ELSE SetType(i.type, vl, x)

VSETIVLI(i) ==
  LET stripmined == calculate_new_vl(i.avl, VLMAXof(i.type))
  IN  SetType(i.type, stripmined, <<stripmined>>)

\* writeCSR of 0x008 keeps the bits an index can have.
WriteVstart(i) == [Now EXCEPT !.vstart = i.avl % VLEN]
=============================================================================

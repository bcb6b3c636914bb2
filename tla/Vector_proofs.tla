---------------------------- MODULE Vector_proofs ----------------------------
(***************************************************************************)
(* What is proved of the hart of module Vector on the system of module     *)
(* VecPaging: vl fits the register group, an instruction changes its body  *)
(* elements and nothing else, and a load or store that faults on the way   *)
(* has the effect of the one step of module VecAtomic.                     *)
(***************************************************************************)
EXTENDS VecPaging, VecAtomic, Arithmetic_proofs, TLAPS

(***************************************************************************)
(* Widths and positions.                                                   *)
(***************************************************************************)
LEMMA Powers == \A n \in 0 .. VlenPow + 11 : 2^n \in Nat \ {0}
<1>1. VlenPow + 10 \in Nat /\ (VlenPow + 10) + 1 = VlenPow + 11
  BY WidthsAssumption
<1>2. \A n \in 0 .. (VlenPow + 10) + 1 : 2^n \in Nat \ {0}
  BY ONLY <1>1, PowersAssumption, PowerPositive
<1> QED
  BY <1>1, <1>2

LEMMA PowersAdd ==
  ASSUME NEW j \in Nat, NEW k \in Nat, j + k =< VlenPow + 11
  PROVE  2^(j + k) = 2^j * 2^k
<1>1. VlenPow + 10 \in Nat /\ j + k =< (VlenPow + 10) + 1
  BY WidthsAssumption
<1> QED
  BY ONLY <1>1, PowersAssumption, PowerSum, j \in Nat, k \in Nat

\* What the state of the hart is always like.
Types == [vill : BOOLEAN, vta : BOOLEAN, sew : 3 .. 6, lmul : -3 .. 3]

HartOK ==
  /\ DOMAIN v = Positions
  /\ vtype \in Types /\ SEW =< LMUL + ElenPow
  /\ vl \in 0 .. VLMAX /\ vstart \in Nat

\* The exponents that occur are small.
LEMMA Sizes ==
  ASSUME HartOK
  PROVE  /\ SEW \in 3 .. 6 /\ LMUL \in -3 .. 3 /\ VlenPow \in Nat /\ SEW =< VlenPow
         /\ VLEN \in Nat \ {0} /\ Width \in Nat \ {0} /\ 2 * Width \in Nat \ {0}
         /\ NumRegs \in Nat \ {0} /\ vl \in Nat
<1>1. VlenPow \in 0 .. VlenPow + 11 /\ VlenPow \in Nat /\ VlenPow >= 6
  BY WidthsAssumption
<1>2. SEW \in 3 .. 6 /\ LMUL \in -3 .. 3
  BY DEF HartOK, Types, SEW, LMUL
<1>3. SEW \in 0 .. VlenPow + 11
  BY <1>1, <1>2
<1>4. 2^VlenPow \in Nat \ {0} /\ 2^SEW \in Nat \ {0}
  BY <1>1, <1>3, Powers
<1> QED
  BY <1>1, <1>2, <1>4, WidthsAssumption DEF VLEN, Width, HartOK

LEMMA VlmaxPositive ==
  ASSUME NEW type \in Types, type.sew =< type.lmul + ElenPow
  PROVE  VLMAXof(type) \in Nat \ {0}
<1>1. VlenPow + type.lmul - type.sew \in 0 .. VlenPow + 11
  BY WidthsAssumption DEF Types
<1> QED
  BY <1>1, Powers DEF VLMAXof

(***************************************************************************)
(* What an outcome may be: the instruction i, if it is not one that sets   *)
(* vtype or accesses memory, leaves vl, vtype and memory, and of the       *)
(* registers all but its body elements.                                    *)
(***************************************************************************)
Within(i, regs_after) ==
  Replaces(i) \/ \A b \in Positions : regs_after[b] # v[b] => b \in ChangeableBits(i)

Harmless(i, o) ==
  /\ o.vl = vl /\ o.vtype = vtype /\ o.mem = mem /\ o.vstart \in Nat
  /\ DOMAIN o.v = Positions /\ Within(i, o.v)

LEMMA HarmlessEnds ==
  ASSUME NEW i, HartOK
  PROVE  Harmless(i, Now) /\ Harmless(i, Illegal) /\ Harmless(i, Abort) /\ Harmless(i, Retire)
BY DEF Harmless, Within, HartOK, Now, Illegal, Abort, Retire, get_start_element

LEMMA HarmlessChecked ==
  ASSUME NEW i, HartOK, NEW illegal, NEW readable, NEW o,
         ~illegal /\ readable => Harmless(i, o)
  PROVE  Harmless(i, Checked(illegal, readable, o))
BY HarmlessEnds DEF Checked

\* What a write of elements changes.
LEMMA WrittenChanges ==
  ASSUME HartOK, NEW vd \in Nat, NEW w \in Nat \ {0}, NEW vals, NEW b \in Positions,
         Written(vd, w, vals)[b] # v[b]
  PROVE  \E k \in DOMAIN vals, c \in 0 .. w - 1 : k \in Nat /\ b = vd * VLEN + k * w + c
<1> DEFINE base == vd * VLEN
           offset == b - base
           k == offset \div w
           c == offset % w
<1>1. VLEN \in Nat /\ base \in Nat /\ b \in Nat
  BY Sizes DEF Positions
<1>2. offset >= 0 /\ k \in DOMAIN vals
  BY DEF Written, HartOK
<1>3. offset \in Nat
  BY <1>1, <1>2
<1> HIDE DEF offset
<1>4. k \in Nat /\ c \in 0 .. w - 1 /\ offset = w * k + c
  BY <1>3, Division
<1> HIDE DEF k, c, base
<1>5. b = base + k * w + c
  BY <1>1, <1>4 DEF offset
<1> QED
  BY <1>2, <1>4, <1>5 DEF base

LEMMA WrittenDomain == ASSUME HartOK, NEW vd, NEW w, NEW vals
                       PROVE  DOMAIN Written(vd, w, vals) = Positions
BY DEF Written, HartOK

LEMMA HarmlessPut ==
  ASSUME NEW i, HartOK, Encoded(i), NEW w, w = DestWidth(i), w \in Nat \ {0}, NEW vals,
         DOMAIN vals \subseteq Changeable(i)
  PROVE  Harmless(i, Put(i.vd, w, vals))
<1>1. ASSUME NEW b \in Positions, Written(i.vd, w, vals)[b] # v[b]
      PROVE  b \in ChangeableBits(i)
  <2>1. i.vd \in Nat /\ i.nf \in 1 .. 8
    BY WidthsAssumption DEF Encoded
  <2>2. PICK k \in DOMAIN vals, c \in 0 .. w - 1 : k \in Nat /\ b = i.vd * VLEN + k * w + c
    BY <1>1, <2>1, WrittenChanges
  <2> DEFINE emul == IF i.name \in OwnWidth THEN EMUL(i) ELSE LMUL
             nf == IF i.name \in WholeRegister THEN 1 ELSE i.nf
             g == Group(emul)
  <2>3. g \in Int
    <3>1. emul \in Int
      BY Sizes DEF EMUL, Encoded
    <3>2. AtLeast0(emul) \in Nat
      BY <3>1 DEF AtLeast0
    <3> QED
      BY <3>2 DEF Group
  <2>4. 0 \in 0 .. nf - 1
    BY <2>1
  <2> HIDE DEF emul, nf, g
  <2>5. b \in Nat /\ b < NumRegs * VLEN /\ NumRegs * VLEN \in Nat \ {0}
    BY Sizes DEF Positions
  <2>6. b % (NumRegs * VLEN) = b
    BY <2>5
  <2>7. (i.vd + 0 * g) * VLEN = i.vd * VLEN
    BY <2>1, <2>3
  <2>8. b = ((i.vd + 0 * g) * VLEN + k * DestWidth(i) + c) % (NumRegs * VLEN)
    BY <2>2, <2>6, <2>7
  <2> QED
    BY <2>2, <2>4, <2>8 DEF ChangeableBits, emul, nf, g
<1>2. DOMAIN Written(i.vd, w, vals) = Positions
  BY WrittenDomain
<1> QED
  BY <1>1, <1>2 DEF Harmless, Within, Put, Retire, Now, get_start_element

LEMMA HarmlessCompute ==
  ASSUME NEW i, HartOK, Encoded(i), NEW w, w = DestWidth(i), w \in Nat \ {0}, NEW op,
         NEW args, DOMAIN args \subseteq Changeable(i)
  PROVE  Harmless(i, Compute(i.vd, w, op, args))
<1> DEFINE vals == [k \in DOMAIN args |-> Alu(op, w, args[k])]
           o == Compute(i.vd, w, op, args)
           p == Put(i.vd, w, vals)
<1>1. DOMAIN vals = DOMAIN args
  OBVIOUS
<1>2. Harmless(i, p)
  BY <1>1, HarmlessPut
<1>3. /\ o.vl = p.vl /\ o.vtype = p.vtype /\ o.mem = p.mem /\ o.vstart = p.vstart
      /\ o.v = p.v /\ o.how = p.how
  BY DEF Compute, Put, Retire, Now
<1> QED
  BY <1>2, <1>3 DEF Harmless

-----------------------------------------------------------------------------
(* The shapes the clauses share.                                           *)

\* The elements that the specification of the extension calls active.
Selects(i) == {k \in vstart .. vl - 1 : i.vm \/ BitSet(0, k)}

LEMMA ActiveSelects ==
  ASSUME NEW i, HartOK
  PROVE  /\ Active(i) \subseteq Selects(i) /\ ActiveWide(i) \subseteq Selects(i)
         /\ \A n, lmul : Body(n, lmul) \subseteq vstart .. vl - 1
         /\ ActiveBits(i) \subseteq Selects(i)
BY DEF Active, ActiveWide, ActiveBits, Masked, Body, read_vmask, Selects, HartOK

\* The instruction i writes the elements of its body that the mask selects, at
\* the width of vtype, at twice that width, or as bits of a mask.
Single(i) == DestWidth(i) = Width /\ Selects(i) \subseteq Changeable(i)
Double(i) == DestWidth(i) = 2 * Width /\ Selects(i) \subseteq Changeable(i)
MaskBit(i) == DestWidth(i) = 1 /\ Selects(i) \subseteq Changeable(i)
WholeBody(i) == vstart .. vl - 1 \subseteq Changeable(i)

LEMMA HarmlessActive ==
  ASSUME NEW i, HartOK, Encoded(i), Single(i), NEW illegal, NEW readable, NEW args,
         DOMAIN args = Active(i)
  PROVE  Harmless(i, Checked(illegal, readable, Compute(i.vd, Width, i.op, args)))
<1>1. DOMAIN args \subseteq Changeable(i)
  BY ActiveSelects DEF Single
<1>2. Harmless(i, Compute(i.vd, Width, i.op, args))
  BY <1>1, HarmlessCompute, Sizes DEF Single
<1> QED
  BY <1>2, HarmlessChecked

LEMMA HarmlessActiveWide ==
  ASSUME NEW i, HartOK, Encoded(i), Double(i), NEW illegal, NEW readable, NEW args,
         DOMAIN args = ActiveWide(i)
  PROVE  Harmless(i, Checked(illegal, readable, Compute(i.vd, 2 * Width, i.op, args)))
<1>1. DOMAIN args \subseteq Changeable(i)
  BY ActiveSelects DEF Double
<1>2. Harmless(i, Compute(i.vd, 2 * Width, i.op, args))
  BY <1>1, HarmlessCompute, Sizes DEF Double
<1> QED
  BY <1>2, HarmlessChecked

LEMMA HarmlessElements ==
  ASSUME NEW i, HartOK, Encoded(i), Single(i), NEW vals, DOMAIN vals \subseteq Changeable(i)
  PROVE  Harmless(i, Put(i.vd, Width, vals))
BY HarmlessPut, Sizes DEF Single

LEMMA HarmlessElementwise ==
  ASSUME NEW i, HartOK, Encoded(i), Single(i)
  PROVE  /\ Harmless(i, MVVTYPE(i)) /\ Harmless(i, MVVMATYPE(i))
         /\ Harmless(i, VXTYPE(i)) /\ Harmless(i, MVXMATYPE(i)) /\ Harmless(i, Unary(i))
<1>1. Harmless(i, MVVTYPE(i))
  BY HarmlessActive DEF MVVTYPE, Elementwise
<1>2. Harmless(i, MVVMATYPE(i))
  BY HarmlessActive DEF MVVMATYPE, Elementwise
<1>3. Harmless(i, VXTYPE(i))
  BY HarmlessActive DEF VXTYPE, Elementwise
<1>4. Harmless(i, MVXMATYPE(i))
  BY HarmlessActive DEF MVXMATYPE, Elementwise
<1>5. Harmless(i, Unary(i))
  BY HarmlessActive DEF Unary, Elementwise
<1> QED
  BY <1>1, <1>2, <1>3, <1>4, <1>5

LEMMA HarmlessNarrowing ==
  ASSUME NEW i, HartOK, Encoded(i), Single(i)
  PROVE  /\ Harmless(i, NVSTYPE(i)) /\ Harmless(i, NVTYPE(i)) /\ Harmless(i, NXSTYPE(i))
         /\ Harmless(i, NXTYPE(i)) /\ Harmless(i, NISTYPE(i)) /\ Harmless(i, NITYPE(i))
         /\ Harmless(i, VEXT2TYPE(i)) /\ Harmless(i, VEXT4TYPE(i)) /\ Harmless(i, VEXT8TYPE(i))
         /\ Harmless(i, VFNUNARY0(i))
<1>1. Harmless(i, NVSTYPE(i)) /\ Harmless(i, NVTYPE(i))
  BY HarmlessActive DEF NVSTYPE, NVTYPE, Narrowing
<1>2. Harmless(i, NXSTYPE(i))
  BY HarmlessActive DEF NXSTYPE, Narrowing
<1>3. Harmless(i, NXTYPE(i))
  BY HarmlessActive DEF NXTYPE, Narrowing
<1>4. Harmless(i, NISTYPE(i))
  BY HarmlessActive DEF NISTYPE, Narrowing
<1>5. Harmless(i, NITYPE(i))
  BY HarmlessActive DEF NITYPE, Narrowing
<1>6. \A j : Harmless(i, Extend(i, j))
  BY HarmlessActive DEF Extend
<1>7. Harmless(i, VFNUNARY0(i))
  BY HarmlessActive, HarmlessEnds DEF VFNUNARY0, Narrowing, Fp
<1> QED
  BY <1>1, <1>2, <1>3, <1>4, <1>5, <1>6, <1>7 DEF VEXT2TYPE, VEXT4TYPE, VEXT8TYPE

LEMMA HarmlessWidening ==
  ASSUME NEW i, HartOK, Encoded(i), Double(i)
  PROVE  /\ Harmless(i, WVVTYPE(i)) /\ Harmless(i, WVTYPE(i)) /\ Harmless(i, WMVVTYPE(i))
         /\ Harmless(i, WVXTYPE(i)) /\ Harmless(i, WXTYPE(i)) /\ Harmless(i, WMVXTYPE(i))
         /\ Harmless(i, VFWUNARY0(i))
<1>1. Harmless(i, WVVTYPE(i))
  BY HarmlessActiveWide DEF WVVTYPE, Widening
<1>2. Harmless(i, WVTYPE(i))
  BY HarmlessActiveWide DEF WVTYPE, Widening
<1>3. Harmless(i, WMVVTYPE(i))
  BY HarmlessActiveWide DEF WMVVTYPE, Widening
<1>4. Harmless(i, WVXTYPE(i))
  BY HarmlessActiveWide DEF WVXTYPE, Widening
<1>5. Harmless(i, WXTYPE(i))
  BY HarmlessActiveWide DEF WXTYPE, Widening
<1>6. Harmless(i, WMVXTYPE(i))
  BY HarmlessActiveWide DEF WMVXTYPE, Widening
<1>7. Harmless(i, VFWUNARY0(i))
  BY HarmlessActiveWide, HarmlessEnds DEF VFWUNARY0, Widening, Fp
<1> QED
  BY <1>1, <1>2, <1>3, <1>4, <1>5, <1>6, <1>7

LEMMA HarmlessPermute ==
  ASSUME NEW i, HartOK, Encoded(i), Single(i), NEW illegal, NEW readable, NEW clash,
         NEW indexed, NEW vals, DOMAIN vals = Active(i)
  PROVE  Harmless(i, Checked(illegal, readable,
                             Checked(clash, indexed, Put(i.vd, Width, vals))))
<1>1. Harmless(i, Put(i.vd, Width, vals))
  BY ActiveSelects, HarmlessElements DEF Single
<1> QED
  BY <1>1, HarmlessChecked

LEMMA HarmlessGathers ==
  ASSUME NEW i, HartOK, Encoded(i), Single(i)
  PROVE  /\ Harmless(i, VVTYPE(i)) /\ Harmless(i, MVXTYPE(i))
         /\ i.name \in {"VXSG", "VISG"} => Harmless(i, VXSG(i)) /\ Harmless(i, VISG(i))
<1>1. Harmless(i, VVTYPE(i))
  <2>1. CASE i.op = "VV_VRGATHER"
    BY <2>1, HarmlessPermute DEF VVTYPE, Permute
  <2>2. CASE i.op = "VV_VRGATHEREI16"
    BY <2>2, HarmlessPermute DEF VVTYPE, Permute
  <2>3. CASE i.op \notin {"VV_VRGATHER", "VV_VRGATHEREI16"}
    BY <2>3, HarmlessActive DEF VVTYPE, Elementwise
  <2> QED
    BY <2>1, <2>2, <2>3
<1>2. i.op \in {"SLIDEUP", "SLIDEDOWN", "RGATHER"} => Harmless(i, Slide(i))
  <2>1. CASE i.op = "SLIDEUP"
    BY <2>1, HarmlessPermute DEF Slide, Permute
  <2>2. CASE i.op = "SLIDEDOWN"
    BY <2>2, HarmlessPermute DEF Slide, Permute
  <2>3. CASE i.op = "RGATHER"
    BY <2>3, HarmlessPermute DEF Slide, Permute
  <2> QED
    BY <2>1, <2>2, <2>3
<1>3. Harmless(i, MVXTYPE(i))
  <2>1. CASE i.op = "MVX_VSLIDE1UP"
    BY <2>1, HarmlessPermute DEF MVXTYPE, Permute
  <2>2. CASE i.op = "MVX_VSLIDE1DOWN"
    BY <2>2, HarmlessPermute DEF MVXTYPE, Permute
  <2>3. CASE i.op \notin {"MVX_VSLIDE1UP", "MVX_VSLIDE1DOWN"}
    BY <2>3, HarmlessElementwise DEF MVXTYPE
  <2> QED
    BY <2>1, <2>2, <2>3
<1>4. i.name \in {"VXSG", "VISG"} => i.op \in {"SLIDEUP", "SLIDEDOWN", "RGATHER"}
  BY DEF Encoded
<1> QED
  BY <1>1, <1>2, <1>3, <1>4 DEF VXSG, VISG

LEMMA HarmlessMoves ==
  ASSUME NEW i, HartOK, Encoded(i), Single(i), WholeBody(i)
  PROVE  /\ Harmless(i, MASKTYPEV(i)) /\ Harmless(i, MASKTYPEX(i)) /\ Harmless(i, MASKTYPEI(i))
         /\ Harmless(i, MOVETYPEV(i)) /\ Harmless(i, MOVETYPEX(i)) /\ Harmless(i, MOVETYPEI(i))
<1>1. ASSUME NEW n, NEW vals, DOMAIN vals = {k \in 0 .. n : vstart <= k /\ k < vl}
      PROVE  Harmless(i, Put(i.vd, Width, vals))
  <2>1. DOMAIN vals \subseteq vstart .. vl - 1
    BY <1>1 DEF HartOK
  <2> QED
    BY <2>1, HarmlessElements DEF WholeBody
<1>2. Harmless(i, MASKTYPEV(i))
  BY <1>1, HarmlessChecked DEF MASKTYPEV, Merge
<1>3. Harmless(i, MASKTYPEX(i))
  BY <1>1, HarmlessChecked DEF MASKTYPEX, Merge
<1>4. Harmless(i, MASKTYPEI(i))
  BY <1>1, HarmlessChecked DEF MASKTYPEI, Merge
<1>5. ASSUME NEW vals, DOMAIN vals = Body(NumElem, LMUL)
      PROVE  Harmless(i, Put(i.vd, Width, vals))
  BY <1>5, ActiveSelects, HarmlessElements DEF WholeBody
<1>6. Harmless(i, MOVETYPEV(i))
  BY <1>5, HarmlessChecked DEF MOVETYPEV, Move
<1>7. Harmless(i, MOVETYPEX(i))
  BY <1>5, HarmlessChecked DEF MOVETYPEX, Move
<1>8. Harmless(i, MOVETYPEI(i))
  BY <1>5, HarmlessChecked DEF MOVETYPEI, Move
<1> QED
  BY <1>2, <1>3, <1>4, <1>6, <1>7, <1>8

LEMMA HarmlessCarries ==
  ASSUME NEW i, HartOK, Encoded(i), Single(i), WholeBody(i)
  PROVE  Harmless(i, VVMSTYPE(i)) /\ Harmless(i, VXMSTYPE(i)) /\ Harmless(i, VIMSTYPE(i))
<1>1. ASSUME NEW args, DOMAIN args = Body(NumElem, LMUL)
      PROVE  Harmless(i, Compute(i.vd, Width, i.op, args))
  <2>1. DOMAIN args \subseteq Changeable(i)
    BY <1>1, ActiveSelects DEF WholeBody
  <2> QED
    BY <2>1, HarmlessCompute, Sizes DEF Single
<1>2. Harmless(i, VVMSTYPE(i))
  BY <1>1, HarmlessChecked DEF VVMSTYPE, Carried
<1>3. Harmless(i, VXMSTYPE(i))
  BY <1>1, HarmlessChecked DEF VXMSTYPE, Carried
<1> QED
  BY <1>2, <1>3 DEF VIMSTYPE

LEMMA HarmlessMasks ==
  ASSUME NEW i, HartOK, Encoded(i), MaskBit(i)
  PROVE  /\ Harmless(i, VVCMPTYPE(i)) /\ Harmless(i, VXCMPTYPE(i))
         /\ Harmless(i, VICMPTYPE(i))
         /\ Harmless(i, VMSBF_M(i)) /\ Harmless(i, VMSIF_M(i)) /\ Harmless(i, VMSOF_M(i))
         /\ WholeBody(i) =>
              /\ Harmless(i, VVMTYPE(i)) /\ Harmless(i, VVMCTYPE(i))
              /\ Harmless(i, VXMTYPE(i)) /\ Harmless(i, VXMCTYPE(i))
              /\ Harmless(i, VIMTYPE(i)) /\ Harmless(i, VIMCTYPE(i)) /\ Harmless(i, MMTYPE(i))
<1>1. ASSUME NEW args, DOMAIN args \subseteq Changeable(i)
      PROVE  Harmless(i, Compute(i.vd, 1, i.op, args))
  BY <1>1, HarmlessCompute DEF MaskBit
<1>2. ASSUME NEW args, DOMAIN args = Active(i)
      PROVE  Harmless(i, Compute(i.vd, 1, i.op, args))
  BY <1>1, <1>2, ActiveSelects DEF MaskBit
<1>3. Harmless(i, VVCMPTYPE(i))
  BY <1>2, HarmlessChecked DEF VVCMPTYPE, ToMask
<1>4. Harmless(i, VXCMPTYPE(i))
  BY <1>2, HarmlessChecked DEF VXCMPTYPE, ToMask
<1>5. ASSUME NEW vals, DOMAIN vals = ActiveBits(i) PROVE Harmless(i, Put(i.vd, 1, vals))
  <2>1. DOMAIN vals \subseteq Changeable(i)
    BY <1>5, ActiveSelects DEF MaskBit
  <2> QED
    BY <2>1, HarmlessPut DEF MaskBit
<1>6. Harmless(i, VMSBF_M(i))
  BY <1>5, HarmlessChecked DEF VMSBF_M, SetBits
<1>7. Harmless(i, VMSIF_M(i))
  BY <1>5, HarmlessChecked DEF VMSIF_M, SetBits
<1>8. Harmless(i, VMSOF_M(i))
  BY <1>5, HarmlessChecked DEF VMSOF_M, SetBits
<1>9. ASSUME WholeBody(i)
      PROVE  /\ Harmless(i, VVMTYPE(i)) /\ Harmless(i, VVMCTYPE(i))
             /\ Harmless(i, VXMTYPE(i)) /\ Harmless(i, VXMCTYPE(i)) /\ Harmless(i, MMTYPE(i))
  <2>1. ASSUME NEW n, NEW lmul, NEW args, DOMAIN args = Body(n, lmul)
        PROVE  Harmless(i, Compute(i.vd, 1, i.op, args))
    BY <1>1, <1>9, <2>1, ActiveSelects DEF WholeBody
  <2>2. Harmless(i, VVMTYPE(i))
    BY <2>1, HarmlessChecked DEF VVMTYPE, ToMask
  <2>3. Harmless(i, VVMCTYPE(i))
    BY <2>1, HarmlessChecked DEF VVMCTYPE, ToMask
  <2>4. Harmless(i, VXMTYPE(i))
    BY <2>1, HarmlessChecked DEF VXMTYPE, ToMask
  <2>5. Harmless(i, VXMCTYPE(i))
    BY <2>1, HarmlessChecked DEF VXMCTYPE, ToMask
  <2>6. Harmless(i, MMTYPE(i))
    BY <2>1, HarmlessChecked DEF MMTYPE
  <2> QED
    BY <2>2, <2>3, <2>4, <2>5, <2>6
<1> QED
  BY <1>3, <1>4, <1>6, <1>7, <1>8, <1>9 DEF VIMTYPE, VIMCTYPE, VICMPTYPE

LEMMA HarmlessCounts ==
  ASSUME NEW i, HartOK, Encoded(i)
  PROVE  /\ Harmless(i, VCPOP_M(i)) /\ Harmless(i, VFIRST_M(i))
         /\ Harmless(i, VMVXS(i)) /\ Harmless(i, VFMVFS(i))
         /\ Single(i) => Harmless(i, VIOTA_M(i)) /\ Harmless(i, VID_V(i))
<1>1. \A r : Harmless(i, [Retire EXCEPT !.x = r])
             /\ Harmless(i, [Now EXCEPT !.x = r, !.vstart = 0])
  BY DEF Harmless, Within, HartOK, Now, Retire, get_start_element
<1>2. Harmless(i, VCPOP_M(i)) /\ Harmless(i, VFIRST_M(i))
  BY <1>1, HarmlessChecked DEF VCPOP_M, VFIRST_M
<1>3. Harmless(i, VMVXS(i)) /\ Harmless(i, VFMVFS(i))
  BY <1>1, HarmlessChecked, HarmlessEnds DEF VMVXS, VFMVFS, Fp
<1>4. ASSUME Single(i), NEW vals, DOMAIN vals = Active(i) PROVE Harmless(i, Put(i.vd, Width, vals))
  BY <1>4, ActiveSelects, HarmlessElements DEF Single
<1>5. ASSUME Single(i) PROVE Harmless(i, VIOTA_M(i)) /\ Harmless(i, VID_V(i))
  BY <1>4, <1>5, HarmlessChecked DEF VIOTA_M, VID_V
<1> QED
  BY <1>2, <1>3, <1>5

\* Instructions whose result is one element.
LEMMA HarmlessElementZero ==
  ASSUME NEW i, HartOK, Encoded(i), Changeable(i) = {0}
  PROVE  /\ DestWidth(i) = Width => Harmless(i, VMVSX(i)) /\ Harmless(i, RMVVTYPE(i))
         /\ DestWidth(i) = 2 * Width => Harmless(i, RIVVTYPE(i))
<1>1. ASSUME DestWidth(i) = Width PROVE Harmless(i, VMVSX(i))
  <2>1. ASSUME NEW vals, DOMAIN vals \subseteq {0} PROVE Harmless(i, Put(i.vd, Width, vals))
    BY <1>1, <2>1, HarmlessPut, Sizes
  <2> QED
    BY <2>1, HarmlessChecked DEF VMVSX
<1>2. ASSUME NEW w, w = DestWidth(i), w \in Nat \ {0} PROVE Harmless(i, Reduction(i, w))
  <2>1. ASSUME NEW args, DOMAIN args = {0} PROVE Harmless(i, Compute(i.vd, w, i.op, args))
    BY <1>2, <2>1, HarmlessCompute
  <2> QED
    BY <2>1, HarmlessChecked, HarmlessEnds DEF Reduction
<1>3. ASSUME DestWidth(i) = Width PROVE Harmless(i, RMVVTYPE(i))
  BY <1>2, <1>3, Sizes, HarmlessChecked DEF RMVVTYPE
<1>4. ASSUME DestWidth(i) = 2 * Width PROVE Harmless(i, RIVVTYPE(i))
  BY <1>2, <1>4, Sizes, HarmlessChecked, HarmlessEnds DEF RIVVTYPE
<1> QED
  BY <1>1, <1>3, <1>4

\* The elements that are packed are no more than vl.
LEMMA HarmlessCompress ==
  ASSUME NEW i, HartOK, Encoded(i), Single(i), Changeable(i) = 0 .. vl - 1
  PROVE  Harmless(i, MVVCOMPRESS(i))
<1> DEFINE selected == {k \in 0 .. NumElem - 1 : k < vl /\ BitSet(i.vs1, k)}
<1>1. Cardinality(selected) \in Nat /\ Cardinality(selected) =< vl
  <2>1. selected \subseteq 0 .. vl - 1 /\ vl \in Nat
    BY Sizes
  <2>2. IsFiniteSet(0 .. vl - 1) /\ Cardinality(0 .. vl - 1) = vl
    BY <2>1, FS_Interval
  <2> QED
    BY <2>1, <2>2, FS_Subset, FS_CardinalityType
<1>2. ASSUME NEW vals, DOMAIN vals = 0 .. Cardinality(selected) - 1
      PROVE  Harmless(i, Put(i.vd, Width, vals))
  <2> HIDE DEF selected
  <2>1. DOMAIN vals \subseteq Changeable(i)
    BY <1>1, <1>2, Sizes
  <2> QED
    BY <2>1, HarmlessElements
<1> QED
  BY <1>2, HarmlessChecked DEF MVVCOMPRESS

\* A group of 2^emul registers holds (x + 1) registers of elements.
LEMMA WholeElements ==
  ASSUME HartOK, NEW emul \in 0 .. 3
  PROVE  get_num_elem(emul, SEW) = 2^emul * (VLEN \div Width)
<1> DEFINE rest == VlenPow - SEW
<1>1. SEW \in 0 .. 6 /\ rest \in Nat /\ SEW + rest = VlenPow /\ VlenPow \in Nat
      /\ rest = VlenPow - SEW
  BY Sizes
<1> HIDE DEF rest
<1>2. /\ 2^VlenPow = 2^SEW * 2^rest /\ 2^(emul + rest) = 2^emul * 2^rest
      /\ 2^SEW \in Nat \ {0} /\ 2^rest \in Nat /\ 2^VlenPow \in Nat
  <2>1. rest \in 0 .. VlenPow + 11 /\ SEW \in 0 .. VlenPow + 11 /\ emul \in Nat
        /\ SEW + rest =< VlenPow + 11 /\ emul + rest =< VlenPow + 11
        /\ VlenPow \in 0 .. VlenPow + 11
    BY <1>1
  <2>2. 2^(SEW + rest) = 2^SEW * 2^rest /\ 2^(emul + rest) = 2^emul * 2^rest
    BY <1>1, <2>1, PowersAdd
  <2> QED
    BY <1>1, <2>1, <2>2, Powers
<1>3. 2^VlenPow \div 2^SEW = 2^rest
  <2>1. 2^VlenPow = 2^SEW * 2^rest + 0 /\ 0 \in 0 .. 2^SEW - 1
    BY <1>2
  <2> QED
    BY <1>2, <2>1, DivisionUnique
<1>4. get_num_elem(emul, SEW) = 2^(emul + rest)
  <2>1. AtLeast0(emul) + VlenPow - SEW = emul + rest
    BY <1>1 DEF AtLeast0
  <2> QED
    BY <2>1 DEF get_num_elem
<1> QED
  BY <1>2, <1>3, <1>4 DEF VLEN, Width

LEMMA HarmlessWholeMove ==
  ASSUME NEW i, HartOK, Encoded(i), i.name = "VMVRTYPE"
  PROVE  Harmless(i, VMVRTYPE(i))
<1>1. CASE i.x + 1 \notin {1, 2, 4, 8}
  BY <1>1, HarmlessEnds DEF VMVRTYPE
<1>2. CASE i.x + 1 \in {1, 2, 4, 8}
  <2> DEFINE emul == CHOOSE e \in 0 .. 3 : 2^e = i.x + 1
  <2>1. emul \in 0 .. 3 /\ 2^emul = i.x + 1
    <3>1. \E e \in 0 .. 3 : 2^e = i.x + 1
      <4>1. 2^0 = 1 /\ 2^1 = 2 /\ 2^2 = 4 /\ 2^3 = 8
        OBVIOUS
      <4> QED
        BY <1>2, <4>1
    <3> QED
      BY <3>1
  <2> HIDE DEF emul
  <2>2. DestWidth(i) = Width
    BY DEF DestWidth, WidensResult, MakesMask, OwnWidth
  <2>3. Changeable(i) = vstart .. (i.x + 1) * (VLEN \div Width) - 1
    BY DEF Changeable, ElementZero
  <2>4. ASSUME NEW vals, DOMAIN vals = vstart .. get_num_elem(emul, SEW) - 1
        PROVE  Harmless(i, Put(i.vd, Width, vals))
    <3>1. DOMAIN vals \subseteq Changeable(i)
      BY <2>1, <2>3, <2>4, WholeElements
    <3> QED
      BY <2>2, <3>1, HarmlessPut, Sizes
  <2>5. VMVRTYPE(i) = IF ~CanRead(emul, {i.vd, i.vs2}) THEN Abort
                      ELSE Put(i.vd, Width, [k \in vstart .. get_num_elem(emul, SEW) - 1 |->
                                               At(i.vs2, k)])
    BY <1>2 DEF VMVRTYPE, emul
  <2> QED
    BY <2>4, <2>5, HarmlessEnds
<1> QED
  BY <1>1, <1>2

-----------------------------------------------------------------------------
(* The clauses, by the file they are in.                                   *)

LEMMA HarmlessArithmetic ==
  ASSUME NEW i, HartOK, Encoded(i), i.file = "int"
  PROVE  Harmless(i, Arithmetic(i))
<1>0. i.name \in Clauses.int
  BY DEF Encoded, Clauses
<1> USE DEF Single, Double, WholeBody, DestWidth, Changeable, Selects, WidensResult,
            MakesMask, OwnWidth, ElementZero, UsesMaskAsData
<1>1. CASE i.name \in {"NVSTYPE", "NVTYPE", "NXSTYPE", "NXTYPE", "NISTYPE", "NITYPE",
                       "VEXT2TYPE", "VEXT4TYPE", "VEXT8TYPE"}
  <2>1. Single(i)
    BY <1>1
  <2> QED
    BY <1>1, <2>1, HarmlessNarrowing DEF Arithmetic
<1>2. CASE i.name \in {"VXTYPE", "VITYPE", "MVVTYPE", "MVVMATYPE", "MVXMATYPE"}
  <2>1. Single(i)
    BY <1>2
  <2> QED
    BY <1>2, <2>1, HarmlessElementwise DEF Arithmetic, VITYPE
<1>3. CASE i.name \in {"VVTYPE", "VXSG", "VISG", "MVXTYPE"}
  <2>1. Single(i)
    BY <1>3
  <2> QED
    BY <1>3, <2>1, HarmlessGathers DEF Arithmetic
<1>4. CASE i.name \in {"MASKTYPEV", "MASKTYPEX", "MASKTYPEI", "MOVETYPEV", "MOVETYPEX",
                       "MOVETYPEI"}
  <2>1. Single(i) /\ WholeBody(i)
    BY <1>4 DEF Encoded
  <2> QED
    BY <1>4, <2>1, HarmlessMoves DEF Arithmetic
<1>5. CASE i.name \in {"WVVTYPE", "WVTYPE", "WMVVTYPE", "WVXTYPE", "WXTYPE", "WMVXTYPE"}
  <2>1. Double(i)
    BY <1>5
  <2> QED
    BY <1>5, <2>1, HarmlessWidening DEF Arithmetic
<1>6. CASE i.name \in {"VMVSX", "RMVVTYPE"}
  <2>1. Changeable(i) = {0} /\ DestWidth(i) = Width
    BY <1>6
  <2> QED
    BY <1>6, <2>1, HarmlessElementZero DEF Arithmetic
<1>7. CASE i.name = "RIVVTYPE"
  <2>1. Changeable(i) = {0} /\ DestWidth(i) = 2 * Width
    BY <1>7
  <2> QED
    BY <1>7, <2>1, HarmlessElementZero DEF Arithmetic
<1>8. CASE i.name = "MVVCOMPRESS"
  <2>1. Changeable(i) = 0 .. vl - 1 /\ Single(i)
    <3>1. Changeable(i) = 0 .. vl - 1 /\ DestWidth(i) = Width
      BY <1>8
    <3>2. Selects(i) \subseteq 0 .. vl - 1
      BY DEF HartOK
    <3> QED
      BY <3>1, <3>2
  <2> QED
    BY <1>8, <2>1, HarmlessCompress DEF Arithmetic
<1>9. CASE i.name \in {"VMVXS", "VMVRTYPE"}
  BY <1>9, HarmlessCounts, HarmlessWholeMove DEF Arithmetic
<1> QED
  BY <1>0, <1>1, <1>2, <1>3, <1>4, <1>5, <1>6, <1>7, <1>8, <1>9 DEF Clauses

LEMMA HarmlessMaskOperation ==
  ASSUME NEW i, HartOK, Encoded(i), i.file = "mask"
  PROVE  Harmless(i, MaskOperation(i))
<1>0. i.name \in Clauses.mask
  BY DEF Encoded, Clauses
<1> USE DEF Single, MaskBit, WholeBody, DestWidth, Changeable, Selects, WidensResult,
            MakesMask, OwnWidth, ElementZero, UsesMaskAsData
<1>1. CASE i.name \in {"VVMTYPE", "VVMCTYPE", "VXMTYPE", "VXMCTYPE", "VIMTYPE", "VIMCTYPE",
                       "MMTYPE"}
  <2>1. MaskBit(i) /\ WholeBody(i)
    BY <1>1 DEF Encoded
  <2> QED
    BY <1>1, <2>1, HarmlessMasks DEF MaskOperation
<1>2. CASE i.name \in {"VVMSTYPE", "VXMSTYPE", "VIMSTYPE"}
  <2>1. Single(i) /\ WholeBody(i)
    BY <1>2
  <2> QED
    BY <1>2, <2>1, HarmlessCarries DEF MaskOperation
<1>3. CASE i.name \in {"VVCMPTYPE", "VXCMPTYPE", "VICMPTYPE", "VMSBF_M", "VMSIF_M", "VMSOF_M"}
  <2>1. MaskBit(i)
    BY <1>3
  <2> QED
    BY <1>3, <2>1, HarmlessMasks DEF MaskOperation
<1>4. CASE i.name \in {"VCPOP_M", "VFIRST_M"}
  BY <1>4, HarmlessCounts DEF MaskOperation
<1>5. CASE i.name \in {"VIOTA_M", "VID_V"}
  <2>1. Single(i)
    BY <1>5
  <2> QED
    BY <1>5, <2>1, HarmlessCounts DEF MaskOperation
<1> QED
  BY <1>0, <1>1, <1>2, <1>3, <1>4, <1>5 DEF Clauses

LEMMA HarmlessFp ==
  ASSUME NEW i, HartOK, NEW o, Harmless(i, o)
  PROVE  /\ Harmless(i, Fp(i, o))
         /\ \A illegal : Harmless(i, FpScalar(i, illegal, o))
BY HarmlessEnds DEF Fp, FpScalar

\* Both builds have these clauses.
LEMMA HarmlessCommon ==
  ASSUME NEW i, HartOK, Encoded(i), i.file = "fp"
  PROVE  /\ i.name = "FVVTYPE" => Harmless(i, FVVTYPE(i))
         /\ i.name = "FVVMATYPE" => Harmless(i, FVVMATYPE(i))
         /\ i.name = "FWVVTYPE" => Harmless(i, FWVVTYPE(i))
         /\ i.name = "FWVVMATYPE" => Harmless(i, FWVVMATYPE(i))
         /\ i.name = "FWVTYPE" => Harmless(i, FWVTYPE(i))
         /\ i.name = "VFUNARY0" => Harmless(i, VFUNARY0(i))
         /\ i.name = "VFWUNARY0" => Harmless(i, VFWUNARY0(i))
         /\ i.name = "VFNUNARY0" => Harmless(i, VFNUNARY0(i))
         /\ i.name = "VFUNARY1" => Harmless(i, VFUNARY1(i))
         /\ i.name = "VFMVFS" => Harmless(i, VFMVFS(i))
         /\ i.name = "FVFTYPE" => Harmless(i, FVFTYPE(i))
         /\ i.name = "FVFMATYPE" => Harmless(i, FVFMATYPE(i))
         /\ i.name = "FWVFTYPE" => Harmless(i, FWVFTYPE(i))
         /\ i.name = "FWVFMATYPE" => Harmless(i, FWVFMATYPE(i))
         /\ i.name = "FWFTYPE" => Harmless(i, FWFTYPE(i))
         /\ i.name = "VFMERGE" => Harmless(i, VFMERGE(i))
         /\ i.name = "VFMV" => Harmless(i, VFMV(i))
         /\ i.name = "VFMVSF" => Harmless(i, VFMVSF(i))
         /\ i.name = "FVVMTYPE" => Harmless(i, FVVMTYPE(i))
         /\ i.name = "FVFMTYPE" => Harmless(i, FVFMTYPE(i))
         /\ i.name = "RFVVTYPE" => Harmless(i, RFVVTYPE(i))
<1> USE DEF Single, Double, MaskBit, WholeBody, DestWidth, Changeable, Selects,
            WidensResult, MakesMask, OwnWidth, ElementZero, UsesMaskAsData
<1>1. CASE i.name \in {"FVVTYPE", "FVVMATYPE", "VFUNARY0", "VFUNARY1", "FVFMATYPE", "FVFTYPE",
                       "VFNUNARY0"}
  <2>1. Single(i)
    BY <1>1
  <2>2. /\ Harmless(i, MVVTYPE(i)) /\ Harmless(i, MVVMATYPE(i)) /\ Harmless(i, Unary(i))
        /\ Harmless(i, MVXMATYPE(i)) /\ Harmless(i, MVXTYPE(i)) /\ Harmless(i, VFNUNARY0(i))
    BY <2>1, HarmlessElementwise, HarmlessGathers, HarmlessNarrowing
  <2> QED
    BY <1>1, <2>2, HarmlessFp
       DEF FVVTYPE, FVVMATYPE, VFUNARY0, VFUNARY1, FVFMATYPE, FVFTYPE
<1>2. CASE i.name \in {"FWVVTYPE", "FWVVMATYPE", "FWVTYPE", "VFWUNARY0", "FWVFTYPE",
                       "FWVFMATYPE", "FWFTYPE"}
  <2>1. Double(i)
    BY <1>2
  <2>2. /\ Harmless(i, WVVTYPE(i)) /\ Harmless(i, WMVVTYPE(i)) /\ Harmless(i, WVTYPE(i))
        /\ Harmless(i, WVXTYPE(i)) /\ Harmless(i, WMVXTYPE(i)) /\ Harmless(i, WXTYPE(i))
        /\ Harmless(i, VFWUNARY0(i))
    BY <2>1, HarmlessWidening
  <2> QED
    BY <1>2, <2>2, HarmlessFp
       DEF FWVVTYPE, FWVVMATYPE, FWVTYPE, FWVFTYPE, FWVFMATYPE, FWFTYPE
<1>3. CASE i.name \in {"VFMERGE", "VFMV"}
  <2>1. Single(i) /\ WholeBody(i)
    BY <1>3 DEF Encoded
  <2>2. Harmless(i, MASKTYPEX(i)) /\ Harmless(i, MOVETYPEX(i))
    BY <2>1, HarmlessMoves
  <2> QED
    BY <1>3, <2>2, HarmlessFp DEF VFMERGE, VFMV
<1>4. CASE i.name \in {"FVVMTYPE", "FVFMTYPE"}
  <2>1. MaskBit(i)
    BY <1>4
  <2>2. Harmless(i, VVCMPTYPE(i)) /\ Harmless(i, VXCMPTYPE(i))
    BY <2>1, HarmlessMasks
  <2> QED
    BY <1>4, <2>2, HarmlessFp DEF FVVMTYPE, FVFMTYPE
<1>5. CASE i.name = "VFMVFS"
  BY <1>5, HarmlessCounts
<1>6. CASE i.name = "VFMVSF"
  <2>1. Changeable(i) = {0} /\ DestWidth(i) = Width
    BY <1>6
  <2> QED
    BY <1>6, <2>1, HarmlessElementZero, HarmlessFp DEF VFMVSF
<1>7. CASE i.name = "RFVVTYPE"
  <2>1. Changeable(i) = {0}
    BY <1>7
  <2>2. CASE i.op \in WideningSums
    <3>1. DestWidth(i) = 2 * Width
      BY <1>7, <2>2
    <3> QED
      BY <1>7, <2>1, <2>2, <3>1, HarmlessElementZero, HarmlessFp, HarmlessEnds DEF RFVVTYPE
  <2>3. CASE i.op \notin WideningSums
    <3>1. DestWidth(i) = Width
      BY <1>7, <2>3
    <3> QED
      BY <1>7, <2>1, <2>3, <3>1, HarmlessElementZero, HarmlessFp DEF RFVVTYPE
  <2> QED
    BY <2>2, <2>3
<1>8. \/ i.name \in {"FVVTYPE", "FVVMATYPE", "VFUNARY0", "VFUNARY1", "FVFMATYPE", "FVFTYPE",
                     "VFNUNARY0"}
      \/ i.name \in {"FWVVTYPE", "FWVVMATYPE", "FWVTYPE", "VFWUNARY0", "FWVFTYPE",
                     "FWVFMATYPE", "FWFTYPE"}
      \/ i.name \in {"VFMERGE", "VFMV"} \/ i.name \in {"FVVMTYPE", "FVFMTYPE"}
      \/ i.name \in {"VFMVFS", "VFMVSF", "RFVVTYPE"}
  BY DEF Encoded, Clauses
<1>9. CASE i.name \in {"VFMVFS", "VFMVSF", "RFVVTYPE"}
  BY <1>5, <1>6, <1>7, <1>9
<1> QED
  BY <1>1, <1>2, <1>3, <1>4, <1>8, <1>9

\* What the 32-bit build stores when it works on doubles.
LEMMA HarmlessStage ==
  ASSUME NEW i, HartOK, Replaces(i), NEW o, Harmless(i, o), NEW ks
  PROVE  Harmless(i, Stage(i, o, ks)) /\ Harmless(i, Quietly(Stage(i, o, ks)))
<1> DEFINE s == Stage(i, o, ks)
<1>1. \/ s = o
      \/ \E pushed : s = [o EXCEPT !.v = Written(i.vd, Width, pushed), !.double = NoDouble]
  BY DEF Stage
<1>2. ASSUME NEW p, NEW q, DOMAIN q = Positions, Harmless(i, p)
      PROVE  Harmless(i, [p EXCEPT !.v = q, !.double = NoDouble]) /\ Harmless(i, Quietly(p))
  BY <1>2 DEF Harmless, Within, Quietly
<1> HIDE DEF s
<1>3. Harmless(i, s)
  <2>1. CASE s = o
    BY <2>1
  <2>2. ASSUME NEW pushed, s = [o EXCEPT !.v = Written(i.vd, Width, pushed), !.double = NoDouble]
        PROVE  Harmless(i, s)
    <3>1. DOMAIN Written(i.vd, Width, pushed) = Positions
      BY WrittenDomain
    <3> QED
      BY <2>2, <3>1, <1>2
  <2> QED
    BY <1>1, <2>1, <2>2
<1>4. DOMAIN v = Positions
  BY DEF HartOK
<1>5. Harmless(i, Quietly(s))
  BY <1>2, <1>3, <1>4
<1> QED
  BY <1>3, <1>5 DEF s

LEMMA HarmlessFloatingPoint ==
  ASSUME NEW i, HartOK, Encoded(i), i.file = "fp"
  PROVE  Harmless(i, FloatingPoint(i))
<1>0. i.name \in Clauses.fp
  BY DEF Encoded, Clauses
<1>1. CASE xlen # 32
  BY <1>0, <1>1, HarmlessCommon DEF FloatingPoint, Clauses
<1>2. CASE xlen = 32
  <2>1. ASSUME Doubles, NEW o, Harmless(i, o), NEW ks
        PROVE  Harmless(i, Stage(i, o, ks)) /\ Harmless(i, Quietly(Stage(i, o, ks)))
    <3>1. Replaces(i)
      BY <1>2, <2>1 DEF Replaces
    <3> QED
      BY <2>1, <3>1, HarmlessStage
  <2>2. Staging => Doubles
    BY DEF Staging
  <2>3. i.name = "FVVTYPE" => Harmless(i, FVVTYPE_rv32(i))
    BY <2>1, <2>2, HarmlessCommon, HarmlessEnds, HarmlessChecked, HarmlessFp DEF FVVTYPE_rv32
  <2>4. i.name = "FVVMATYPE" => Harmless(i, FVVMATYPE_rv32(i))
    BY <2>1, <2>2, HarmlessCommon DEF FVVMATYPE_rv32
  <2>5. i.name = "FVFTYPE" => Harmless(i, FVFTYPE_rv32(i))
    BY <2>1, <2>2, HarmlessCommon DEF FVFTYPE_rv32
  <2>6. i.name = "FVFMATYPE" => Harmless(i, FVFMATYPE_rv32(i))
    BY <2>1, <2>2, HarmlessCommon DEF FVFMATYPE_rv32
  <2>7. i.name = "VFUNARY1" => Harmless(i, VFUNARY1_rv32(i))
    BY <2>1, <2>2, HarmlessCommon DEF VFUNARY1_rv32
  <2>8. i.name = "VFMERGE" => Harmless(i, VFMERGE_rv32(i))
    BY <2>1, <2>2, HarmlessCommon DEF VFMERGE_rv32
  <2>9. i.name = "VFMV" => Harmless(i, VFMV_rv32(i))
    BY <2>1, <2>2, HarmlessCommon DEF VFMV_rv32
  <2>10. i.name = "VFMVSF" => Harmless(i, VFMVSF_rv32(i))
    BY <2>1, HarmlessCommon DEF VFMVSF_rv32
  <2> QED
    BY <1>0, <1>2, <2>3, <2>4, <2>5, <2>6, <2>7, <2>8, <2>9, <2>10, HarmlessCommon
       DEF FloatingPoint, Clauses, FWVVTYPE_rv32, FWVVMATYPE_rv32, FWVTYPE_rv32,
           VFUNARY0_rv32, VFWUNARY0_rv32, VFNUNARY0_rv32, VFMVFS_rv32, FWVFTYPE_rv32,
           FWVFMATYPE_rv32, FWFTYPE_rv32
<1> QED
  BY <1>1, <1>2

-----------------------------------------------------------------------------
(* The loops over the segments, unfolded.                                  *)

LEMMA LoadsUnfolds ==
  ASSUME NEW steps, Len(steps) \in Nat, NEW bytes
  PROVE  LET f == LoadsAfter(steps, bytes)
         IN  /\ f[0] = Started
             /\ \A n \in 1 .. Len(steps) : f[n] = LoadStep(f[n - 1], steps[n], bytes)
<1> DEFINE Upto(m, f) == f = [n \in 0 .. m |-> IF n = 0 THEN Started ELSE LoadStep(f[n - 1], steps[n], bytes)]
           G == {m \in 0 .. Len(steps) : \E f : Upto(m, f)}
<1>1. 0 \in G
  <2>1. Upto(0, [n \in 0 .. 0 |-> Started])
    OBVIOUS
  <2> HIDE DEF Upto
  <2> QED
    BY <2>1
<1>2. ASSUME NEW m \in 0 .. Len(steps) - 1, m \in G PROVE m + 1 \in G
  <2>1. PICK f : Upto(m, f)
    BY <1>2
  <2> DEFINE h == [n \in 0 .. m + 1 |-> IF n = 0 THEN Started ELSE LoadStep(f[n - 1], steps[n], bytes)]
  <2>2. ASSUME NEW n \in 0 .. m PROVE h[n] = f[n]
    <3>1. n \in 0 .. m + 1
      OBVIOUS
    <3>2. f[n] = IF n = 0 THEN Started ELSE LoadStep(f[n - 1], steps[n], bytes)
      BY <2>1, Zenon
    <3>3. h[n] = IF n = 0 THEN Started ELSE LoadStep(f[n - 1], steps[n], bytes)
      BY <3>1, Zenon
    <3> QED
      BY <3>2, <3>3, Zenon
  <2>3. \A n \in 0 .. m + 1 : n # 0 => n - 1 \in 0 .. m
    OBVIOUS
  <2>4. Upto(m + 1, h)
    <3>1. h = [n \in 0 .. m + 1 |-> IF n = 0 THEN Started ELSE LoadStep(h[n - 1], steps[n], bytes)]
      BY <2>2, <2>3
    <3> QED
      BY <3>1
  <2> HIDE DEF h, Upto
  <2>5. m + 1 \in 0 .. Len(steps)
    OBVIOUS
  <2> QED
    BY <2>4, <2>5
<1>3. Len(steps) \in G
  <2> HIDE DEF G
  <2>1. \A m \in 0 .. Len(steps) : m \in G
    BY <1>1, <1>2, UpTo
  <2> QED
    BY <2>1
<1> DEFINE all == LoadsAfter(steps, bytes)
<1>4. all = [n \in 0 .. Len(steps) |-> IF n = 0 THEN Started ELSE LoadStep(all[n - 1], steps[n], bytes)]
  BY <1>3 DEF LoadsAfter
<1> HIDE DEF all
<1>5. ASSUME NEW n \in 0 .. Len(steps)
      PROVE  all[n] = IF n = 0 THEN Started ELSE LoadStep(all[n - 1], steps[n], bytes)
  BY <1>4, Zenon
<1>6. 0 \in 0 .. Len(steps) /\ \A n \in 1 .. Len(steps) : n \in 0 .. Len(steps) /\ n # 0
  OBVIOUS
<1>7. all[0] = Started
  BY <1>5, <1>6, Zenon
<1>8. ASSUME NEW n \in 1 .. Len(steps) PROVE all[n] = LoadStep(all[n - 1], steps[n], bytes)
  BY <1>5, <1>6, Zenon
<1> QED
  BY <1>7, <1>8 DEF all

LEMMA StoresUnfolds ==
  ASSUME NEW steps, Len(steps) \in Nat, NEW bytes
  PROVE  LET f == StoresAfter(steps, bytes)
         IN  /\ f[0] = Started
             /\ \A n \in 1 .. Len(steps) : f[n] = StoreStep(f[n - 1], steps[n], bytes)
<1> DEFINE Upto(m, f) == f = [n \in 0 .. m |-> IF n = 0 THEN Started ELSE StoreStep(f[n - 1], steps[n], bytes)]
           G == {m \in 0 .. Len(steps) : \E f : Upto(m, f)}
<1>1. 0 \in G
  <2>1. Upto(0, [n \in 0 .. 0 |-> Started])
    OBVIOUS
  <2> HIDE DEF Upto
  <2> QED
    BY <2>1
<1>2. ASSUME NEW m \in 0 .. Len(steps) - 1, m \in G PROVE m + 1 \in G
  <2>1. PICK f : Upto(m, f)
    BY <1>2
  <2> DEFINE h == [n \in 0 .. m + 1 |-> IF n = 0 THEN Started ELSE StoreStep(f[n - 1], steps[n], bytes)]
  <2>2. ASSUME NEW n \in 0 .. m PROVE h[n] = f[n]
    <3>1. n \in 0 .. m + 1
      OBVIOUS
    <3>2. f[n] = IF n = 0 THEN Started ELSE StoreStep(f[n - 1], steps[n], bytes)
      BY <2>1, Zenon
    <3>3. h[n] = IF n = 0 THEN Started ELSE StoreStep(f[n - 1], steps[n], bytes)
      BY <3>1, Zenon
    <3> QED
      BY <3>2, <3>3, Zenon
  <2>3. \A n \in 0 .. m + 1 : n # 0 => n - 1 \in 0 .. m
    OBVIOUS
  <2>4. Upto(m + 1, h)
    <3>1. h = [n \in 0 .. m + 1 |-> IF n = 0 THEN Started ELSE StoreStep(h[n - 1], steps[n], bytes)]
      BY <2>2, <2>3
    <3> QED
      BY <3>1
  <2> HIDE DEF h, Upto
  <2>5. m + 1 \in 0 .. Len(steps)
    OBVIOUS
  <2> QED
    BY <2>4, <2>5
<1>3. Len(steps) \in G
  <2> HIDE DEF G
  <2>1. \A m \in 0 .. Len(steps) : m \in G
    BY <1>1, <1>2, UpTo
  <2> QED
    BY <2>1
<1> DEFINE all == StoresAfter(steps, bytes)
<1>4. all = [n \in 0 .. Len(steps) |-> IF n = 0 THEN Started ELSE StoreStep(all[n - 1], steps[n], bytes)]
  BY <1>3 DEF StoresAfter
<1> HIDE DEF all
<1>5. ASSUME NEW n \in 0 .. Len(steps)
      PROVE  all[n] = IF n = 0 THEN Started ELSE StoreStep(all[n - 1], steps[n], bytes)
  BY <1>4, Zenon
<1>6. 0 \in 0 .. Len(steps) /\ \A n \in 1 .. Len(steps) : n \in 0 .. Len(steps) /\ n # 0
  OBVIOUS
<1>7. all[0] = Started
  BY <1>5, <1>6, Zenon
<1>8. ASSUME NEW n \in 1 .. Len(steps) PROVE all[n] = StoreStep(all[n - 1], steps[n], bytes)
  BY <1>5, <1>6, Zenon
<1> QED
  BY <1>7, <1>8 DEF all


-----------------------------------------------------------------------------
(* Where an element is.                                                    *)

\* The bit c of element k, of width w, of the group at register r.
Place(r, k, w, c) == (r * VLEN + k * w + c) % (NumRegs * VLEN)

\* Its lowest bit, as write_single_element finds it.
Lowest(r, k, w) == ((r + (k * w) \div VLEN) % NumRegs) * VLEN + ((k * w) % VLEN)

\* An element does not cross the end of a register.
LEMMA ElementInRegister ==
  ASSUME HartOK, NEW r \in Nat, NEW k \in Nat, NEW w \in Nat \ {0}, NEW m \in Nat \ {0},
         VLEN = w * m
  PROVE  /\ Lowest(r, k, w) \in Nat /\ Lowest(r, k, w) + w =< NumRegs * VLEN
         /\ \A c \in 0 .. w - 1 : Place(r, k, w, c) = Lowest(r, k, w) + c
<1> DEFINE q == k \div m
           t == k % m
           d == (r + q) \div NumRegs
           e == (r + q) % NumRegs
<1>1. VLEN \in Nat \ {0} /\ NumRegs \in Nat \ {0} /\ NumRegs * VLEN \in Nat \ {0}
  BY Sizes
<1>2. q \in Nat /\ t \in 0 .. m - 1 /\ k = m * q + t
  BY Division
<1> HIDE DEF q, t
<1>3. d \in Nat /\ e \in 0 .. NumRegs - 1 /\ r + q = NumRegs * d + e
  <2>1. r + q \in Nat
    BY <1>2
  <2> QED
    BY <1>1, <2>1, Division
<1> HIDE DEF d, e
<1>4. w * t \in Nat /\ w * t + w =< VLEN
  <2>1. w * t =< w * (m - 1) /\ w * t \in Nat
    BY <1>2
  <2>2. w * (m - 1) + w = VLEN
    OBVIOUS
  <2>3. w * (m - 1) \in Nat
    OBVIOUS
  <2> QED
    BY <1>1, <2>1, <2>2, <2>3
<1>5. k * w = VLEN * q + w * t /\ k * w \in Nat
  <2>1. k * w = (m * q + t) * w
    BY <1>2
  <2>2. (m * q + t) * w = (w * m) * q + w * t
    BY <1>2
  <2> QED
    BY <2>1, <2>2
<1>6. w * t \in 0 .. VLEN - 1
  BY <1>1, <1>4
<1>7. (k * w) \div VLEN = q /\ (k * w) % VLEN = w * t
  BY <1>1, <1>2, <1>5, <1>6, DivisionUnique
<1>8. Lowest(r, k, w) = e * VLEN + w * t
  BY <1>7 DEF Lowest, e
<1>9. e * VLEN \in Nat /\ e * VLEN + VLEN =< NumRegs * VLEN
  <2>1. e * VLEN =< (NumRegs - 1) * VLEN /\ e * VLEN \in Nat
    BY <1>1, <1>3
  <2>2. (NumRegs - 1) * VLEN + VLEN = NumRegs * VLEN /\ (NumRegs - 1) * VLEN \in Nat
    BY <1>1
  <2> QED
    BY <1>1, <2>1, <2>2
<1>10. ASSUME NEW c \in 0 .. w - 1 PROVE Place(r, k, w, c) = Lowest(r, k, w) + c
  <2> DEFINE low == e * VLEN + w * t + c
             a == r * VLEN + k * w + c
  <2>1. low \in 0 .. NumRegs * VLEN - 1
    BY <1>1, <1>4, <1>9
  <2>2. a = (NumRegs * VLEN) * d + low
    <3>1. r * VLEN + VLEN * q = (r + q) * VLEN
      BY <1>1, <1>2
    <3>2. (r + q) * VLEN = (NumRegs * d + e) * VLEN
      BY <1>3
    <3>3. (NumRegs * d + e) * VLEN = (NumRegs * VLEN) * d + e * VLEN
      BY <1>1, <1>3
    <3>4. r * VLEN \in Nat /\ VLEN * q \in Nat /\ (NumRegs * VLEN) * d \in Nat
      BY <1>1, <1>2, <1>3
    <3>5. r * VLEN + VLEN * q = (NumRegs * VLEN) * d + e * VLEN
      BY <3>1, <3>2, <3>3
    <3> QED
      BY <1>4, <1>5, <1>9, <3>4, <3>5
  <2>3. a \in Nat
    BY <1>1, <1>5
  <2> HIDE DEF a, low
  <2>4. a % (NumRegs * VLEN) = low
    BY <1>1, <1>3, <2>1, <2>2, <2>3, DivisionUnique
  <2> QED
    BY <1>8, <2>4 DEF Place, a, low
<1> QED
  BY <1>1, <1>4, <1>8, <1>9, <1>10

\* Register numbers wrap.
LEMMA PlaceWraps ==
  ASSUME HartOK, NEW r \in Nat, NEW k \in Nat, NEW w \in Nat, NEW c \in Nat
  PROVE  Place(r % NumRegs, k, w, c) = Place(r, k, w, c)
<1> DEFINE d == r \div NumRegs
           e == r % NumRegs
           N == NumRegs * VLEN
           y == k * w + c
           h == (e * VLEN + y) \div N
           l == (e * VLEN + y) % N
<1>1. VLEN \in Nat \ {0} /\ NumRegs \in Nat \ {0} /\ N \in Nat \ {0} /\ y \in Nat
  BY Sizes
<1>2. d \in Nat /\ e \in 0 .. NumRegs - 1 /\ r = NumRegs * d + e
  BY <1>1, Division
<1> HIDE DEF d, e, y
<1>3. e * VLEN + y \in Nat
  BY <1>1, <1>2
<1>4. h \in Nat /\ l \in 0 .. N - 1 /\ e * VLEN + y = N * h + l
  BY <1>1, <1>3, Division
<1>5. r * VLEN = N * d + e * VLEN /\ N * d \in Nat /\ e * VLEN \in Nat /\ N * h \in Nat
  <2>1. (NumRegs * d + e) * VLEN = (NumRegs * VLEN) * d + e * VLEN
    BY <1>1, <1>2
  <2> QED
    BY <1>1, <1>2, <1>4, <2>1
<1> HIDE DEF h, l, N
<1>6. r * VLEN + y = N * (d + h) + l
  <2>1. N * (d + h) = N * d + N * h
    BY <1>1, <1>2, <1>4
  <2> QED
    BY <1>1, <1>4, <1>5, <2>1
<1>7. (r * VLEN + y) % N = l
  <2>1. r * VLEN + y \in Nat /\ d + h \in Nat
    BY <1>1, <1>2, <1>4
  <2> QED
    BY <1>1, <1>4, <1>6, <2>1, DivisionUnique
<1>8. r * VLEN + y = r * VLEN + k * w + c /\ e * VLEN + y = e * VLEN + k * w + c
  BY <1>1, <1>2 DEF y
<1> QED
  BY <1>7, <1>8 DEF Place, N, l, e

-----------------------------------------------------------------------------
(* Loads.                                                                  *)

Fields == {"v", "mem", "vl", "vstart", "vtype", "vxsat", "fflags", "dirty", "double", "x",
           "wants", "how", "staged"}

\* What the loop of a load leaves after any of its steps.
Loading(i, o) == DOMAIN o = Fields /\ o.staged = <<>> /\ Harmless(i, o)

\* The 32-bit build stages the doubles it loads.
Unstaged(w) == xlen = 32 => w # 2^DoublePow

\* A step of a load of elements of width w, if i may change the element it loads.
LoadsBody(i, s, w) ==
  /\ s.n \in Nat /\ s.r \in Nat /\ s.k \in Nat
  /\ s.active => \A c \in 0 .. w - 1 : Place(s.r, s.k, w, c) \in ChangeableBits(i)

LEMMA ElementWritten ==
  ASSUME HartOK, NEW i, NEW o, Loading(i, o), NEW r \in Nat, NEW k \in Nat,
         NEW w \in Nat \ {0}, NEW m \in Nat \ {0}, VLEN = w * m, NEW value,
         \A c \in 0 .. w - 1 : \/ Place(r, k, w, c) \in ChangeableBits(i)
                               \/ value[c] = v[Place(r, k, w, c)]
  PROVE  Loading(i, write_single_element(o, r, k, w, value))
<1> DEFINE p == write_single_element(o, r, k, w, value)
           low == Lowest(r, k, w)
           changed == BitsAt(low, w, value)
<1>1. p = [o EXCEPT !.v = Updated(@, changed), !.dirty = TRUE, !.double = @]
  BY DEF write_single_element, Loading, Lowest
<1>2. /\ DOMAIN p = Fields /\ p.staged = <<>> /\ p.vl = vl /\ p.vtype = vtype /\ p.mem = mem
      /\ p.vstart \in Nat /\ p.v = Updated(o.v, changed)
  BY <1>1 DEF Loading, Harmless, Fields
<1> HIDE DEF p
<1>3. DOMAIN p.v = Positions
  BY <1>2 DEF Updated, Loading, Harmless
<1>4. ASSUME NEW b \in Positions, p.v[b] # v[b], ~Replaces(i) PROVE b \in ChangeableBits(i)
  <2>1. CASE b \notin DOMAIN changed
    <3>1. p.v[b] = o.v[b]
      BY <1>2, <2>1 DEF Updated, Loading, Harmless
    <3> QED
      BY <1>4, <3>1 DEF Loading, Harmless, Within
  <2>2. CASE b \in DOMAIN changed
    <3>1. low \in Nat /\ b \in low .. low + w - 1
      BY <2>2, ElementInRegister DEF BitsAt
    <3>2. b - low \in 0 .. w - 1 /\ low + (b - low) = b
      BY <3>1
    <3>0. \A c \in 0 .. w - 1 : Place(r, k, w, c) = low + c
      BY ElementInRegister
    <3> HIDE DEF low
    <3>3. Place(r, k, w, b - low) = b
      BY <3>0, <3>2
    <3>4. p.v[b] = value[b - low]
      BY <1>2, <2>2, <3>1 DEF Updated, BitsAt, Loading, Harmless
    <3> QED
      BY <1>4, <3>2, <3>3, <3>4
  <2> QED
    BY <2>1, <2>2
<1>5. Within(i, p.v)
  BY <1>4 DEF Within
<1> QED
  BY <1>2, <1>3, <1>5 DEF Loading, Harmless, p

LEMMA LoadStepKeeps ==
  ASSUME HartOK, NEW i, NEW o, Loading(i, o), NEW bytes \in Nat \ {0}, NEW m \in Nat \ {0},
         VLEN = (8 * bytes) * m, Unstaged(8 * bytes), NEW s, LoadsBody(i, s, 8 * bytes)
  PROVE  Loading(i, LoadStep(o, s, bytes))
<1> DEFINE w == 8 * bytes
<1>1. w \in Nat \ {0} /\ s.r \in Nat /\ s.k \in Nat /\ s.n \in Nat
  BY DEF LoadsBody
<1>2. CASE s.active
  <2> DEFINE here == AtSegment(o, s)
  <2>1. \A p, q : /\ Loading(i, here)
                  /\ Loading(i, [here EXCEPT !.how = p])
                  /\ Loading(i, [here EXCEPT !.how = p, !.wants = q])
    BY <1>1 DEF AtSegment, Loading, Harmless, Fields
  <2> HIDE DEF here
  <2>2. Loading(i, Fetch(here, s, bytes))
    <3> DEFINE value == [b \in 0 .. 8 * bytes - 1 |-> here.mem[8 * s.at + b]]
    <3>1. Fetch(here, s, bytes) = write_single_element(here, s.r, s.k, w, value)
      BY DEF Fetch, Unstaged
    <3>2. \A c \in 0 .. w - 1 : Place(s.r, s.k, w, c) \in ChangeableBits(i)
      BY <1>2 DEF LoadsBody
    <3> HIDE DEF value
    <3>3. Loading(i, write_single_element(here, s.r, s.k, w, value))
      BY <1>1, <2>1, <3>2, ElementWritten
    <3> QED
      BY <3>1, <3>3
  <2> QED
    BY <1>2, <2>1, <2>2 DEF LoadStep, Try, here
<1>3. CASE ~s.active
  <2> DEFINE value == Elem(s.r, w, s.k)
  <2>1. \A c \in 0 .. w - 1 : value[c] = v[Place(s.r, s.k, w, c)]
    BY DEF Elem, Place
  <2> HIDE DEF value
  <2>2. Loading(i, write_single_element(o, s.r, s.k, w, value))
    BY <1>1, <2>1, ElementWritten
  <2> QED
    BY <1>3, <2>2 DEF LoadStep, value
<1> QED
  BY <1>2, <1>3

\* The ranges of the fields that the loops over memory use.
LEMMA FieldValues ==
  ASSUME NEW i, Encoded(i)
  PROVE  i.nf \in 1 .. 8 /\ i.width \in 3 .. 6 /\ i.vd \in 0 .. NumRegs - 1 /\ i.x \in Int
BY Zenon DEF Encoded

LEMMA LoadsKeep ==
  ASSUME HartOK, NEW i, NEW bytes \in Nat \ {0}, NEW m \in Nat \ {0},
         VLEN = (8 * bytes) * m, Unstaged(8 * bytes), NEW steps, Len(steps) \in Nat,
         \A n \in 1 .. Len(steps) : LoadsBody(i, steps[n], 8 * bytes)
  PROVE  Harmless(i, Loads(steps, bytes))
<1> DEFINE after == LoadsAfter(steps, bytes)
           G == {n \in 0 .. Len(steps) : Loading(i, after[n])}
<1>1. after[0] = Started
      /\ \A n \in 1 .. Len(steps) : after[n] = LoadStep(after[n - 1], steps[n], bytes)
  BY LoadsUnfolds
<1> HIDE DEF after
<1>2. 0 \in G
  <2>1. Loading(i, Started)
    BY ONLY HartOK DEF Loading, Started, Harmless, Within, HartOK, Now, Fields
  <2> QED
    BY <1>1, <2>1
<1>3. ASSUME NEW n \in 0 .. Len(steps) - 1, n \in G PROVE n + 1 \in G
  <2>1. n + 1 \in 1 .. Len(steps) /\ (n + 1) - 1 = n /\ n + 1 \in 0 .. Len(steps)
    OBVIOUS
  <2>2. after[n + 1] = LoadStep(after[n], steps[n + 1], bytes)
    BY <1>1, <2>1
  <2>3. Loading(i, after[n]) /\ LoadsBody(i, steps[n + 1], 8 * bytes)
    BY <1>3, <2>1
  <2>4. Loading(i, LoadStep(after[n], steps[n + 1], bytes))
    BY <2>3, LoadStepKeeps
  <2> QED
    BY <2>1, <2>2, <2>4
<1>4. Loading(i, after[Len(steps)])
  <2> HIDE DEF G
  <2>1. \A n \in 0 .. Len(steps) : n \in G
    BY <1>2, <1>3, UpTo
  <2> QED
    BY <2>1 DEF G
<1> QED
  BY <1>4 DEF Loads, Ended, Loading, Harmless, Fields, after

-----------------------------------------------------------------------------
(* Stores.                                                                 *)

\* What a store leaves, after any of the steps of its loop and at its end: of
\* memory all but its body elements, unless it is of unit stride.
Stored(i, o) ==
  /\ o.v = v /\ o.vl = vl /\ o.vtype = vtype /\ o.vstart \in Nat
  /\ DOMAIN o.mem = DOMAIN mem
  /\ i.name # "VSSEGTYPE" =>
       \A b \in DOMAIN mem : o.mem[b] # mem[b] => b \in ChangeableMemory(i)

Storing(i, o) == DOMAIN o = Fields /\ Stored(i, o)

LEMMA StoredEnds ==
  ASSUME HartOK, NEW i
  PROVE  Stored(i, Illegal) /\ Stored(i, Abort)
         /\ \A h : Stored(i, [Now EXCEPT !.how = h])
BY DEF Stored, HartOK, Illegal, Abort, Now

LEMMA StoredChecked ==
  ASSUME HartOK, NEW i, NEW illegal, NEW readable, NEW o,
         ~illegal /\ readable => Stored(i, o)
  PROVE  Stored(i, Checked(illegal, readable, o))
BY StoredEnds DEF Checked

\* A step of a store of elements of width w, if i may change where it stores.
StoresBody(i, s, w) ==
  /\ s.n \in Nat
  /\ s.active /\ i.name # "VSSEGTYPE" =>
       s.at \in Int /\ \A c \in 0 .. w - 1 : 8 * s.at + c \in ChangeableMemory(i)

\* What a store writes: its element, or on the 32-bit build the double that is staged.
LEMMA StorePut ==
  ASSUME NEW o, DOMAIN o = Fields, NEW s, NEW bytes
  PROVE  LET t == Store(o, s, bytes)
             Written1(value) == t.mem = Updated(o.mem, BitsAt(8 * s.at, 8 * bytes, value))
         IN  /\ DOMAIN t = Fields /\ t.staged = o.staged /\ t.v = o.v /\ t.vl = o.vl
             /\ t.vtype = o.vtype /\ t.vstart = o.vstart /\ t.vxsat = o.vxsat
             /\ t.fflags = o.fflags /\ t.x = o.x /\ t.how = o.how
             /\ \E value : Written1(value)
             /\ Unstaged(8 * bytes) \/ (s.stages /\ s.first = s.r) =>
                  Written1(Elem(s.r, 8 * bytes, s.k))
BY DEF Store, Fields, Unstaged

LEMMA StoreStepKeeps ==
  ASSUME HartOK, NEW i, NEW o, Storing(i, o), NEW bytes \in Nat \ {0}, NEW s,
         StoresBody(i, s, 8 * bytes)
  PROVE  Storing(i, StoreStep(o, s, bytes))
<1>1. CASE ~s.active
  BY <1>1 DEF StoreStep
<1>2. CASE s.active
  <2> DEFINE here == AtSegment(o, s)
             p == Store(here, s, bytes)
  <2>1. \A u, q : /\ Storing(i, here)
                  /\ Storing(i, [here EXCEPT !.how = u])
                  /\ Storing(i, [here EXCEPT !.how = u, !.wants = q])
    BY DEF AtSegment, Storing, Stored, Fields, StoresBody
  <2> HIDE DEF here
  <2>0. /\ DOMAIN p = Fields /\ p.v = here.v /\ p.vl = here.vl /\ p.vtype = here.vtype
        /\ p.vstart = here.vstart
        /\ \E bits : p.mem = Updated(here.mem, BitsAt(8 * s.at, 8 * bytes, bits))
    <3>1. DOMAIN here = Fields
      BY <2>1 DEF Storing
    <3> QED
      BY ONLY <3>1, StorePut
  <2> PICK bits : p.mem = Updated(here.mem, BitsAt(8 * s.at, 8 * bytes, bits))
    BY <2>0
  <2> DEFINE value == BitsAt(8 * s.at, 8 * bytes, bits)
  <2> HIDE DEF p
  <2>2. /\ DOMAIN p = Fields /\ p.v = v /\ p.vl = vl /\ p.vtype = vtype /\ p.vstart \in Nat
        /\ p.mem = Updated(here.mem, value)
    BY <2>0, <2>1 DEF Storing, Stored
  <2>3. DOMAIN p.mem = DOMAIN mem
    BY <2>1, <2>2 DEF Updated, Storing, Stored
  <2>4. ASSUME NEW b \in DOMAIN mem, p.mem[b] # mem[b], i.name # "VSSEGTYPE"
        PROVE  b \in ChangeableMemory(i)
    <3>1. CASE b \notin DOMAIN value
      <4>1. p.mem[b] = here.mem[b]
        BY <2>1, <2>2, <3>1 DEF Updated, Storing, Stored
      <4> QED
        BY <2>1, <2>4, <4>1 DEF Storing, Stored
    <3>2. CASE b \in DOMAIN value
      <4>1. s.at \in Int /\ b \in 8 * s.at .. 8 * s.at + 8 * bytes - 1
        BY <1>2, <2>4, <3>2 DEF BitsAt, StoresBody
      <4>2. b - 8 * s.at \in 0 .. 8 * bytes - 1 /\ 8 * s.at + (b - 8 * s.at) = b
        BY <4>1
      <4> QED
        BY <1>2, <2>4, <4>2 DEF StoresBody
    <3> QED
      BY <3>1, <3>2
  <2>5. Storing(i, p)
    BY <2>2, <2>3, <2>4 DEF Storing, Stored
  <2> HIDE DEF value, p
  <2> DEFINE trapped(u) == [here EXCEPT !.how = u]
             faulted(u, q) == [here EXCEPT !.how = u, !.wants = q]
  <2>6. \/ StoreStep(o, s, bytes) = o
        \/ StoreStep(o, s, bytes) = p
        \/ StoreStep(o, s, bytes) = trapped("misaligned")
        \/ StoreStep(o, s, bytes) = faulted("fault", {s.at \div PageBytes})
    BY <1>2 DEF StoreStep, Try, p, here
  <2>7. Storing(i, trapped("misaligned")) /\ Storing(i, faulted("fault", {s.at \div PageBytes}))
    BY <2>1, Zenon
  <2> HIDE DEF trapped, faulted
  <2> QED
    BY <2>5, <2>6, <2>7
<1> QED
  BY <1>1, <1>2

LEMMA StoresKeep ==
  ASSUME HartOK, NEW i, NEW bytes \in Nat \ {0}, NEW steps, Len(steps) \in Nat,
         \A n \in 1 .. Len(steps) : StoresBody(i, steps[n], 8 * bytes)
  PROVE  Stored(i, Stores(steps, bytes))
<1> DEFINE after == StoresAfter(steps, bytes)
           G == {n \in 0 .. Len(steps) : Storing(i, after[n])}
<1>1. after[0] = Started
      /\ \A n \in 1 .. Len(steps) : after[n] = StoreStep(after[n - 1], steps[n], bytes)
  BY StoresUnfolds
<1> HIDE DEF after
<1>2. 0 \in G
  BY <1>1 DEF Storing, Stored, Started, HartOK, Now, Fields
<1>3. ASSUME NEW n \in 0 .. Len(steps) - 1, n \in G PROVE n + 1 \in G
  <2>1. n + 1 \in 1 .. Len(steps) /\ (n + 1) - 1 = n /\ n + 1 \in 0 .. Len(steps)
    OBVIOUS
  <2>2. after[n + 1] = StoreStep(after[n], steps[n + 1], bytes)
    BY <1>1, <2>1
  <2>3. Storing(i, after[n]) /\ StoresBody(i, steps[n + 1], 8 * bytes)
    BY <1>3, <2>1
  <2>4. Storing(i, StoreStep(after[n], steps[n + 1], bytes))
    BY <2>3, StoreStepKeeps
  <2> QED
    BY <2>1, <2>2, <2>4
<1>4. Storing(i, after[Len(steps)])
  <2> HIDE DEF G
  <2>1. \A n \in 0 .. Len(steps) : n \in G
    BY <1>2, <1>3, UpTo
  <2> QED
    BY <2>1 DEF G
<1> QED
  BY <1>4 DEF Stores, Ended, Storing, Stored, Fields, after

-----------------------------------------------------------------------------
(* The segments of the accesses.                                           *)

\* The group of registers a field takes, and the bytes of an element.
LEMMA GroupTyped == ASSUME NEW emul \in Int PROVE AtLeast0(emul) \in Nat /\ Group(emul) \in Int
<1>1. AtLeast0(emul) \in Nat
  BY DEF AtLeast0
<1> QED
  BY <1>1 DEF Group

LEMMA GroupPositive ==
  ASSUME NEW emul \in Int, emul =< 10 PROVE Group(emul) \in Nat \ {0}
<1>1. AtLeast0(emul) \in 0 .. VlenPow + 11
  BY WidthsAssumption DEF AtLeast0
<1> QED
  BY <1>1, Powers DEF Group

LEMMA ElementBytes ==
  ASSUME NEW w \in 3 .. 6
  PROVE  /\ Bytes(w) \in Nat \ {0} /\ 8 * Bytes(w) = 2^w
         /\ \E m \in Nat \ {0} : VLEN = 2^w * m
<1> DEFINE d == w - 3
           e == VlenPow - w
<1>1. d \in 0 .. VlenPow + 11 /\ 3 + d = w /\ e \in 0 .. VlenPow + 11 /\ w + e = VlenPow
      /\ 3 \in Nat /\ w \in Nat /\ d \in Nat /\ e \in Nat
      /\ 3 + d =< VlenPow + 11 /\ w + e =< VlenPow + 11 /\ w - 3 = d
  BY WidthsAssumption
<1> HIDE DEF d, e
<1>2. 2^(3 + d) = 2^3 * 2^d
  BY <1>1, PowersAdd
<1>3. 2^(w + e) = 2^w * 2^e
  BY <1>1, PowersAdd
<1>4. 2^3 = 8 /\ 2^d \in Nat \ {0} /\ 2^e \in Nat \ {0}
  BY <1>1, Powers
<1> QED
  BY <1>1, <1>2, <1>3, <1>4 DEF Bytes, VLEN

\* Steps over the nf fields of n segments.
Walks(i, steps, n, emul, mask) ==
  /\ Len(steps) = n * i.nf
  /\ \A p \in 1 .. n * i.nf :
       LET k == (p - 1) \div i.nf
           j == (p - 1) % i.nf
       IN  /\ steps[p].n = k /\ steps[p].k = k /\ steps[p].active = (k \in mask)
           /\ steps[p].r = (i.vd + j * Group(emul)) % NumRegs

LEMMA WalkedLoads ==
  ASSUME HartOK, NEW i, Encoded(i), NEW w \in 3 .. 6, DestWidth(i) = 2^w,
         i.name \notin WholeRegister, NEW emul \in Int, emul =< 10,
         emul = IF i.name \in OwnWidth THEN EMUL(i) ELSE LMUL,
         NEW n \in Nat, NEW mask, mask \subseteq Changeable(i), Unstaged(2^w),
         NEW steps, Walks(i, steps, n, emul, mask)
  PROVE  Harmless(i, Loads(steps, Bytes(w)))
<1>1. PICK m \in Nat \ {0} : VLEN = 2^w * m
  BY ElementBytes
<1>2. Bytes(w) \in Nat \ {0} /\ 8 * Bytes(w) = 2^w
  BY ElementBytes
<1>3. i.nf \in Nat \ {0} /\ i.vd \in Nat /\ n * i.nf \in Nat
  BY DEF Encoded
<1>4. ASSUME NEW p \in 1 .. n * i.nf PROVE LoadsBody(i, steps[p], 2^w)
  <2> DEFINE k == (p - 1) \div i.nf
             j == (p - 1) % i.nf
             r == i.vd + j * Group(emul)
  <2>1. p - 1 \in Nat
    BY <1>3
  <2>2. k \in Nat /\ j \in 0 .. i.nf - 1
    BY <1>3, <2>1, Division
  <2>3. /\ steps[p].n = k /\ steps[p].k = k /\ steps[p].active = (k \in mask)
        /\ steps[p].r = r % NumRegs
    BY DEF Walks
  <2> HIDE DEF k, j
  <2>4. r \in Nat
    BY <1>3, <2>2, GroupPositive
  <2> HIDE DEF r
  <2>5. r % NumRegs \in Nat
    <3>1. NumRegs \in Nat \ {0}
      BY Sizes
    <3> QED
      BY <2>4, <3>1, Division
  <2>6. ASSUME k \in mask, NEW c \in 0 .. 2^w - 1
        PROVE  Place(r % NumRegs, k, 2^w, c) \in ChangeableBits(i)
    <3>1. Place(r % NumRegs, k, 2^w, c) = (r * VLEN + k * 2^w + c) % (NumRegs * VLEN)
      <4>1. 2^w \in Nat /\ c \in Nat
        BY <1>2
      <4>2. Place(r % NumRegs, k, 2^w, c) = Place(r, k, 2^w, c)
        BY <2>2, <2>4, <4>1, PlaceWraps
      <4> QED
        BY <4>2 DEF Place
    <3>2. k \in Changeable(i)
      BY <2>6
    <3> QED
      BY <2>2, <3>1, <3>2 DEF ChangeableBits, r
  <2> QED
    BY <2>2, <2>3, <2>5, <2>6 DEF LoadsBody
<1>5. \A p \in 1 .. Len(steps) : LoadsBody(i, steps[p], 8 * Bytes(w))
  BY <1>2, <1>4 DEF Walks
<1>6. Len(steps) \in Nat
  BY <1>3 DEF Walks
<1> QED
  BY <1>1, <1>2, <1>5, <1>6, LoadsKeep

\* The elements of a group are counted when the group holds one.
LEMMA Counted ==
  ASSUME HartOK, NEW eew \in 3 .. 6, NEW emul \in -10 .. 10, ~(eew > VlenPow + AtLeast0(emul))
  PROVE  get_num_elem(emul, eew) \in Nat
<1>1. AtLeast0(emul) + VlenPow - eew \in 0 .. VlenPow + 11
  BY WidthsAssumption DEF AtLeast0
<1> QED
  BY <1>1, Powers DEF get_num_elem

LEMMA HarmlessSegmented ==
  ASSUME HartOK, NEW i, NEW emul, NEW eew, NEW illegal, NEW readable, NEW o,
         ~(eew > VlenPow + AtLeast0(emul)) => Harmless(i, o)
  PROVE  Harmless(i, Segmented(i, emul, eew, illegal, readable, o))
BY HarmlessEnds, HarmlessChecked DEF Segmented

LEMMA StoredSegmented ==
  ASSUME HartOK, NEW i, NEW emul, NEW eew, NEW illegal, NEW readable, NEW o,
         ~(eew > VlenPow + AtLeast0(emul)) => Stored(i, o)
  PROVE  Stored(i, Segmented(i, emul, eew, illegal, readable, o))
BY StoredEnds, StoredChecked DEF Segmented

LEMMA MemoryOperands ==
  ASSUME HartOK, NEW i, Encoded(i)
  PROVE  /\ EMUL(i) \in -10 .. 10 /\ LMUL \in -10 .. 10 /\ i.width \in 3 .. 6 /\ SEW \in 3 .. 6
         /\ Selected(i) \subseteq Selects(i) /\ Active(i) \subseteq Selects(i)
<1>1. EMUL(i) \in -10 .. 10 /\ LMUL \in -10 .. 10 /\ i.width \in 3 .. 6 /\ SEW \in 3 .. 6
  BY Sizes DEF EMUL, Encoded
<1>2. Selected(i) \subseteq Selects(i)
  BY DEF Selected, Unmasked, Masked, Body, read_vmask, Selects, HartOK
<1> QED
  BY <1>1, <1>2, ActiveSelects

LEMMA HarmlessSegmentLoads ==
  ASSUME HartOK, NEW i, Encoded(i)
  PROVE  /\ i.name = "VLSEGTYPE" /\ Unstaged(2^i.width) => Harmless(i, VLSEGTYPE(i))
         /\ i.name = "VLSSEGTYPE" /\ Unstaged(2^i.width) => Harmless(i, VLSSEGTYPE(i))
         /\ i.name \in {"VLUXSEGTYPE", "VLOXSEGTYPE"} /\ xlen # 32 => Harmless(i, VLUXSEGTYPE(i))
<1> DEFINE own == Elements(i)
<1>0. i.nf \in Nat
  BY DEF Encoded
<1>1. ASSUME i.name \in {"VLSEGTYPE", "VLSSEGTYPE"}, Unstaged(2^i.width), NEW steps,
             ~(i.width > VlenPow + AtLeast0(EMUL(i))),
             own \in Nat => Walks(i, steps, own, EMUL(i), Selected(i))
      PROVE  Harmless(i, Loads(steps, Bytes(i.width)))
  <2>1. own \in Nat
    BY <1>1, MemoryOperands, Counted DEF Elements
  <2>2. DestWidth(i) = 2^i.width /\ i.name \notin WholeRegister /\ i.name \in OwnWidth
    BY <1>1 DEF DestWidth, WidensResult, MakesMask, OwnWidth, WholeRegister
  <2>3. Selected(i) \subseteq Changeable(i)
    BY <1>1, MemoryOperands DEF Changeable, ElementZero, Selects
  <2>4. /\ EMUL(i) \in Int /\ EMUL(i) =< 10 /\ i.width \in 3 .. 6
        /\ EMUL(i) = IF i.name \in OwnWidth THEN EMUL(i) ELSE LMUL
    BY <2>2, MemoryOperands
  <2>5. Walks(i, steps, own, EMUL(i), Selected(i))
    BY <1>1, <2>1
  <2> HIDE DEF own
  <2> QED
    BY <1>1, <2>1, <2>2, <2>3, <2>4, <2>5, WalkedLoads
<1>2. ASSUME i.name = "VLSEGTYPE", Unstaged(2^i.width) PROVE Harmless(i, VLSEGTYPE(i))
  <2> DEFINE steps == Segments(i, own, EMUL(i), Selected(i), LAMBDA k, j : UnitStride(i, k, j))
  <2>1. own \in Nat => Walks(i, steps, own, EMUL(i), Selected(i))
    BY <1>0 DEF Segments, Walks
  <2>2. VLSEGTYPE(i) = Segmented(i, EMUL(i), i.width, illegal_load(i, i.nf, i.width, EMUL(i)),
                                 TRUE, Loads(steps, Bytes(i.width)))
    BY DEF VLSEGTYPE, LoadSegments
  <2> HIDE DEF steps, own
  <2> QED
    BY <1>1, <1>2, <2>1, <2>2, HarmlessSegmented
<1>3. ASSUME i.name = "VLSSEGTYPE", Unstaged(2^i.width) PROVE Harmless(i, VLSSEGTYPE(i))
  <2> DEFINE steps == Segments(i, own, EMUL(i), Selected(i), LAMBDA k, j : Strided(i, k, j))
  <2>1. own \in Nat => Walks(i, steps, own, EMUL(i), Selected(i))
    BY <1>0 DEF Segments, Walks
  <2>2. VLSSEGTYPE(i) = Segmented(i, EMUL(i), i.width, illegal_load(i, i.nf, i.width, EMUL(i)),
                                  TRUE, Loads(steps, Bytes(i.width)))
    BY DEF VLSSEGTYPE, LoadSegments
  <2> HIDE DEF steps, own
  <2> QED
    BY <1>1, <1>3, <2>1, <2>2, HarmlessSegmented
<1>4. ASSUME i.name \in {"VLUXSEGTYPE", "VLOXSEGTYPE"}, xlen # 32
      PROVE  Harmless(i, VLUXSEGTYPE(i))
  <2> DEFINE steps == IndexedSegments(i)
  <2>1. NumElem \in Nat => Walks(i, steps, NumElem, LMUL, Active(i))
    BY <1>0 DEF Segments, IndexedSegments, Walks
  <2>2. DestWidth(i) = 2^SEW /\ i.name \notin WholeRegister /\ i.name \notin OwnWidth
    BY <1>4 DEF DestWidth, WidensResult, MakesMask, OwnWidth, WholeRegister, Width
  <2>3. Active(i) \subseteq Changeable(i)
    BY <1>4, MemoryOperands DEF Changeable, ElementZero, Selects
  <2> HIDE DEF steps
  <2>4. ASSUME ~(SEW > VlenPow + AtLeast0(LMUL)) PROVE Harmless(i, Loads(steps, Bytes(SEW)))
    <3>1. NumElem \in Nat
      BY <2>4, MemoryOperands, Counted DEF NumElem
    <3>2. Unstaged(2^SEW)
      BY <1>4 DEF Unstaged
    <3>3. /\ LMUL \in Int /\ LMUL =< 10 /\ SEW \in 3 .. 6
          /\ LMUL = IF i.name \in OwnWidth THEN EMUL(i) ELSE LMUL
      BY <2>2, MemoryOperands
    <3>4. Walks(i, steps, NumElem, LMUL, Active(i))
      BY <2>1, <3>1
    <3> QED
      BY <2>2, <2>3, <3>1, <3>2, <3>3, <3>4, WalkedLoads
  <2> QED
    BY <2>4, HarmlessSegmented DEF VLUXSEGTYPE, steps
<1> QED
  BY <1>2, <1>3, <1>4

\* A width below that of a double is not one.
LEMMA NotDouble ==
  ASSUME NEW w \in 3 .. 6, w # DoublePow PROVE 2^w # 2^DoublePow
<1>1. DoublePow \in 0 .. VlenPow + 11 /\ w \in 0 .. VlenPow + 11 /\ DoublePow \in Nat
      /\ DoublePow =< VlenPow + 11 /\ w =< VlenPow + 11 /\ w \in Nat
  BY WidthsAssumption
<1>2. ASSUME NEW a \in Nat, NEW b \in Nat, a < b, b =< VlenPow + 11 PROVE 2^a # 2^b
  <2> DEFINE d == b - (a + 1)
  <2>1. d \in Nat /\ a + 1 \in Nat /\ (a + 1) + d = b /\ a \in 0 .. VlenPow + 11
        /\ a + 1 \in 0 .. VlenPow + 11 /\ d \in 0 .. VlenPow + 11 /\ a + 1 =< VlenPow + 11
        /\ VlenPow + 11 \in Nat /\ 1 \in Nat
    BY <1>2, WidthsAssumption
  <2> HIDE DEF d
  <2>2. 2^((a + 1) + d) = 2^(a + 1) * 2^d
    BY <1>2, <2>1, PowersAdd
  <2>3. 2^(a + 1) = 2^a * 2^1
    BY ONLY <2>1, a \in Nat, PowersAdd
  <2>4. 2^1 = 2 /\ 2^a \in Nat \ {0} /\ 2^d \in Nat \ {0} /\ 2^(a + 1) \in Nat \ {0}
    BY <2>1, Powers
  <2> DEFINE y == 2^a
             z == 2^d
  <2>5. 2^b = (2 * y) * z /\ y \in Nat \ {0} /\ z \in Nat \ {0}
    BY <2>1, <2>2, <2>3, <2>4
  <2> HIDE DEF y, z
  <2>6. 2^b = y * (2 * z) /\ 2 * z \in Nat /\ 2 * z > 1
    BY <2>5
  <2>7. y * (2 * z) # y
    BY <2>5, <2>6
  <2> QED
    BY <2>6, <2>7 DEF y
<1> QED
  BY <1>1, <1>2

LEMMA HarmlessWholeLoad ==
  ASSUME HartOK, NEW i, Encoded(i), i.name = "VLRETYPE", Unstaged(2^i.width)
  PROVE  Harmless(i, VLRETYPE(i))
<1> DEFINE w == i.width
           epr == VLEN \div 2^w
           steps == WholeRegisters(i, w)
           len == i.nf * epr - vstart
<1>1. w \in 3 .. 6 /\ i.nf \in Nat \ {0} /\ i.vd \in Nat /\ vstart \in Nat
  BY DEF Encoded, HartOK
<1>2. PICK m \in Nat \ {0} : VLEN = 2^w * m
  BY <1>1, ElementBytes
<1>3. Bytes(w) \in Nat \ {0} /\ 8 * Bytes(w) = 2^w /\ 2^w \in Nat \ {0}
  <2>1. Bytes(w) \in Nat \ {0} /\ 8 * Bytes(w) = 2^w
    BY <1>1, ElementBytes
  <2>2. w \in 0 .. VlenPow + 11
    BY <1>1, WidthsAssumption
  <2> QED
    BY <2>1, <2>2, Powers
<1>4. epr = m
  <2>1. 2^w * m \in Nat /\ 2^w * m = 2^w * m + 0 /\ 0 \in 0 .. 2^w - 1 /\ m \in Nat
    BY <1>2, <1>3
  <2> DEFINE e == 2^w
  <2>2. e \in Nat \ {0} /\ e * m \in Nat /\ 0 \in 0 .. e - 1
    BY <1>3, <2>1
  <2> HIDE DEF e
  <2>3. (e * m + 0) \div e = m
    BY <2>1, <2>2, DivisionUnique
  <2> QED
    BY <1>2, <2>1, <2>3 DEF e
<1>5. DestWidth(i) = 2^w
  BY DEF DestWidth, WidensResult, MakesMask, OwnWidth
<1>6. Changeable(i) = vstart .. i.nf * epr - 1
  BY <1>5 DEF Changeable, ElementZero
<1>7. ASSUME ~(vstart >= i.nf * epr) PROVE Harmless(i, Loads(steps, Bytes(w)))
  <2>0. len \in Nat
    BY <1>1, <1>4, <1>7
  <2>1. Len(steps) = len
    BY <2>0 DEF WholeRegisters
  <2>2. ASSUME NEW p \in 1 .. len PROVE LoadsBody(i, steps[p], 2^w)
    <3> DEFINE n == vstart + p - 1
    <3>1. n \in Changeable(i) /\ n \in Nat
      BY <1>1, <1>4, <1>6
    <3>2. /\ steps[p].n = n /\ steps[p].k = n % m
          /\ steps[p].r = (i.vd + n \div m) % NumRegs
      BY <1>4 DEF WholeRegisters
    <3> HIDE DEF n, steps
    <3> DEFINE q == n \div m
               k == n % m
               e == 2^w
               vd == i.vd
               r == vd + q
    <3>3. q \in Nat /\ k \in Nat /\ n = m * q + k
      <4>1. n \in Nat /\ m \in Nat \ {0}
        BY <3>1
      <4>2. n \div m \in Nat /\ n % m \in 0 .. m - 1 /\ n = m * (n \div m) + (n % m)
        BY ONLY <4>1, Division
      <4> QED
        BY ONLY <4>1, <4>2
    <3>7. e \in Nat \ {0} /\ vd \in Nat /\ VLEN = e * m
      BY <1>1, <1>2, <1>3
    <3> HIDE DEF q, k, e, vd
    <3>8. r \in Nat /\ NumRegs \in Nat \ {0}
      BY <3>3, <3>7, Sizes
    <3>9. r * VLEN + k * e = vd * VLEN + n * e
      <4>1. q * (e * m) = (m * q) * e
        BY <3>3, <3>7
      <4>2. n * e = (m * q) * e + k * e
        BY <3>3, <3>7
      <4> QED
        BY <3>3, <3>7, <4>1, <4>2
    <3> HIDE DEF r
    <3>5. r % NumRegs \in Nat
      BY <3>8, Division
    <3>6. ASSUME NEW c \in Nat PROVE Place(r % NumRegs, k, e, c) = Place(vd, n, e, c)
      <4>1. Place(r % NumRegs, k, e, c) = Place(r, k, e, c)
        BY <3>3, <3>7, <3>8, PlaceWraps
      <4>2. r * VLEN + k * e + c = vd * VLEN + n * e + c
        BY <3>9
      <4> QED
        BY <4>1, <4>2 DEF Place
    <3>4. ASSUME NEW c \in 0 .. 2^w - 1
          PROVE  Place(steps[p].r, steps[p].k, 2^w, c) \in ChangeableBits(i)
      <4>1. c \in Nat
        BY <1>3
      <4>2. Place(steps[p].r, steps[p].k, 2^w, c) = (i.vd * VLEN + n * 2^w + c) % (NumRegs * VLEN)
        <5>1. Place(r % NumRegs, k, e, c) = Place(vd, n, e, c)
          BY <3>6, <4>1
        <5> QED
          BY <3>2, <5>1 DEF Place, q, k, e, vd, r
      <4>3. Group(LMUL) \in Int /\ Group(EMUL(i)) \in Int
        BY GroupTyped, MemoryOperands
      <4>4. (i.vd + 0 * Group(IF i.name \in OwnWidth THEN EMUL(i) ELSE LMUL)) = i.vd
        BY <1>1, <4>3
      <4>5. 0 \in 0 .. (IF i.name \in WholeRegister THEN 1 ELSE i.nf) - 1
        BY DEF WholeRegister
      <4> QED
        BY <1>5, <3>1, <4>2, <4>4, <4>5 DEF ChangeableBits
    <3> QED
      BY <3>1, <3>2, <3>3, <3>4, <3>5 DEF LoadsBody, q, k, e, vd, r
  <2> HIDE DEF steps, len
  <2>3. Len(steps) \in Nat /\ \A p \in 1 .. Len(steps) : LoadsBody(i, steps[p], 8 * Bytes(w))
    BY <1>3, <2>0, <2>1, <2>2
  <2>4. VLEN = (8 * Bytes(w)) * m
    BY <1>2, <1>3
  <2>5. Unstaged(8 * Bytes(w))
    BY <1>3
  <2> QED
    BY <1>2, <1>3, <2>3, <2>4, <2>5, LoadsKeep
<1>8. Harmless(i, [Now EXCEPT !.how = get_start_element])
  BY DEF Harmless, Within, HartOK, Now
<1> HIDE DEF steps
<1> QED
  BY <1>7, <1>8, HarmlessEnds DEF VLRETYPE, Whole, steps

\* The bytes of a mask register that vlm and vsm pass: none, if vstart is past them.
LEMMA MaskSteps ==
  ASSUME HartOK, NEW i, Encoded(i), i.name = "VMTYPE"
  PROVE  /\ Len(MaskBytes(i)) \in Nat
         /\ \A p \in 1 .. Len(MaskBytes(i)) :
              LET s == MaskBytes(i)[p]
              IN  /\ s.n \in Nat /\ s.r = i.vd /\ s.k = s.n /\ s.at = i.x + s.n
                  /\ s.active => s.n \in Changeable(i)
<1> DEFINE last == get_num_elem(0, 3) - vstart
           steps == MaskBytes(i)
<1>1. last \in Int /\ vstart \in Nat
  <2>1. get_num_elem(0, 3) \in Nat
    <3>1. 0 \in -10 .. 10 /\ 3 \in 3 .. 6 /\ ~(3 > VlenPow + AtLeast0(0))
      BY WidthsAssumption DEF AtLeast0
    <3> QED
      BY <3>1, Counted
  <2> QED
    BY <2>1 DEF HartOK
<1>2. DOMAIN steps = 1 .. last
  BY DEF MaskBytes
<1>3. ASSUME NEW p \in 1 .. last
      PROVE  /\ steps[p].n \in Nat /\ steps[p].r = i.vd /\ steps[p].k = steps[p].n
             /\ steps[p].at = i.x + steps[p].n
             /\ steps[p].active => steps[p].n \in Changeable(i)
  <2> DEFINE n == vstart + p - 1
  <2>1. n \in Nat /\ n >= vstart
    BY <1>1
  <2>2. /\ steps[p].n = n /\ steps[p].r = i.vd /\ steps[p].k = n /\ steps[p].at = i.x + n
        /\ steps[p].active = (n < (vl + 7) \div 8)
    BY DEF MaskBytes
  <2> DEFINE evl == (vl + 7) \div 8
  <2>3. evl \in Int
    <3>1. vl + 7 \in Nat /\ 8 \in Nat \ {0}
      BY Sizes
    <3> QED
      BY <3>1, Division
  <2>4. Changeable(i) = vstart .. evl - 1
    BY DEF Changeable, ElementZero
  <2> HIDE DEF steps, n, evl
  <2>6. steps[p].active = (n < evl)
    BY <2>2 DEF evl
  <2>5. ASSUME steps[p].active PROVE n \in Changeable(i)
    <3>1. n < evl
      BY <2>5, <2>6, Zenon
    <3> QED
      BY ONLY <1>1, <2>1, <2>3, <2>4, <3>1
  <2> QED
    BY <2>1, <2>2, <2>5
<1>4. CASE last \in Nat
  <2>1. Len(steps) = last
    BY <1>4 DEF MaskBytes
  <2> QED
    BY <1>3, <1>4, <2>1
<1>5. CASE last \notin Nat
  <2>1. 1 .. last = 1 .. 0
    BY <1>1, <1>5
  <2>2. steps = [p \in 1 .. 0 |-> steps[p]]
    BY <2>1 DEF MaskBytes
  <2> HIDE DEF steps
  <2>3. Len([p \in 1 .. 0 |-> steps[p]]) = 0
    OBVIOUS
  <2>4. Len(steps) = 0
    BY <2>2, <2>3
  <2> QED
    BY <2>4 DEF steps
<1> QED
  BY <1>4, <1>5

LEMMA MaskWidth ==
  ASSUME HartOK, NEW i, i.name = "VMTYPE"
  PROVE  DestWidth(i) = 8 /\ Unstaged(8)
<1>1. 2^3 # 2^DoublePow
  BY WidthsAssumption, NotDouble
<1>2. 2^3 = 8
  OBVIOUS
<1>3. DestWidth(i) = 8
  BY DEF DestWidth, WidensResult, MakesMask, OwnWidth
<1> QED
  BY <1>1, <1>2, <1>3 DEF Unstaged

LEMMA HarmlessMaskLoad ==
  ASSUME HartOK, NEW i, Encoded(i), i.name = "VMTYPE"
  PROVE  Harmless(i, Loads(MaskBytes(i), 1))
<1> DEFINE steps == MaskBytes(i)
           byte == 1
<1>1. DestWidth(i) = 8 /\ Unstaged(8 * byte)
  BY MaskWidth
<1>2. PICK m \in Nat \ {0} : VLEN = (8 * byte) * m
  <2>1. 3 \in 3 .. 6 /\ 2^3 = 8
    OBVIOUS
  <2> QED
    BY <2>1, ElementBytes
<1>3. ASSUME NEW p \in 1 .. Len(steps) PROVE LoadsBody(i, steps[p], 8 * byte)
  <2> DEFINE n == steps[p].n
  <2>1. /\ n \in Nat /\ steps[p].r = i.vd /\ steps[p].k = n
        /\ steps[p].active => n \in Changeable(i)
    BY MaskSteps
  <2> HIDE DEF steps, n
  <2>2. i.nf \in Nat \ {0} /\ i.vd \in Nat /\ 0 \in 0 .. i.nf - 1
    BY ONLY Encoded(i), WidthsAssumption, FieldValues, SMTT(20)
  <2>3. ASSUME steps[p].active, NEW c \in 0 .. 8 * byte - 1
        PROVE  Place(i.vd, n, 8, c) \in ChangeableBits(i)
    <3>1. Group(LMUL) \in Int
      <4>1. LMUL \in Int
        BY Sizes
      <4> QED
        BY <4>1, GroupTyped
    <3>2. i.vd + 0 * Group(LMUL) = i.vd /\ c \in 0 .. 8 - 1
      BY <2>2, <3>1
    <3>3. i.name \notin OwnWidth /\ i.name \notin WholeRegister
      BY DEF OwnWidth, WholeRegister
    <3>4. n \in Changeable(i)
      BY <2>1, <2>3
    <3>5. ((i.vd + 0 * Group(LMUL)) * VLEN + n * DestWidth(i) + c) % (NumRegs * VLEN)
            \in ChangeableBits(i)
      <4>1. ChangeableBits(i) =
              {((i.vd + j * Group(LMUL)) * VLEN + k * DestWidth(i) + b) % (NumRegs * VLEN) :
                 j \in 0 .. i.nf - 1, k \in Changeable(i), b \in 0 .. DestWidth(i) - 1}
        BY <3>3 DEF ChangeableBits
      <4>2. c \in 0 .. DestWidth(i) - 1
        BY <1>1, <3>2
      <4> QED
        BY ONLY <2>2, <3>4, <4>1, <4>2
    <3> QED
      BY <1>1, <3>2, <3>5 DEF Place
  <2> QED
    BY <2>1, <2>2, <2>3 DEF LoadsBody, n
<1>4. Len(steps) \in Nat
  BY MaskSteps
<1>5. byte \in Nat \ {0}
  OBVIOUS
<1> HIDE DEF steps, byte
<1>6. Harmless(i, Loads(steps, byte))
  BY <1>1, <1>2, <1>3, <1>4, <1>5, LoadsKeep
<1> QED
  BY <1>6 DEF steps, byte

LEMMA StoredMask ==
  ASSUME HartOK, NEW i, Encoded(i), i.name = "VMTYPE"
  PROVE  Stored(i, Stores(MaskBytes(i), 1))
<1> DEFINE steps == MaskBytes(i)
           byte == 1
<1>1. DestWidth(i) = 8
  BY MaskWidth
<1>2. ASSUME NEW p \in 1 .. Len(steps) PROVE StoresBody(i, steps[p], 8 * byte)
  <2> DEFINE n == steps[p].n
  <2>1. /\ n \in Nat /\ steps[p].at = i.x + n
        /\ steps[p].active => n \in Changeable(i)
    BY MaskSteps
  <2> HIDE DEF steps, n
  <2>2. i.x \in Int /\ i.nf \in Nat \ {0} /\ 0 \in 0 .. i.nf - 1
    BY ONLY Encoded(i), FieldValues
  <2>3. Address(i, n, 0) = steps[p].at
    BY <2>1 DEF Address, Indexes
  <2>4. ASSUME steps[p].active, NEW c \in 0 .. 8 * byte - 1
        PROVE  8 * steps[p].at + c \in ChangeableMemory(i)
    <3> DEFINE fields == IF i.name \in WholeRegister THEN 1 ELSE i.nf
    <3>1. c \in 0 .. DestWidth(i) - 1 /\ n \in Changeable(i)
      BY <1>1, <2>1, <2>4
    <3>2. 0 \in 0 .. fields - 1
      BY <2>2
    <3>3. 8 * Address(i, n, 0) + c \in ChangeableMemory(i)
      <4>1. ChangeableMemory(i) =
              {8 * Address(i, q, f) + b :
                 f \in 0 .. fields - 1, q \in Changeable(i), b \in 0 .. DestWidth(i) - 1}
        BY DEF ChangeableMemory
      <4> HIDE DEF fields
      <4> QED
        BY ONLY <3>1, <3>2, <4>1
    <3> QED
      BY <2>3, <3>3
  <2>5. steps[p].at \in Int
    BY <2>1, <2>2
  <2> QED
    BY <2>1, <2>4, <2>5 DEF StoresBody, n
<1>3. Len(steps) \in Nat
  BY MaskSteps
<1>4. byte \in Nat \ {0}
  OBVIOUS
<1> HIDE DEF steps, byte
<1>5. Stored(i, Stores(steps, byte))
  BY <1>2, <1>3, <1>4, StoresKeep
<1> QED
  BY <1>5 DEF steps, byte

\* An index is a number, whatever its bits are.
LEMMA NumberTyped ==
  ASSUME NEW value, NEW w \in Nat PROVE Number(value, w) \in Int
<1> DEFINE Bit(n) == IF n =< 30 /\ value[n - 1] = 1 THEN 2^(n - 1) ELSE 0
           Upto(m, f) == f = [n \in 0 .. m |-> IF n = 0 THEN 0 ELSE f[n - 1] + Bit(n)]
           G == {m \in 0 .. w : \E f : Upto(m, f)}
<1>0. \A n \in 1 .. w : Bit(n) \in Int
  <2>1. \A m \in Nat : 2^m \in Int
    OBVIOUS
  <2>2. \A n \in 1 .. w : n - 1 \in Nat
    OBVIOUS
  <2> QED
    BY <2>1, <2>2
<1> HIDE DEF Bit
<1>1. 0 \in G
  <2>1. Upto(0, [n \in 0 .. 0 |-> 0])
    OBVIOUS
  <2> HIDE DEF Upto
  <2> QED
    BY <2>1
<1>2. ASSUME NEW m \in 0 .. w - 1, m \in G PROVE m + 1 \in G
  <2>1. PICK f : Upto(m, f)
    BY <1>2
  <2> DEFINE h == [n \in 0 .. m + 1 |-> IF n = 0 THEN 0 ELSE f[n - 1] + Bit(n)]
  <2>2. ASSUME NEW n \in 0 .. m PROVE h[n] = f[n]
    <3>1. n \in 0 .. m + 1
      OBVIOUS
    <3>2. f[n] = IF n = 0 THEN 0 ELSE f[n - 1] + Bit(n)
      BY <2>1, Zenon
    <3>3. h[n] = IF n = 0 THEN 0 ELSE f[n - 1] + Bit(n)
      BY <3>1, Zenon
    <3> QED
      BY <3>2, <3>3, Zenon
  <2>3. \A n \in 0 .. m + 1 : n # 0 => n - 1 \in 0 .. m
    OBVIOUS
  <2>4. Upto(m + 1, h)
    <3>1. h = [n \in 0 .. m + 1 |-> IF n = 0 THEN 0 ELSE h[n - 1] + Bit(n)]
      BY <2>2, <2>3
    <3> QED
      BY <3>1
  <2> HIDE DEF h, Upto
  <2>5. m + 1 \in 0 .. w
    OBVIOUS
  <2> QED
    BY <2>4, <2>5
<1>3. w \in G
  <2> HIDE DEF G
  <2>1. \A m \in 0 .. w : m \in G
    BY <1>1, <1>2, UpTo
  <2> QED
    BY <2>1
<1> DEFINE low == CHOOSE f : Upto(w, f)
<1>4. Upto(w, low)
  BY <1>3
<1>5. Number(value, w) = low[w]
  BY DEF Number, Bit
<1> HIDE DEF low
<1>6. ASSUME NEW n \in 0 .. w PROVE low[n] = IF n = 0 THEN 0 ELSE low[n - 1] + Bit(n)
  BY <1>4, Zenon
<1> DEFINE T == {n \in 0 .. w : low[n] \in Int}
<1>7. 0 \in T
  BY <1>6
<1>8. ASSUME NEW n \in 0 .. w - 1, n \in T PROVE n + 1 \in T
  <2>1. n + 1 \in 1 .. w /\ n + 1 \in 0 .. w /\ n + 1 # 0 /\ (n + 1) - 1 = n
    OBVIOUS
  <2>2. low[n + 1] = low[n] + Bit(n + 1)
    BY <1>6, <2>1
  <2> QED
    BY <1>0, <1>8, <2>1, <2>2
<1>9. w \in T
  <2> HIDE DEF T
  <2>1. \A n \in 0 .. w : n \in T
    BY <1>7, <1>8, UpTo
  <2> QED
    BY <2>1
<1> QED
  BY <1>5, <1>9

LEMMA IndexedFields ==
  ASSUME HartOK, NEW i, Encoded(i), NEW k
  PROVE  \E offset \in Int : \A j \in Nat : Indexed(i, k, j) = j * Bytes(SEW) + offset
<1> DEFINE size == 2^i.width
           n == Number(Elem(i.vs2, size, k), size)
           top == IF size < 30 THEN size ELSE 30
           offset == IF Elem(i.vs2, size, k)[size - 1] = 1 THEN n - 2^top ELSE n
<1>1. i.width \in 0 .. VlenPow + 11
  BY WidthsAssumption DEF Encoded
<1>2. size \in Nat
  BY <1>1, Powers
<1>3. n \in Int
  BY <1>2, NumberTyped
<1>4. 2^top \in Int
  <2>1. top \in Nat
    BY <1>2
  <2> HIDE DEF top
  <2> QED
    BY <2>1
<1>5. \A j \in Nat : Indexed(i, k, j) = j * Bytes(SEW) + offset
  BY DEF Indexed
<1>6. offset \in Int
  <2> HIDE DEF n, top, size
  <2> QED
    BY <1>3, <1>4
<1> HIDE DEF offset
<1> QED
  BY <1>5, <1>6

LEMMA IndexedTyped ==
  ASSUME HartOK, NEW i, Encoded(i), NEW k, NEW j \in Nat PROVE Indexed(i, k, j) \in Int
<1>1. j * Bytes(SEW) \in Int
  <2>1. Bytes(SEW) \in Nat
    BY Sizes, ElementBytes
  <2> QED
    BY <2>1
<1> QED
  BY <1>1, IndexedFields

\* Steps of a store over the nf fields of n segments.
StoreWalks(i, steps, n, mask) ==
  /\ Len(steps) = n * i.nf
  /\ \A p \in 1 .. n * i.nf :
       LET k == (p - 1) \div i.nf
           j == (p - 1) % i.nf
       IN  /\ steps[p].n = k /\ steps[p].active = (k \in mask)
           /\ steps[p].at = Address(i, k, j)

LEMMA WalkedStores ==
  ASSUME HartOK, NEW i, Encoded(i), NEW w \in 3 .. 6, DestWidth(i) = 2^w,
         i.name \notin WholeRegister,
         NEW n \in Nat, NEW mask, i.name # "VSSEGTYPE" => mask \subseteq Changeable(i),
         \A k, j \in Nat : i.name # "VSSEGTYPE" => Address(i, k, j) \in Int,
         NEW steps, StoreWalks(i, steps, n, mask)
  PROVE  Stored(i, Stores(steps, Bytes(w)))
<1>1. Bytes(w) \in Nat \ {0} /\ 8 * Bytes(w) = 2^w
  BY ElementBytes
<1>2. i.nf \in Nat \ {0} /\ n * i.nf \in Nat
  BY DEF Encoded
<1>3. ASSUME NEW p \in 1 .. n * i.nf PROVE StoresBody(i, steps[p], 2^w)
  <2> DEFINE k == (p - 1) \div i.nf
             j == (p - 1) % i.nf
  <2>1. p - 1 \in Nat
    BY <1>2
  <2>2. k \in Nat /\ j \in 0 .. i.nf - 1 /\ j \in Nat
    <3>1. k \in Nat /\ j \in 0 .. i.nf - 1
      BY ONLY <1>2, <2>1, Division
    <3> HIDE DEF k, j
    <3> QED
      BY <1>2, <3>1
  <2>3. steps[p].n = k /\ steps[p].active = (k \in mask) /\ steps[p].at = Address(i, k, j)
    BY DEF StoreWalks
  <2> HIDE DEF k, j
  <2>4. ASSUME k \in mask, i.name # "VSSEGTYPE", NEW c \in 0 .. 2^w - 1
        PROVE  8 * Address(i, k, j) + c \in ChangeableMemory(i)
    <3>1. k \in Changeable(i)
      BY <2>4
    <3>2. ChangeableMemory(i) =
            {8 * Address(i, q, f) + b :
               f \in 0 .. i.nf - 1, q \in Changeable(i), b \in 0 .. 2^w - 1}
      BY DEF ChangeableMemory
    <3> QED
      BY ONLY <2>2, <3>1, <3>2, c \in 0 .. 2^w - 1
  <2>5. i.name # "VSSEGTYPE" => steps[p].at \in Int
    BY <2>2, <2>3
  <2> QED
    BY <2>2, <2>3, <2>4, <2>5 DEF StoresBody
<1>4. \A p \in 1 .. Len(steps) : StoresBody(i, steps[p], 8 * Bytes(w))
  BY <1>1, <1>3 DEF StoreWalks
<1>5. Len(steps) \in Nat
  BY <1>2 DEF StoreWalks
<1> QED
  BY <1>1, <1>4, <1>5, StoresKeep

LEMMA StoredSegmentStores ==
  ASSUME HartOK, NEW i, Encoded(i)
  PROVE  /\ i.name = "VSSEGTYPE" => Stored(i, VSSEGTYPE(i))
         /\ i.name = "VSSSEGTYPE" => Stored(i, VSSSEGTYPE(i))
         /\ i.name \in {"VSUXSEGTYPE", "VSOXSEGTYPE"} => Stored(i, VSUXSEGTYPE(i))
<1> DEFINE own == Elements(i)
<1>0. i.nf \in Nat /\ i.x \in Int /\ i.stride \in Int
  BY DEF Encoded
<1>1. ASSUME i.name \in {"VSSEGTYPE", "VSSSEGTYPE"}, NEW steps, NEW mask,
             i.name # "VSSEGTYPE" => mask = Selected(i),
             ~(i.width > VlenPow + AtLeast0(EMUL(i))),
             own \in Nat => StoreWalks(i, steps, own, mask)
      PROVE  Stored(i, Stores(steps, Bytes(i.width)))
  <2>1. own \in Nat
    BY <1>1, MemoryOperands, Counted DEF Elements
  <2>2. DestWidth(i) = 2^i.width /\ i.name \notin WholeRegister /\ i.width \in 3 .. 6
    BY <1>1, MemoryOperands DEF DestWidth, WidensResult, MakesMask, OwnWidth, WholeRegister
  <2>3. i.name # "VSSEGTYPE" => Selected(i) \subseteq Changeable(i)
    BY <1>1, MemoryOperands DEF Changeable, ElementZero, Selects
  <2>4. ASSUME NEW k \in Nat, NEW j \in Nat, i.name # "VSSEGTYPE" PROVE Address(i, k, j) \in Int
    <3>1. Bytes(i.width) \in Nat
      BY <2>2, ElementBytes
    <3>2. k * i.stride \in Int /\ j * Bytes(i.width) \in Int
      BY <1>0, <3>1
    <3>3. Address(i, k, j) = i.x + (k * i.stride + j * Bytes(i.width))
      BY <1>1, <2>4 DEF Address, Indexes, Strided
    <3> QED
      BY <1>0, <3>2, <3>3
  <2>5. StoreWalks(i, steps, own, mask)
    BY <1>1, <2>1
  <2>6. i.name # "VSSEGTYPE" => mask \subseteq Changeable(i)
    BY <1>1, <2>3
  <2> HIDE DEF own
  <2> QED
    BY <2>1, <2>2, <2>4, <2>5, <2>6, WalkedStores
<1>2. ASSUME i.name = "VSSEGTYPE" PROVE Stored(i, VSSEGTYPE(i))
  <2> DEFINE steps == Segments(i, own, EMUL(i), Unmasked(i), LAMBDA k, j : UnitStride(i, k, j))
  <2>1. own \in Nat => StoreWalks(i, steps, own, Unmasked(i))
    BY <1>0, <1>2 DEF Segments, StoreWalks, Address, Indexes
  <2>2. VSSEGTYPE(i) = Segmented(i, EMUL(i), i.width, illegal_store(i.nf, i.width, EMUL(i)),
                                 TRUE, Stores(steps, Bytes(i.width)))
    BY DEF VSSEGTYPE, StoreSegments
  <2> HIDE DEF steps, own
  <2> QED
    BY <1>1, <1>2, <2>1, <2>2, StoredSegmented
<1>3. ASSUME i.name = "VSSSEGTYPE" PROVE Stored(i, VSSSEGTYPE(i))
  <2> DEFINE steps == Segments(i, own, EMUL(i), Selected(i), LAMBDA k, j : Strided(i, k, j))
  <2>1. own \in Nat => StoreWalks(i, steps, own, Selected(i))
    BY <1>0, <1>3 DEF Segments, StoreWalks, Address, Indexes
  <2>2. VSSSEGTYPE(i) = Segmented(i, EMUL(i), i.width, illegal_store(i.nf, i.width, EMUL(i)),
                                  TRUE, Stores(steps, Bytes(i.width)))
    BY DEF VSSSEGTYPE, StoreSegments
  <2> HIDE DEF steps, own
  <2> QED
    BY <1>1, <1>3, <2>1, <2>2, StoredSegmented
<1>4. ASSUME i.name \in {"VSUXSEGTYPE", "VSOXSEGTYPE"} PROVE Stored(i, VSUXSEGTYPE(i))
  <2> DEFINE steps == IndexedSegments(i)
  <2>1. NumElem \in Nat => StoreWalks(i, steps, NumElem, Active(i))
    BY <1>0, <1>4 DEF Segments, IndexedSegments, StoreWalks, Address, Indexes
  <2>2. DestWidth(i) = 2^SEW /\ i.name \notin WholeRegister /\ SEW \in 3 .. 6
    BY <1>4, MemoryOperands DEF DestWidth, WidensResult, MakesMask, OwnWidth, WholeRegister, Width
  <2>3. Active(i) \subseteq Changeable(i)
    BY <1>4, MemoryOperands DEF Changeable, ElementZero, Selects
  <2>4. ASSUME NEW k \in Nat, NEW j \in Nat PROVE Address(i, k, j) \in Int
    <3>1. Indexed(i, k, j) \in Int
      BY IndexedTyped
    <3>2. Address(i, k, j) = i.x + Indexed(i, k, j)
      BY <1>4 DEF Address, Indexes
    <3> QED
      BY <1>0, <3>1, <3>2
  <2> HIDE DEF steps
  <2>5. ASSUME ~(SEW > VlenPow + AtLeast0(LMUL)) PROVE Stored(i, Stores(steps, Bytes(SEW)))
    <3>1. NumElem \in Nat
      BY <2>5, MemoryOperands, Counted DEF NumElem
    <3>2. StoreWalks(i, steps, NumElem, Active(i))
      BY <2>1, <3>1
    <3> QED
      BY <2>2, <2>3, <2>4, <3>1, <3>2, WalkedStores
  <2> QED
    BY <2>5, StoredSegmented DEF VSUXSEGTYPE, steps
<1> QED
  BY <1>2, <1>3, <1>4

LEMMA StoredWhole ==
  ASSUME HartOK, NEW i, Encoded(i), i.name = "VSRETYPE"
  PROVE  Stored(i, VSRETYPE(i))
<1> DEFINE epr == VLEN \div 2^3
           steps == WholeRegisters(i, 3)
           len == i.nf * epr - vstart
           byte == 1
<1>1. i.nf \in Nat \ {0} /\ vstart \in Nat /\ i.x \in Int
  BY DEF Encoded, HartOK
<1>2. 2^3 = 8 /\ Bytes(3) = 1
  BY DEF Bytes
<1>3. epr \in Nat
  <2>1. VLEN \in Nat /\ 8 \in Nat \ {0}
    BY Sizes
  <2> QED
    BY <1>2, <2>1, Division
<1>4. DestWidth(i) = 8
  BY DEF DestWidth, WidensResult, MakesMask, OwnWidth
<1>5. Changeable(i) = vstart .. i.nf * epr - 1
  BY <1>2, <1>4 DEF Changeable, ElementZero
<1> HIDE DEF epr
<1>6. i.nf * epr \in Nat
  BY <1>1, <1>3
<1>7. ASSUME ~(vstart >= i.nf * epr) PROVE Stored(i, Stores(steps, byte))
  <2>0. len \in Nat
    BY <1>1, <1>6, <1>7
  <2>1. Len(steps) = len
    BY <2>0 DEF WholeRegisters, epr
  <2>2. ASSUME NEW p \in 1 .. len PROVE StoresBody(i, steps[p], 8 * byte)
    <3> DEFINE n == vstart + p - 1
    <3>1. n \in Changeable(i) /\ n \in Nat
      BY <1>1, <1>5, <1>6
    <3>2. steps[p].n = n /\ steps[p].at = i.x + n
      <4>1. steps[p].n = n /\ steps[p].at = i.x + n * Bytes(3)
        BY DEF WholeRegisters, epr
      <4> QED
        BY <1>2, <3>1, <4>1
    <3>3. Address(i, n, 0) = steps[p].at
      BY <3>2 DEF Address, Indexes
    <3> HIDE DEF n, steps
    <3>4. ASSUME NEW c \in 0 .. 8 * byte - 1 PROVE 8 * steps[p].at + c \in ChangeableMemory(i)
      <4>1. ChangeableMemory(i) =
              {8 * Address(i, q, f) + b : f \in 0 .. 1 - 1, q \in Changeable(i), b \in 0 .. 8 - 1}
        BY <1>4 DEF ChangeableMemory, WholeRegister
      <4>2. c \in 0 .. 8 - 1 /\ 0 \in 0 .. 1 - 1
        OBVIOUS
      <4> QED
        BY ONLY <3>1, <3>3, <4>1, <4>2
    <3>5. steps[p].at \in Int
      BY <1>1, <3>1, <3>2
    <3> QED
      BY <3>1, <3>2, <3>4, <3>5 DEF StoresBody
  <2>3. byte \in Nat \ {0}
    OBVIOUS
  <2> HIDE DEF steps, len, byte
  <2>4. Len(steps) \in Nat /\ \A p \in 1 .. Len(steps) : StoresBody(i, steps[p], 8 * byte)
    BY <2>0, <2>1, <2>2
  <2> QED
    BY <2>3, <2>4, StoresKeep
<1> HIDE DEF steps
<1> QED
  BY <1>2, <1>7, StoredEnds DEF VSRETYPE, Whole, steps, epr

-----------------------------------------------------------------------------
(* What an instruction leaves.                                             *)

\* The instructions of a plain program (PlainProgram).
Plain(i) ==
  /\ i.name # "VLSEGFFTYPE"
  /\ xlen = 32 => /\ i.name \in {"VLSEGTYPE", "VLSSEGTYPE", "VLRETYPE"} => i.width # DoublePow
                  /\ i.name \notin {"VLUXSEGTYPE", "VLOXSEGTYPE"}

\* The hart that is left is one as HartOK says.
Left(o) ==
  /\ DOMAIN o.v = Positions
  /\ o.vtype \in Types /\ o.vtype.sew =< o.vtype.lmul + ElenPow
  /\ o.vl \in 0 .. VLMAXof(o.vtype) /\ o.vstart \in Nat

\* It differs from the hart before in no more than what i may change.
BodyOnly(i, o) ==
  /\ Within(i, o.v)
  /\ i.name # "VSSEGTYPE" /\ o.mem # mem =>
       /\ i.name \in {"VSSSEGTYPE", "VSUXSEGTYPE", "VSOXSEGTYPE", "VSRETYPE", "VMTYPE"}
       /\ \A b \in DOMAIN mem : o.mem[b] # mem[b] => b \in ChangeableMemory(i)

LEMMA HarmlessLeaves ==
  ASSUME HartOK, NEW i, NEW o, Harmless(i, o) PROVE Left(o) /\ BodyOnly(i, o)
BY DEF HartOK, Harmless, Left, BodyOnly, SEW, LMUL, VLMAX

LEMMA StoredLeaves ==
  ASSUME HartOK, NEW i, NEW o, Stored(i, o),
         i.name \in {"VSSEGTYPE", "VSSSEGTYPE", "VSUXSEGTYPE", "VSOXSEGTYPE", "VSRETYPE", "VMTYPE"}
  PROVE  Left(o) /\ BodyOnly(i, o)
BY DEF HartOK, Stored, Left, BodyOnly, Within, SEW, LMUL, VLMAX

LEMMA MemoryLeaves ==
  ASSUME HartOK, NEW i, Encoded(i), i.file = "mem", Plain(i)
  PROVE  Left(MemoryAccess(i)) /\ BodyOnly(i, MemoryAccess(i))
<1>1. i.name \in Clauses.mem
  BY DEF Encoded, Clauses
<1>2. ASSUME i.name \in {"VLSEGTYPE", "VLSSEGTYPE", "VLRETYPE"} PROVE Unstaged(2^i.width)
  BY <1>2, NotDouble DEF Unstaged, Plain, Encoded
<1>3. CASE i.name \in {"VLSEGTYPE", "VLSSEGTYPE", "VLUXSEGTYPE", "VLOXSEGTYPE", "VLRETYPE"}
  <2>1. i.name \in {"VLUXSEGTYPE", "VLOXSEGTYPE"} => xlen # 32
    BY DEF Plain
  <2>2. Harmless(i, MemoryAccess(i))
    BY <1>2, <1>3, <2>1, HarmlessSegmentLoads, HarmlessWholeLoad DEF MemoryAccess, VLOXSEGTYPE
  <2> QED
    BY <2>2, HarmlessLeaves
<1>4. CASE i.name \in {"VSSEGTYPE", "VSSSEGTYPE", "VSUXSEGTYPE", "VSOXSEGTYPE", "VSRETYPE"}
  <2>1. Stored(i, MemoryAccess(i))
    BY <1>4, StoredSegmentStores, StoredWhole DEF MemoryAccess, VSOXSEGTYPE
  <2> QED
    BY <1>4, <2>1, StoredLeaves
<1>5. CASE i.name = "VMTYPE"
  <2>1. MemoryAccess(i) = VMTYPE(i)
    BY <1>5 DEF MemoryAccess
  <2>2. Harmless(i, Illegal) /\ Harmless(i, Loads(MaskBytes(i), 1))
        /\ Stored(i, Stores(MaskBytes(i), 1))
    BY <1>5, HarmlessEnds, HarmlessMaskLoad, StoredMask
  <2> QED
    BY <1>5, <2>1, <2>2, HarmlessLeaves, StoredLeaves DEF VMTYPE
<1> QED
  BY <1>1, <1>3, <1>4, <1>5 DEF Clauses, Plain

\* What vsetvl and its like leave: the registers and memory are as they were.
Configured(o) == o.v = v /\ o.mem = mem /\ Left(o)

LEMMA NewLength ==
  ASSUME NEW AVL \in Nat, NEW vlmax \in Nat \ {0} PROVE calculate_new_vl(AVL, vlmax) \in 0 .. vlmax
<1>1. CASE AVL =< vlmax
  BY <1>1 DEF calculate_new_vl
<1>2. CASE ~(AVL =< vlmax) /\ AVL < 2 * vlmax
  BY <1>2 DEF calculate_new_vl
<1>3. CASE ~(AVL =< vlmax) /\ ~(AVL < 2 * vlmax)
  BY <1>3 DEF calculate_new_vl
<1> QED
  BY <1>1, <1>2, <1>3

LEMMA NoType == ASSUME HartOK PROVE Configured(handle_illegal_vtype)
<1> DEFINE none == [vill |-> TRUE, vta |-> FALSE, sew |-> 3, lmul |-> 0]
<1>1. none \in Types /\ none.sew =< none.lmul + ElenPow
  BY WidthsAssumption DEF Types
<1>2. VLMAXof(none) \in Nat \ {0}
  BY <1>1, VlmaxPositive
<1>3. 0 \in 0 .. VLMAXof(none)
  BY <1>2
<1> HIDE DEF none
<1>4. handle_illegal_vtype = [Now EXCEPT !.vtype = none, !.vl = 0]
  BY DEF handle_illegal_vtype, none
<1> QED
  BY <1>1, <1>3, <1>4 DEF Configured, Left, HartOK, Now

LEMMA TypeSet ==
  ASSUME HartOK, NEW type \in [vill : BOOLEAN, vta : BOOLEAN, sew : 3 .. 10, lmul : -4 .. 3],
         NEW length, NEW result,
         type \in Types /\ type.sew =< type.lmul + ElenPow => length \in 0 .. VLMAXof(type)
  PROVE  Configured(SetType(type, length, result))
<1>1. Configured(Abort)
  BY DEF Configured, Left, HartOK, Abort, Now, SEW, LMUL, VLMAX
<1>2. Configured(handle_illegal_vtype)
  BY NoType
<1>3. ASSUME ~Reserved(type), ~(type.sew > type.lmul + ElenPow)
      PROVE  Configured([Now EXCEPT !.vtype = type, !.vl = length, !.x = result, !.vstart = 0])
  <2>1. type \in Types /\ type.sew =< type.lmul + ElenPow
    BY <1>3, WidthsAssumption DEF Reserved, Types
  <2> QED
    BY <2>1 DEF Configured, Left, HartOK, Now
<1> QED
  BY <1>1, <1>2, <1>3 DEF SetType

LEMMA ConfigurationKeeps ==
  ASSUME HartOK, NEW i, Encoded(i), i.file = "vset" PROVE Configured(Configuration(i))
<1> DEFINE type == i.type
           whole == VLMAXof(type)
           stripmined == calculate_new_vl(i.avl, whole)
<1>1. type \in [vill : BOOLEAN, vta : BOOLEAN, sew : 3 .. 10, lmul : -4 .. 3] /\ i.avl \in Nat
  BY DEF Encoded
<1>2. ASSUME type \in Types, type.sew =< type.lmul + ElenPow
      PROVE  whole \in 0 .. whole /\ stripmined \in 0 .. whole
  <2>1. whole \in Nat \ {0}
    BY <1>2, VlmaxPositive
  <2> HIDE DEF whole
  <2> QED
    BY <1>1, <2>1, NewLength
<1>3. \A r : Configured(SetType(type, stripmined, r)) /\ Configured(SetType(type, whole, r))
  <2> HIDE DEF type, whole, stripmined
  <2> QED
    BY <1>1, <1>2, TypeSet DEF whole
<1>4. ASSUME Reserved(type) \/ type.sew - type.lmul = SEW - LMUL
      PROVE  Configured(SetType(type, vl, x))
  <2>1. ASSUME type \in Types PROVE vl \in 0 .. VLMAXof(type)
    <3>1. type.sew \in Int /\ type.lmul \in Int /\ ~Reserved(type) /\ VlenPow \in Int
          /\ SEW \in Int /\ LMUL \in Int
      BY <2>1, Sizes DEF Types, Reserved
    <3>2. VlenPow + type.lmul - type.sew = VlenPow + LMUL - SEW
      BY <1>4, <3>1
    <3> QED
      BY <3>2 DEF HartOK, VLMAX, VLMAXof, SEW, LMUL
  <2> HIDE DEF type
  <2> QED
    BY <1>1, <2>1, TypeSet
<1>5. Configured(handle_illegal_vtype)
  BY NoType
<1>6. Configured(VSETVL(i))
  BY <1>3, <1>4, <1>5 DEF VSETVL
<1>7. Configured(VSETIVLI(i))
  BY <1>3 DEF VSETIVLI
<1>8. Configured(WriteVstart(i))
  <2>1. i.avl % VLEN \in Nat
    <3>1. VLEN \in Nat \ {0}
      BY Sizes
    <3> QED
      BY <1>1, <3>1, Division
  <2> QED
    BY <2>1 DEF WriteVstart, Configured, Left, HartOK, Now, SEW, LMUL, VLMAX
<1>9. i.name \in {"VSETVLI", "VSETVL", "VSETIVLI", "CSRRW"}
  BY DEF Encoded, Clauses
<1> QED
  BY <1>6, <1>7, <1>8, <1>9 DEF Configuration

\* The execute function, all clauses together.
LEMMA ExecuteKeeps ==
  ASSUME HartOK, NEW i, Encoded(i), Plain(i)
  PROVE  Left(execute(i)) /\ BodyOnly(i, execute(i))
<1>1. CASE i.file = "vset"
  <2>1. Configured(execute(i))
    BY <1>1, ConfigurationKeeps DEF execute
  <2> QED
    BY <2>1 DEF Configured, BodyOnly, Within
<1>2. CASE i.file \in {"int", "mask", "fp"}
  <2>1. Harmless(i, execute(i))
    BY <1>2, HarmlessArithmetic, HarmlessMaskOperation, HarmlessFloatingPoint DEF execute
  <2> QED
    BY <2>1, HarmlessLeaves
<1>3. CASE i.file = "mem"
  BY <1>3, MemoryLeaves DEF execute
<1> QED
  BY <1>1, <1>2, <1>3 DEF Encoded, Clauses

-----------------------------------------------------------------------------
(* The theorems.                                                           *)

\* The inductive invariant: the hart is one HartOK describes, and the
\* instruction that is fetched again is one of the program.
FromProgram(i) == \E p \in DOMAIN Code[xlen] : i \in Code[xlen][p]

HartInv == HartOK /\ xlen \in DOMAIN Code /\ (how = "fault" => FromProgram(instr))

LEMMA FetchedPlain ==
  ASSUME PlainProgram, HartInv, NEW i \in Fetched
  PROVE  FromProgram(i) /\ Encoded(i) /\ Plain(i)
<1>1. FromProgram(i)
  BY DEF Fetched, HartInv, FromProgram
<1> QED
  BY <1>1, ProgramAssumption DEF FromProgram, HartInv, PlainProgram, Plain

LEMMA InitHart == ASSUME PagingInit PROVE HartInv
<1> DEFINE none == [vill |-> TRUE, vta |-> FALSE, sew |-> 3, lmul |-> 0]
<1>1. none \in Types /\ none.sew =< none.lmul + ElenPow
  BY WidthsAssumption DEF Types
<1>2. VLMAXof(none) \in Nat \ {0}
  BY <1>1, VlmaxPositive
<1>3. 0 \in 0 .. VLMAXof(none)
  BY <1>2
<1>4. /\ vtype = none /\ vl = 0 /\ vstart = 0 /\ v = InitialRegisters /\ how = "done"
      /\ xlen \in DOMAIN Code
  BY DEF PagingInit, Init
<1> HIDE DEF none
<1> QED
  BY <1>1, <1>3, <1>4, ProgramAssumption DEF HartInv, HartOK, VLMAX, SEW, LMUL

LEMMA StepHart ==
  ASSUME PlainProgram, HartInv, [Next]_vars
  PROVE  HartInv'
<1>1. CASE Execute
  <2>1. PICK i \in Fetched : Retired(i, execute(i))
    BY <1>1 DEF Execute, Step
  <2>2. FromProgram(i) /\ Encoded(i) /\ Plain(i)
    BY FetchedPlain
  <2>3. Left(execute(i))
    BY <2>2, ExecuteKeeps DEF HartInv
  <2>4. /\ instr' = i /\ xlen' = xlen /\ v' = execute(i).v /\ vl' = execute(i).vl
        /\ vtype' = execute(i).vtype /\ vstart' = execute(i).vstart
    BY <2>1 DEF Retired
  <2>5. HartOK'
    BY <2>3, <2>4 DEF HartOK, Left, SEW, LMUL, VLMAX, VLMAXof, Positions, VLEN
  <2> QED
    BY <2>2, <2>4, <2>5 DEF HartInv, FromProgram
<1>2. CASE UNCHANGED hart
  BY <1>2 DEF hart, HartInv, HartOK, FromProgram, SEW, LMUL, VLMAX, VLMAXof, Positions, VLEN
<1> QED
  BY <1>1, <1>2 DEF Next, PageIn, Reclaim, vars

\* vl never exceeds what a register group holds under vtype: whatever a vset
\* instruction, a trap half way or a second start of a load leaves, a legal vtype
\* and vl go together (calculate_new_vl, and the test of the ratio when vl is kept).
THEOREM VlAlwaysFits == PlainProgram => (PagingSpec => []VlFits)
<1> SUFFICES ASSUME PlainProgram PROVE PagingSpec => []VlFits
  OBVIOUS
<1>1. PagingInit => HartInv
  BY InitHart
<1>2. HartInv /\ [Next]_vars => HartInv'
  BY StepHart
<1>3. HartInv => VlFits
  BY DEF HartInv, HartOK, VlFits
<1> QED
  BY <1>1, <1>2, <1>3, PTL DEF PagingSpec

\* No step of the hart changes a register bit or a memory bit that its instruction
\* has no body element at, whether it ends, traps or stops half way (the masks of
\* init_masked_result and init_masked_source, and write_single_element).
THEOREM OnlyTheBodyChanges == PlainProgram => (PagingSpec => OnlyBodyChanges)
<1> SUFFICES ASSUME PlainProgram PROVE PagingSpec => OnlyBodyChanges
  OBVIOUS
<1>1. PagingInit => HartInv
  BY InitHart
<1>2. HartInv /\ [Next]_vars => HartInv'
  BY StepHart
<1>3. HartInv /\ [Next]_vars
        => [instr'.name # "VSSEGTYPE" => ChangesBody(instr')]_<<v, mem>>
  <2> SUFFICES ASSUME HartInv, [Next]_vars, instr'.name # "VSSEGTYPE", <<v, mem>>' # <<v, mem>>
               PROVE  ChangesBody(instr')
    OBVIOUS
  <2>1. Execute
    BY DEF Next, PageIn, Reclaim, vars, hart
  <2>2. PICK i \in Fetched : Retired(i, execute(i))
    BY <2>1 DEF Execute, Step
  <2>3. BodyOnly(i, execute(i))
    BY FetchedPlain, ExecuteKeeps DEF HartInv
  <2>4. instr' = i /\ v' = execute(i).v /\ mem' = execute(i).mem
    BY <2>2 DEF Retired
  <2>5. DOMAIN v = Positions
    BY DEF HartInv, HartOK
  <2>6. i.name # "VSSEGTYPE"
    BY <2>4
  <2>7. ChangesBody(i)
    BY <2>3, <2>4, <2>5, <2>6 DEF ChangesBody, BodyOnly, Within
  <2> QED
    BY <2>4, <2>7
<1> QED
  BY <1>1, <1>2, <1>3, PTL DEF PagingSpec, OnlyBodyChanges

(***************************************************************************)
(* The body of an access.                                                  *)
(***************************************************************************)

\* A group of elements of any width holds as many as vtype's own.
LEMMA GroupHolds ==
  ASSUME HartOK, NEW eew \in 3 .. 6, NEW emul \in -10 .. 10, emul - eew = LMUL - SEW,
         ~(eew > VlenPow + AtLeast0(emul))
  PROVE  /\ get_num_elem(emul, eew) \in Nat /\ VLMAX \in Nat \ {0}
         /\ VLMAX =< get_num_elem(emul, eew)
         /\ IF emul >= 0 THEN get_num_elem(emul, eew) = VLMAX
                         ELSE get_num_elem(emul, eew) \div 2^(-emul) = VLMAX
         /\ get_num_elem(emul, eew) * 2^eew = Group(emul) * VLEN
         /\ 2^eew \in Nat \ {0} /\ Group(emul) \in Nat \ {0}
<1> DEFINE n == get_num_elem(emul, eew)
           m == VlenPow + LMUL - SEW
           a == AtLeast0(emul)
<1>0. VlenPow \in Nat /\ SEW \in 3 .. 6 /\ LMUL \in -3 .. 3 /\ VlenPow >= 6
  BY Sizes, WidthsAssumption
<1>1. m \in 0 .. VlenPow + 11 /\ m \in Nat
  BY <1>0, WidthsAssumption DEF HartOK
<1>2. a \in 0 .. 10 /\ a \in 0 .. VlenPow + 11 /\ a \in Nat
  BY <1>0 DEF AtLeast0
<1>3. VLMAX = 2^m /\ VLMAX \in Nat \ {0}
  <2>1. VLMAX = 2^m
    BY DEF VLMAX, VLMAXof, LMUL, SEW
  <2> QED
    BY <1>1, <2>1, Powers
<1>4. n = 2^(a + VlenPow - eew) /\ a + VlenPow - eew \in Nat
  BY <1>0, <1>2 DEF get_num_elem
<1>5. 2^eew \in Nat \ {0} /\ Group(emul) = 2^a /\ Group(emul) \in Nat \ {0}
  <2>1. eew \in 0 .. VlenPow + 11
    BY <1>0
  <2> QED
    BY <1>2, <2>1, Powers DEF Group
<1>6. n * 2^eew = Group(emul) * VLEN
  <2>1. (a + VlenPow - eew) + eew = a + VlenPow /\ a + VlenPow =< VlenPow + 11 /\ eew \in Nat
        /\ (a + VlenPow - eew) + eew =< VlenPow + 11
    BY <1>0, <1>2
  <2>2. 2^((a + VlenPow - eew) + eew) = 2^(a + VlenPow - eew) * 2^eew
    BY <1>4, <2>1, PowersAdd
  <2>3. 2^(a + VlenPow) = 2^a * 2^VlenPow
    BY <1>0, <1>2, <2>1, PowersAdd
  <2>4. 2^((a + VlenPow - eew) + eew) = 2^(a + VlenPow)
    BY <2>1
  <2> QED
    BY <1>4, <1>5, <2>2, <2>3, <2>4 DEF VLEN
<1> HIDE DEF n
<1>7. CASE emul >= 0
  <2>1. a = emul /\ a + VlenPow - eew = m
    BY <1>0, <1>7 DEF AtLeast0
  <2> HIDE DEF a, m
  <2>2. n = VLMAX
    BY <1>3, <1>4, <2>1
  <2> QED
    BY <1>3, <1>5, <1>6, <1>7, <2>2 DEF n
<1>8. CASE emul < 0
  <2> DEFINE d == -emul
  <2>1. a = 0 /\ d \in 1 .. 10 /\ d \in Nat /\ a + VlenPow - eew = d + m /\ d + m =< VlenPow + 11
        /\ d \in 0 .. VlenPow + 11
    BY <1>0, <1>8 DEF AtLeast0
  <2> HIDE DEF a, d, m
  <2>2. n = 2^(d + m)
    BY <1>4, <2>1
  <2>3. 2^(d + m) = 2^d * 2^m
    BY <1>1, <2>1, PowersAdd
  <2> DEFINE y == 2^d
  <2>4. y \in Nat \ {0} /\ n = y * VLMAX
    BY <1>3, <2>1, <2>2, <2>3, Powers
  <2>5. n = y * VLMAX + 0 /\ n \in Nat /\ 0 \in 0 .. y - 1 /\ VLMAX =< n
    <3> HIDE DEF y
    <3>1. y * VLMAX \in Nat /\ VLMAX =< y * VLMAX
      BY <1>3, <2>4
    <3> QED
      BY <2>4, <3>1
  <2>6. n \div y = VLMAX
    BY <1>3, <2>4, <2>5, DivisionUnique
  <2> QED
    BY <1>3, <1>5, <1>6, <1>8, <2>5, <2>6 DEF n, d, y
<1> QED
  BY <1>7, <1>8
-----------------------------------------------------------------------------
(* The steps of an access, as elements numbered from the first it passes.  *)

\* The element e is in the registers of its field.
Fits(i, e) == (e \div NumFields(i) + 1) * DestWidth(i) =< FieldRegisters(i) * VLEN

\* The step stores an element of its own field.
StoresOwn(i, s) == IsLoad(i) \/ Unstaged(DestWidth(i)) \/ (s.stages /\ s.first = s.r)

\* Those that the unit-stride stores stage have no other.
StagesFirst(i, steps) ==
  i.name = "VSSEGTYPE" /\ Elements(i) = Slots =>
    \A p \in 1 .. Len(steps) : steps[p].stages /\ steps[p].first = i.vd

Numbered(i, steps, first) ==
  /\ first \in Nat /\ Len(steps) \in Nat
  /\ \A q \in 1 .. Len(steps) :
       LET e == first + q - 1
           s == steps[q]
       IN  /\ s.n = e \div NumFields(i) /\ s.at = ElementAddress(i, e)
           /\ s.active = (e \in AccessedElements(i)) /\ Fits(i, e)
           /\ s.r \in Nat /\ s.k \in Nat
           /\ \A c \in ElementBits(i) : Place(s.r, s.k, DestWidth(i), c) = ElementBit(i, e, c)
  /\ AccessedElements(i) \subseteq first .. first + Len(steps) - 1
  /\ StoresStale(i) \/ \A q \in 1 .. Len(steps) : StoresOwn(i, steps[q])

LEMMA FieldsTyped ==
  ASSUME NEW i, Encoded(i)
  PROVE  NumFields(i) \in 1 .. 8 /\ NumFields(i) \in Nat \ {0}
BY DEF Encoded, NumFields

LEMMA ElementsOf ==
  ASSUME NEW i, Encoded(i), Accessed(i) \subseteq Nat
  PROVE  /\ AccessedElements(i) \subseteq Nat
         /\ \A e \in Nat : (e \in AccessedElements(i)) = (e \div NumFields(i) \in Accessed(i))
<1> DEFINE nf == NumFields(i)
<1>1. nf \in Nat \ {0}
  BY FieldsTyped
<1>2. \A k \in Nat, j \in Nat : k * nf + j \in Nat
  BY <1>1
<1>3. AccessedElements(i) \subseteq Nat
  BY <1>1, <1>2 DEF AccessedElements
<1>4. ASSUME NEW e \in Nat, e \in AccessedElements(i) PROVE e \div nf \in Accessed(i)
  <2>1. PICK k \in Accessed(i), j \in 0 .. nf - 1 : e = k * nf + j
    BY <1>4 DEF AccessedElements
  <2> HIDE DEF nf
  <2>2. e = nf * k + j /\ k \in Nat
    BY <1>1, <2>1
  <2>3. e \div nf = k
    BY <1>1, <2>2, DivisionUnique
  <2> QED
    BY <2>1, <2>3
<1>5. ASSUME NEW e \in Nat, e \div nf \in Accessed(i) PROVE e \in AccessedElements(i)
  <2> DEFINE k == e \div nf
             j == e % nf
  <2>1. k \in Nat /\ j \in 0 .. nf - 1 /\ e = nf * k + j
    BY <1>1, Division
  <2> HIDE DEF nf, k, j
  <2>2. e = k * nf + j
    BY <1>1, <2>1
  <2> QED
    BY <1>5, <2>1, <2>2 DEF AccessedElements, nf, k
<1> QED
  BY <1>3, <1>4, <1>5

\* A loop over the fields of n segments.
LEMMA SegmentsNumbered ==
  ASSUME HartOK, NEW i, Encoded(i), i.name \notin WholeRegister \cup {"VMTYPE"},
         NEW n \in Nat, Accessed(i) \subseteq 0 .. n - 1, DataGroup(i) \in Nat,
         DestWidth(i) \in Nat, n * DestWidth(i) =< DataGroup(i) * VLEN, NEW steps, Len(steps) = n * i.nf,
         \A p \in 1 .. n * i.nf :
           LET k == (p - 1) \div i.nf
               j == (p - 1) % i.nf
           IN  /\ steps[p].n = k /\ steps[p].k = k /\ steps[p].at = Address(i, k, j)
               /\ steps[p].r = (i.vd + j * DataGroup(i)) % NumRegs
               /\ steps[p].active = (k \in Accessed(i)),
         StagesFirst(i, steps)
  PROVE  Numbered(i, steps, 0)
<1>1. NumFields(i) = i.nf /\ i.nf \in Nat \ {0} /\ i.vd \in Nat
  <2>1. NumFields(i) = i.nf
    BY DEF NumFields
  <2>2. i.nf \in Nat \ {0} /\ i.vd \in Nat
    BY ONLY Encoded(i), WidthsAssumption, FieldValues
  <2> QED
    BY ONLY <2>1, <2>2
<1>2. n * i.nf \in Nat /\ FieldRegisters(i) = DataGroup(i)
  BY <1>1 DEF FieldRegisters
<1>3. /\ AccessedElements(i) \subseteq Nat
      /\ \A e \in Nat : (e \in AccessedElements(i)) = (e \div i.nf \in Accessed(i))
  <2>1. Accessed(i) \subseteq Nat
    OBVIOUS
  <2> QED
    BY <1>1, <2>1, ElementsOf
<1>4. ASSUME NEW q \in 1 .. n * i.nf
      PROVE  LET e == 0 + q - 1
                 s == steps[q]
             IN  /\ s.n = e \div NumFields(i) /\ s.at = ElementAddress(i, e)
                 /\ s.active = (e \in AccessedElements(i)) /\ Fits(i, e)
                 /\ s.r \in Nat /\ s.k \in Nat
                 /\ \A c \in ElementBits(i) : Place(s.r, s.k, DestWidth(i), c) = ElementBit(i, e, c)
  <2> DEFINE e == q - 1
             k == e \div i.nf
             j == e % i.nf
             r == i.vd + j * DataGroup(i)
             w == DestWidth(i)
  <2>1. e \in Nat /\ 0 + q - 1 = e
    BY <1>2
  <2>2. k \in Nat /\ j \in Nat
    <3>1. k \in Nat /\ j \in 0 .. i.nf - 1
      BY ONLY <1>1, <2>1, Division
    <3> HIDE DEF k, j
    <3> QED
      BY <1>1, <3>1
  <2>3. /\ steps[q].n = k /\ steps[q].k = k /\ steps[q].at = Address(i, k, j)
        /\ steps[q].r = r % NumRegs /\ steps[q].active = (k \in Accessed(i))
    OBVIOUS
  <2>4. r \in Nat
    <3> DEFINE g == DataGroup(i)
    <3>1. g \in Nat
      OBVIOUS
    <3> HIDE DEF j, g
    <3>2. j * g \in Nat
      BY <2>2, <3>1
    <3> QED
      BY <1>1, <3>2 DEF g
  <2>5. r % NumRegs \in Nat
    <3> HIDE DEF r
    <3>1. NumRegs \in Nat \ {0}
      BY Sizes
    <3> QED
      BY <2>4, <3>1, Division
  <2>6. ASSUME NEW c \in ElementBits(i) PROVE Place(r % NumRegs, k, w, c) = ElementBit(i, e, c)
    <3>1. c \in Nat
      BY DEF ElementBits
    <3> HIDE DEF k, r
    <3>2. Place(r % NumRegs, k, w, c) = Place(r, k, w, c)
      BY <2>2, <2>4, <3>1, PlaceWraps
    <3> QED
      BY <1>1, <3>2 DEF Place, ElementBit, r, k
  <2>7. ElementAddress(i, e) = Address(i, k, j)
    BY <1>1 DEF ElementAddress
  <2>8. (e \in AccessedElements(i)) = (k \in Accessed(i))
    BY <1>3, <2>1
  <2>10. k \in 0 .. n - 1 /\ Fits(i, e)
    <3>1. e < n * i.nf
      BY <1>1, <1>2
    <3>2. k < n
      BY <1>1, <2>1, <3>1, InSegments
    <3> HIDE DEF k, w
    <3>3. k + 1 \in Nat /\ k + 1 =< n /\ w \in Nat /\ n * w =< DataGroup(i) * VLEN
      BY <2>2, <3>2 DEF w
    <3>4. (k + 1) * w =< n * w /\ (k + 1) * w \in Nat /\ n * w \in Nat
      BY <3>3, ProductGrows
    <3>5. DataGroup(i) * VLEN \in Int
      BY Sizes
    <3>6. (k + 1) * w =< DataGroup(i) * VLEN
      BY <3>3, <3>4, <3>5
    <3> QED
      BY <1>1, <1>2, <2>2, <3>2, <3>6 DEF Fits, k, w
  <2> HIDE DEF e, k, j, r, w
  <2>9. /\ steps[q].n = k /\ steps[q].at = ElementAddress(i, e)
        /\ steps[q].active = (e \in AccessedElements(i)) /\ Fits(i, e)
        /\ steps[q].r \in Nat /\ steps[q].k \in Nat
        /\ \A c \in ElementBits(i) : Place(steps[q].r, steps[q].k, w, c) = ElementBit(i, e, c)
    BY <2>2, <2>3, <2>5, <2>6, <2>7, <2>8, <2>10
  <2> QED
    BY <1>1, <2>1, <2>9 DEF e, k, w
<1>5. ASSUME NEW e \in AccessedElements(i) PROVE e \in 0 .. 0 + Len(steps) - 1
  <2>1. e \in Nat /\ e \div i.nf < n
    BY <1>3
  <2>2. e < n * i.nf
    BY ONLY <1>1, <2>1, n \in Nat, InSegments
  <2> QED
    BY <1>2, <2>1, <2>2
<1>6. ASSUME ~StoresStale(i), NEW q \in 1 .. Len(steps) PROVE StoresOwn(i, steps[q])
  <2> SUFFICES ASSUME ~IsLoad(i), ~Unstaged(DestWidth(i))
               PROVE  steps[q].stages /\ steps[q].first = steps[q].r
    BY DEF StoresOwn
  <2>1. i.name = "VSSEGTYPE" /\ Elements(i) = Slots /\ i.nf = 1
    BY <1>6 DEF StoresStale, Unstaged
  <2>2. steps[q].stages /\ steps[q].first = i.vd
    BY <2>1 DEF StagesFirst
  <2>3. q - 1 \in Nat /\ q \in 1 .. n * i.nf
    BY <1>2
  <2>4. steps[q].r = (i.vd + ((q - 1) % i.nf) * DataGroup(i)) % NumRegs
    BY <2>3
  <2>5. ((q - 1) % i.nf) * DataGroup(i) = 0
    BY <2>1, <2>3
  <2>6. i.vd \in 0 .. NumRegs - 1 /\ NumRegs \in Nat \ {0}
    <3>1. i.vd \in 0 .. NumRegs - 1
      BY DEF Encoded
    <3> QED
      BY <3>1, Sizes
  <2>7. (i.vd + 0) % NumRegs = i.vd
    <3> DEFINE d == i.vd
    <3>1. d \in Nat /\ d \in 0 .. NumRegs - 1 /\ NumRegs \in Nat \ {0}
      BY <2>6
    <3> HIDE DEF d
    <3>2. d % NumRegs = d
      <4>1. d = NumRegs * 0 + d
        BY <3>1
      <4> QED
        BY ONLY <3>1, <4>1, 0 \in Nat, DivisionUnique
    <3> QED
      BY <3>1, <3>2 DEF d
  <2> QED
    BY <2>2, <2>4, <2>5, <2>7
<1> QED
  BY <1>2, <1>4, <1>5, <1>6 DEF Numbered
-----------------------------------------------------------------------------
(* Every load and store either is refused or runs a loop of numbered steps. *)

\* A segment access is not refused.
Runs(i, emul, eew, illegal, readable) ==
  /\ ~(eew > VlenPow + AtLeast0(emul)) /\ ~illegal /\ readable
  /\ CanRead(emul, {(i.vd + j * Group(emul)) % NumRegs : j \in 0 .. i.nf - 1})

Proceeds(i) ==
  CASE i.name \in {"VLSEGTYPE", "VLSSEGTYPE"} ->
         Runs(i, EMUL(i), i.width, illegal_load(i, i.nf, i.width, EMUL(i)), TRUE)
    [] i.name \in {"VSSEGTYPE", "VSSSEGTYPE"} ->
         Runs(i, EMUL(i), i.width, illegal_store(i.nf, i.width, EMUL(i)), TRUE)
    [] i.name \in {"VLUXSEGTYPE", "VLOXSEGTYPE"} ->
         Runs(i, LMUL, SEW, illegal_indexed_load(i, i.nf, i.width, EMUL(i), LMUL),
              CanRead(EMUL(i), {i.vs2}))
    [] i.name \in {"VSUXSEGTYPE", "VSOXSEGTYPE"} ->
         Runs(i, LMUL, SEW, illegal_indexed_store(i.nf, i.width, EMUL(i), LMUL),
              CanRead(EMUL(i), {i.vs2}))
    [] i.name \in {"VLRETYPE", "VSRETYPE"} ->
         i.nf \in {1, 2, 4, 8} /\ vstart < i.nf * (VLEN \div DestWidth(i))
    [] OTHER -> ~illegal_vd_unmasked

\* The outcome o is that of a loop over the elements.
Loops(i, o) ==
  \E steps, first, bytes :
    /\ Numbered(i, steps, first) /\ bytes \in Nat \ {0} /\ DestWidth(i) = 8 * bytes
    /\ \E m \in Nat \ {0} : VLEN = (8 * bytes) * m
    /\ o = IF IsLoad(i) THEN Loads(steps, bytes) ELSE Stores(steps, bytes)

\* The outcome of an instruction that is refused.
Refused(i, o) ==
  /\ o.how \in {"illegal", "abort"} \/ (o.how = "done" /\ AccessedElements(i) = {})
  /\ \E h : o = [Now EXCEPT !.how = h]

LEMMA SegmentedRuns ==
  ASSUME NEW i, NEW emul, NEW eew, NEW illegal, NEW readable, NEW o
  PROVE  /\ Runs(i, emul, eew, illegal, readable) =>
              Segmented(i, emul, eew, illegal, readable, o) = o
         /\ ~Runs(i, emul, eew, illegal, readable) =>
              Refused(i, Segmented(i, emul, eew, illegal, readable, o))
<1>1. Refused(i, Illegal)
  <2>1. Illegal = [Now EXCEPT !.how = "illegal"] /\ Illegal.how = "illegal"
    BY DEF Illegal, Now
  <2> QED
    BY <2>1 DEF Refused
<1>2. Refused(i, Abort)
  <2>1. Abort = [Now EXCEPT !.how = "abort"] /\ Abort.how = "abort"
    BY DEF Abort, Now
  <2> QED
    BY <2>1 DEF Refused
<1> QED
  BY <1>1, <1>2 DEF Segmented, Checked, Runs

\* The names of the loads and stores.
LEMMA AccessNames ==
  ASSUME NEW i, Encoded(i), i.file = "mem", i.name # "VLSEGFFTYPE"
  PROVE  i.name \in {"VLSEGTYPE", "VSSEGTYPE", "VLSSEGTYPE", "VSSSEGTYPE", "VLRETYPE",
                     "VSRETYPE", "VMTYPE"} \cup Indexes
BY DEF Encoded, Clauses, Indexes

\* The segments that the masks select are those of the body.
LEMMA SelectedIsBody ==
  ASSUME HartOK, NEW i, Encoded(i), ~(i.width > VlenPow + AtLeast0(EMUL(i)))
  PROVE  /\ Elements(i) \in Nat /\ Elements(i) * 2^i.width = Group(EMUL(i)) * VLEN
         /\ i.name \in {"VLSEGTYPE", "VLSSEGTYPE", "VSSSEGTYPE"} =>
              Accessed(i) = Selected(i) /\ Accessed(i) \subseteq 0 .. Elements(i) - 1
         /\ i.name = "VSSEGTYPE" =>
              Accessed(i) = Unmasked(i) /\ Accessed(i) \subseteq 0 .. Elements(i) - 1
<1> DEFINE n == Elements(i)
           real == IF EMUL(i) >= 0 THEN n ELSE n \div 2^(-EMUL(i))
<1>1. EMUL(i) \in -10 .. 10 /\ i.width \in 3 .. 6 /\ EMUL(i) - i.width = LMUL - SEW
  <2>1. EMUL(i) \in -10 .. 10 /\ i.width \in 3 .. 6
    BY MemoryOperands
  <2> QED
    BY <2>1, Sizes DEF EMUL
<1>2. /\ n \in Nat /\ VLMAX \in Nat \ {0} /\ VLMAX =< n /\ real = VLMAX
      /\ n * 2^i.width = Group(EMUL(i)) * VLEN
  BY <1>1, GroupHolds DEF Elements
<1>3. vl \in Nat /\ vl =< VLMAX /\ vstart \in Nat
  BY <1>2 DEF HartOK
<1> HIDE DEF n
<1>4. Selected(i) = {k \in vstart .. vl - 1 : i.vm \/ BitSet(0, k)}
  <2>1. Selected(i) = {k \in 0 .. n - 1 : vstart =< k /\ k < vl /\ k < real}
                        \cap {k \in 0 .. n - 1 : i.vm \/ BitSet(0, k)}
    BY DEF Selected, Masked, Body, Unmasked, read_vmask, n
  <2> HIDE DEF real
  <2> QED
    BY <1>2, <1>3, <2>1
<1>5. ASSUME i.name \in {"VLSEGTYPE", "VLSSEGTYPE", "VSSSEGTYPE"}
      PROVE  Accessed(i) = Selected(i) /\ Accessed(i) \subseteq 0 .. n - 1
  <2>1. Accessed(i) = {k \in vstart .. vl - 1 : i.vm \/ BitSet(0, k)}
    BY <1>5 DEF Accessed, Changeable, ElementZero, UsesMaskAsData
  <2> QED
    BY <1>2, <1>3, <1>4, <2>1
<1>6. ASSUME i.name = "VSSEGTYPE"
      PROVE  Accessed(i) = Unmasked(i) /\ Accessed(i) \subseteq 0 .. n - 1
  BY <1>6 DEF Accessed, Unmasked, read_vmask, n
<1> QED
  BY <1>2, <1>5, <1>6 DEF n

LEMMA ActiveIsBody ==
  ASSUME HartOK, NEW i, Encoded(i), i.name \in Indexes, ~(SEW > VlenPow + AtLeast0(LMUL))
  PROVE  /\ NumElem \in Nat /\ NumElem * Width = Group(LMUL) * VLEN
         /\ Accessed(i) = Active(i) /\ Accessed(i) \subseteq 0 .. NumElem - 1
<1> DEFINE n == NumElem
           real == IF LMUL >= 0 THEN n ELSE n \div 2^(-LMUL)
<1>1. LMUL \in -10 .. 10 /\ SEW \in 3 .. 6
  BY MemoryOperands
<1>2. /\ n \in Nat /\ VLMAX \in Nat \ {0} /\ VLMAX =< n /\ real = VLMAX
      /\ n * 2^SEW = Group(LMUL) * VLEN
  BY <1>1, GroupHolds DEF NumElem
<1>3. vl \in Nat /\ vl =< VLMAX /\ vstart \in Nat
  BY <1>2 DEF HartOK
<1> HIDE DEF n
<1>4. Active(i) = {k \in vstart .. vl - 1 : i.vm \/ BitSet(0, k)}
  <2>1. Active(i) = {k \in 0 .. n - 1 : vstart =< k /\ k < vl /\ k < real}
                      \cap {k \in 0 .. n - 1 : i.vm \/ BitSet(0, k)}
    BY DEF Active, Masked, Body, read_vmask, n
  <2> HIDE DEF real
  <2> QED
    BY <1>2, <1>3, <2>1
<1>5. Accessed(i) = {k \in vstart .. vl - 1 : i.vm \/ BitSet(0, k)}
  BY DEF Accessed, Changeable, ElementZero, UsesMaskAsData, Indexes
<1> QED
  BY <1>2, <1>3, <1>4, <1>5 DEF n, Width

\* A loop over the segments of an access is one over its elements.
LEMMA SegmentsLoop ==
  ASSUME HartOK, NEW i, Encoded(i), NEW w \in 3 .. 6, DestWidth(i) = 2^w,
         i.name \notin WholeRegister \cup {"VMTYPE"},
         NEW emul \in -10 .. 10, DataGroup(i) = Group(emul),
         NEW n \in Nat, n * 2^w = Group(emul) * VLEN, Accessed(i) \subseteq 0 .. n - 1,
         NEW steps, Len(steps) = n * i.nf,
         \A p \in 1 .. n * i.nf :
           LET k == (p - 1) \div i.nf
               j == (p - 1) % i.nf
           IN  /\ steps[p].n = k /\ steps[p].k = k /\ steps[p].at = Address(i, k, j)
               /\ steps[p].r = (i.vd + j * Group(emul)) % NumRegs
               /\ steps[p].active = (k \in Accessed(i)),
         StagesFirst(i, steps)
  PROVE  Loops(i, IF IsLoad(i) THEN Loads(steps, Bytes(w)) ELSE Stores(steps, Bytes(w)))
<1>1. Bytes(w) \in Nat \ {0} /\ 8 * Bytes(w) = 2^w
  BY ElementBytes
<1>2. PICK m \in Nat \ {0} : VLEN = 2^w * m
  BY ElementBytes
<1>3. VLEN = (8 * Bytes(w)) * m
  BY <1>1, <1>2
<1>4. DataGroup(i) \in Nat /\ DestWidth(i) \in Nat
  <2>1. DataGroup(i) \in Nat
    BY ONLY emul \in -10 .. 10, DataGroup(i) = Group(emul), GroupPositive
  <2> QED
    BY ONLY <1>1, <2>1, DestWidth(i) = 2^w
<1>5. n * DestWidth(i) =< DataGroup(i) * VLEN
  <2>1. DataGroup(i) * VLEN \in Int
    BY <1>4, Sizes
  <2> QED
    BY <2>1
<1>6. \A p \in 1 .. n * i.nf :
           LET k == (p - 1) \div i.nf
               j == (p - 1) % i.nf
           IN  /\ steps[p].n = k /\ steps[p].k = k /\ steps[p].at = Address(i, k, j)
               /\ steps[p].r = (i.vd + j * DataGroup(i)) % NumRegs
               /\ steps[p].active = (k \in Accessed(i))
  OBVIOUS
<1>7. Numbered(i, steps, 0)
  BY <1>4, <1>5, <1>6, SegmentsNumbered
<1> QED
  BY <1>1, <1>3, <1>7 DEF Loops

\* The steps p over the segments n, whose fields have the group emul.
Walk(i, steps, n, emul, mask) ==
  /\ Len(steps) = n * i.nf
  /\ \A p \in 1 .. n * i.nf :
       LET k == (p - 1) \div i.nf
           j == (p - 1) % i.nf
       IN  /\ steps[p].n = k /\ steps[p].k = k /\ steps[p].at = Address(i, k, j)
           /\ steps[p].r = (i.vd + j * Group(emul)) % NumRegs
           /\ steps[p].active = (k \in mask)
  /\ StagesFirst(i, steps)

LEMMA OwnWidthAccesses ==
  ASSUME HartOK, NEW i, Encoded(i),
         i.name \in {"VLSEGTYPE", "VLSSEGTYPE", "VSSEGTYPE", "VSSSEGTYPE"}
  PROVE  /\ Proceeds(i) => Loops(i, MemoryAccess(i))
         /\ ~Proceeds(i) => Refused(i, MemoryAccess(i))
<1> DEFINE n == Elements(i)
           emul == EMUL(i)
           w == i.width
<1>1. emul \in -10 .. 10 /\ w \in 3 .. 6
  BY MemoryOperands
<1>2. /\ DestWidth(i) = 2^w /\ i.name \notin WholeRegister \cup {"VMTYPE"}
      /\ DataGroup(i) = Group(emul)
  BY DEF DestWidth, WidensResult, MakesMask, OwnWidth, WholeRegister, DataGroup
<1>3. i.nf \in Nat
  BY ONLY Encoded(i), FieldValues, SMTT(20)
<1>4. ASSUME ~(w > VlenPow + AtLeast0(emul)), NEW steps, NEW mask, mask = Accessed(i),
             Walk(i, steps, n, emul, mask)
      PROVE  Loops(i, IF IsLoad(i) THEN Loads(steps, Bytes(w)) ELSE Stores(steps, Bytes(w)))
  <2>1. /\ n \in Nat /\ n * 2^w = Group(emul) * VLEN /\ Accessed(i) \subseteq 0 .. n - 1
    BY <1>4, SelectedIsBody
  <2> HIDE DEF n, emul, w
  <2> QED
    BY <1>1, <1>2, <1>4, <2>1, SegmentsLoop DEF Walk
<1>5. ~(w > VlenPow + AtLeast0(emul)) =>
        /\ n \in Nat
        /\ i.name \in {"VLSEGTYPE", "VLSSEGTYPE", "VSSSEGTYPE"} => Selected(i) = Accessed(i)
        /\ i.name = "VSSEGTYPE" => Unmasked(i) = Accessed(i)
  BY SelectedIsBody
<1>6. ASSUME i.name = "VLSEGTYPE"
      PROVE  /\ Proceeds(i) => Loops(i, MemoryAccess(i))
             /\ ~Proceeds(i) => Refused(i, MemoryAccess(i))
  <2> DEFINE steps == Segments(i, n, emul, Selected(i), LAMBDA k, j : UnitStride(i, k, j))
             illegal == illegal_load(i, i.nf, w, emul)
  <2>0. \A k, j : Address(i, k, j) = i.x + UnitStride(i, k, j)
    BY <1>6 DEF Address, Indexes
  <2>1. n \in Nat => Walk(i, steps, n, emul, Selected(i))
    <3>1. n \in Nat => StagesFirst(i, steps)
      BY <1>3, <1>6 DEF StagesFirst
    <3> QED
      BY <1>3, <2>0, <3>1 DEF Segments, Walk
  <2>2. MemoryAccess(i) = Segmented(i, emul, w, illegal, TRUE, Loads(steps, Bytes(w)))
    BY <1>6 DEF MemoryAccess, VLSEGTYPE, LoadSegments
  <2>3. Proceeds(i) = Runs(i, emul, w, illegal, TRUE) /\ IsLoad(i)
    BY <1>6 DEF Proceeds, IsLoad, Runs
  <2> HIDE DEF steps, illegal
  <2>4. Proceeds(i) => ~(w > VlenPow + AtLeast0(emul))
    BY <2>3 DEF Runs
  <2> HIDE DEF n, emul, w
  <2> QED
    BY <1>4, <1>5, <1>6, <2>1, <2>2, <2>3, <2>4, SegmentedRuns
<1>7. ASSUME i.name = "VLSSEGTYPE"
      PROVE  /\ Proceeds(i) => Loops(i, MemoryAccess(i))
             /\ ~Proceeds(i) => Refused(i, MemoryAccess(i))
  <2> DEFINE steps == Segments(i, n, emul, Selected(i), LAMBDA k, j : Strided(i, k, j))
             illegal == illegal_load(i, i.nf, w, emul)
  <2>0. \A k, j : Address(i, k, j) = i.x + Strided(i, k, j)
    BY <1>7 DEF Address, Indexes
  <2>1. n \in Nat => Walk(i, steps, n, emul, Selected(i))
    <3>1. n \in Nat => StagesFirst(i, steps)
      BY <1>3, <1>7 DEF StagesFirst
    <3> QED
      BY <1>3, <2>0, <3>1 DEF Segments, Walk
  <2>2. MemoryAccess(i) = Segmented(i, emul, w, illegal, TRUE, Loads(steps, Bytes(w)))
    BY <1>7 DEF MemoryAccess, VLSSEGTYPE, LoadSegments
  <2>3. Proceeds(i) = Runs(i, emul, w, illegal, TRUE) /\ IsLoad(i)
    BY <1>7 DEF Proceeds, IsLoad, Runs
  <2> HIDE DEF steps, illegal
  <2>4. Proceeds(i) => ~(w > VlenPow + AtLeast0(emul))
    BY <2>3 DEF Runs
  <2> HIDE DEF n, emul, w
  <2> QED
    BY <1>4, <1>5, <1>7, <2>1, <2>2, <2>3, <2>4, SegmentedRuns
<1>8. ASSUME i.name = "VSSSEGTYPE"
      PROVE  /\ Proceeds(i) => Loops(i, MemoryAccess(i))
             /\ ~Proceeds(i) => Refused(i, MemoryAccess(i))
  <2> DEFINE steps == Segments(i, n, emul, Selected(i), LAMBDA k, j : Strided(i, k, j))
             illegal == illegal_store(i.nf, w, emul)
  <2>0. \A k, j : Address(i, k, j) = i.x + Strided(i, k, j)
    BY <1>8 DEF Address, Indexes
  <2>1. n \in Nat => Walk(i, steps, n, emul, Selected(i))
    <3>1. n \in Nat => StagesFirst(i, steps)
      BY <1>3, <1>8 DEF StagesFirst
    <3> QED
      BY <1>3, <2>0, <3>1 DEF Segments, Walk
  <2>2. MemoryAccess(i) = Segmented(i, emul, w, illegal, TRUE, Stores(steps, Bytes(w)))
    BY <1>8 DEF MemoryAccess, VSSSEGTYPE, StoreSegments
  <2>3. Proceeds(i) = Runs(i, emul, w, illegal, TRUE) /\ ~IsLoad(i)
    BY <1>8 DEF Proceeds, IsLoad, Runs
  <2> HIDE DEF steps, illegal
  <2>4. Proceeds(i) => ~(w > VlenPow + AtLeast0(emul))
    BY <2>3 DEF Runs
  <2> HIDE DEF n, emul, w
  <2> QED
    BY <1>4, <1>5, <1>8, <2>1, <2>2, <2>3, <2>4, SegmentedRuns
<1>9. ASSUME i.name = "VSSEGTYPE"
      PROVE  /\ Proceeds(i) => Loops(i, MemoryAccess(i))
             /\ ~Proceeds(i) => Refused(i, MemoryAccess(i))
  <2> DEFINE steps == Segments(i, n, emul, Unmasked(i), LAMBDA k, j : UnitStride(i, k, j))
             illegal == illegal_store(i.nf, w, emul)
  <2>0. \A k, j : Address(i, k, j) = i.x + UnitStride(i, k, j)
    BY <1>9 DEF Address, Indexes
  <2>1. n \in Nat => Walk(i, steps, n, emul, Unmasked(i))
    <3>1. n \in Nat => StagesFirst(i, steps)
      <4> SUFFICES ASSUME n \in Nat, n = Slots, NEW q \in 1 .. Len(steps)
                   PROVE  steps[q].stages /\ steps[q].first = i.vd
        BY DEF StagesFirst
      <4>1. q \in 1 .. n * i.nf
        BY <1>3 DEF Segments
      <4> QED
        BY <1>9, <4>1 DEF Segments
    <3> QED
      BY <1>3, <2>0, <3>1 DEF Segments, Walk
  <2>2. MemoryAccess(i) = Segmented(i, emul, w, illegal, TRUE, Stores(steps, Bytes(w)))
    BY <1>9 DEF MemoryAccess, VSSEGTYPE, StoreSegments
  <2>3. Proceeds(i) = Runs(i, emul, w, illegal, TRUE) /\ ~IsLoad(i)
    BY <1>9 DEF Proceeds, IsLoad, Runs
  <2> HIDE DEF steps, illegal
  <2>4. Proceeds(i) => ~(w > VlenPow + AtLeast0(emul))
    BY <2>3 DEF Runs
  <2> HIDE DEF n, emul, w
  <2> QED
    BY <1>4, <1>5, <1>9, <2>1, <2>2, <2>3, <2>4, SegmentedRuns
<1> QED
  BY <1>6, <1>7, <1>8, <1>9

LEMMA IndexedAccesses ==
  ASSUME HartOK, NEW i, Encoded(i), i.name \in Indexes
  PROVE  /\ Proceeds(i) => Loops(i, MemoryAccess(i))
         /\ ~Proceeds(i) => Refused(i, MemoryAccess(i))
<1> DEFINE n == NumElem
           emul == LMUL
           w == SEW
           steps == IndexedSegments(i)
           readable == CanRead(EMUL(i), {i.vs2})
           illegal == IF IsLoad(i) THEN illegal_indexed_load(i, i.nf, i.width, EMUL(i), LMUL)
                                   ELSE illegal_indexed_store(i.nf, i.width, EMUL(i), LMUL)
           result == IF IsLoad(i) THEN Loads(steps, Bytes(w)) ELSE Stores(steps, Bytes(w))
<1>1. emul \in -10 .. 10 /\ w \in 3 .. 6
  BY MemoryOperands
<1>2. /\ DestWidth(i) = 2^w /\ i.name \notin WholeRegister \cup {"VMTYPE"}
      /\ DataGroup(i) = Group(emul)
  BY DEF DestWidth, WidensResult, MakesMask, OwnWidth, WholeRegister, DataGroup, Indexes, Width
<1>3. i.nf \in Nat
  BY DEF Encoded
<1>4. n \in Nat => Walk(i, steps, n, emul, Active(i))
  <2>1. StagesFirst(i, steps)
    BY DEF StagesFirst, Indexes
  <2> QED
    BY <1>3, <2>1 DEF IndexedSegments, Segments, Walk, Address, Indexes
<1>5. MemoryAccess(i) = Segmented(i, emul, w, illegal, readable, result)
  BY DEF MemoryAccess, VLUXSEGTYPE, VLOXSEGTYPE, VSUXSEGTYPE, VSOXSEGTYPE, IsLoad, Indexes
<1>6. Proceeds(i) = Runs(i, emul, w, illegal, readable)
  BY DEF Proceeds, IsLoad, Indexes, Runs
<1> HIDE DEF steps, readable, illegal
<1>7. ASSUME Proceeds(i) PROVE Loops(i, result)
  <2>1. ~(w > VlenPow + AtLeast0(emul))
    BY <1>6, <1>7 DEF Runs
  <2>2. /\ n \in Nat /\ n * 2^w = Group(emul) * VLEN /\ Accessed(i) = Active(i)
        /\ Accessed(i) \subseteq 0 .. n - 1
    BY <2>1, ActiveIsBody DEF Width
  <2> HIDE DEF n, emul, w
  <2> QED
    BY <1>1, <1>2, <1>4, <2>2, SegmentsLoop DEF Walk
<1> HIDE DEF result
<1> QED
  BY <1>5, <1>6, <1>7, SegmentedRuns

\* Where one field is all there is, elements are segments.
LEMMA SingleField ==
  ASSUME HartOK, NEW i, Encoded(i), i.name \in WholeRegister \cup {"VMTYPE"}
  PROVE  /\ NumFields(i) = 1 /\ AccessedElements(i) = Accessed(i) \cap Int
         /\ \A e \in Nat : /\ e \div NumFields(i) = e
                           /\ ElementAddress(i, e) = Address(i, e, 0)
                           /\ Fits(i, e) = ((e + 1) * DestWidth(i) =< FieldRegisters(i) * VLEN)
                           /\ \A c : ElementBit(i, e, c) = Place(i.vd, e, DestWidth(i), c)
<1>1. NumFields(i) = 1 /\ i.vd \in Nat
  BY DEF NumFields, Encoded
<1>2. Accessed(i) \subseteq Int
  BY DEF Accessed, Changeable, ElementZero, WholeRegister
<1>3. \A e \in Nat : e \div 1 = e /\ e % 1 = 0
  OBVIOUS
<1>4. AccessedElements(i) = Accessed(i) \cap Int
  <2>1. \A k \in Accessed(i) : k * 1 + 0 = k
    BY <1>2
  <2>2. AccessedElements(i) = {k * 1 + j : k \in Accessed(i), j \in 0 .. 1 - 1}
    BY <1>1 DEF AccessedElements
  <2>3. 0 .. 1 - 1 = {0}
    OBVIOUS
  <2> QED
    BY <1>2, <2>1, <2>2, <2>3
<1>5. i.vd + 0 * DataGroup(i) = i.vd
  <2>1. DataGroup(i) \in Int
    BY GroupTyped, MemoryOperands DEF DataGroup
  <2> QED
    BY <1>1, <2>1
<1>6. ASSUME NEW e \in Nat, NEW c PROVE ElementBit(i, e, c) = Place(i.vd, e, DestWidth(i), c)
  BY <1>1, <1>3, <1>5 DEF ElementBit, Place
<1> QED
  BY <1>1, <1>3, <1>4, <1>6 DEF ElementAddress, Fits

\* The register of the n-th element from register vd on, with m to a register.
RegisterOf(vd, n, m) == (vd + n \div m) % NumRegs

LEMMA PlaceFrom ==
  ASSUME HartOK, NEW vd \in Nat, NEW n \in Nat, NEW e \in Nat \ {0}, NEW m \in Nat \ {0},
         VLEN = e * m, NEW c \in Nat, NEW reg, reg = RegisterOf(vd, n, m),
         NEW elem, elem = n % m
  PROVE  reg \in Nat /\ elem \in Nat /\ Place(reg, elem, e, c) = Place(vd, n, e, c)
<1> DEFINE q == n \div m
           k == n % m
           r == vd + q
<1>1. q \in Nat /\ k \in Nat /\ n = m * q + k
  <2>1. q \in Nat /\ k \in 0 .. m - 1 /\ n = m * q + k
    BY Division
  <2> HIDE DEF q, k
  <2> QED
    BY <2>1
<1> HIDE DEF q, k
<1>2. r \in Nat /\ NumRegs \in Nat \ {0}
  BY <1>1, Sizes
<1>3. r * VLEN + k * e = vd * VLEN + n * e
  <2>1. q * (e * m) = (m * q) * e
    BY <1>1
  <2>2. n * e = (m * q) * e + k * e
    BY <1>1
  <2> QED
    BY <1>1, <2>1, <2>2
<1> HIDE DEF r
<1>4. r % NumRegs \in Nat
  BY <1>2, Division
<1>5. Place(r % NumRegs, k, e, c) = Place(vd, n, e, c)
  <2>1. Place(r % NumRegs, k, e, c) = Place(r, k, e, c)
    BY <1>1, <1>2, PlaceWraps
  <2>2. r * VLEN + k * e + c = vd * VLEN + n * e + c
    BY <1>3
  <2> QED
    BY <2>1, <2>2 DEF Place
<1> QED
  BY <1>1, <1>4, <1>5 DEF q, k, r, RegisterOf

LEMMA WholeLoop ==
  ASSUME HartOK, NEW i, Encoded(i), i.name \in {"VLRETYPE", "VSRETYPE"},
         NEW w \in 3 .. 6, DestWidth(i) = 2^w, vstart < i.nf * (VLEN \div DestWidth(i)),
         \A k \in Nat : Address(i, k, 0) = i.x + k * Bytes(w)
  PROVE  LET steps == WholeRegisters(i, w)
         IN  Loops(i, IF IsLoad(i) THEN Loads(steps, Bytes(w)) ELSE Stores(steps, Bytes(w)))
<1> DEFINE epr == VLEN \div 2^w
           steps == WholeRegisters(i, w)
           len == i.nf * epr - vstart
           e == 2^w
<1>1. Bytes(w) \in Nat \ {0} /\ 8 * Bytes(w) = 2^w
  BY ElementBytes
<1>2. PICK m \in Nat \ {0} : VLEN = 2^w * m
  BY ElementBytes
<1>3. e \in Nat \ {0}
  BY <1>1
<1>4. epr = m
  <2>1. 0 \in 0 .. e - 1 /\ VLEN = e * m + 0 /\ VLEN \in Nat
    BY <1>2, <1>3, Sizes
  <2> HIDE DEF e
  <2>2. VLEN \div e = m
    BY <1>3, <2>1, DivisionUnique
  <2> QED
    BY <2>2 DEF e
<1>5. /\ i.nf \in Nat \ {0} /\ i.vd \in Nat /\ vstart \in Nat /\ len \in Nat
      /\ i.nf * m \in Nat /\ vstart < i.nf * m
  BY <1>4 DEF Encoded, HartOK
<1>6. Accessed(i) = vstart .. i.nf * m - 1
  BY <1>4 DEF Accessed, Changeable, ElementZero
<1>7. Len(steps) = len /\ FieldRegisters(i) = i.nf
  BY <1>5 DEF WholeRegisters, FieldRegisters, WholeRegister
<1>8. i.name \in WholeRegister \cup {"VMTYPE"}
  BY DEF WholeRegister
<1>9. AccessedElements(i) = vstart .. i.nf * m - 1
  <2>1. AccessedElements(i) = Accessed(i) \cap Int
    BY <1>8, SingleField
  <2> QED
    BY <1>5, <1>6, <2>1
<1>10. ASSUME NEW q \in 1 .. Len(steps)
       PROVE  LET n == vstart + q - 1
                  s == steps[q]
              IN  /\ s.n = n \div NumFields(i) /\ s.at = ElementAddress(i, n)
                  /\ s.active = (n \in AccessedElements(i)) /\ Fits(i, n)
                  /\ s.r \in Nat /\ s.k \in Nat
                  /\ \A c \in ElementBits(i) :
                       Place(s.r, s.k, DestWidth(i), c) = ElementBit(i, n, c)
  <2> DEFINE n == vstart + q - 1
  <2>1. n \in Nat /\ n \in AccessedElements(i) /\ n + 1 =< i.nf * m /\ q \in 1 .. len
    BY <1>4, <1>5, <1>7, <1>9
  <2>2. /\ steps[q].n = n /\ steps[q].k = n % m /\ steps[q].r = (i.vd + n \div m) % NumRegs
        /\ steps[q].at = i.x + n * Bytes(w) /\ steps[q].active = TRUE
    BY <1>4, <2>1 DEF WholeRegisters
  <2> HIDE DEF n, steps, len
  <2>3. /\ n \div NumFields(i) = n /\ ElementAddress(i, n) = i.x + n * Bytes(w)
        /\ Fits(i, n) = ((n + 1) * e =< i.nf * VLEN)
        /\ \A c : ElementBit(i, n, c) = Place(i.vd, n, e, c)
    BY <1>7, <1>8, <2>1, SingleField
  <2>4. (n + 1) * e =< i.nf * VLEN
    <3> DEFINE nf == i.nf
               all == nf * m
    <3>1. all \in Nat /\ n + 1 \in Nat /\ nf \in Nat
      BY <1>5, <2>1
    <3> HIDE DEF e, nf
    <3>2. nf * VLEN = all * e
      BY <1>2, <1>3, <3>1 DEF e
    <3> HIDE DEF all
    <3>3. (n + 1) * e =< all * e
      BY <1>3, <2>1, <3>1, ProductGrows DEF all, nf
    <3> QED
      BY <3>2, <3>3 DEF nf
  <2>5. ASSUME NEW c \in ElementBits(i)
        PROVE  /\ steps[q].r \in Nat /\ steps[q].k \in Nat
               /\ Place(steps[q].r, steps[q].k, e, c) = ElementBit(i, n, c)
    <3>1. c \in Nat
      BY DEF ElementBits
    <3>2. VLEN = e * m /\ i.vd \in Nat
      BY <1>2, <1>5
    <3> DEFINE vd == i.vd
    <3>3. e \in Nat \ {0} /\ n \in Nat /\ m \in Nat \ {0} /\ vd \in Nat /\ VLEN = e * m
      BY <1>2, <1>3, <2>1, <3>2
    <3> HIDE DEF e, vd
    <3> DEFINE reg == steps[q].r
               elem == steps[q].k
    <3>4. reg = RegisterOf(vd, n, m) /\ elem = n % m
      BY <2>2 DEF vd, RegisterOf
    <3> HIDE DEF reg, elem
    <3>5. reg \in Nat /\ elem \in Nat /\ Place(reg, elem, e, c) = Place(vd, n, e, c)
      BY ONLY HartOK, <3>1, <3>3, <3>4, PlaceFrom
    <3> QED
      BY <2>3, <3>5 DEF vd, reg, elem
  <2>6. steps[q].r \in Nat /\ steps[q].k \in Nat
    <3>1. 0 \in ElementBits(i)
      BY <1>3 DEF ElementBits
    <3> QED
      BY <2>5, <3>1
  <2> HIDE DEF e
  <2>7. \A c \in ElementBits(i) : Place(steps[q].r, steps[q].k, DestWidth(i), c) = ElementBit(i, n, c)
    BY <2>5 DEF e
  <2> QED
    BY <2>1, <2>2, <2>3, <2>4, <2>6, <2>7 DEF n
<1>11. AccessedElements(i) \subseteq vstart .. vstart + Len(steps) - 1
  <2>1. vstart + len = i.nf * m
    BY ONLY <1>4, <1>5
  <2> HIDE DEF len, steps
  <2>2. vstart + Len(steps) - 1 = i.nf * m - 1
    BY ONLY <1>5, <1>7, <2>1
  <2> QED
    BY ONLY <1>9, <2>2
<1>14. \A q : StoresOwn(i, steps[q])
  <2>1. CASE i.name = "VLRETYPE"
    BY <2>1 DEF StoresOwn, IsLoad
  <2>2. CASE i.name = "VSRETYPE"
    <3>1. DestWidth(i) = 8 /\ 2^3 = 8 /\ 3 \in 3 .. 6 /\ 3 # DoublePow
      BY <2>2, WidthsAssumption DEF DestWidth, WidensResult, MakesMask, OwnWidth
    <3> QED
      BY <3>1, NotDouble DEF StoresOwn, Unstaged
  <2> QED
    BY <2>1, <2>2
<1>12. Numbered(i, steps, vstart)
  BY <1>5, <1>7, <1>10, <1>11, <1>14 DEF Numbered
<1>13. VLEN = (8 * Bytes(w)) * m
  BY <1>1, <1>2
<1> HIDE DEF steps
<1> QED
  BY <1>1, <1>12, <1>13 DEF Loops, steps


\* The bytes of a mask register that hold an element.
LEMMA MaskCapacity ==
  ASSUME HartOK
  PROVE  /\ get_num_elem(0, 3) \in Nat /\ get_num_elem(0, 3) * 8 = VLEN
         /\ (vl + 7) \div 8 \in Nat /\ (vl + 7) \div 8 =< get_num_elem(0, 3)
<1> DEFINE bytes == VlenPow - 3
           n == 2^bytes
           m == VlenPow + LMUL - SEW
           d == SEW - LMUL
           evl == (vl + 7) \div 8
           r == (vl + 7) % 8
<1>1. /\ VlenPow >= 6 /\ VlenPow \in Nat /\ SEW \in 3 .. 6 /\ LMUL \in -3 .. 3
      /\ SEW =< LMUL + ElenPow /\ ElenPow =< VlenPow
  BY Sizes, WidthsAssumption DEF HartOK
<1>2. /\ bytes \in Nat /\ bytes + 3 = VlenPow /\ bytes \in 0 .. VlenPow + 11 /\ 3 \in Nat
      /\ VlenPow =< VlenPow + 11
      /\ m \in Nat /\ d \in Nat /\ m + d = VlenPow /\ m \in 0 .. VlenPow + 11 /\ d \in 0 .. VlenPow + 11
  <2>1. ElenPow \in Int
    BY WidthsAssumption
  <2>2. bytes \in Nat /\ bytes + 3 = VlenPow /\ bytes \in 0 .. VlenPow + 11
    BY <1>1
  <2>3. m \in Int /\ d \in Int /\ m >= 0 /\ d >= 0 /\ m + d = VlenPow
    BY <1>1, <2>1
  <2>4. m \in Nat /\ d \in Nat /\ m =< VlenPow /\ d =< VlenPow
    BY <1>1, <2>3
  <2> QED
    BY <1>1, <2>2, <2>3, <2>4
<1>3. get_num_elem(0, 3) = n
  BY <1>1 DEF get_num_elem, AtLeast0
<1>4. VLMAX = 2^m
  BY DEF VLMAX, VLMAXof, LMUL, SEW
<1> HIDE DEF bytes, m, d
<1>5. 2^(bytes + 3) = n * 2^3 /\ 2^(m + d) = 2^m * 2^d
  BY <1>2, PowersAdd
<1>6. n \in Nat \ {0} /\ 2^m \in Nat \ {0} /\ 2^d \in Nat \ {0} /\ 2^3 = 8
  BY <1>2, Powers
<1> HIDE DEF n
<1>7. n * 8 = VLEN
  BY <1>2, <1>5, <1>6 DEF VLEN
<1>8. VLMAX =< VLEN
  <2> DEFINE a == 2^m
             b == 2^d
  <2>1. a \in Nat /\ 1 =< b /\ b \in Nat /\ VLEN = a * b
    BY <1>2, <1>5, <1>6 DEF VLEN
  <2> HIDE DEF a, b
  <2>2. 1 * a =< b * a
    BY <2>1, ProductGrows
  <2> QED
    BY <1>4, <2>1, <2>2 DEF a
<1>9. vl \in Nat /\ vl =< VLEN
  BY <1>4, <1>6, <1>7, <1>8 DEF HartOK
<1>10. evl \in Nat /\ r \in 0 .. 7 /\ vl + 7 = 8 * evl + r
  BY <1>9, Division
<1> HIDE DEF evl, r
<1>11. evl =< n
  BY <1>6, <1>7, <1>9, <1>10
<1> QED
  BY <1>3, <1>6, <1>7, <1>10, <1>11 DEF evl

LEMMA MaskLoop ==
  ASSUME HartOK, NEW i, Encoded(i), i.name = "VMTYPE"
  PROVE  Loops(i, IF IsLoad(i) THEN Loads(MaskBytes(i), 1) ELSE Stores(MaskBytes(i), 1))
<1> DEFINE steps == MaskBytes(i)
           evl == (vl + 7) \div 8
           n == get_num_elem(0, 3)
           byte == 1
<1>1. n \in Nat /\ n * 8 = VLEN /\ evl \in Nat /\ evl =< n /\ vstart \in Nat /\ i.vd \in Nat
  BY MaskCapacity DEF HartOK, Encoded
<1>2. DestWidth(i) = 8 /\ FieldRegisters(i) = 1
  BY MaskWidth DEF FieldRegisters, WholeRegister
<1>3. i.name \in WholeRegister \cup {"VMTYPE"}
  OBVIOUS
<1>4. AccessedElements(i) = vstart .. evl - 1
  <2>1. Accessed(i) = vstart .. evl - 1
    BY DEF Accessed, Changeable, ElementZero
  <2> HIDE DEF evl
  <2>2. AccessedElements(i) = Accessed(i) \cap Int
    BY <1>3, SingleField
  <2> QED
    BY <1>1, <2>1, <2>2
<1>5. \A p \in 1 .. n - vstart :
        LET q == vstart + p - 1
        IN  /\ steps[p].n = q /\ steps[p].r = i.vd /\ steps[p].k = q /\ steps[p].at = i.x + q
            /\ steps[p].active = (q < evl)
  BY DEF MaskBytes
<1>6. Len(steps) = IF n - vstart \in Nat THEN n - vstart ELSE 0
  <2>1. CASE n - vstart \in Nat
    BY <2>1 DEF MaskBytes
  <2>2. CASE n - vstart \notin Nat
    <3>1. 1 .. n - vstart = 1 .. 0
      BY <1>1, <2>2
    <3> HIDE DEF n
    <3>2. steps = [p \in 1 .. 0 |-> steps[p]]
      BY <3>1 DEF MaskBytes, n
    <3> HIDE DEF steps
    <3>3. Len([p \in 1 .. 0 |-> steps[p]]) = 0
      OBVIOUS
    <3>4. Len(steps) = 0
      BY <3>2, <3>3
    <3> QED
      BY <2>2, <3>4
  <2> QED
    BY <2>1, <2>2
<1> HIDE DEF steps, evl, n
<1>7. ASSUME NEW p \in 1 .. Len(steps)
      PROVE  LET e == vstart + p - 1
                 s == steps[p]
             IN  /\ s.n = e \div NumFields(i) /\ s.at = ElementAddress(i, e)
                 /\ s.active = (e \in AccessedElements(i)) /\ Fits(i, e)
                 /\ s.r \in Nat /\ s.k \in Nat
                 /\ \A c \in ElementBits(i) :
                      Place(s.r, s.k, DestWidth(i), c) = ElementBit(i, e, c)
  <2> DEFINE e == vstart + p - 1
  <2>1. e \in Nat /\ e >= vstart /\ e < n /\ p \in 1 .. n - vstart
    BY <1>1, <1>6
  <2>2. /\ steps[p].n = e /\ steps[p].r = i.vd /\ steps[p].k = e /\ steps[p].at = i.x + e
        /\ steps[p].active = (e < evl)
    BY <1>5, <2>1
  <2> HIDE DEF e
  <2>3. /\ e \div NumFields(i) = e /\ ElementAddress(i, e) = i.x + e
        /\ Fits(i, e) = ((e + 1) * 8 =< 1 * VLEN)
        /\ \A c : ElementBit(i, e, c) = Place(i.vd, e, 8, c)
    <3>1. Address(i, e, 0) = i.x + e
      BY DEF Address, Indexes
    <3> QED
      BY <1>2, <1>3, <2>1, <3>1, SingleField
  <2>4. (e < evl) = (e \in AccessedElements(i))
    BY <1>1, <1>4, <2>1
  <2>5. (e + 1) * 8 =< 1 * VLEN
    BY <1>1, <2>1
  <2> QED
    BY <1>1, <1>2, <2>1, <2>2, <2>3, <2>4, <2>5 DEF e
<1>8. Len(steps) \in Nat /\ AccessedElements(i) \subseteq vstart .. vstart + Len(steps) - 1
  BY <1>1, <1>4, <1>6
<1>12. \A q : StoresOwn(i, steps[q])
  BY MaskWidth DEF StoresOwn
<1>9. Numbered(i, steps, vstart)
  BY <1>1, <1>7, <1>8, <1>12 DEF Numbered
<1>10. byte \in Nat \ {0} /\ DestWidth(i) = 8 * byte /\ \E m \in Nat \ {0} : VLEN = (8 * byte) * m
  <2>1. 3 \in 3 .. 6 /\ 2^3 = 8
    OBVIOUS
  <2> QED
    BY <1>2, <2>1, ElementBytes
<1> HIDE DEF byte
<1>11. Loops(i, IF IsLoad(i) THEN Loads(steps, byte) ELSE Stores(steps, byte))
  BY <1>9, <1>10 DEF Loops
<1> QED
  BY <1>11 DEF steps, byte

LEMMA WholeAccesses ==
  ASSUME HartOK, NEW i, Encoded(i), i.name \in {"VLRETYPE", "VSRETYPE"}
  PROVE  /\ Proceeds(i) => Loops(i, MemoryAccess(i))
         /\ ~Proceeds(i) => Refused(i, MemoryAccess(i))
<1> DEFINE w == IF i.name = "VLRETYPE" THEN i.width ELSE 3
           steps == WholeRegisters(i, w)
           result == IF IsLoad(i) THEN Loads(steps, Bytes(w)) ELSE Stores(steps, Bytes(w))
<1>1. w \in 3 .. 6 /\ 2^3 = 8 /\ Bytes(3) = 1
  BY DEF Encoded, Bytes
<1>2. DestWidth(i) = 2^w
  BY <1>1 DEF DestWidth, WidensResult, MakesMask, OwnWidth
<1>3. MemoryAccess(i) = Whole(i, w, result)
  BY <1>1 DEF MemoryAccess, VLRETYPE, VSRETYPE, IsLoad
<1>4. Proceeds(i) <=> (i.nf \in {1, 2, 4, 8} /\ vstart < i.nf * (VLEN \div 2^w))
  BY <1>2 DEF Proceeds, Indexes
<1>5. \A k \in Nat : Address(i, k, 0) = i.x + k * Bytes(w)
  BY <1>1 DEF Address, Indexes
<1>6. Proceeds(i) => Loops(i, result)
  BY <1>1, <1>2, <1>4, <1>5, WholeLoop
<1> HIDE DEF w, steps, result
<1>7. i.nf * (VLEN \div 2^w) \in Int /\ vstart \in Nat
  <2>1. VLEN \div 2^w \in Int
    <3> DEFINE e == 2^w
    <3>1. e \in Nat \ {0}
      <4>1. Bytes(w) \in Nat \ {0} /\ 8 * Bytes(w) = e
        BY <1>1, ElementBytes
      <4> QED
        BY <4>1
    <3> HIDE DEF e
    <3>2. VLEN \div e \in Int
      BY <3>1, Sizes, Division
    <3> QED
      BY <3>2 DEF e
  <2> QED
    BY <2>1 DEF Encoded, HartOK
<1>8. ASSUME i.nf \notin {1, 2, 4, 8} PROVE Refused(i, Whole(i, w, result))
  <2>1. Illegal = [Now EXCEPT !.how = "illegal"] /\ Illegal.how = "illegal"
    BY DEF Illegal, Now
  <2> QED
    BY <1>8, <2>1 DEF Refused, Whole
<1>9. ASSUME i.nf \in {1, 2, 4, 8}, vstart >= i.nf * (VLEN \div 2^w)
      PROVE  Refused(i, Whole(i, w, result))
  <2> DEFINE o == [Now EXCEPT !.how = get_start_element]
  <2>1. Whole(i, w, result) = o
    BY <1>9 DEF Whole
  <2>2. o.how \in {"illegal", "done"}
    BY DEF Now, get_start_element
  <2>3. AccessedElements(i) = {}
    <3>1. AccessedElements(i) = Accessed(i) \cap Int
      BY SingleField DEF WholeRegister
    <3>2. Accessed(i) = vstart .. i.nf * (VLEN \div 2^w) - 1
      BY <1>2 DEF Accessed, Changeable, ElementZero
    <3> QED
      BY <1>7, <1>9, <3>1, <3>2
  <2> QED
    BY <2>1, <2>2, <2>3 DEF Refused
<1>10. Proceeds(i) => Whole(i, w, result) = result
  <2> DEFINE limit == i.nf * (VLEN \div 2^w)
  <2>1. limit \in Int /\ vstart \in Int
    BY <1>7
  <2>2. Whole(i, w, result) =
          CASE i.nf \notin {1, 2, 4, 8} -> Illegal
            [] i.nf \in {1, 2, 4, 8} /\ vstart >= limit -> [Now EXCEPT !.how = get_start_element]
            [] OTHER -> result
    BY DEF Whole
  <2>3. Proceeds(i) <=> (i.nf \in {1, 2, 4, 8} /\ vstart < limit)
    BY <1>4
  <2> HIDE DEF limit
  <2> QED
    BY <2>1, <2>2, <2>3
<1>11. ~Proceeds(i) => i.nf \notin {1, 2, 4, 8} \/ vstart >= i.nf * (VLEN \div 2^w)
  BY <1>4, <1>7
<1> QED
  BY <1>3, <1>6, <1>8, <1>9, <1>10, <1>11

LEMMA MaskAccesses ==
  ASSUME HartOK, NEW i, Encoded(i), i.name = "VMTYPE"
  PROVE  /\ Proceeds(i) => Loops(i, MemoryAccess(i))
         /\ ~Proceeds(i) => Refused(i, MemoryAccess(i))
<1>1. Proceeds(i) = ~illegal_vd_unmasked
  BY DEF Proceeds, Indexes
<1>2. illegal_vd_unmasked => Refused(i, MemoryAccess(i))
  <2>1. Illegal = [Now EXCEPT !.how = "illegal"] /\ Illegal.how = "illegal"
    BY DEF Illegal, Now
  <2> QED
    BY <2>1 DEF Refused, MemoryAccess, VMTYPE
<1>3. ~illegal_vd_unmasked =>
        MemoryAccess(i) = IF IsLoad(i) THEN Loads(MaskBytes(i), 1) ELSE Stores(MaskBytes(i), 1)
  BY DEF MemoryAccess, VMTYPE, IsLoad
<1> QED
  BY <1>1, <1>2, <1>3, MaskLoop

\* What an access does: it is refused, or a loop over its elements.
LEMMA AccessLoops ==
  ASSUME HartOK, NEW i, Encoded(i), i.file = "mem", i.name # "VLSEGFFTYPE"
  PROVE  /\ Proceeds(i) => Loops(i, MemoryAccess(i))
         /\ ~Proceeds(i) => Refused(i, MemoryAccess(i))
BY AccessNames, OwnWidthAccesses, IndexedAccesses, WholeAccesses, MaskAccesses

-----------------------------------------------------------------------------
(* The elements of a load are apart in the registers.                      *)

\* A load that is not reserved fills its own registers and no others.
LEMMA LoadPlaces ==
  ASSUME HartOK, NEW i, Encoded(i), IsLoad(i), i.vd + Fills(i) =< NumRegs,
         DestWidth(i) \in Nat \ {0}, NEW e \in Nat, Fits(i, e), NEW c \in ElementBits(i)
  PROVE  LET S == FieldRegisters(i) * VLEN
             k == e \div NumFields(i)
             j == e % NumFields(i)
             y == DestWidth(i) * k + c
         IN  /\ S \in Nat \ {0} /\ k \in Nat /\ j \in Nat /\ e = NumFields(i) * k + j
             /\ y \in 0 .. S - 1
             /\ ElementBit(i, e, c) = i.vd * VLEN + (S * j + y)
             /\ ElementBit(i, e, c) \in i.vd * VLEN .. (i.vd + Fills(i)) * VLEN - 1
             /\ (i.vd + Fills(i)) * VLEN =< NumRegs * VLEN
<1> DEFINE nf == NumFields(i)
           fr == FieldRegisters(i)
           vd == i.vd
           W == DestWidth(i)
           S == fr * VLEN
           k == e \div nf
           j == e % nf
           y == W * k + c
           raw == vd * VLEN + (S * j + y)
<1>1. nf \in Nat \ {0} /\ vd \in Nat /\ VLEN \in Nat \ {0} /\ NumRegs \in Nat \ {0}
  BY FieldsTyped, Sizes DEF Encoded
<1>2. W \in Nat \ {0} /\ c \in 0 .. W - 1
  BY DEF ElementBits
<1>3. DataGroup(i) \in Nat \ {0}
  <2>1. EMUL(i) \in Int /\ EMUL(i) =< 10 /\ LMUL \in Int /\ LMUL =< 10
    BY MemoryOperands
  <2> QED
    BY <2>1, GroupPositive DEF DataGroup
<1>4. fr \in Nat \ {0}
  BY <1>3 DEF FieldRegisters, Encoded
<1>5. k \in Nat /\ j \in 0 .. nf - 1 /\ e = nf * k + j
  BY <1>1, Division
<1>6. j * DataGroup(i) = j * fr
  <2>1. CASE i.name \in WholeRegister \cup {"VMTYPE"}
    <3>1. nf = 1
      BY <2>1 DEF NumFields
    <3>2. j = 0
      BY <1>5, <3>1
    <3> HIDE DEF j, fr
    <3> QED
      BY <1>3, <1>4, <3>2
  <2>2. CASE i.name \notin WholeRegister \cup {"VMTYPE"}
    BY <2>2 DEF FieldRegisters
  <2> QED
    BY <2>1, <2>2
<1>7. (k + 1) * W =< S /\ vd + nf * fr =< NumRegs
  BY DEF Fits, Fills
<1>8. ElementBit(i, e, c) = ((vd + j * DataGroup(i)) * VLEN + k * W + c) % (NumRegs * VLEN)
  BY DEF ElementBit
<1>9. DataGroup(i) \in Nat
  BY <1>3
<1>10. (vd + Fills(i)) * VLEN = (vd + nf * fr) * VLEN
  BY DEF Fills
<1> DEFINE g == DataGroup(i)
<1>20. j * g = j * fr /\ g \in Nat /\ j \in Nat /\ j + 1 =< nf /\ j + 1 \in Nat
  BY <1>1, <1>5, <1>6, <1>9
<1> HIDE DEF nf, fr, vd, W, k, j, g
<1>11. S \in Nat \ {0}
  BY <1>1, <1>4
<1>12. y \in 0 .. S - 1
  <2>1. (k + 1) * W = W * k + W /\ W * k \in Nat
    BY <1>2, <1>5
  <2> HIDE DEF S
  <2> QED
    BY <1>2, <1>7, <1>11, <2>1
<1>13. (vd + j * g) * VLEN + k * W + c = raw
  <2>1. (vd + j * fr) * VLEN = vd * VLEN + (fr * VLEN) * j
    BY <1>1, <1>4, <1>20
  <2>2. k * W = W * k /\ k * W \in Nat /\ c \in Nat /\ vd * VLEN \in Nat /\ (fr * VLEN) * j \in Nat
    BY <1>1, <1>2, <1>4, <1>5, <1>20
  <2> QED
    BY <1>20, <2>1, <2>2
<1>14. (j + 1) * S =< nf * S /\ (j + 1) * S = S * j + S /\ S * j \in Nat /\ nf * S \in Nat
  <2> HIDE DEF S
  <2>1. (j + 1) * S =< nf * S /\ nf * S \in Nat
    BY <1>1, <1>11, <1>20, ProductGrows
  <2> QED
    BY <1>11, <1>20, <2>1
<1>15. vd * VLEN + nf * S = (vd + nf * fr) * VLEN /\ vd * VLEN \in Nat
  BY <1>1, <1>4
<1>16. (vd + nf * fr) * VLEN =< NumRegs * VLEN /\ (vd + nf * fr) * VLEN \in Nat
       /\ NumRegs * VLEN \in Nat \ {0}
  <2>1. vd + nf * fr \in Nat
    BY <1>1, <1>4
  <2>2. NumRegs * VLEN \in Nat \ {0}
    BY <1>1
  <2> QED
    BY <1>1, <1>7, <2>1, <2>2, ProductGrows
<1>17. raw \in Nat /\ raw >= vd * VLEN /\ raw < (vd + nf * fr) * VLEN
  <2> HIDE DEF S, y
  <2> QED
    BY <1>11, <1>12, <1>14, <1>15
<1>18. ElementBit(i, e, c) = raw
  <2> DEFINE N == NumRegs * VLEN
  <2>1. raw \in 0 .. N - 1 /\ N \in Nat \ {0}
    BY <1>16, <1>17
  <2> HIDE DEF N, raw
  <2>2. raw % N = raw
    BY <2>1
  <2>3. ElementBit(i, e, c) = ((vd + j * g) * VLEN + k * W + c) % N
    BY <1>8 DEF N, vd, j, g, k, W, nf
  <2> QED
    BY <1>13, <2>2, <2>3
<1>19. ElementBit(i, e, c) \in vd * VLEN .. (vd + nf * fr) * VLEN - 1
  <2> HIDE DEF raw
  <2> QED
    BY <1>15, <1>16, <1>17, <1>18
<1> QED
  BY <1>5, <1>10, <1>11, <1>12, <1>16, <1>18, <1>19, <1>20 DEF nf, fr, vd, W, k, j

LEMMA LoadBitsApart ==
  ASSUME HartOK, NEW i, Encoded(i), IsLoad(i), i.vd + Fills(i) =< NumRegs,
         DestWidth(i) \in Nat \ {0}, NEW d \in Nat, Fits(i, d), NEW e \in Nat, Fits(i, e),
         NEW c \in ElementBits(i), NEW u \in ElementBits(i),
         ElementBit(i, d, c) = ElementBit(i, e, u)
  PROVE  d = e /\ c = u
<1> DEFINE nf == NumFields(i)
           W == DestWidth(i)
           S == FieldRegisters(i) * VLEN
           k == d \div nf
           j == d % nf
           y == W * k + c
           k2 == e \div nf
           j2 == e % nf
           y2 == W * k2 + u
<1>1. /\ S \in Nat \ {0} /\ k \in Nat /\ j \in Nat /\ d = nf * k + j /\ y \in 0 .. S - 1
      /\ ElementBit(i, d, c) = i.vd * VLEN + (S * j + y)
  BY LoadPlaces
<1>2. /\ k2 \in Nat /\ j2 \in Nat /\ e = nf * k2 + j2 /\ y2 \in 0 .. S - 1
      /\ ElementBit(i, e, u) = i.vd * VLEN + (S * j2 + y2)
  BY LoadPlaces
<1>3. i.vd * VLEN \in Nat /\ W \in Nat \ {0} /\ c \in 0 .. W - 1 /\ u \in 0 .. W - 1
  <2>1. i.vd \in Nat /\ VLEN \in Nat
    BY Sizes DEF Encoded
  <2> QED
    BY <2>1 DEF ElementBits
<1> HIDE DEF nf, W, S, k, j, k2, j2
<1>4. j = j2 /\ y = y2
  <2> DEFINE a == S * j + y
  <2>0. S * j \in Nat /\ S * j2 \in Nat
    BY <1>1, <1>2
  <2> HIDE DEF y, y2
  <2>1. a = S * j2 + y2 /\ a \in Nat /\ a = S * j + y
    BY <1>1, <1>2, <1>3, <2>0
  <2> HIDE DEF a
  <2>2. a \div S = j /\ a % S = y
    BY <1>1, <2>1, DivisionUnique
  <2>3. a \div S = j2 /\ a % S = y2
    <3>1. a \in Nat /\ S \in Nat \ {0} /\ j2 \in Nat /\ y2 \in 0 .. S - 1 /\ a = S * j2 + y2
      BY <1>1, <1>2, <2>1
    <3> QED
      BY ONLY <3>1, DivisionUnique
  <2> QED
    BY <2>2, <2>3
<1>5. k = k2 /\ c = u
  <2>1. y \in Nat /\ y = W * k + c /\ y = W * k2 + u
    BY <1>1, <1>4
  <2> HIDE DEF y, y2
  <2>2. y \div W = k /\ y % W = c
    BY <1>1, <1>3, <2>1, DivisionUnique
  <2>3. y \div W = k2 /\ y % W = u
    <3>1. y \in Nat /\ W \in Nat \ {0} /\ k2 \in Nat /\ u \in 0 .. W - 1 /\ y = W * k2 + u
      BY <1>2, <1>3, <2>1
    <3> QED
      BY ONLY <3>1, DivisionUnique
  <2> QED
    BY <2>2, <2>3
<1> QED
  BY <1>1, <1>2, <1>4, <1>5

-----------------------------------------------------------------------------
(* Copying elements, the last where several have the same target.          *)

Moves(done, bits, target, source, old, new) ==
  /\ DOMAIN new = DOMAIN old
  /\ \A e \in done, c \in bits :
       /\ target[e][c] \in DOMAIN old
       /\ \A d \in done, u \in bits : d > e => target[d][u] # target[e][c]
       => new[target[e][c]] = source[e][c]
  /\ \A b \in DOMAIN old : (\A e \in done, c \in bits : target[e][c] # b) => new[b] = old[b]

LEMMA MovesOne ==
  ASSUME NEW done \in SUBSET Nat, NEW e \in Nat, \A d \in done : d < e,
         NEW w \in Nat, NEW target, NEW source, NEW old, NEW between,
         Moves(done, 0 .. w - 1, target, source, old, between),
         NEW low \in Int, NEW value,
         \A c \in 0 .. w - 1 : target[e][c] = low + c /\ source[e][c] = value[c]
  PROVE  Moves(done \cup {e}, 0 .. w - 1, target, source, old, Updated(between, BitsAt(low, w, value)))
<1> DEFINE changed == BitsAt(low, w, value)
           new == Updated(between, changed)
           bits == 0 .. w - 1
<1>1. DOMAIN between = DOMAIN old /\ DOMAIN changed = low .. low + w - 1
  BY DEF Moves, BitsAt
<1>2. /\ DOMAIN new = DOMAIN old
      /\ \A b \in DOMAIN old : b \in DOMAIN changed => new[b] = changed[b]
      /\ \A b \in DOMAIN old : b \notin DOMAIN changed => new[b] = between[b]
  BY <1>1 DEF Updated
<1>3. ASSUME NEW c \in bits
      PROVE  target[e][c] \in DOMAIN changed /\ changed[target[e][c]] = source[e][c]
  <2>1. low + c \in low .. low + w - 1 /\ (low + c) - low = c
    OBVIOUS
  <2> QED
    BY <2>1 DEF BitsAt
<1>4. ASSUME NEW b \in DOMAIN changed PROVE \E c \in bits : b = target[e][c]
  <2>1. b - low \in bits /\ low + (b - low) = b
    BY <1>1
  <2> QED
    BY <2>1
<1> HIDE DEF changed, new, bits
<1>5. ASSUME NEW d \in done \cup {e}, NEW c \in bits, target[d][c] \in DOMAIN old,
             \A a \in done \cup {e}, u \in bits : a > d => target[a][u] # target[d][c]
      PROVE  new[target[d][c]] = source[d][c]
  <2>1. CASE d = e
    BY <1>2, <1>3, <1>5, <2>1
  <2>2. CASE d # e
    <3>1. d \in done /\ e > d
      BY <2>2
    <3>2. target[d][c] \notin DOMAIN changed
      BY <1>4, <1>5, <3>1
    <3>3. between[target[d][c]] = source[d][c]
      BY <1>5, <3>1 DEF Moves, bits
    <3> QED
      BY <1>2, <1>5, <3>2, <3>3
  <2> QED
    BY <2>1, <2>2
<1>6. ASSUME NEW b \in DOMAIN old, \A d \in done \cup {e}, c \in bits : target[d][c] # b
      PROVE  new[b] = old[b]
  <2>1. b \notin DOMAIN changed
    BY <1>4, <1>6
  <2>2. between[b] = old[b]
    BY <1>6 DEF Moves, bits
  <2> QED
    BY <1>2, <2>1, <2>2
<1>7. Moves(done \cup {e}, bits, target, source, old, new)
  BY <1>2, <1>5, <1>6 DEF Moves
<1> QED
  BY <1>7 DEF bits, new, changed

\* The elements below p of those in all, and again those from s on up to below q.
LEMMA MovesTwice ==
  ASSUME NEW all \in SUBSET Nat, NEW s \in Nat, NEW p \in Nat, NEW q \in Nat, s =< p,
         NEW bits, NEW target, NEW source, NEW old, NEW between, NEW new,
         Moves({e \in all : e < p}, bits, target, source, old, between),
         Moves({e \in all : s =< e /\ e < q}, bits, target, source, between, new),
         \A d \in all, e \in all : s =< d /\ d < e /\ e < p =>
           \A c \in bits, u \in bits : target[d][c] # target[e][u]
  PROVE  Moves({e \in all : e < IF p =< q THEN q ELSE p}, bits, target, source, old, new)
<1> DEFINE r == IF p =< q THEN q ELSE p
           first == {e \in all : e < p}
           second == {e \in all : s =< e /\ e < q}
           both == {e \in all : e < r}
<1>1. DOMAIN between = DOMAIN old /\ DOMAIN new = DOMAIN old
  BY DEF Moves
<1>2. /\ \A e \in all : (e \in first <=> e < p) /\ (e \in second <=> (s =< e /\ e < q))
                       /\ (e \in both <=> e \in first \/ e \in second)
      /\ first \subseteq all /\ second \subseteq all /\ both \subseteq all
  OBVIOUS
<1>0. Moves(first, bits, target, source, old, between) /\ Moves(second, bits, target, source, between, new)
  OBVIOUS
<1> HIDE DEF first, second, both, r
<1>3. ASSUME NEW e \in both, NEW c \in bits, target[e][c] \in DOMAIN old,
             \A d \in both, u \in bits : d > e => target[d][u] # target[e][c]
      PROVE  new[target[e][c]] = source[e][c]
  <2>1. CASE e \in second
    BY <1>0, <1>1, <1>2, <1>3, <2>1 DEF Moves
  <2>2. CASE e \notin second
    <3>1. e \in first /\ e \in all
      BY <1>2, <1>3, <2>2
    <3>2. between[target[e][c]] = source[e][c]
      BY <1>0, <1>2, <1>3, <3>1 DEF Moves
    <3>3. ASSUME NEW d \in second, NEW u \in bits PROVE target[d][u] # target[e][c]
      <4>1. CASE d > e
        BY <1>2, <1>3, <4>1
      <4>2. CASE ~(d > e)
        <5>1. d \in all /\ d < e /\ s =< d /\ e < p
          BY <1>2, <2>2, <3>1, <4>2
        <5> QED
          BY <3>1, <5>1
      <4> QED
        BY <4>1, <4>2
    <3>4. \A b \in DOMAIN between :
            (\A a \in second, u \in bits : target[a][u] # b) => new[b] = between[b]
      BY <1>0 DEF Moves
    <3> QED
      BY <1>1, <1>3, <3>2, <3>3, <3>4
  <2> QED
    BY <2>1, <2>2
<1>4. ASSUME NEW b \in DOMAIN old, \A e \in both, c \in bits : target[e][c] # b
      PROVE  new[b] = old[b]
  <2>1. between[b] = old[b]
    BY <1>0, <1>2, <1>4 DEF Moves
  <2>2. new[b] = between[b]
    BY <1>0, <1>1, <1>2, <1>4 DEF Moves
  <2> QED
    BY <2>1, <2>2
<1>5. Moves(both, bits, target, source, old, new)
  BY <1>1, <1>3, <1>4 DEF Moves
<1> QED
  BY <1>5 DEF r, both

\* The targets, the sources and what is left may be known by other names.
LEMMA MovesSame ==
  ASSUME NEW done, NEW bits, NEW target, NEW source, NEW old, NEW new,
         Moves(done, bits, target, source, old, new),
         NEW target2, NEW source2, NEW new2,
         \A e \in done, c \in bits : target2[e][c] = target[e][c] /\ source2[e][c] = source[e][c],
         DOMAIN new2 = DOMAIN old, \A b \in DOMAIN old : new2[b] = new[b]
  PROVE  Moves(done, bits, target2, source2, old, new2)
<1>1. ASSUME NEW e \in done, NEW c \in bits, target2[e][c] \in DOMAIN old,
             \A d \in done, u \in bits : d > e => target2[d][u] # target2[e][c]
      PROVE  new2[target2[e][c]] = source2[e][c]
  <2>1. /\ target[e][c] \in DOMAIN old
        /\ \A d \in done, u \in bits : d > e => target[d][u] # target[e][c]
    BY <1>1
  <2>2. new[target[e][c]] = source[e][c]
    BY <2>1 DEF Moves
  <2> QED
    BY <1>1, <2>2
<1>2. ASSUME NEW b \in DOMAIN old, \A e \in done, c \in bits : target2[e][c] # b
      PROVE  new2[b] = old[b]
  BY <1>2 DEF Moves
<1> QED
  BY <1>1, <1>2 DEF Moves
-----------------------------------------------------------------------------
(* The loops of the accesses, run to their end or to a trap.               *)

\* Where the elements go and what they are: a load takes them from memory.
Target(i) ==
  [e \in Nat |-> [c \in ElementBits(i) |->
     IF IsLoad(i) THEN ElementBit(i, e, c) ELSE 8 * ElementAddress(i, e) + c]]

Source(i) ==
  [e \in Nat |-> [c \in ElementBits(i) |->
     IF IsLoad(i) THEN mem[8 * ElementAddress(i, e) + c] ELSE v[ElementBit(i, e, c)]]]

Below(elements, q) == {e \in elements : e < q}

\* The elements below q are done, and nothing else, in the outcome o.
Progress(i, o, q) ==
  /\ o.vl = vl /\ o.vtype = vtype /\ o.vxsat = vxsat /\ o.fflags = fflags /\ o.x = x
  /\ IF IsLoad(i)
     THEN o.mem = mem /\ Moves(Below(AccessedElements(i), q), ElementBits(i), Target(i), Source(i), v, o.v)
     ELSE o.v = v /\ Moves(Below(AccessedElements(i), q), ElementBits(i), Target(i), Source(i), mem, o.mem)
  /\ \A e \in AccessedElements(i) : e < q => ~Misaligned(i, e)

StoppedAt(i, o, q) ==
  /\ q \in AccessedElements(i) /\ Progress(i, o, q) /\ o.vstart = q \div NumFields(i)
  /\ o.how \in {"misaligned", "fault"} /\ (o.how = "misaligned" <=> Misaligned(i, q))

\* An outcome in the middle of the loop, before its element e.
Running(i, o, e) ==
  /\ DOMAIN o = Fields /\ o.staged = <<>>
  /\ \/ o.how \in {"done", "illegal"} /\ Progress(i, o, e)
     \/ \E q \in Nat : StoppedAt(i, o, q)

\* The step s is at the element e.
IsAt(i, s, e) ==
  /\ s.n = e \div NumFields(i) /\ s.at = ElementAddress(i, e)
  /\ s.active = (e \in AccessedElements(i)) /\ Fits(i, e)
  /\ s.r \in Nat /\ s.k \in Nat
  /\ \A c \in ElementBits(i) : Place(s.r, s.k, DestWidth(i), c) = ElementBit(i, e, c)

\* The outcome t is o, but for how it ended, vstart and what is written.
Keeps(t, o) ==
  /\ DOMAIN t = Fields /\ t.staged = <<>>
  /\ t.vl = o.vl /\ t.vtype = o.vtype /\ t.vxsat = o.vxsat /\ t.fflags = o.fflags /\ t.x = o.x

LEMMA ElementPut ==
  ASSUME NEW p, DOMAIN p = Fields, p.staged = <<>>, NEW r, NEW k, NEW w, NEW value
  PROVE  LET t == write_single_element(p, r, k, w, value)
         IN  /\ Keeps(t, p) /\ t.how = p.how /\ t.mem = p.mem
             /\ t.v = Updated(p.v, BitsAt(Lowest(r, k, w), w, value))
BY DEF write_single_element, Lowest, Keeps, Fields

LEMMA TrapsAt ==
  ASSUME NEW i, NEW o, NEW e \in Nat, e \in AccessedElements(i),
         Running(i, o, e), ~Stopped(o), NEW t, Keeps(t, o), t.v = o.v, t.mem = o.mem,
         t.vstart = e \div NumFields(i),
         t.how \in {"misaligned", "fault"}, t.how = "misaligned" <=> Misaligned(i, e)
  PROVE  Running(i, t, e + 1)
<1>1. Progress(i, o, e)
  BY DEF Running, StoppedAt, Stopped
<1>2. Progress(i, t, e)
  BY <1>1 DEF Progress, Keeps
<1>3. StoppedAt(i, t, e)
  BY <1>2 DEF StoppedAt
<1> QED
  BY <1>3 DEF Running, Keeps

LEMMA BelowNext ==
  ASSUME NEW elements \in SUBSET Nat, NEW e \in Nat
  PROVE  /\ e \in elements => Below(elements, e + 1) = Below(elements, e) \cup {e}
         /\ e \notin elements => Below(elements, e + 1) = Below(elements, e)
         /\ \A d \in Below(elements, e) : d < e
         /\ Below(elements, e) \in SUBSET Nat
<1>1. \A d \in elements : (d < e + 1) <=> (d < e \/ d = e)
  OBVIOUS
<1> QED
  BY <1>1 DEF Below

LEMMA LoadStepRuns ==
  ASSUME HartOK, NEW i, Encoded(i), IsLoad(i), i.vd + Fills(i) =< NumRegs,
         NEW bytes \in Nat \ {0}, DestWidth(i) = 8 * bytes, Unstaged(8 * bytes),
         NEW m \in Nat \ {0}, VLEN = (8 * bytes) * m,
         \A d \in AccessedElements(i) : d \in Nat /\ Fits(i, d),
         NEW o, NEW e \in Nat, NEW s, IsAt(i, s, e), Running(i, o, e)
  PROVE  Running(i, LoadStep(o, s, bytes), e + 1)
<1> DEFINE w == 8 * bytes
           A == AccessedElements(i)
           low == Lowest(s.r, s.k, w)
<1>1. w \in Nat \ {0} /\ w \in Nat /\ A \in SUBSET Nat /\ DestWidth(i) \div 8 = bytes
      /\ ElementBits(i) = 0 .. w - 1
  BY DEF ElementBits
<1>2. /\ s.n = e \div NumFields(i) /\ s.at = ElementAddress(i, e)
      /\ s.active = (e \in A) /\ Fits(i, e) /\ s.r \in Nat /\ s.k \in Nat
      /\ \A c \in 0 .. w - 1 : Place(s.r, s.k, w, c) = ElementBit(i, e, c)
  BY <1>1 DEF IsAt
<1>3. low \in Nat /\ \A c \in 0 .. w - 1 : Place(s.r, s.k, w, c) = low + c
  <2>1. VLEN = w * m
    OBVIOUS
  <2> DEFINE r == s.r
             k == s.k
  <2>2. r \in Nat /\ k \in Nat
    BY <1>2
  <2> HIDE DEF w, r, k
  <2>3. Lowest(r, k, w) \in Nat /\ \A c \in 0 .. w - 1 : Place(r, k, w, c) = Lowest(r, k, w) + c
    BY ONLY HartOK, <1>1, <2>1, <2>2, m \in Nat \ {0}, ElementInRegister, ZenonT(20)
  <2> QED
    BY <2>3 DEF r, k
<1>4. \A c \in 0 .. w - 1 : ElementBit(i, e, c) = low + c
  BY <1>2, <1>3
<1>5. \A p, value :
        DOMAIN p = Fields /\ p.staged = <<>> =>
          LET t == write_single_element(p, s.r, s.k, 8 * bytes, value)
          IN  Keeps(t, p) /\ t.how = p.how /\ t.mem = p.mem /\ t.v = Updated(p.v, BitsAt(low, w, value))
  BY ElementPut
<1> HIDE DEF w, low, A
<1>6. CASE Stopped(o)
  <2>1. LoadStep(o, s, bytes) = o
    BY <1>6 DEF LoadStep, Try
  <2>2. \E q \in Nat : StoppedAt(i, o, q)
    BY <1>6 DEF Running, Stopped
  <2> QED
    BY <2>1, <2>2 DEF Running
<1>7. CASE ~Stopped(o) /\ e \notin A
  <2> DEFINE value == Elem(s.r, w, s.k)
             p == write_single_element(o, s.r, s.k, 8 * bytes, value)
  <2>1. DOMAIN o = Fields /\ o.staged = <<>> /\ Progress(i, o, e) /\ o.how \in {"done", "illegal"}
    BY <1>7 DEF Running, StoppedAt, Stopped
  <2>2. LoadStep(o, s, bytes) = p
    <3>1. ~s.active
      BY <1>2, <1>7
    <3> QED
      BY <1>7, <3>1 DEF LoadStep, w
  <2>3. \A c \in 0 .. w - 1 : value[c] = v[low + c]
    BY <1>3 DEF Elem, Place
  <2> HIDE DEF value
  <2>4. Keeps(p, o) /\ p.how = o.how /\ p.mem = o.mem /\ p.v = Updated(o.v, BitsAt(low, w, value))
    BY <1>5, <2>1
  <2> HIDE DEF p
  <2>5. Moves(Below(A, e), ElementBits(i), Target(i), Source(i), v, o.v)
    BY <2>1 DEF Progress, A
  <2>6. ASSUME NEW b \in DOMAIN v PROVE p.v[b] = o.v[b]
    <3>1. DOMAIN o.v = DOMAIN v
      BY <2>5 DEF Moves
    <3>2. CASE b \notin low .. low + w - 1
      BY <2>4, <3>1, <3>2 DEF Updated, BitsAt
    <3>3. CASE b \in low .. low + w - 1
      <4> DEFINE c == b - low
      <4>1. c \in 0 .. w - 1 /\ low + c = b
        BY <1>1, <1>3, <3>3
      <4> HIDE DEF c
      <4>2. p.v[b] = value[c]
        BY <2>4, <3>1, <3>3 DEF Updated, BitsAt, c
      <4>3. ASSUME NEW d \in Below(A, e), NEW u \in ElementBits(i), Target(i)[d][u] = b PROVE FALSE
        <5>1. d \in Nat /\ d \in A /\ Fits(i, d)
          BY <1>1 DEF Below, A
        <5>2. ElementBit(i, d, u) = b
          BY <4>3, <5>1 DEF Target
        <5>3. ElementBit(i, e, c) = b /\ c \in ElementBits(i)
          BY <1>1, <1>4, <4>1
        <5>4. DestWidth(i) \in Nat \ {0}
          BY <1>1 DEF w
        <5>5. d = e
          BY <1>2, <5>1, <5>2, <5>3, <5>4, LoadBitsApart
        <5> QED
          BY <1>7, <5>1, <5>5
      <4>4. o.v[b] = v[b]
        BY <2>5, <4>3 DEF Moves
      <4> QED
        BY <2>3, <4>1, <4>2, <4>4
    <3> QED
      BY <3>2, <3>3
  <2>7. DOMAIN p.v = DOMAIN v
    BY <2>4, <2>5 DEF Updated, Moves
  <2>8. Moves(Below(A, e + 1), ElementBits(i), Target(i), Source(i), v, p.v)
    <3>1. Below(A, e + 1) = Below(A, e)
      BY <1>1, <1>7, BelowNext
    <3> QED
      BY <2>5, <2>6, <2>7, <3>1, MovesSame
  <2>9. \A d \in A : d < e + 1 => d < e
    BY <1>1, <1>7
  <2>10. Progress(i, p, e + 1)
    BY <2>1, <2>4, <2>8, <2>9 DEF Progress, A, Keeps
  <2> QED
    BY <2>1, <2>2, <2>4, <2>10 DEF Running, Keeps
<1>8. CASE ~Stopped(o) /\ e \in A
  <2> DEFINE here == AtSegment(o, s)
             value == [b \in 0 .. 8 * bytes - 1 |-> here.mem[8 * s.at + b]]
             p == write_single_element(here, s.r, s.k, 8 * bytes, value)
             trapped == [here EXCEPT !.how = "misaligned"]
             faulted == [here EXCEPT !.how = "fault", !.wants = {s.at \div PageBytes}]
  <2>1. DOMAIN o = Fields /\ o.staged = <<>> /\ Progress(i, o, e) /\ o.how \in {"done", "illegal"}
    BY <1>8 DEF Running, StoppedAt, Stopped
  <2>2. /\ Keeps(here, o) /\ here.how = o.how /\ here.v = o.v /\ here.mem = o.mem
        /\ Keeps(trapped, o) /\ trapped.how = "misaligned" /\ trapped.vstart = s.n
        /\ trapped.v = o.v /\ trapped.mem = o.mem
        /\ Keeps(faulted, o) /\ faulted.how = "fault" /\ faulted.vstart = s.n
        /\ faulted.v = o.v /\ faulted.mem = o.mem
    BY <2>1 DEF AtSegment, Fields, Keeps
  <2>3. Fetch(here, s, bytes) = p
    BY DEF Fetch, Unstaged
  <2>4. \/ s.at % bytes # 0 /\ LoadStep(o, s, bytes) = trapped
        \/ s.at % bytes = 0 /\ LoadStep(o, s, bytes) = faulted
        \/ s.at % bytes = 0 /\ LoadStep(o, s, bytes) = p
    BY <1>2, <1>8, <2>3 DEF LoadStep, Try
  <2>5. Misaligned(i, e) <=> s.at % bytes # 0
    BY <1>1, <1>2 DEF Misaligned
  <2> HIDE DEF trapped, faulted
  <2>6. /\ Misaligned(i, e) => Running(i, trapped, e + 1)
        /\ ~Misaligned(i, e) => Running(i, faulted, e + 1)
    <3>1. e \in AccessedElements(i) /\ ~Stopped(o) /\ s.n = e \div NumFields(i)
      BY <1>2, <1>8 DEF A
    <3>2. ASSUME Misaligned(i, e) PROVE Running(i, trapped, e + 1)
      <4>1. /\ Keeps(trapped, o) /\ trapped.v = o.v /\ trapped.mem = o.mem
            /\ trapped.vstart = e \div NumFields(i) /\ trapped.how = "misaligned"
        BY <2>2, <3>1
      <4> QED
        BY <3>1, <3>2, <4>1, TrapsAt
    <3>3. ASSUME ~Misaligned(i, e) PROVE Running(i, faulted, e + 1)
      BY <2>2, <3>1, <3>3, TrapsAt
    <3> QED
      BY <3>2, <3>3
  <2>7. ~Misaligned(i, e) => Running(i, p, e + 1)
    <3> SUFFICES ASSUME ~Misaligned(i, e) PROVE Running(i, p, e + 1)
      OBVIOUS
    <3>1. \A c \in 0 .. w - 1 : value[c] = mem[8 * s.at + c]
      BY <2>1, <2>2 DEF Progress, w
    <3> HIDE DEF value, here
    <3>2. Keeps(p, o) /\ p.how = o.how /\ p.mem = o.mem /\ p.v = Updated(o.v, BitsAt(low, w, value))
      BY <1>5, <2>2 DEF Keeps
    <3> HIDE DEF p
    <3>3. Moves(Below(A, e), 0 .. w - 1, Target(i), Source(i), v, o.v)
      BY <1>1, <2>1 DEF Progress, A
    <3>4. \A c \in 0 .. w - 1 : Target(i)[e][c] = low + c /\ Source(i)[e][c] = value[c]
      BY <1>1, <1>2, <1>4, <3>1 DEF Target, Source
    <3>5. Moves(Below(A, e) \cup {e}, 0 .. w - 1, Target(i), Source(i), v, p.v)
      <4> DEFINE done == Below(A, e)
                 target == Target(i)
                 source == Source(i)
                 between == o.v
      <4>1. done \in SUBSET Nat /\ \A d \in done : d < e
        BY <1>1, BelowNext
      <4>2. /\ w \in Nat /\ low \in Int /\ Moves(done, 0 .. w - 1, target, source, v, between)
            /\ \A c \in 0 .. w - 1 : target[e][c] = low + c /\ source[e][c] = value[c]
        BY <1>1, <1>3, <3>3, <3>4
      <4> HIDE DEF done, target, source, between
      <4>3. Moves(done \cup {e}, 0 .. w - 1, target, source, v, Updated(between, BitsAt(low, w, value)))
        BY <4>1, <4>2, MovesOne
      <4> QED
        BY <3>2, <4>3 DEF done, target, source, between
    <3>6. Moves(Below(A, e + 1), ElementBits(i), Target(i), Source(i), v, p.v)
      <4>1. Below(A, e + 1) = Below(A, e) \cup {e}
        BY <1>1, <1>8, BelowNext
      <4> QED
        BY <1>1, <3>5, <4>1
    <3>7. \A d \in A : d < e + 1 => d < e \/ d = e
      BY <1>1
    <3>8. Progress(i, p, e + 1)
      BY <2>1, <3>2, <3>6, <3>7 DEF Progress, A, Keeps
    <3> QED
      BY <2>1, <3>2, <3>8 DEF Running, Keeps
  <2> HIDE DEF here, value, p
  <2> QED
    BY <2>4, <2>5, <2>6, <2>7
<1> QED
  BY <1>6, <1>7, <1>8

LEMMA StoreStepRuns ==
  ASSUME HartOK, NEW i, Encoded(i), ~IsLoad(i),
         NEW bytes \in Nat \ {0}, DestWidth(i) = 8 * bytes,
         AccessedElements(i) \in SUBSET Nat,
         \A d \in AccessedElements(i) : ElementAddress(i, d) \in Int,
         NEW o, NEW e \in Nat, NEW s, IsAt(i, s, e), StoresOwn(i, s), Running(i, o, e)
  PROVE  Running(i, StoreStep(o, s, bytes), e + 1)
<1> DEFINE w == 8 * bytes
           A == AccessedElements(i)
<1>1. w \in Nat /\ A \in SUBSET Nat /\ DestWidth(i) \div 8 = bytes /\ ElementBits(i) = 0 .. w - 1
  BY DEF ElementBits
<1>2. /\ s.n = e \div NumFields(i) /\ s.at = ElementAddress(i, e) /\ s.active = (e \in A)
      /\ \A c \in 0 .. w - 1 : Place(s.r, s.k, w, c) = ElementBit(i, e, c)
  BY <1>1 DEF IsAt
<1>3. \A c \in 0 .. w - 1 : Elem(s.r, w, s.k)[c] = v[ElementBit(i, e, c)]
  BY <1>2 DEF Elem, Place
<1> HIDE DEF w, A
<1>4. CASE Stopped(o)
  <2>1. StoreStep(o, s, bytes) = o
    BY <1>4 DEF StoreStep, Try
  <2>2. \E q \in Nat : StoppedAt(i, o, q)
    BY <1>4 DEF Running, Stopped
  <2> QED
    BY <2>1, <2>2 DEF Running
<1>5. CASE ~Stopped(o) /\ e \notin A
  <2>1. DOMAIN o = Fields /\ o.staged = <<>> /\ Progress(i, o, e) /\ o.how \in {"done", "illegal"}
    BY <1>5 DEF Running, StoppedAt, Stopped
  <2>2. StoreStep(o, s, bytes) = o
    BY <1>2, <1>5 DEF StoreStep
  <2>3. Below(A, e + 1) = Below(A, e)
    BY <1>1, <1>5, BelowNext
  <2>4. \A d \in A : d < e + 1 => d < e
    BY <1>1, <1>5
  <2>5. Progress(i, o, e + 1)
    BY <2>1, <2>3, <2>4 DEF Progress, A
  <2> QED
    BY <2>1, <2>2, <2>5 DEF Running
<1>6. CASE ~Stopped(o) /\ e \in A
  <2> DEFINE here == AtSegment(o, s)
             value == Elem(s.r, 8 * bytes, s.k)
             low == 8 * s.at
             p == Store(here, s, bytes)
             trapped == [here EXCEPT !.how = "misaligned"]
             faulted == [here EXCEPT !.how = "fault", !.wants = {s.at \div PageBytes}]
  <2>1. DOMAIN o = Fields /\ o.staged = <<>> /\ Progress(i, o, e) /\ o.how \in {"done", "illegal"}
    BY <1>6 DEF Running, StoppedAt, Stopped
  <2>9. /\ Keeps(here, o) /\ here.how = o.how /\ here.v = o.v /\ here.mem = o.mem
        /\ Keeps(trapped, o) /\ trapped.how = "misaligned" /\ trapped.vstart = s.n
        /\ trapped.v = o.v /\ trapped.mem = o.mem
        /\ Keeps(faulted, o) /\ faulted.how = "fault" /\ faulted.vstart = s.n
        /\ faulted.v = o.v /\ faulted.mem = o.mem
    BY <2>1 DEF AtSegment, Fields, Keeps
  <2>10. Keeps(p, o) /\ p.how = o.how /\ p.v = o.v /\ p.mem = Updated(o.mem, BitsAt(low, w, value))
    <3>1. Unstaged(8 * bytes) \/ (s.stages /\ s.first = s.r)
      BY DEF StoresOwn
    <3> HIDE DEF here
    <3>2. DOMAIN here = Fields
      BY <2>9 DEF Keeps
    <3>3. /\ DOMAIN p = Fields /\ p.staged = here.staged /\ p.v = here.v /\ p.vl = here.vl
          /\ p.vtype = here.vtype /\ p.vxsat = here.vxsat /\ p.fflags = here.fflags
          /\ p.x = here.x /\ p.how = here.how
          /\ p.mem = Updated(here.mem, BitsAt(8 * s.at, 8 * bytes, Elem(s.r, 8 * bytes, s.k)))
      BY <3>1, <3>2, StorePut
    <3> HIDE DEF p
    <3> QED
      BY <2>9, <3>3 DEF Keeps, w
  <2>2. /\ Keeps(p, o) /\ p.how = o.how /\ p.v = o.v /\ p.mem = Updated(o.mem, BitsAt(low, w, value))
        /\ Keeps(trapped, o) /\ trapped.how = "misaligned" /\ trapped.vstart = s.n
        /\ trapped.v = o.v /\ trapped.mem = o.mem
        /\ Keeps(faulted, o) /\ faulted.how = "fault" /\ faulted.vstart = s.n
        /\ faulted.v = o.v /\ faulted.mem = o.mem
    BY <2>9, <2>10
  <2>3. \/ s.at % bytes # 0 /\ StoreStep(o, s, bytes) = trapped
        \/ s.at % bytes = 0 /\ StoreStep(o, s, bytes) = faulted
        \/ s.at % bytes = 0 /\ StoreStep(o, s, bytes) = p
    BY <1>2, <1>6 DEF StoreStep, Try
  <2>4. Misaligned(i, e) <=> s.at % bytes # 0
    BY <1>1, <1>2 DEF Misaligned
  <2>5. low \in Int /\ \A c \in 0 .. w - 1 : value[c] = v[ElementBit(i, e, c)]
    BY <1>2, <1>3, <1>6 DEF w, A
  <2>6. \A c \in 0 .. w - 1 : Target(i)[e][c] = low + c /\ Source(i)[e][c] = value[c]
    BY <1>1, <1>2, <2>5 DEF Target, Source
  <2> HIDE DEF here, value, low, p, trapped, faulted
  <2>7. /\ Misaligned(i, e) => Running(i, trapped, e + 1)
        /\ ~Misaligned(i, e) => Running(i, faulted, e + 1)
    <3>1. e \in AccessedElements(i) /\ ~Stopped(o) /\ s.n = e \div NumFields(i)
      BY <1>2, <1>6 DEF A
    <3>2. ASSUME Misaligned(i, e) PROVE Running(i, trapped, e + 1)
      BY <2>2, <3>1, <3>2, TrapsAt
    <3>3. ASSUME ~Misaligned(i, e) PROVE Running(i, faulted, e + 1)
      BY <2>2, <3>1, <3>3, TrapsAt
    <3> QED
      BY <3>2, <3>3
  <2>8. ~Misaligned(i, e) => Running(i, p, e + 1)
    <3> SUFFICES ASSUME ~Misaligned(i, e) PROVE Running(i, p, e + 1)
      OBVIOUS
    <3>1. Moves(Below(A, e), 0 .. w - 1, Target(i), Source(i), mem, o.mem)
      BY <1>1, <2>1 DEF Progress, A
    <3>2. Moves(Below(A, e) \cup {e}, 0 .. w - 1, Target(i), Source(i), mem, p.mem)
      <4> DEFINE done == Below(A, e)
                 target == Target(i)
                 source == Source(i)
                 between == o.mem
      <4>1. done \in SUBSET Nat /\ \A d \in done : d < e
        BY <1>1, BelowNext
      <4>2. /\ w \in Nat /\ low \in Int /\ Moves(done, 0 .. w - 1, target, source, mem, between)
            /\ \A c \in 0 .. w - 1 : target[e][c] = low + c /\ source[e][c] = value[c]
        BY <1>1, <2>5, <2>6, <3>1
      <4> HIDE DEF done, target, source, between
      <4>3. Moves(done \cup {e}, 0 .. w - 1, target, source, mem, Updated(between, BitsAt(low, w, value)))
        BY <4>1, <4>2, MovesOne
      <4> QED
        BY <2>2, <4>3 DEF done, target, source, between
    <3>3. Moves(Below(A, e + 1), ElementBits(i), Target(i), Source(i), mem, p.mem)
      <4>1. Below(A, e + 1) = Below(A, e) \cup {e}
        BY <1>1, <1>6, BelowNext
      <4> QED
        BY <1>1, <3>2, <4>1
    <3>4. \A d \in A : d < e + 1 => d < e \/ d = e
      BY <1>1
    <3>5. Progress(i, p, e + 1)
      BY <2>1, <2>2, <3>3, <3>4 DEF Progress, A, Keeps
    <3> QED
      BY <2>1, <2>2, <3>5 DEF Running, Keeps
  <2> QED
    BY <2>3, <2>4, <2>7, <2>8
<1> QED
  BY <1>4, <1>5, <1>6

LEMMA AddressTyped ==
  ASSUME HartOK, NEW i, Encoded(i), NEW e \in Nat PROVE ElementAddress(i, e) \in Int
<1> DEFINE k == e \div NumFields(i)
           j == e % NumFields(i)
<1>1. k \in Nat /\ j \in Nat
  <2>1. NumFields(i) \in Nat \ {0}
    BY FieldsTyped
  <2>2. k \in Nat /\ j \in 0 .. NumFields(i) - 1
    BY <2>1, Division
  <2> HIDE DEF k, j
  <2> QED
    BY <2>1, <2>2
<1>2. Bytes(i.width) \in Nat /\ i.x \in Int /\ i.stride \in Int /\ i.nf \in Nat
  <2>1. i.width \in 3 .. 6
    BY DEF Encoded
  <2> QED
    BY <2>1, ElementBytes DEF Encoded
<1>3. ElementAddress(i, e) = Address(i, k, j)
  BY DEF ElementAddress
<1> HIDE DEF k, j
<1> DEFINE b == Bytes(i.width)
           sum == k * i.nf + j
<1>4. UnitStride(i, k, j) = sum * b /\ Strided(i, k, j) = k * i.stride + j * b
  BY DEF UnitStride, Strided
<1>5. Indexed(i, k, j) \in Int
  BY <1>1, IndexedTyped
<1>6. sum \in Nat /\ k * b \in Nat /\ j * b \in Nat /\ k * i.stride \in Int
  BY <1>1, <1>2
<1> HIDE DEF sum
<1>7. sum * b \in Nat /\ b \in Nat
  BY <1>2, <1>6
<1>8. UnitStride(i, k, j) \in Int /\ Strided(i, k, j) \in Int /\ k * Bytes(i.width) \in Int
  BY <1>4, <1>6, <1>7
<1> HIDE DEF b
<1> QED
  BY <1>1, <1>2, <1>3, <1>5, <1>8 DEF Address

\* The outcome of the whole loop.
Result(i, o) ==
  \E q \in Nat :
    \/ /\ Progress(i, o, q) /\ \A e \in AccessedElements(i) : e < q
       /\ o.how \in {"done", "illegal"} /\ o.vstart = 0
    \/ StoppedAt(i, o, q)

LEMMA LoopRuns ==
  ASSUME HartOK, NEW i, Encoded(i), NEW o, Loops(i, o),
         IsLoad(i) => i.vd + Fills(i) =< NumRegs /\ Unstaged(DestWidth(i)), ~StoresStale(i)
  PROVE  Result(i, o)
<1>1. PICK steps, first, bytes :
        /\ Numbered(i, steps, first) /\ bytes \in Nat \ {0} /\ DestWidth(i) = 8 * bytes
        /\ \E m \in Nat \ {0} : VLEN = (8 * bytes) * m
        /\ o = IF IsLoad(i) THEN Loads(steps, bytes) ELSE Stores(steps, bytes)
  BY DEF Loops
<1> DEFINE A == AccessedElements(i)
           len == Len(steps)
           after == IF IsLoad(i) THEN LoadsAfter(steps, bytes) ELSE StoresAfter(steps, bytes)
           G == {n \in 0 .. len : Running(i, after[n], first + n)}
<1>2. /\ first \in Nat /\ len \in Nat /\ A \subseteq first .. first + len - 1
      /\ \A q \in 1 .. len : IsAt(i, steps[q], first + q - 1) /\ StoresOwn(i, steps[q])
  BY <1>1 DEF Numbered, IsAt
<1>3. A \in SUBSET Nat /\ \A e \in A : e \in Nat /\ Fits(i, e)
  <2>1. ASSUME NEW e \in A PROVE e \in Nat /\ Fits(i, e)
    <3>1. e \in Nat /\ e - first + 1 \in 1 .. len /\ first + (e - first + 1) - 1 = e
      BY <1>2
    <3> QED
      BY <1>2, <3>1 DEF IsAt
  <2> QED
    BY <2>1
<1>4. /\ after[0] = Started
      /\ \A n \in 1 .. len : after[n] = IF IsLoad(i) THEN LoadStep(after[n - 1], steps[n], bytes)
                                                     ELSE StoreStep(after[n - 1], steps[n], bytes)
  BY <1>2, LoadsUnfolds, StoresUnfolds
<1>5. o = Ended(after[len])
  BY <1>1 DEF Loads, Stores
<1> HIDE DEF after, len, A
<1>6. 0 \in G
  <2>1. Below(A, first) = {}
    <3>1. \A e \in A : ~(e < first)
      BY <1>2
    <3> QED
      BY <3>1 DEF Below
  <2>2. Progress(i, Started, first)
    <3>1. \A e \in A : ~(e < first)
      BY <1>2
    <3>2. \A old : Moves({}, ElementBits(i), Target(i), Source(i), old, old)
      BY DEF Moves
    <3> QED
      BY <2>1, <3>1, <3>2 DEF Progress, Started, Now, A
  <2>3. DOMAIN Started = Fields /\ Started.staged = <<>> /\ Started.how \in {"done", "illegal"}
    BY DEF Started, Now, Fields, get_start_element
  <2>4. first + 0 = first /\ 0 \in 0 .. len
    BY <1>2
  <2> QED
    BY <1>4, <2>2, <2>3, <2>4 DEF Running
<1>7. ASSUME NEW n \in 0 .. len - 1, n \in G PROVE n + 1 \in G
  <2> DEFINE s == steps[n + 1]
             e == first + n
  <2>1. n + 1 \in 1 .. len /\ (n + 1) - 1 = n /\ n + 1 \in 0 .. len /\ first + (n + 1) - 1 = e
        /\ e \in Nat /\ first + (n + 1) = e + 1
    BY <1>2
  <2>2. IsAt(i, s, e) /\ StoresOwn(i, s) /\ Running(i, after[n], e)
    BY <1>2, <1>7, <2>1
  <2>3. after[n + 1] = IF IsLoad(i) THEN LoadStep(after[n], s, bytes)
                                    ELSE StoreStep(after[n], s, bytes)
    BY <1>4, <2>1
  <2> HIDE DEF s, e
  <2>4. CASE IsLoad(i)
    <3>1. PICK m \in Nat \ {0} : VLEN = (8 * bytes) * m
      BY <1>1
    <3>2. Running(i, LoadStep(after[n], s, bytes), e + 1)
      BY <1>1, <1>3, <2>1, <2>2, <2>4, <3>1, LoadStepRuns DEF A
    <3> QED
      BY <2>1, <2>3, <2>4, <3>2
  <2>5. CASE ~IsLoad(i)
    <3>1. \A d \in AccessedElements(i) : ElementAddress(i, d) \in Int
      BY <1>3, AddressTyped DEF A
    <3>2. Running(i, StoreStep(after[n], s, bytes), e + 1)
      BY <1>1, <1>3, <2>1, <2>2, <2>5, <3>1, StoreStepRuns DEF A
    <3> QED
      BY <2>1, <2>3, <2>5, <3>2
  <2> QED
    BY <2>4, <2>5
<1>8. Running(i, after[len], first + len)
  <2> HIDE DEF G
  <2>1. \A n \in 0 .. len : n \in G
    BY <1>2, <1>6, <1>7, UpTo
  <2> QED
    BY <1>2, <2>1 DEF G
<1>9. CASE Stopped(after[len])
  <2>1. o = after[len]
    BY <1>5, <1>9 DEF Ended
  <2>2. \E q \in Nat : StoppedAt(i, o, q)
    BY <1>8, <1>9, <2>1 DEF Running, Stopped
  <2> QED
    BY <2>2 DEF Result
<1>10. CASE ~Stopped(after[len])
  <2> DEFINE p == after[len]
             q == first + len
  <2>1. /\ DOMAIN p = Fields /\ Progress(i, p, q) /\ p.how \in {"done", "illegal"}
    BY <1>8, <1>10 DEF Running, StoppedAt, Stopped
  <2>2. o = [p EXCEPT !.vstart = 0]
    BY <1>5, <1>10 DEF Ended
  <2> HIDE DEF p
  <2>3. /\ o.how = p.how /\ o.vstart = 0 /\ o.v = p.v /\ o.mem = p.mem /\ o.vl = p.vl
        /\ o.vtype = p.vtype /\ o.vxsat = p.vxsat /\ o.fflags = p.fflags /\ o.x = p.x
    BY <2>1, <2>2 DEF Fields
  <2>4. Progress(i, o, q)
    BY <2>1, <2>3 DEF Progress
  <2>5. q \in Nat /\ \A e \in AccessedElements(i) : e < q
    BY <1>2 DEF A
  <2> QED
    BY <2>1, <2>3, <2>4, <2>5 DEF Result
<1> QED
  BY <1>9, <1>10

LEMMA LoadsUnstaged ==
  ASSUME NEW i, Encoded(i), i.file = "mem", Plain(i), IsLoad(i)
  PROVE  Unstaged(DestWidth(i))
<1>1. i.width \in 3 .. 6 /\ i.name # "VLSEGFFTYPE"
  BY DEF Encoded, Plain
<1>2. CASE i.name \in {"VLSEGTYPE", "VLSSEGTYPE", "VLRETYPE"}
  <2>1. DestWidth(i) = 2^i.width
    BY <1>2 DEF DestWidth, WidensResult, MakesMask, OwnWidth
  <2> QED
    BY <1>1, <1>2, <2>1, NotDouble DEF Unstaged, Plain
<1>3. CASE i.name \in {"VLUXSEGTYPE", "VLOXSEGTYPE"}
  BY <1>3 DEF Unstaged, Plain
<1>4. CASE i.name = "VMTYPE"
  <2>1. DestWidth(i) = 8 /\ 2^3 = 8
    BY <1>4 DEF DestWidth, WidensResult, MakesMask, OwnWidth
  <2>2. 3 \in 3 .. 6 /\ 3 # DoublePow
    BY WidthsAssumption
  <2> QED
    BY <2>1, <2>2, NotDouble DEF Unstaged
<1> QED
  BY <1>2, <1>3, <1>4 DEF IsLoad

\* What an access does that is not refused.
LEMMA AccessRuns ==
  ASSUME HartOK, NEW i, Encoded(i), i.file = "mem", Plain(i), ~Unpromised(i), Proceeds(i)
  PROVE  Result(i, MemoryAccess(i))
<1>1. Loops(i, MemoryAccess(i))
  BY AccessLoops DEF Plain
<1>2. IsLoad(i) => i.vd + Fills(i) =< NumRegs
  <2>1. i.vd + Fills(i) \in Int
    <3>1. EMUL(i) \in Int /\ EMUL(i) =< 10 /\ LMUL \in Int /\ LMUL =< 10
      BY MemoryOperands
    <3>2. DataGroup(i) \in Nat
      BY <3>1, GroupPositive DEF DataGroup
    <3>3. FieldRegisters(i) \in Nat
      BY <3>2 DEF FieldRegisters, Encoded
    <3>4. NumFields(i) \in Nat /\ i.vd \in Nat
      BY FieldsTyped DEF Encoded
    <3> QED
      BY <3>3, <3>4 DEF Fills
  <2>2. NumRegs \in Int
    BY Sizes
  <2> QED
    BY <2>1, <2>2 DEF Unpromised, Overlaps
<1>3. ~StoresStale(i)
  BY DEF Unpromised
<1> QED
  BY <1>1, <1>2, <1>3, LoopRuns, LoadsUnstaged
-----------------------------------------------------------------------------
(* A load leaves the mask and the indices that select its elements.        *)

\* The bits that say which elements there are and at what addresses; a store
\* changes none at all.
Reads(i) ==
  IF IsLoad(i)
  THEN {b \in Positions :
          \/ ~i.vm /\ i.name \notin WholeRegister \cup {"VMTYPE"} /\ b < VLEN
          \/ i.name \in Indexes /\ b \in i.vs2 * VLEN .. (i.vs2 + Group(EMUL(i))) * VLEN - 1}
  ELSE Positions

LEMMA IndexBits ==
  ASSUME HartOK, NEW i, Encoded(i), i.name \in Indexes, Proceeds(i),
         NEW k \in Nat, k < vl, NEW b \in 0 .. 2^i.width - 1
  PROVE  LET p == (i.vs2 * VLEN + k * 2^i.width + b) % (NumRegs * VLEN)
         IN  p \in Positions /\ p \in i.vs2 * VLEN .. (i.vs2 + Group(EMUL(i))) * VLEN - 1
<1> DEFINE n == get_num_elem(EMUL(i), i.width)
           size == 2^i.width
           g == Group(EMUL(i))
           raw == i.vs2 * VLEN + k * size + b
           N == NumRegs * VLEN
<1>1. EMUL(i) \in -10 .. 10 /\ i.width \in 3 .. 6 /\ EMUL(i) - i.width = LMUL - SEW
  <2>1. EMUL(i) \in -10 .. 10 /\ i.width \in 3 .. 6
    BY MemoryOperands
  <2> QED
    BY <2>1, Sizes DEF EMUL
<1>2. ~(i.width > VlenPow + AtLeast0(EMUL(i)))
  <2>1. SEW =< LMUL + ElenPow /\ ElenPow =< VlenPow /\ VlenPow \in Nat /\ ElenPow \in Int
    BY WidthsAssumption DEF HartOK
  <2>2. AtLeast0(EMUL(i)) >= EMUL(i) /\ AtLeast0(EMUL(i)) \in Int
    BY <1>1 DEF AtLeast0
  <2> QED
    BY <1>1, <2>1, <2>2, Sizes
<1>3. /\ n \in Nat /\ VLMAX \in Nat /\ VLMAX =< n /\ n * size = g * VLEN
      /\ size \in Nat \ {0} /\ g \in Nat \ {0}
  BY <1>1, <1>2, GroupHolds
<1>4. vl \in Nat /\ vl =< VLMAX /\ i.vs2 \in Nat /\ VLEN \in Nat \ {0} /\ NumRegs \in Nat \ {0}
  BY <1>3, Sizes DEF HartOK, Encoded
<1>5. i.vs2 + g =< NumRegs
  <2>1. CanRead(EMUL(i), {i.vs2})
    BY DEF Proceeds, Runs, Indexes
  <2> QED
    BY <2>1 DEF CanRead, Group
<1> HIDE DEF n, size, g
<1>6. k + 1 =< n /\ k + 1 \in Nat
  BY <1>3, <1>4
<1>7. (k + 1) * size =< n * size /\ (k + 1) * size = k * size + size /\ k * size \in Nat
  BY <1>3, <1>6, ProductGrows
<1>8. (i.vs2 + g) * VLEN =< NumRegs * VLEN /\ (i.vs2 + g) * VLEN = i.vs2 * VLEN + g * VLEN
      /\ i.vs2 * VLEN \in Nat /\ g * VLEN \in Nat /\ N \in Nat \ {0}
  <2>1. i.vs2 + g \in Nat
    BY <1>3, <1>4
  <2>2. (i.vs2 + g) * VLEN =< NumRegs * VLEN
    BY <1>4, <1>5, <2>1, ProductGrows
  <2> QED
    BY <1>3, <1>4, <2>2
<1>9. raw \in 0 .. N - 1 /\ raw >= i.vs2 * VLEN /\ raw < (i.vs2 + g) * VLEN
  <2>1. b \in Nat /\ b < size
    BY <1>3 DEF size
  <2> QED
    BY <1>3, <1>7, <1>8, <2>1
<1> HIDE DEF raw
<1>10. raw % N = raw
  <2> HIDE DEF N
  <2> QED
    BY <1>8, <1>9
<1>11. (i.vs2 * VLEN + k * 2^i.width + b) % (NumRegs * VLEN) = raw
  BY <1>10 DEF raw, size, N
<1> QED
  BY <1>8, <1>9, <1>11 DEF Positions, g, N

\* The elements of an access are in the registers of their fields.
LEMMA AccessFits ==
  ASSUME HartOK, NEW i, Encoded(i), i.file = "mem", i.name # "VLSEGFFTYPE", Proceeds(i)
  PROVE  /\ AccessedElements(i) \in SUBSET Nat
         /\ \A e \in AccessedElements(i) : Fits(i, e)
         /\ DestWidth(i) \in Nat \ {0} /\ DestWidth(i) \div 8 \in Nat \ {0}
         /\ DestWidth(i) = 8 * (DestWidth(i) \div 8)
<1>1. PICK steps, first, bytes :
        Numbered(i, steps, first) /\ bytes \in Nat \ {0} /\ DestWidth(i) = 8 * bytes
  BY AccessLoops DEF Loops
<1>2. ASSUME NEW e \in AccessedElements(i) PROVE e \in Nat /\ Fits(i, e)
  <2>1. /\ e \in Nat /\ e - first + 1 \in 1 .. Len(steps) /\ first + (e - first + 1) - 1 = e
    BY <1>1 DEF Numbered
  <2> QED
    BY <1>1, <2>1 DEF Numbered
<1> QED
  BY <1>1, <1>2

LEMMA LoadFills ==
  ASSUME HartOK, NEW i, Encoded(i), IsLoad(i), ~Unpromised(i)
  PROVE  /\ i.vd + Fills(i) =< NumRegs /\ Fills(i) \in Nat /\ Group(EMUL(i)) \in Nat
         /\ i.name \in Indexes =>
              i.vs2 + Group(EMUL(i)) =< i.vd \/ i.vd + Fills(i) =< i.vs2
<1>1. EMUL(i) \in Int /\ EMUL(i) =< 10 /\ LMUL \in Int /\ LMUL =< 10
  BY MemoryOperands
<1>2. DataGroup(i) \in Nat /\ Group(EMUL(i)) \in Nat
  BY <1>1, GroupPositive DEF DataGroup
<1>3. FieldRegisters(i) \in Nat
  BY <1>2 DEF FieldRegisters, Encoded
<1>4. NumFields(i) \in Nat /\ i.vd \in Nat /\ i.vs2 \in Nat
  BY FieldsTyped DEF Encoded
<1>5. Fills(i) \in Nat
  BY <1>3, <1>4 DEF Fills
<1>6. NumRegs \in Int
  BY Sizes
<1> QED
  BY <1>2, <1>4, <1>5, <1>6 DEF Unpromised, Overlaps

LEMMA ReadsKept ==
  ASSUME HartOK, NEW i, Encoded(i), i.file = "mem", i.name # "VLSEGFFTYPE", Proceeds(i),
         ~Unpromised(i), NEW o, NEW q, Progress(i, o, q)
  PROVE  DOMAIN o.v = DOMAIN v /\ \A b \in Reads(i) : o.v[b] = v[b]
<1>1. CASE ~IsLoad(i)
  BY <1>1 DEF Progress
<1>2. CASE IsLoad(i)
  <2>1. Moves(Below(AccessedElements(i), q), ElementBits(i), Target(i), Source(i), v, o.v)
    BY <1>2 DEF Progress
  <2>2. ASSUME NEW b \in Reads(i), NEW e \in AccessedElements(i), NEW c \in ElementBits(i),
               ElementBit(i, e, c) = b
        PROVE  FALSE
    <3> DEFINE lo == i.vd * VLEN
               hi == (i.vd + Fills(i)) * VLEN
               ilo == i.vs2 * VLEN
               ihi == (i.vs2 + Group(EMUL(i))) * VLEN
    <3>1. b \in lo .. hi - 1
      <4>1. e \in Nat /\ Fits(i, e) /\ DestWidth(i) \in Nat \ {0}
        BY AccessFits
      <4> QED
        BY <1>2, <2>2, <4>1, LoadPlaces, LoadFills
    <3>2. i.vd \in Nat /\ i.vs2 \in Nat /\ VLEN \in Nat \ {0}
      BY Sizes DEF Encoded
    <3>3. CASE ~i.vm /\ i.name \notin WholeRegister \cup {"VMTYPE"} /\ b < VLEN
      <4>1. i.vd # 0
        BY <1>2, <3>3 DEF Proceeds, Runs, IsLoad, illegal_load, illegal_indexed_load, valid_rd_mask,
                          WholeRegister, Indexes
      <4>2. 1 * VLEN =< lo /\ lo \in Nat
        <5>1. 1 =< i.vd
          BY <3>2, <4>1
        <5> QED
          BY <3>2, <5>1, ProductGrows
      <4> HIDE DEF lo, hi
      <4> QED
        BY <3>1, <3>2, <3>3, <4>2
    <3>4. CASE i.name \in Indexes /\ b \in ilo .. ihi - 1
      <4>1. /\ Fills(i) \in Nat /\ Group(EMUL(i)) \in Nat
            /\ i.vs2 + Group(EMUL(i)) =< i.vd \/ i.vd + Fills(i) =< i.vs2
        BY <1>2, <3>4, LoadFills
      <4>2. ihi =< lo \/ hi =< ilo
        <5>1. i.vs2 + Group(EMUL(i)) \in Nat /\ i.vd + Fills(i) \in Nat
          BY <3>2, <4>1
        <5> QED
          BY <3>2, <4>1, <5>1, ProductGrows
      <4>3. lo \in Nat /\ hi \in Nat /\ ilo \in Nat /\ ihi \in Nat
        BY <3>2, <4>1
      <4> HIDE DEF lo, hi, ilo, ihi
      <4> QED
        BY <3>1, <3>4, <4>2, <4>3
    <3> QED
      BY <1>2, <2>2, <3>3, <3>4 DEF Reads
  <2>3. ASSUME NEW b \in Reads(i) PROVE o.v[b] = v[b]
    <3>1. b \in DOMAIN v
      BY DEF Reads, HartOK
    <3>2. ASSUME NEW e \in Below(AccessedElements(i), q), NEW c \in ElementBits(i)
          PROVE  Target(i)[e][c] # b
      <4>1. e \in AccessedElements(i) /\ e \in Nat
        BY AccessFits DEF Below
      <4>2. Target(i)[e][c] = ElementBit(i, e, c)
        BY <1>2, <4>1 DEF Target
      <4> QED
        BY <2>2, <4>1, <4>2
    <3> QED
      BY <2>1, <3>1, <3>2 DEF Moves
  <2> QED
    BY <2>1, <2>3 DEF Moves
<1> QED
  BY <1>1, <1>2
-----------------------------------------------------------------------------
(* The hart that is promised and the one that there is.                    *)

\* The hart that is promised does not change.
PromiseKept ==
  /\ Shown(v, before.v)' = Shown(v, before.v) /\ Shown(mem, before.mem)' = Shown(mem, before.mem)
  /\ Shown(vl, before.vl)' = Shown(vl, before.vl)
  /\ Shown(vstart, before.vstart)' = Shown(vstart, before.vstart)
  /\ Shown(vtype, before.vtype)' = Shown(vtype, before.vtype) /\ xlen' = xlen

LEMMA PromiseFrame ==
  ASSUME PromiseKept, NEW i
  PROVE  /\ Promise!NumFields(i)' = Promise!NumFields(i)
         /\ Promise!AccessedElements(i)' = Promise!AccessedElements(i)
         /\ Promise!ElementBits(i)' = Promise!ElementBits(i)
         /\ \A e : Promise!ElementAddress(i, e)' = Promise!ElementAddress(i, e)
         /\ \A e : Promise!Misaligned(i, e)' <=> Promise!Misaligned(i, e)
         /\ \A e, c : Promise!ElementBit(i, e, c)' = Promise!ElementBit(i, e, c)
         /\ (Promise!Unpromised(i)' <=> Promise!Unpromised(i))
         /\ (Promise!IsLoad(i)' <=> Promise!IsLoad(i))
<1>1. /\ Promise!SEW' = Promise!SEW /\ Promise!LMUL' = Promise!LMUL
      /\ \A r, w, k : Promise!Elem(r, w, k)' = Promise!Elem(r, w, k)
  BY DEF Promise!SEW, Promise!LMUL, Promise!Elem, PromiseKept
<1>2. /\ Promise!Width' = Promise!Width /\ Promise!EMUL(i)' = Promise!EMUL(i)
      /\ \A r, k : Promise!BitSet(r, k)' <=> Promise!BitSet(r, k)
      /\ Promise!NumFields(i)' = Promise!NumFields(i)
      /\ Promise!IsLoad(i)' <=> Promise!IsLoad(i)
  BY <1>1 DEF Promise!Width, Promise!EMUL, Promise!BitSet, Promise!NumFields, Promise!IsLoad
<1>3. /\ Promise!Elements(i)' = Promise!Elements(i)
      /\ Promise!DestWidth(i)' = Promise!DestWidth(i)
      /\ Promise!DataGroup(i)' = Promise!DataGroup(i)
  BY <1>1, <1>2 DEF Promise!Elements, Promise!DestWidth, Promise!DataGroup
<1>4. /\ Promise!Unmasked(i)' = Promise!Unmasked(i)
      /\ Promise!Changeable(i)' = Promise!Changeable(i)
  BY <1>2, <1>3 DEF Promise!Unmasked, Promise!read_vmask, Promise!Changeable, PromiseKept
<1>5. \A k, j : /\ Promise!UnitStride(i, k, j)' = Promise!UnitStride(i, k, j)
                /\ Promise!Strided(i, k, j)' = Promise!Strided(i, k, j)
                /\ Promise!Indexed(i, k, j)' = Promise!Indexed(i, k, j)
  BY <1>1 DEF Promise!UnitStride, Promise!Strided, Promise!Indexed
<1>6. \A k, j : Promise!Address(i, k, j)' = Promise!Address(i, k, j)
  BY <1>5 DEF Promise!Address
<1>7. /\ Promise!AccessedElements(i)' = Promise!AccessedElements(i)
      /\ Promise!ElementBits(i)' = Promise!ElementBits(i)
      /\ \A e : Promise!ElementAddress(i, e)' = Promise!ElementAddress(i, e)
      /\ \A e, c : Promise!ElementBit(i, e, c)' = Promise!ElementBit(i, e, c)
  BY <1>2, <1>3, <1>4, <1>6
     DEF Promise!Accessed, Promise!AccessedElements, Promise!ElementBits, Promise!ElementAddress,
         Promise!ElementBit
<1>8. \A e : Promise!Misaligned(i, e)' <=> Promise!Misaligned(i, e)
  BY <1>3, <1>7 DEF Promise!Misaligned
<1>9. Promise!Fills(i)' = Promise!Fills(i)
  BY <1>2, <1>3 DEF Promise!Fills, Promise!FieldRegisters
<1>10. Promise!StoresStale(i)' <=> Promise!StoresStale(i)
  BY <1>2, <1>3 DEF Promise!StoresStale, PromiseKept
<1>11. Promise!Unpromised(i)' <=> Promise!Unpromised(i)
  BY <1>2, <1>9, <1>10 DEF Promise!Unpromised, Promise!Overlaps
<1> QED
  BY <1>2, <1>7, <1>8, <1>11

\* It is the one that there is, as far as the elements of an access go.
Agreed(i) ==
  /\ Shown(vl, before.vl) = vl /\ Shown(vtype, before.vtype) = vtype
  /\ \A b \in Reads(i) : Shown(v, before.v)[b] = v[b]

LEMMA TypesAgree ==
  ASSUME Shown(vtype, before.vtype) = vtype, NEW i
  PROVE  /\ Promise!SEW = SEW /\ Promise!LMUL = LMUL /\ Promise!EMUL(i) = EMUL(i)
         /\ Promise!Width = Width /\ Promise!VLEN = VLEN /\ Promise!Group(Promise!EMUL(i)) = Group(EMUL(i))
         /\ Promise!NumFields(i) = NumFields(i) /\ (Promise!IsLoad(i) <=> IsLoad(i))
         /\ Promise!DestWidth(i) = DestWidth(i) /\ Promise!ElementBits(i) = ElementBits(i)
         /\ \A e, c : Promise!ElementBit(i, e, c) = ElementBit(i, e, c)
         /\ (Promise!Unpromised(i) <=> Unpromised(i))
<1>1. /\ Promise!SEW = SEW /\ Promise!LMUL = LMUL /\ Promise!VLEN = VLEN
      /\ \A n : Promise!AtLeast0(n) = AtLeast0(n)
  BY DEF Promise!SEW, SEW, Promise!LMUL, LMUL, Promise!VLEN, VLEN, Promise!AtLeast0, AtLeast0
<1>2. /\ Promise!EMUL(i) = EMUL(i) /\ Promise!Width = Width
      /\ \A n : Promise!Group(n) = Group(n)
  BY <1>1 DEF Promise!EMUL, EMUL, Promise!Width, Width, Promise!Group, Group
<1>3. /\ Promise!WholeRegister = WholeRegister /\ Promise!OwnWidth = OwnWidth
      /\ Promise!WidensResult = WidensResult /\ Promise!MakesMask = MakesMask
      /\ Promise!WideningSums = WideningSums /\ Promise!Indexes = Indexes
  BY DEF Promise!WholeRegister, WholeRegister, Promise!OwnWidth, OwnWidth, Promise!WidensResult,
         WidensResult, Promise!MakesMask, MakesMask, Promise!WideningSums, WideningSums,
         Promise!Indexes, Indexes
<1>4. /\ Promise!NumFields(i) = NumFields(i) /\ (Promise!IsLoad(i) <=> IsLoad(i))
      /\ Promise!DestWidth(i) = DestWidth(i) /\ Promise!DataGroup(i) = DataGroup(i)
  BY <1>2, <1>1, <1>3
     DEF Promise!NumFields, NumFields, Promise!IsLoad, IsLoad, Promise!DestWidth, DestWidth,
         Promise!DataGroup, DataGroup
<1>5. /\ Promise!ElementBits(i) = ElementBits(i)
      /\ \A e, c : Promise!ElementBit(i, e, c) = ElementBit(i, e, c)
      /\ Promise!Fills(i) = Fills(i)
  BY <1>1, <1>3, <1>4
     DEF Promise!ElementBits, ElementBits, Promise!ElementBit, ElementBit, Promise!Fills, Fills,
         Promise!FieldRegisters, FieldRegisters
<1>6. Promise!Elements(i) = Elements(i)
  BY <1>1, <1>2
     DEF Promise!Elements, Elements, Promise!get_num_elem, get_num_elem
<1>7. Promise!StoresStale(i) <=> StoresStale(i)
  BY <1>4, <1>6 DEF Promise!StoresStale, StoresStale
<1>8. Promise!Unpromised(i) <=> Unpromised(i)
  BY <1>2, <1>3, <1>4, <1>5, <1>7 DEF Promise!Unpromised, Unpromised, Promise!Overlaps, Overlaps
<1> QED
  BY <1>1, <1>2, <1>4, <1>5, <1>8

LEMMA LengthInRegister == ASSUME HartOK PROVE vl \in Nat /\ vl =< VLEN
<1> DEFINE n == get_num_elem(0, 3)
           evl == (vl + 7) \div 8
           r == (vl + 7) % 8
<1>1. n \in Nat /\ n * 8 = VLEN /\ evl \in Nat /\ evl =< n /\ vl \in Nat
  BY MaskCapacity, Sizes
<1>2. r \in 0 .. 7 /\ vl + 7 = 8 * evl + r
  BY <1>1, Division
<1> HIDE DEF n, evl, r
<1> QED
  BY <1>1, <1>2

LEMMA MaskAgrees ==
  ASSUME HartOK, NEW i, Encoded(i), Agreed(i), NEW k \in Nat,
         ~IsLoad(i) \/ (~i.vm /\ i.name \notin WholeRegister \cup {"VMTYPE"} /\ k < VLEN)
  PROVE  Promise!BitSet(0, k) <=> BitSet(0, k)
<1> DEFINE N == NumRegs * VLEN
           p == (0 * VLEN + k * 1 + 0) % N
<1>1. VLEN \in Nat \ {0} /\ N \in Nat \ {0} /\ VLEN =< N
  <2>1. VLEN \in Nat \ {0} /\ NumRegs \in Nat \ {0}
    BY Sizes
  <2>2. 1 * VLEN =< NumRegs * VLEN /\ NumRegs * VLEN \in Nat \ {0}
    BY <2>1, ProductGrows
  <2> QED
    BY <2>1, <2>2
<1>2. p = k % N
  BY <1>1
<1>3. p \in Positions
  <2> HIDE DEF N
  <2>1. k % N \in 0 .. N - 1
    BY <1>1, Division
  <2> QED
    BY <1>2, <2>1 DEF Positions, N
<1>4. k < VLEN => p = k
  <2> HIDE DEF N
  <2> QED
    BY <1>1, <1>2
<1>5. p \in Reads(i)
  BY <1>3, <1>4 DEF Reads
<1>6. BitSet(0, k) <=> v[p] = 1
  BY DEF BitSet, Elem
<1>7. Promise!BitSet(0, k) <=> Shown(v, before.v)[p] = 1
  <2>1. Promise!VLEN = VLEN
    BY TypesAgree DEF Agreed
  <2> QED
    BY <2>1 DEF Promise!BitSet, Promise!Elem
<1> QED
  BY <1>5, <1>6, <1>7 DEF Agreed

LEMMA IndexAgrees ==
  ASSUME HartOK, NEW i, Encoded(i), Agreed(i), Proceeds(i), i.name \in Indexes,
         NEW k \in Nat, k < vl, NEW j
  PROVE  Promise!Indexed(i, k, j) = Indexed(i, k, j)
<1> DEFINE size == 2^i.width
<1>1. Promise!VLEN = VLEN /\ Promise!SEW = SEW
  BY TypesAgree DEF Agreed
<1>2. ASSUME NEW b \in 0 .. size - 1
      PROVE  Shown(v, before.v)[(i.vs2 * VLEN + k * size + b) % (NumRegs * VLEN)]
               = v[(i.vs2 * VLEN + k * size + b) % (NumRegs * VLEN)]
  <2> DEFINE p == (i.vs2 * VLEN + k * size + b) % (NumRegs * VLEN)
  <2>1. p \in Positions /\ p \in i.vs2 * VLEN .. (i.vs2 + Group(EMUL(i))) * VLEN - 1
    BY IndexBits
  <2> HIDE DEF p, size
  <2>2. p \in Reads(i)
    BY <2>1 DEF Reads
  <2> QED
    BY <2>2 DEF Agreed, p
<1> HIDE DEF size
<1>3. Promise!Elem(i.vs2, size, k) = Elem(i.vs2, size, k)
  BY <1>1, <1>2 DEF Promise!Elem, Elem
<1>4. \A value, w : Promise!Number(value, w) = Number(value, w)
  BY DEF Promise!Number, Number
<1>5. \A w : Promise!Bytes(w) = Bytes(w)
  BY DEF Promise!Bytes, Bytes
<1> QED
  BY <1>1, <1>3, <1>4, <1>5 DEF Promise!Indexed, Indexed, size

\* The elements that are left are those of the ones promised from vstart on.
LEMMA AccessedAgree ==
  ASSUME HartOK, NEW i, Encoded(i), i.file = "mem", i.name # "VLSEGFFTYPE", Agreed(i),
         Shown(vstart, before.vstart) \in Nat,
         i.name = "VSSEGTYPE" \/ Shown(vstart, before.vstart) =< vstart
  PROVE  Accessed(i) = {k \in Promise!Accessed(i) : i.name = "VSSEGTYPE" \/ vstart =< k}
<1> DEFINE then == Shown(vstart, before.vstart)
<1>1. vl \in Nat /\ vl =< VLEN /\ vstart \in Nat /\ VLEN \in Int /\ i.nf \in Nat
  BY LengthInRegister, Sizes DEF HartOK, Encoded
<1>2. Shown(vl, before.vl) = vl
  BY DEF Agreed
<1>3. /\ Promise!EMUL(i) = EMUL(i) /\ Promise!VLEN = VLEN /\ Promise!DestWidth(i) = DestWidth(i)
      /\ Promise!Width = Width
  BY TypesAgree DEF Agreed
<1>4. /\ Promise!ElementZero = ElementZero /\ Promise!UsesMaskAsData = UsesMaskAsData
  BY DEF Promise!ElementZero, ElementZero, Promise!UsesMaskAsData, UsesMaskAsData
<1>5. i.name \in {"VLSEGTYPE", "VSSEGTYPE", "VLSSEGTYPE", "VSSSEGTYPE", "VLRETYPE",
                     "VSRETYPE", "VMTYPE"} \cup Indexes
  BY AccessNames
<1>6. CASE i.name = "VSSEGTYPE"
  <2>1. Promise!Elements(i) = Elements(i)
    BY <1>3 DEF Promise!Elements, Elements, Promise!get_num_elem, get_num_elem, Promise!AtLeast0, AtLeast0
  <2>2. ~IsLoad(i)
    BY <1>6 DEF IsLoad
  <2>3. \A k \in Nat : Promise!BitSet(0, k) <=> BitSet(0, k)
    BY <2>2, MaskAgrees
  <2>4. Promise!Unmasked(i) = Unmasked(i)
    BY <2>1, <2>3 DEF Promise!Unmasked, Unmasked, Promise!read_vmask, read_vmask
  <2> QED
    BY <1>6, <2>4 DEF Promise!Accessed, Accessed
<1>7. CASE i.name \in {"VLRETYPE", "VSRETYPE"}
  <2> DEFINE last == i.nf * (VLEN \div DestWidth(i)) - 1
  <2>1. Accessed(i) = vstart .. last /\ Promise!Accessed(i) = then .. last
    BY <1>3, <1>4, <1>7
       DEF Promise!Accessed, Accessed, Promise!Changeable, Changeable, ElementZero
  <2> HIDE DEF last, then
  <2> QED
    BY <1>1, <1>7, <2>1 DEF then
<1>8. CASE i.name = "VMTYPE"
  <2> DEFINE last == (vl + 7) \div 8 - 1
  <2>1. Accessed(i) = vstart .. last /\ Promise!Accessed(i) = then .. last
    BY <1>2, <1>4, <1>8
       DEF Promise!Accessed, Accessed, Promise!Changeable, Changeable, ElementZero
  <2> HIDE DEF last, then
  <2> QED
    BY <1>1, <1>8, <2>1 DEF then
<1>9. CASE i.name \in {"VLSEGTYPE", "VLSSEGTYPE", "VSSSEGTYPE"} \cup Indexes
  <2>1. Accessed(i) = {k \in vstart .. vl - 1 : i.vm \/ BitSet(0, k)}
    BY <1>9 DEF Accessed, Changeable, ElementZero, UsesMaskAsData, Indexes
  <2>2. Promise!Accessed(i) = {k \in then .. vl - 1 : i.vm \/ Promise!BitSet(0, k)}
    BY <1>2, <1>4, <1>9
       DEF Promise!Accessed, Promise!Changeable, ElementZero, UsesMaskAsData, Indexes
  <2>3. i.name # "VSSEGTYPE" /\ i.name \notin WholeRegister \cup {"VMTYPE"}
    BY <1>9 DEF Indexes, WholeRegister
  <2>4. \A k \in vstart .. vl - 1 : ~i.vm => (Promise!BitSet(0, k) <=> BitSet(0, k))
    <3>1. \A k \in vstart .. vl - 1 : k \in Nat /\ k < VLEN
      BY <1>1
    <3> QED
      BY <2>3, <3>1, MaskAgrees
  <2>5. \A k : k \in vstart .. vl - 1 <=> (k \in then .. vl - 1 /\ vstart =< k)
    <3> HIDE DEF then
    <3> QED
      BY <1>1, <2>3 DEF then
  <2> HIDE DEF then
  <2> QED
    BY <2>1, <2>2, <2>3, <2>4, <2>5
<1> QED
  BY <1>5, <1>6, <1>7, <1>8, <1>9

LEMMA AddressesAgree ==
  ASSUME HartOK, NEW i, Encoded(i), i.file = "mem", i.name # "VLSEGFFTYPE", Agreed(i), Proceeds(i),
         NEW e \in AccessedElements(i)
  PROVE  Promise!ElementAddress(i, e) = ElementAddress(i, e)
<1> DEFINE k == e \div NumFields(i)
           j == e % NumFields(i)
<1>1. Promise!NumFields(i) = NumFields(i) /\ Promise!Bytes(i.width) = Bytes(i.width)
  BY TypesAgree DEF Agreed, Promise!Bytes, Bytes
<1>2. e \in Nat /\ AccessedElements(i) \in SUBSET Nat
  BY AccessFits
<1>3. i.name \in Indexes => k \in Nat /\ k < vl
  <2> SUFFICES ASSUME i.name \in Indexes PROVE k \in Nat /\ k < vl
    OBVIOUS
  <2>1. Accessed(i) = {q \in vstart .. vl - 1 : i.vm \/ BitSet(0, q)}
    BY DEF Accessed, Changeable, ElementZero, UsesMaskAsData, Indexes
  <2>2. vstart \in Nat /\ vl \in Nat
    BY Sizes DEF HartOK
  <2>3. Accessed(i) \subseteq Nat
    BY <2>1, <2>2
  <2>4. k \in Accessed(i)
    BY <1>2, <2>3, ElementsOf
  <2> HIDE DEF k
  <2> QED
    BY <2>1, <2>2, <2>4
<1>4. Promise!ElementAddress(i, e) = Promise!Address(i, k, j)
  BY <1>1 DEF Promise!ElementAddress
<1> HIDE DEF k, j
<1>5. i.name \in Indexes => Promise!Indexed(i, k, j) = Indexed(i, k, j)
  BY <1>3, IndexAgrees
<1>6. /\ Promise!UnitStride(i, k, j) = UnitStride(i, k, j)
      /\ Promise!Strided(i, k, j) = Strided(i, k, j) /\ Promise!Indexes = Indexes
  BY <1>1 DEF Promise!UnitStride, UnitStride, Promise!Strided, Strided, Promise!Indexes, Indexes
<1>7. Promise!Address(i, k, j) = Address(i, k, j)
  BY <1>1, <1>5, <1>6 DEF Promise!Address, Address
<1> QED
  BY <1>4, <1>7 DEF ElementAddress, k, j

LEMMA PromisedNumbers ==
  ASSUME NEW i, Encoded(i), i.file = "mem", i.name # "VLSEGFFTYPE"
  PROVE  Promise!Accessed(i) \subseteq Int
<1>1. i.name \in {"VLSEGTYPE", "VSSEGTYPE", "VLSSEGTYPE", "VSSSEGTYPE", "VLRETYPE",
                     "VSRETYPE", "VMTYPE"} \cup Indexes
  BY AccessNames
<1>2. Promise!Unmasked(i) \subseteq Int
  BY DEF Promise!Unmasked, Promise!read_vmask
<1>3. i.name \notin Promise!ElementZero
  BY <1>1 DEF Promise!ElementZero, Indexes
<1>4. i.name # "VMVRTYPE" /\ i.name # "MVVCOMPRESS"
  BY <1>1 DEF Indexes
<1>5. Promise!Changeable(i) \subseteq Int
  BY <1>3, <1>4 DEF Promise!Changeable
<1> QED
  BY <1>2, <1>5 DEF Promise!Accessed

\* The same of the elements.
LEMMA ElementsAgree ==
  ASSUME HartOK, NEW i, Encoded(i), i.file = "mem", i.name # "VLSEGFFTYPE", Agreed(i),
         Shown(vstart, before.vstart) \in Nat,
         i.name = "VSSEGTYPE" \/ Shown(vstart, before.vstart) =< vstart
  PROVE  AccessedElements(i) =
           {e \in Promise!AccessedElements(i) : i.name = "VSSEGTYPE" \/ vstart * NumFields(i) =< e}
<1> DEFINE nf == NumFields(i)
           all == Promise!Accessed(i)
           left == Accessed(i)
<1>1. nf \in Nat \ {0} /\ vstart \in Nat /\ all \subseteq Int
  BY FieldsTyped, PromisedNumbers DEF HartOK
<1>2. \A k : k \in left <=> k \in all /\ (i.name = "VSSEGTYPE" \/ vstart =< k)
  BY AccessedAgree
<1>3. AccessedElements(i) = {k * nf + j : k \in left, j \in 0 .. nf - 1}
  BY DEF AccessedElements
<1>4. Promise!AccessedElements(i) = {k * nf + j : k \in all, j \in 0 .. nf - 1}
  BY TypesAgree DEF Promise!AccessedElements, Agreed
<1> HIDE DEF nf, all, left
<1>5. ASSUME NEW k \in all, NEW j \in 0 .. nf - 1
      PROVE  (vstart =< k) = (vstart * nf =< k * nf + j)
  <2>1. k \in Int /\ j \in Nat /\ j < nf /\ k * nf \in Int /\ vstart * nf \in Nat
    BY <1>1
  <2>2. CASE vstart =< k
    <3>1. k \in Nat
      BY <1>1, <2>1, <2>2
    <3>2. vstart * nf =< k * nf
      BY <1>1, <2>2, <3>1, ProductGrows
    <3> QED
      BY <2>1, <2>2, <3>2
  <2>3. CASE k < vstart /\ k >= 0
    <3>1. k + 1 \in Nat /\ k + 1 =< vstart /\ (k + 1) * nf = k * nf + nf
      BY <1>1, <2>1, <2>3
    <3>2. (k + 1) * nf =< vstart * nf
      BY <1>1, <3>1, ProductGrows
    <3> QED
      BY <1>1, <2>1, <2>3, <3>1, <3>2
  <2>4. CASE k < 0
    <3>1. -k - 1 \in Nat /\ 0 =< -k - 1
      BY <2>1, <2>4
    <3>2. (-k - 1) * nf \in Nat
      BY <1>1, <3>1, ProductGrows
    <3>3. (-k - 1) * nf = -(k * nf) - nf
      BY <1>1, <2>1
    <3>4. vstart * nf > k * nf + j
      BY <1>1, <2>1, <3>2, <3>3
    <3> QED
      BY <1>1, <2>1, <2>4, <3>4
  <2> QED
    BY <1>1, <2>1, <2>2, <2>3, <2>4
<1>6. ASSUME NEW e \in AccessedElements(i)
      PROVE  e \in Promise!AccessedElements(i) /\ (i.name = "VSSEGTYPE" \/ vstart * nf =< e)
  <2>1. PICK k \in left, j \in 0 .. nf - 1 : e = k * nf + j
    BY <1>3
  <2>2. k \in all /\ (i.name = "VSSEGTYPE" \/ vstart =< k)
    BY <1>2
  <2>3. (vstart =< k) = (vstart * nf =< k * nf + j)
    BY <1>5, <2>2
  <2> QED
    BY <1>4, <2>1, <2>2, <2>3
<1>7. ASSUME NEW e \in Promise!AccessedElements(i), i.name = "VSSEGTYPE" \/ vstart * nf =< e
      PROVE  e \in AccessedElements(i)
  <2>1. PICK k \in all, j \in 0 .. nf - 1 : e = k * nf + j
    BY <1>4
  <2>2. (vstart =< k) = (vstart * nf =< k * nf + j)
    BY <1>5
  <2>3. k \in left
    BY <1>2, <1>7, <2>1, <2>2
  <2> QED
    BY <1>3, <2>1, <2>3
<1> QED
  BY <1>6, <1>7 DEF nf
-----------------------------------------------------------------------------
(* The elements of a segment go to different places.                       *)

LEMMA StoredBytes ==
  ASSUME HartOK, NEW i, Encoded(i),
         i.name \in {"VSSEGTYPE", "VSSSEGTYPE", "VSUXSEGTYPE", "VSOXSEGTYPE"}
  PROVE  LET w == IF i.name \in {"VSSEGTYPE", "VSSSEGTYPE"} THEN i.width ELSE SEW
         IN  w \in 3 .. 6 /\ Bytes(w) \in Nat \ {0} /\ DestWidth(i) = 8 * Bytes(w)
<1> DEFINE w == IF i.name \in {"VSSEGTYPE", "VSSSEGTYPE"} THEN i.width ELSE SEW
<1>1. w \in 3 .. 6
  BY Sizes DEF Encoded
<1>2. DestWidth(i) = 2^w
  BY DEF DestWidth, WidensResult, MakesMask, OwnWidth, Width
<1> HIDE DEF w
<1>3. Bytes(w) \in Nat \ {0} /\ 8 * Bytes(w) = 2^w
  BY <1>1, ElementBytes
<1>4. w \in 3 .. 6 /\ Bytes(w) \in Nat \ {0} /\ DestWidth(i) = 8 * Bytes(w)
  BY <1>1, <1>2, <1>3
<1> QED
  BY <1>4 DEF w

LEMMA StoresApart ==
  ASSUME HartOK, NEW i, Encoded(i),
         i.name \in {"VSSEGTYPE", "VSSSEGTYPE", "VSUXSEGTYPE", "VSOXSEGTYPE"},
         NEW d \in Nat, NEW e \in Nat, d < e,
         i.name = "VSSEGTYPE" \/ d \div NumFields(i) = e \div NumFields(i)
  PROVE  ElementAddress(i, e) >= ElementAddress(i, d) + DestWidth(i) \div 8
<1> DEFINE nf == NumFields(i)
           k == d \div nf
           j == d % nf
           h == e \div nf
           l == e % nf
           w == IF i.name \in {"VSSEGTYPE", "VSSSEGTYPE"} THEN i.width ELSE SEW
           b == Bytes(w)
<1>1. nf = i.nf /\ nf \in Nat \ {0} /\ i.x \in Int /\ i.stride \in Int
  <2>1. nf \in Nat \ {0}
    BY FieldsTyped
  <2> QED
    BY <2>1 DEF NumFields, WholeRegister, Encoded
<1>2. /\ k \in Nat /\ j \in Nat /\ d = nf * k + j
      /\ h \in Nat /\ l \in Nat /\ e = nf * h + l
  <2> HIDE DEF nf
  <2>1. k \in Nat /\ j \in 0 .. nf - 1 /\ d = nf * k + j
    BY <1>1, Division
  <2>2. h \in Nat /\ l \in 0 .. nf - 1 /\ e = nf * h + l
    BY <1>1, Division
  <2> HIDE DEF k, j, h, l
  <2> QED
    BY <1>1, <2>1, <2>2
<1>3. b \in Nat \ {0} /\ DestWidth(i) \div 8 = b /\ b \in Int
  BY StoredBytes
<1>4. ElementAddress(i, d) = Address(i, k, j) /\ ElementAddress(i, e) = Address(i, h, l)
  BY DEF ElementAddress
<1>5. i.name # "VSSEGTYPE" => k = h
  OBVIOUS
<1>0. b = Bytes(w) /\ (i.name \in {"VSSEGTYPE", "VSSSEGTYPE"} => w = i.width)
  OBVIOUS
<1> HIDE DEF nf, k, j, h, l, b, w
<1>6. i.name = "VSSEGTYPE" =>
        /\ Address(i, k, j) = i.x + (k * i.nf + j) * b
        /\ Address(i, h, l) = i.x + (h * i.nf + l) * b
  <2> SUFFICES ASSUME i.name = "VSSEGTYPE"
               PROVE  /\ Address(i, k, j) = i.x + (k * i.nf + j) * b
                      /\ Address(i, h, l) = i.x + (h * i.nf + l) * b
    OBVIOUS
  <2>1. Address(i, k, j) = i.x + UnitStride(i, k, j) /\ Address(i, h, l) = i.x + UnitStride(i, h, l)
    BY DEF Address, Indexes
  <2>2. UnitStride(i, k, j) = (k * i.nf + j) * b /\ UnitStride(i, h, l) = (h * i.nf + l) * b
    BY <1>0 DEF UnitStride
  <2> QED
    BY <2>1, <2>2
<1>7. i.name = "VSSSEGTYPE" =>
        /\ Address(i, k, j) = i.x + (k * i.stride + j * b)
        /\ Address(i, h, l) = i.x + (h * i.stride + l * b)
  BY <1>0 DEF Address, Strided, Indexes
<1>8. i.name \in {"VSUXSEGTYPE", "VSOXSEGTYPE"} =>
        /\ Address(i, k, j) = i.x + Indexed(i, k, j)
        /\ Address(i, h, l) = i.x + Indexed(i, h, l)
        /\ b = Bytes(SEW)
  BY <1>0 DEF Address, Indexes, w
<1>9. ASSUME NEW p \in Nat, NEW q \in Nat, p < q PROVE q * b >= p * b + b /\ p * b \in Nat /\ q * b \in Nat
  <2>1. p + 1 \in Nat /\ p + 1 =< q /\ (p + 1) * b = p * b + b
    BY <1>3, <1>9
  <2>2. (p + 1) * b =< q * b /\ p * b \in Nat /\ q * b \in Nat
    BY <1>3, <2>1, ProductGrows
  <2> QED
    BY <1>3, <2>1, <2>2
<1>10. k = h => j < l
  <2> SUFFICES ASSUME k = h PROVE j < l
    OBVIOUS
  <2>1. d = nf * k + j /\ e = nf * k + l /\ nf * k \in Int
    BY <1>1, <1>2
  <2> QED
    BY <1>2, <2>1
<1>11. CASE i.name = "VSSEGTYPE"
  <2>1. k * i.nf + j = d /\ h * i.nf + l = e
    BY <1>1, <1>2
  <2>2. Address(i, k, j) = i.x + d * b /\ Address(i, h, l) = i.x + e * b
    BY <1>6, <1>11, <2>1
  <2> QED
    BY <1>1, <1>3, <1>4, <1>9, <2>2
<1>12. CASE i.name = "VSSSEGTYPE"
  <2>1. j * b \in Nat /\ l * b \in Nat /\ l * b >= j * b + b /\ k * i.stride \in Int
    BY <1>1, <1>2, <1>5, <1>9, <1>10, <1>12
  <2> QED
    BY <1>1, <1>3, <1>4, <1>5, <1>7, <1>12, <2>1
<1>13. CASE i.name \in {"VSUXSEGTYPE", "VSOXSEGTYPE"}
  <2>1. PICK offset \in Int : \A f \in Nat : Indexed(i, k, f) = f * b + offset
    BY <1>8, <1>13, IndexedFields
  <2>2. j * b \in Nat /\ l * b \in Nat /\ l * b >= j * b + b
    BY <1>2, <1>5, <1>9, <1>10, <1>13
  <2>3. Indexed(i, k, j) = j * b + offset /\ Indexed(i, k, l) = l * b + offset
    BY <1>2, <2>1
  <2> QED
    BY <1>1, <1>3, <1>4, <1>5, <1>8, <1>13, <2>2, <2>3
<1> QED
  BY <1>11, <1>12, <1>13

LEMMA TargetsApart ==
  ASSUME HartOK, NEW i, Encoded(i), i.file = "mem", i.name # "VLSEGFFTYPE", ~Unpromised(i),
         Proceeds(i), NEW d \in AccessedElements(i), NEW e \in AccessedElements(i), d < e,
         i.name = "VSSEGTYPE" \/ d \div NumFields(i) = e \div NumFields(i),
         NEW c \in ElementBits(i), NEW u \in ElementBits(i)
  PROVE  Target(i)[d][c] # Target(i)[e][u]
<1>1. /\ d \in Nat /\ e \in Nat /\ Fits(i, d) /\ Fits(i, e)
      /\ DestWidth(i) \in Nat \ {0} /\ DestWidth(i) \div 8 \in Nat
      /\ DestWidth(i) = 8 * (DestWidth(i) \div 8)
  BY AccessFits
<1>2. CASE IsLoad(i)
  <2>1. i.vd + Fills(i) =< NumRegs
    BY <1>2, LoadFills
  <2>2. ElementBit(i, d, c) # ElementBit(i, e, u)
    BY <1>1, <1>2, <2>1, LoadBitsApart
  <2> QED
    BY <1>1, <1>2, <2>2 DEF Target
<1>3. CASE ~IsLoad(i)
  <2> DEFINE a == ElementAddress(i, d)
             b == ElementAddress(i, e)
             n == DestWidth(i) \div 8
  <2>1. a \in Int /\ b \in Int
    BY <1>1, AddressTyped
  <2>2. i.name \in {"VSSEGTYPE", "VSSSEGTYPE", "VSUXSEGTYPE", "VSOXSEGTYPE"}
    <3>1. i.name \in {"VSSEGTYPE", "VSSSEGTYPE", "VSUXSEGTYPE", "VSOXSEGTYPE", "VSRETYPE", "VMTYPE"}
      BY <1>3, AccessNames DEF IsLoad, Indexes
    <3>2. ~(i.name \in {"VSRETYPE", "VMTYPE"})
      <4> SUFFICES ASSUME i.name \in {"VSRETYPE", "VMTYPE"} PROVE FALSE
        OBVIOUS
      <4>1. NumFields(i) = 1 /\ d \div 1 = e \div 1
        BY DEF NumFields, WholeRegister
      <4> QED
        BY <1>1, <4>1
    <3> QED
      BY <3>1, <3>2
  <2>3. b >= a + n
    BY <1>1, <2>2, StoresApart
  <2>4. Target(i)[d][c] = 8 * a + c /\ Target(i)[e][u] = 8 * b + u
    BY <1>1, <1>3 DEF Target
  <2>5. c \in 0 .. 8 * n - 1 /\ u \in 0 .. 8 * n - 1
    BY <1>1 DEF ElementBits
  <2> HIDE DEF a, b, n
  <2>6. n \in Nat
    BY <1>1 DEF n
  <2> QED
    BY <2>1, <2>3, <2>4, <2>5, <2>6
<1> QED
  BY <1>2, <1>3
-----------------------------------------------------------------------------
(* An access that stopped half way: what it has done, and what its next    *)
(* start adds.                                                             *)

PromisedTarget(i) ==
  [e \in Nat |-> [c \in Promise!ElementBits(i) |->
     IF Promise!IsLoad(i) THEN Promise!ElementBit(i, e, c)
                          ELSE 8 * Promise!ElementAddress(i, e) + c]]

PromisedSource(i) ==
  [e \in Nat |-> [c \in Promise!ElementBits(i) |->
     IF Promise!IsLoad(i) THEN Shown(mem, before.mem)[8 * Promise!ElementAddress(i, e) + c]
                          ELSE Shown(v, before.v)[Promise!ElementBit(i, e, c)]]]

\* The elements done are moved in the registers and the memory given.
Promised(i, done, registers, memory) ==
  IF Promise!IsLoad(i)
  THEN /\ memory = Shown(mem, before.mem)
       /\ Moves(done, Promise!ElementBits(i), PromisedTarget(i), PromisedSource(i),
                Shown(v, before.v), registers)
  ELSE /\ registers = Shown(v, before.v)
       /\ Moves(done, Promise!ElementBits(i), PromisedTarget(i), PromisedSource(i),
                Shown(mem, before.mem), memory)

Aligned(i, p) == \A e \in Promise!AccessedElements(i) : e < p => ~Promise!Misaligned(i, e)

\* The elements below p are done; vstart names the segment p is in or ends.
Midway(i, p) ==
  /\ Agreed(i)
  /\ Shown(vxsat, before.vxsat) = vxsat /\ Shown(fflags, before.fflags) = fflags
  /\ Shown(x, before.x) = x /\ Shown(pc, before.pc) = pc
  /\ Shown(vstart, before.vstart) \in Nat
  /\ \/ i.name = "VSSEGTYPE"
     \/ /\ Shown(vstart, before.vstart) =< vstart
        /\ vstart * NumFields(i) =< p /\ p =< vstart * NumFields(i) + NumFields(i)
  /\ Promised(i, Below(Promise!AccessedElements(i), p), v, mem) /\ Aligned(i, p)
  /\ \A e \in Promise!AccessedElements(i) :
       e \in Nat /\ Fits(i, e) /\ Promise!ElementAddress(i, e) \in Int

LEMMA Resumes ==
  ASSUME HartOK, NEW i, Encoded(i), i.file = "mem", i.name # "VLSEGFFTYPE", ~Unpromised(i),
         Proceeds(i), NEW p \in Nat, Midway(i, p), NEW o, NEW q \in Nat, Progress(i, o, q)
  PROVE  LET r == IF p =< q THEN q ELSE p
         IN  Promised(i, Below(Promise!AccessedElements(i), r), o.v, o.mem) /\ Aligned(i, r)
<1> DEFINE nf == NumFields(i)
           s == IF i.name = "VSSEGTYPE" THEN 0 ELSE vstart * nf
           all == Promise!AccessedElements(i)
           r == IF p =< q THEN q ELSE p
           bits == Promise!ElementBits(i)
           target == PromisedTarget(i)
           source == PromisedSource(i)
<1>1. all \in SUBSET Nat /\ nf \in Nat \ {0} /\ vstart \in Nat
  BY FieldsTyped DEF Midway, HartOK
<1>2. s \in Nat /\ s =< p /\ (i.name # "VSSEGTYPE" => s = vstart * nf /\ p =< s + nf)
  <2>1. vstart * nf \in Nat
    BY <1>1
  <2> QED
    BY <2>1 DEF Midway
<1>3. AccessedElements(i) = {e \in all : i.name = "VSSEGTYPE" \/ vstart * nf =< e}
  BY ElementsAgree DEF Midway
<1>4. \A e : e \in AccessedElements(i) <=> e \in all /\ s =< e
  BY <1>1, <1>3
<1>5. bits = ElementBits(i) /\ (Promise!IsLoad(i) <=> IsLoad(i))
      /\ Promise!DestWidth(i) = DestWidth(i)
      /\ \A e, c : Promise!ElementBit(i, e, c) = ElementBit(i, e, c)
  BY TypesAgree DEF Midway, Agreed
<1>6. \A e \in AccessedElements(i) : Promise!ElementAddress(i, e) = ElementAddress(i, e)
  BY AddressesAgree DEF Midway
<1>7. /\ IsLoad(i) => mem = Shown(mem, before.mem)
      /\ ~IsLoad(i) => v = Shown(v, before.v)
  BY <1>5 DEF Midway, Promised
<1>8. \A e \in AccessedElements(i), c \in bits :
        target[e][c] = Target(i)[e][c] /\ source[e][c] = Source(i)[e][c]
  <2>1. ASSUME NEW e \in AccessedElements(i), NEW c \in bits
        PROVE  target[e][c] = Target(i)[e][c] /\ source[e][c] = Source(i)[e][c]
    <3>1. e \in Nat /\ c \in ElementBits(i)
      BY <1>1, <1>4, <1>5
    <3>2. target[e][c] = IF IsLoad(i) THEN ElementBit(i, e, c) ELSE 8 * ElementAddress(i, e) + c
      BY <1>5, <1>6, <3>1 DEF PromisedTarget
    <3>3. source[e][c] = IF IsLoad(i) THEN Shown(mem, before.mem)[8 * ElementAddress(i, e) + c]
                                      ELSE Shown(v, before.v)[ElementBit(i, e, c)]
      BY <1>5, <1>6, <3>1 DEF PromisedSource
    <3> QED
      BY <1>7, <3>1, <3>2, <3>3 DEF Target, Source
  <2> QED
    BY <2>1
<1> HIDE DEF target, source, bits
<1>9. Aligned(i, r)
  <2>1. ASSUME NEW e \in all, e < r, ~(e < p) PROVE ~Promise!Misaligned(i, e)
    <3>1. e \in AccessedElements(i) /\ e < q
      BY <1>1, <1>2, <1>4, <2>1
    <3>2. ~Misaligned(i, e)
      BY <3>1 DEF Progress
    <3> QED
      BY <1>5, <1>6, <3>1, <3>2 DEF Promise!Misaligned, Misaligned
  <2>2. \A e \in all : e < p => ~Promise!Misaligned(i, e)
    BY DEF Midway, Aligned
  <2> QED
    BY <2>1, <2>2 DEF Aligned
<1>10. ASSUME NEW d \in all, NEW e \in all, s =< d /\ d < e /\ e < p,
              NEW c \in bits, NEW u \in bits
       PROVE  target[d][c] # target[e][u]
  <2>1. d \in AccessedElements(i) /\ e \in AccessedElements(i)
    BY <1>1, <1>2, <1>4, <1>10
  <2>2. i.name = "VSSEGTYPE" \/ d \div nf = e \div nf
    <3> SUFFICES ASSUME i.name # "VSSEGTYPE" PROVE d \div nf = e \div nf
      OBVIOUS
    <3> DEFINE k == vstart
    <3>1. k \in Nat /\ k + 1 \in Nat /\ (k + 1) * nf = k * nf + nf
      BY <1>1
    <3>2. d \in Nat /\ e \in Nat /\ ~(d < k * nf) /\ ~(e < k * nf)
          /\ d < (k + 1) * nf /\ e < (k + 1) * nf
      BY <1>1, <1>2, <1>10, <3>1
    <3> HIDE DEF k, nf
    <3>3. ~(d \div nf < k) /\ d \div nf < k + 1 /\ ~(e \div nf < k) /\ e \div nf < k + 1
      <4>1. nf \in Nat \ {0}
        BY <1>1
      <4>2. \A a \in Nat, n \in Nat : (a < n * nf) = (a \div nf < n)
        BY <4>1, InSegments
      <4>3. /\ (d < k * nf) = (d \div nf < k) /\ (d < (k + 1) * nf) = (d \div nf < k + 1)
            /\ (e < k * nf) = (e \div nf < k) /\ (e < (k + 1) * nf) = (e \div nf < k + 1)
        BY <3>1, <3>2, <4>2
      <4> QED
        BY <3>2, <4>3
    <3>4. d \div nf \in Int /\ e \div nf \in Int
      BY <1>1, <3>2, Division
    <3> QED
      BY <3>1, <3>3, <3>4
  <2>3. c \in ElementBits(i) /\ u \in ElementBits(i)
    BY <1>5 DEF bits
  <2>4. Target(i)[d][c] # Target(i)[e][u]
    BY <1>10, <2>1, <2>2, <2>3, TargetsApart
  <2> QED
    BY <1>8, <2>1, <2>4
<1>11. Below(all, p) = {e \in all : e < p} /\ Below(all, r) = {e \in all : e < r}
       /\ Below(AccessedElements(i), q) = {e \in all : s =< e /\ e < q}
  BY <1>4 DEF Below
<1>12. ASSUME NEW old, NEW between, NEW new,
              Moves(Below(all, p), bits, target, source, old, between),
              Moves(Below(AccessedElements(i), q), bits, Target(i), Source(i), between, new)
       PROVE  Moves(Below(all, r), bits, target, source, old, new)
  <2>1. \A e \in Below(AccessedElements(i), q), c \in bits :
          target[e][c] = Target(i)[e][c] /\ source[e][c] = Source(i)[e][c]
    BY <1>8 DEF Below
  <2>2. DOMAIN new = DOMAIN between
    BY <1>12 DEF Moves
  <2> DEFINE done == Below(AccessedElements(i), q)
             target1 == Target(i)
             source1 == Source(i)
  <2> HIDE DEF done, target1, source1
  <2>3. Moves(done, bits, target, source, between, new)
    <3>1. Moves(done, bits, target1, source1, between, new)
      BY <1>12 DEF done, target1, source1
    <3>2. \A e \in done, c \in bits : target[e][c] = target1[e][c] /\ source[e][c] = source1[e][c]
      BY <2>1 DEF done, target1, source1
    <3> QED
      BY <2>2, <3>1, <3>2, MovesSame
  <2>4. Moves({e \in all : s =< e /\ e < q}, bits, target, source, between, new)
    BY <1>11, <2>3 DEF done
  <2>5. Moves({e \in all : e < p}, bits, target, source, old, between)
    BY <1>11, <1>12
  <2> HIDE DEF all, s
  <2>6. Moves({e \in all : e < IF p =< q THEN q ELSE p}, bits, target, source, old, new)
    BY <1>1, <1>2, <1>10, <2>4, <2>5, MovesTwice
  <2> QED
    BY <1>11, <2>6
<1>13. Promised(i, Below(all, p), v, mem)
  BY DEF Midway
<1>14. Promised(i, Below(all, r), o.v, o.mem)
  <2>1. CASE IsLoad(i)
    <3>1. /\ mem = Shown(mem, before.mem)
          /\ Moves(Below(all, p), bits, target, source, Shown(v, before.v), v)
      BY <1>5, <1>13, <2>1 DEF Promised, bits, target, source
    <3>2. o.mem = mem /\ Moves(Below(AccessedElements(i), q), bits, Target(i), Source(i), v, o.v)
      BY <1>5, <2>1 DEF Progress
    <3>3. Moves(Below(all, r), bits, target, source, Shown(v, before.v), o.v)
      BY <1>12, <3>1, <3>2
    <3> QED
      BY <1>5, <2>1, <3>1, <3>2, <3>3 DEF Promised, bits, target, source
  <2>2. CASE ~IsLoad(i)
    <3>1. /\ v = Shown(v, before.v)
          /\ Moves(Below(all, p), bits, target, source, Shown(mem, before.mem), mem)
      BY <1>5, <1>13, <2>2 DEF Promised, bits, target, source
    <3>2. o.v = v /\ Moves(Below(AccessedElements(i), q), bits, Target(i), Source(i), mem, o.mem)
      BY <1>5, <2>2 DEF Progress
    <3>3. Moves(Below(all, r), bits, target, source, Shown(mem, before.mem), o.mem)
      BY <1>12, <3>1, <3>2
    <3> QED
      BY <1>5, <2>2, <3>1, <3>2, <3>3 DEF Promised, bits, target, source
  <2> QED
    BY <2>1, <2>2
<1> QED
  BY <1>9, <1>14

\* It is stopped by a fault, with the elements below r done.
FaultedAt(i, o, r) ==
  /\ \/ i.name = "VSSEGTYPE"
     \/ /\ Shown(vstart, before.vstart) =< o.vstart
        /\ o.vstart * NumFields(i) =< r /\ r =< o.vstart * NumFields(i) + NumFields(i)
  /\ Promised(i, Below(Promise!AccessedElements(i), r), o.v, o.mem) /\ Aligned(i, r)
  /\ \A b \in Reads(i) : o.v[b] = v[b]
  /\ i.name \in {"VLRETYPE", "VSRETYPE"} => o.vstart < i.nf * (VLEN \div DestWidth(i))

LEMMA WithinRegisters ==
  ASSUME HartOK, NEW i, Encoded(i), i.name \in {"VLRETYPE", "VSRETYPE"},
         NEW q \in AccessedElements(i)
  PROVE  q \div NumFields(i) < i.nf * (VLEN \div DestWidth(i))
<1> DEFINE limit == i.nf * (VLEN \div DestWidth(i))
<1>1. NumFields(i) = 1
  BY DEF NumFields, WholeRegister
<1>2. Accessed(i) = vstart .. limit - 1
  BY DEF Accessed, Changeable, ElementZero
<1>3. DestWidth(i) \in Nat \ {0}
  <2>1. i.width \in 3 .. 6
    BY DEF Encoded
  <2>2. Bytes(i.width) \in Nat \ {0} /\ 8 * Bytes(i.width) = 2^i.width
    BY <2>1, ElementBytes
  <2> QED
    BY <2>2 DEF DestWidth, WidensResult, MakesMask, OwnWidth
<1>4. limit \in Int
  <2>1. VLEN \div DestWidth(i) \in Int /\ i.nf \in Int
    BY <1>3, Sizes DEF Encoded
  <2> QED
    BY <2>1
<1> HIDE DEF limit
<1>5. PICK k \in Accessed(i), j \in 0 .. 0 : q = k * 1 + j
  BY <1>1 DEF AccessedElements
<1>6. k \in Int /\ k =< limit - 1 /\ q = k
  BY <1>2, <1>5
<1>7. q \div 1 = q
  BY <1>6
<1>8. q \div NumFields(i) < limit
  BY <1>1, <1>4, <1>6, <1>7
<1> QED
  BY <1>8 DEF limit

LEMMA AccessResumes ==
  ASSUME HartOK, NEW i, Encoded(i), i.file = "mem", Plain(i), ~Unpromised(i), Proceeds(i),
         NEW p \in Nat, Midway(i, p)
  PROVE  LET o   == MemoryAccess(i)
             all == Promise!AccessedElements(i)
         IN  /\ o.vl = vl /\ o.vtype = vtype /\ o.vxsat = vxsat /\ o.fflags = fflags /\ o.x = x
             /\ \/ /\ o.how \in {"done", "illegal"} /\ o.vstart = 0
                   /\ Promised(i, all, o.v, o.mem)
                \/ \E e \in all :
                     /\ o.how = "misaligned" /\ Promise!Misaligned(i, e)
                     /\ o.vstart = e \div NumFields(i)
                     /\ Promised(i, Below(all, e), o.v, o.mem)
                \/ o.how = "fault" /\ \E r \in Nat : FaultedAt(i, o, r)
<1> DEFINE o == MemoryAccess(i)
           all == Promise!AccessedElements(i)
           nf == NumFields(i)
           s == IF i.name = "VSSEGTYPE" THEN 0 ELSE vstart * nf
           Later(q) == IF p =< q THEN q ELSE p
<1>1. i.name # "VLSEGFFTYPE"
  BY DEF Plain
<1>2. Result(i, o)
  BY AccessRuns
<1> HIDE DEF o
<1>3. all \in SUBSET Nat /\ nf \in Nat \ {0} /\ vstart \in Nat
  BY FieldsTyped DEF Midway, HartOK
<1>4. s \in Nat /\ s =< p /\ (i.name # "VSSEGTYPE" => s = vstart * nf /\ p =< s + nf)
  <2>1. vstart * nf \in Nat
    BY <1>3
  <2> QED
    BY <2>1 DEF Midway
<1>5. AccessedElements(i) = {e \in all : i.name = "VSSEGTYPE" \/ vstart * nf =< e}
  BY <1>1, ElementsAgree DEF Midway
<1>6. \A e : e \in AccessedElements(i) <=> e \in all /\ s =< e
  BY <1>3, <1>5
<1>7. ASSUME NEW q \in Nat, Progress(i, o, q)
      PROVE  /\ Promised(i, Below(all, Later(q)), o.v, o.mem) /\ Aligned(i, Later(q))
             /\ o.vl = vl /\ o.vtype = vtype /\ o.vxsat = vxsat /\ o.fflags = fflags /\ o.x = x
             /\ \A b \in Reads(i) : o.v[b] = v[b]
  <2>1. Promised(i, Below(all, Later(q)), o.v, o.mem) /\ Aligned(i, Later(q))
    BY <1>1, <1>7, Resumes
  <2>2. \A b \in Reads(i) : o.v[b] = v[b]
    BY <1>1, <1>7, ReadsKept
  <2> QED
    BY <1>7, <2>1, <2>2 DEF Progress
<1>8. \A e \in AccessedElements(i) : Promise!Misaligned(i, e) <=> Misaligned(i, e)
  <2>1. Promise!DestWidth(i) = DestWidth(i)
    BY TypesAgree DEF Midway, Agreed
  <2>2. \A e \in AccessedElements(i) : Promise!ElementAddress(i, e) = ElementAddress(i, e)
    BY <1>1, AddressesAgree DEF Midway
  <2> QED
    BY <2>1, <2>2 DEF Promise!Misaligned, Misaligned
<1>9. CASE \E q \in Nat : /\ Progress(i, o, q) /\ \A e \in AccessedElements(i) : e < q
                          /\ o.how \in {"done", "illegal"} /\ o.vstart = 0
  <2>1. PICK q \in Nat : /\ Progress(i, o, q) /\ \A e \in AccessedElements(i) : e < q
                         /\ o.how \in {"done", "illegal"} /\ o.vstart = 0
    BY <1>9
  <2>2. ASSUME NEW e \in all PROVE e < Later(q)
    <3>1. e \in Nat
      BY <1>3
    <3>2. CASE s =< e
      BY <1>6, <2>1, <3>1, <3>2
    <3>3. CASE ~(s =< e)
      BY <1>4, <3>1, <3>3
    <3> QED
      BY <3>2, <3>3
  <2>3. Below(all, Later(q)) = all
    BY <2>2 DEF Below
  <2> HIDE DEF Later
  <2> QED
    BY <1>7, <2>1, <2>3 DEF o
<1>10. CASE \E q \in Nat : StoppedAt(i, o, q)
  <2>1. PICK q \in Nat : StoppedAt(i, o, q)
    BY <1>10
  <2>2. /\ q \in AccessedElements(i) /\ Progress(i, o, q) /\ o.vstart = q \div nf
        /\ o.how \in {"misaligned", "fault"} /\ (o.how = "misaligned" <=> Misaligned(i, q))
    BY <2>1 DEF StoppedAt
  <2>3. q \in all /\ s =< q
    BY <1>6, <2>2
  <2>4. Later(q) \in Nat
    OBVIOUS
  <2>5. CASE o.how = "misaligned"
    <3>1. Promise!Misaligned(i, q)
      BY <1>8, <2>2, <2>5
    <3>2. ~(q < Later(q))
      BY <1>7, <2>2, <2>3, <3>1 DEF Aligned
    <3>3. Later(q) = q
      BY <3>2
    <3> HIDE DEF Later
    <3> QED
      BY <1>7, <2>2, <2>3, <2>5, <3>1, <3>3 DEF o
  <2>6. CASE o.how = "fault"
    <3>1. i.name # "VSSEGTYPE" =>
            /\ Shown(vstart, before.vstart) =< o.vstart
            /\ o.vstart * nf =< Later(q) /\ Later(q) =< o.vstart * nf + nf
      <4> SUFFICES ASSUME i.name # "VSSEGTYPE"
                   PROVE  /\ Shown(vstart, before.vstart) =< o.vstart
                          /\ o.vstart * nf =< Later(q) /\ Later(q) =< o.vstart * nf + nf
        OBVIOUS
      <4> DEFINE k == q \div nf
                 j == q % nf
      <4>1. k \in Nat /\ j \in 0 .. nf - 1 /\ q = nf * k + j
        <5> HIDE DEF nf
        <5> QED
          BY <1>3, Division
      <4>2. (q < vstart * nf) = (k < vstart) /\ (q < (vstart + 1) * nf) = (k < vstart + 1)
        <5>1. vstart \in Nat /\ vstart + 1 \in Nat
          BY <1>3
        <5> HIDE DEF nf, k
        <5>2. \A n \in Nat : (q < n * nf) = (q \div nf < n)
          BY <1>3, InSegments
        <5> QED
          BY <5>1, <5>2 DEF k
      <4>3. s = vstart * nf /\ p =< s + nf
        BY <1>4
      <4>4. o.vstart = k /\ Shown(vstart, before.vstart) \in Nat
            /\ Shown(vstart, before.vstart) =< vstart
        BY <2>2 DEF Midway
      <4> HIDE DEF nf, k, j, s
      <4>5. vstart * nf \in Nat /\ (vstart + 1) * nf = vstart * nf + nf /\ k * nf = nf * k
            /\ k * nf \in Nat
        BY <1>3, <4>1
      <4>6. vstart =< k
        BY <1>3, <2>3, <4>1, <4>2, <4>3, <4>5
      <4>7. CASE p =< q
        BY <1>3, <4>1, <4>4, <4>5, <4>6, <4>7
      <4>8. CASE ~(p =< q)
        <5>1. q < (vstart + 1) * nf
          BY <1>3, <1>4, <4>3, <4>5, <4>8
        <5>2. k = vstart
          BY <1>3, <4>1, <4>2, <4>6, <5>1
        <5> QED
          BY <1>3, <1>4, <4>3, <4>4, <4>5, <4>8, <5>2
      <4> QED
        BY <4>7, <4>8
    <3>2. i.name \in {"VLRETYPE", "VSRETYPE"} => o.vstart < i.nf * (VLEN \div DestWidth(i))
      BY <2>2, WithinRegisters
    <3>3. FaultedAt(i, o, Later(q))
      <4> HIDE DEF Later
      <4> QED
        BY <1>7, <2>2, <3>1, <3>2 DEF FaultedAt
    <3> HIDE DEF Later
    <3> QED
      BY <1>7, <2>2, <2>4, <2>6, <3>3 DEF o
  <2> QED
    BY <2>2, <2>5, <2>6
<1> QED
  BY <1>2, <1>9, <1>10 DEF Result
-----------------------------------------------------------------------------
(* The beginning of an access, and a fault of it.                          *)

LEMMA PromisedFrom ==
  ASSUME HartOK, how # "fault", NEW i, Encoded(i), i.file = "mem", i.name # "VLSEGFFTYPE"
  PROVE  /\ Agreed(i) /\ Shown(vstart, before.vstart) = vstart
         /\ AccessedElements(i) = Promise!AccessedElements(i)
<1> DEFINE all == Promise!Accessed(i)
           nf == NumFields(i)
<1>1. Agreed(i) /\ Shown(vstart, before.vstart) = vstart
  BY DEF Agreed, Shown
<1>2. vstart \in Nat /\ nf \in Nat \ {0} /\ all \subseteq Int
  BY FieldsTyped, PromisedNumbers DEF HartOK
<1>3. i.name # "VSSEGTYPE" => \A k \in all : vstart =< k
  <2>1. i.name \in {"VLSEGTYPE", "VSSEGTYPE", "VLSSEGTYPE", "VSSSEGTYPE", "VLRETYPE",
                       "VSRETYPE", "VMTYPE"} \cup Indexes
    BY AccessNames
  <2>2. i.name \notin Promise!ElementZero /\ i.name # "VMVRTYPE" /\ i.name # "MVVCOMPRESS"
    BY <2>1 DEF Promise!ElementZero, Indexes
  <2>3. \A k \in Promise!Changeable(i) : vstart =< k
    BY <1>1, <2>2 DEF Promise!Changeable
  <2> QED
    BY <2>3 DEF Promise!Accessed
<1>4. Promise!AccessedElements(i) = {k * nf + j : k \in all, j \in 0 .. nf - 1}
  BY <1>1, TypesAgree DEF Promise!AccessedElements, Agreed
<1>5. AccessedElements(i) =
        {e \in Promise!AccessedElements(i) : i.name = "VSSEGTYPE" \/ vstart * nf =< e}
  BY <1>1, <1>2, ElementsAgree
<1> HIDE DEF all, nf
<1>6. i.name # "VSSEGTYPE" => \A e \in Promise!AccessedElements(i) : vstart * nf =< e
  <2> SUFFICES ASSUME i.name # "VSSEGTYPE", NEW e \in Promise!AccessedElements(i)
               PROVE  vstart * nf =< e
    OBVIOUS
  <2>1. PICK k \in all, j \in 0 .. nf - 1 : e = k * nf + j
    BY <1>4
  <2>2. k \in Nat /\ vstart =< k /\ j \in Nat
    BY <1>2, <1>3
  <2>3. vstart * nf =< k * nf /\ vstart * nf \in Nat /\ k * nf \in Nat
    BY <1>2, <2>2, ProductGrows
  <2> QED
    BY <2>1, <2>2, <2>3
<1> QED
  BY <1>1, <1>5, <1>6

LEMMA StartsMidway ==
  ASSUME HartOK, how # "fault", NEW i, Encoded(i), i.file = "mem", i.name # "VLSEGFFTYPE",
         Proceeds(i)
  PROVE  \E p \in Nat : Midway(i, p)
<1> DEFINE nf == NumFields(i)
           p == IF i.name = "VSSEGTYPE" THEN 0 ELSE vstart * nf
           all == Promise!AccessedElements(i)
<1>1. /\ Agreed(i) /\ Shown(vstart, before.vstart) = vstart /\ AccessedElements(i) = all
  BY PromisedFrom
<1>2. /\ Shown(vxsat, before.vxsat) = vxsat /\ Shown(fflags, before.fflags) = fflags
      /\ Shown(x, before.x) = x /\ Shown(pc, before.pc) = pc /\ Shown(v, before.v) = v
      /\ Shown(mem, before.mem) = mem
  BY DEF Shown
<1>3. vstart \in Nat /\ nf \in Nat \ {0} /\ vstart * nf \in Nat /\ p \in Nat
  <2>1. vstart \in Nat /\ nf \in Nat \ {0}
    BY FieldsTyped DEF HartOK
  <2>2. vstart * nf \in Nat
    BY <2>1
  <2> QED
    BY <2>1, <2>2
<1>4. all \in SUBSET Nat /\ \A e \in all : Fits(i, e)
  BY <1>1, AccessFits
<1>5. \A e \in all : Promise!ElementAddress(i, e) \in Int
  <2>1. \A e \in all : Promise!ElementAddress(i, e) = ElementAddress(i, e)
    BY <1>1, AddressesAgree
  <2> QED
    BY <1>4, <2>1, AddressTyped
<1>6. \A e \in all : ~(e < p)
  <2>1. AccessedElements(i) = {e \in all : i.name = "VSSEGTYPE" \/ vstart * nf =< e}
    BY <1>1, <1>3, ElementsAgree
  <2> QED
    BY <1>1, <1>3, <1>4, <2>1
<1>7. Below(all, p) = {} /\ Aligned(i, p)
  BY <1>6 DEF Below, Aligned
<1>8. Promised(i, {}, v, mem)
  BY <1>2 DEF Promised, Moves
<1>9. i.name # "VSSEGTYPE" => p = vstart * nf /\ vstart * nf =< p /\ p =< vstart * nf + nf
  BY <1>3
<1> HIDE DEF p, nf, all
<1>10. Midway(i, p)
  BY <1>1, <1>2, <1>3, <1>4, <1>5, <1>7, <1>8, <1>9 DEF Midway, nf, all
<1> QED
  BY <1>3, <1>10

\* What depends on the type only.
LEMMA TypesKept ==
  ASSUME vtype' = vtype, NEW i
  PROVE  /\ SEW' = SEW /\ LMUL' = LMUL /\ EMUL(i)' = EMUL(i) /\ NumFields(i)' = NumFields(i)
         /\ DestWidth(i)' = DestWidth(i) /\ Reads(i)' = Reads(i)
         /\ \A e : Fits(i, e)' <=> Fits(i, e)
<1>1. SEW' = SEW /\ LMUL' = LMUL
  BY DEF SEW, LMUL
<1>2. EMUL(i)' = EMUL(i) /\ Width' = Width /\ NumFields(i)' = NumFields(i)
  BY <1>1 DEF EMUL, Width, NumFields
<1>3. DestWidth(i)' = DestWidth(i) /\ DataGroup(i)' = DataGroup(i)
  BY <1>1, <1>2 DEF DestWidth, DataGroup
<1>4. FieldRegisters(i)' = FieldRegisters(i)
  BY <1>3 DEF FieldRegisters
<1>5. \A e : Fits(i, e)' <=> Fits(i, e)
  BY <1>2, <1>3, <1>4 DEF Fits
<1>6. Reads(i)' = Reads(i)
  BY <1>2 DEF Reads
<1> QED
  BY <1>1, <1>2, <1>3, <1>5, <1>6

LEMMA ProceedsKept ==
  ASSUME vtype' = vtype, NEW i, Proceeds(i),
         i.name \in {"VLRETYPE", "VSRETYPE"} => vstart' < i.nf * (VLEN \div DestWidth(i))
  PROVE  Proceeds(i)'
<1>1. SEW' = SEW /\ LMUL' = LMUL /\ EMUL(i)' = EMUL(i) /\ DestWidth(i)' = DestWidth(i)
  BY TypesKept
<1>2. valid_vtype' <=> valid_vtype
  BY DEF valid_vtype
<1>3. illegal_vd_unmasked' <=> illegal_vd_unmasked
  BY <1>2 DEF illegal_vd_unmasked
<1>4. \A emul, w :
        /\ illegal_store(i.nf, w, emul)' <=> illegal_store(i.nf, w, emul)
        /\ illegal_load(i, i.nf, w, emul)' <=> illegal_load(i, i.nf, w, emul)
  BY <1>2 DEF illegal_store, illegal_load
<1>5. \A emul, data, w :
        /\ illegal_indexed_store(i.nf, w, emul, data)' <=> illegal_indexed_store(i.nf, w, emul, data)
        /\ illegal_indexed_load(i, i.nf, w, emul, data)' <=> illegal_indexed_load(i, i.nf, w, emul, data)
  BY <1>2 DEF illegal_indexed_store, illegal_indexed_load
<1> QED
  BY <1>1, <1>3, <1>4, <1>5 DEF Proceeds, Runs

LEMMA PromisedKept ==
  ASSUME PromiseKept, NEW i
  PROVE  /\ PromisedTarget(i)' = PromisedTarget(i) /\ PromisedSource(i)' = PromisedSource(i)
         /\ \A p : Below(Promise!AccessedElements(i), p)' = Below(Promise!AccessedElements(i), p)
         /\ \A p : Aligned(i, p)' <=> Aligned(i, p)
<1>1. /\ Promise!AccessedElements(i)' = Promise!AccessedElements(i)
      /\ Promise!ElementBits(i)' = Promise!ElementBits(i)
      /\ \A e : Promise!ElementAddress(i, e)' = Promise!ElementAddress(i, e)
      /\ \A e : Promise!Misaligned(i, e)' <=> Promise!Misaligned(i, e)
      /\ \A e, c : Promise!ElementBit(i, e, c)' = Promise!ElementBit(i, e, c)
      /\ Promise!IsLoad(i)' <=> Promise!IsLoad(i)
  BY PromiseFrame
<1>2. PromisedTarget(i)' = PromisedTarget(i)
  BY <1>1 DEF PromisedTarget
<1>3. PromisedSource(i)' = PromisedSource(i)
  BY <1>1 DEF PromisedSource, PromiseKept
<1>4. \A p : Below(Promise!AccessedElements(i), p)' = Below(Promise!AccessedElements(i), p)
  BY <1>1 DEF Below
<1>5. \A p : Aligned(i, p)' <=> Aligned(i, p)
  BY <1>1 DEF Aligned
<1> QED
  BY <1>2, <1>3, <1>4, <1>5

\* A step that leaves the promised hart, the type and what the elements are.
LEMMA MidwayKept ==
  ASSUME PromiseKept, NEW i, NEW p, Midway(i, p), NEW q,
         vl' = vl, vtype' = vtype, \A b \in Reads(i) : v'[b] = v[b],
         Shown(vxsat, before.vxsat)' = vxsat', Shown(fflags, before.fflags)' = fflags',
         Shown(x, before.x)' = x', Shown(pc, before.pc)' = pc',
         \/ i.name = "VSSEGTYPE"
         \/ /\ Shown(vstart, before.vstart) =< vstart'
            /\ vstart' * NumFields(i) =< q /\ q =< vstart' * NumFields(i) + NumFields(i),
         Promised(i, Below(Promise!AccessedElements(i), q), v', mem'), Aligned(i, q)
  PROVE  Midway(i, q)'
<1>1. /\ NumFields(i)' = NumFields(i) /\ Reads(i)' = Reads(i) /\ \A e : Fits(i, e)' <=> Fits(i, e)
  BY TypesKept
<1>2. /\ Promise!AccessedElements(i)' = Promise!AccessedElements(i)
      /\ Promise!ElementBits(i)' = Promise!ElementBits(i)
      /\ \A e : Promise!ElementAddress(i, e)' = Promise!ElementAddress(i, e)
      /\ Promise!IsLoad(i)' <=> Promise!IsLoad(i)
  BY PromiseFrame
<1>3. /\ PromisedTarget(i)' = PromisedTarget(i) /\ PromisedSource(i)' = PromisedSource(i)
      /\ Below(Promise!AccessedElements(i), q)' = Below(Promise!AccessedElements(i), q)
      /\ Aligned(i, q)' <=> Aligned(i, q)
  BY PromisedKept
<1>4. /\ Shown(v, before.v)' = Shown(v, before.v) /\ Shown(mem, before.mem)' = Shown(mem, before.mem)
      /\ Shown(vl, before.vl)' = Shown(vl, before.vl)
      /\ Shown(vstart, before.vstart)' = Shown(vstart, before.vstart)
      /\ Shown(vtype, before.vtype)' = Shown(vtype, before.vtype)
  BY DEF PromiseKept
<1>5. Agreed(i)'
  BY <1>1, <1>4 DEF Midway, Agreed
<1>6. Promised(i, Below(Promise!AccessedElements(i), q), v, mem)'
  BY <1>2, <1>3, <1>4 DEF Promised
<1>7. Shown(vstart, before.vstart)' \in Nat
  BY <1>4 DEF Midway
<1>8. \A e \in Promise!AccessedElements(i)' :
        e \in Nat /\ Fits(i, e)' /\ Promise!ElementAddress(i, e)' \in Int
  BY <1>1, <1>2 DEF Midway
<1>9. \/ i.name = "VSSEGTYPE"
      \/ /\ Shown(vstart, before.vstart)' =< vstart'
         /\ vstart' * NumFields(i)' =< q /\ q =< vstart' * NumFields(i)' + NumFields(i)'
  BY <1>1, <1>4
<1> QED
  BY <1>3, <1>5, <1>6, <1>7, <1>8, <1>9 DEF Midway
-----------------------------------------------------------------------------
(* The end of an access is the one that is promised.                       *)

LEMMA PromiseMoved ==
  ASSUME HartOK, NEW i, Encoded(i), ~Unpromised(i), i.file = "mem", i.name # "VLSEGFFTYPE",
         Proceeds(i), NEW p, Midway(i, p),
         NEW done \in SUBSET Promise!AccessedElements(i), NEW registers, NEW memory,
         Promised(i, done, registers, memory)
  PROVE  IF Promise!IsLoad(i)
         THEN Promise!LoadedInto(i, done, registers) /\ memory = Shown(mem, before.mem)
         ELSE Promise!StoredInto(i, done, memory) /\ registers = Shown(v, before.v)
<1> DEFINE bits == Promise!ElementBits(i)
           all == Promise!AccessedElements(i)
           target == PromisedTarget(i)
           source == PromisedSource(i)
<1>1. \A e \in done : e \in Nat /\ Fits(i, e) /\ Promise!ElementAddress(i, e) \in Int
  BY DEF Midway
<1>2. bits = ElementBits(i) /\ (Promise!IsLoad(i) <=> IsLoad(i))
      /\ \A e, c : Promise!ElementBit(i, e, c) = ElementBit(i, e, c)
  BY TypesAgree DEF Midway, Agreed
<1>3. bits \subseteq Int /\ DestWidth(i) \in Nat \ {0}
  BY <1>2, AccessFits DEF ElementBits
<1>4. CASE Promise!IsLoad(i)
  <2>1. /\ memory = Shown(mem, before.mem)
        /\ Moves(done, bits, target, source, Shown(v, before.v), registers)
    BY <1>4 DEF Promised
  <2>2. DOMAIN Shown(v, before.v) = Positions
    <3>1. Moves(Below(all, p), bits, target, source, Shown(v, before.v), v)
      BY <1>4 DEF Midway, Promised
    <3> QED
      BY <3>1 DEF Moves, HartOK
  <2>3. i.vd + Fills(i) =< NumRegs /\ IsLoad(i)
    BY <1>2, <1>4, LoadFills
  <2>4. ASSUME NEW e \in done, NEW c \in bits
        PROVE  /\ target[e][c] = Promise!ElementBit(i, e, c)
               /\ source[e][c] = Shown(mem, before.mem)[8 * Promise!ElementAddress(i, e) + c]
               /\ Promise!ElementBit(i, e, c) \in Positions
    <3>1. /\ target[e][c] = Promise!ElementBit(i, e, c)
          /\ source[e][c] = Shown(mem, before.mem)[8 * Promise!ElementAddress(i, e) + c]
      BY <1>1, <1>4 DEF PromisedTarget, PromisedSource
    <3>2. c \in ElementBits(i)
      BY <1>2
    <3>3. /\ ElementBit(i, e, c) \in i.vd * VLEN .. (i.vd + Fills(i)) * VLEN - 1
          /\ (i.vd + Fills(i)) * VLEN =< NumRegs * VLEN
      BY <1>1, <1>3, <2>3, <3>2, LoadPlaces
    <3>4. ElementBit(i, e, c) \in Positions
      <4> DEFINE low == i.vd * VLEN
                 high == (i.vd + Fills(i)) * VLEN
                 top == NumRegs * VLEN
      <4>1. low \in Nat /\ high \in Int /\ top \in Int
        <5>1. i.vd \in Nat /\ VLEN \in Nat /\ NumRegs \in Nat /\ Fills(i) \in Nat
          BY <2>3, LoadFills, Sizes DEF Encoded
        <5> QED
          BY <5>1
      <4>2. ElementBit(i, e, c) \in low .. high - 1 /\ high =< top
        BY <3>3
      <4> HIDE DEF low, high, top
      <4>3. ElementBit(i, e, c) \in 0 .. top - 1
        BY <4>1, <4>2
      <4> QED
        BY <4>3 DEF Positions, top
    <3> QED
      BY <1>2, <3>1, <3>4
  <2>5. ASSUME NEW e \in done, NEW c \in bits
        PROVE  registers[Promise!ElementBit(i, e, c)]
                 = Shown(mem, before.mem)[8 * Promise!ElementAddress(i, e) + c]
    <3>1. ASSUME NEW d \in done, NEW u \in bits, d > e PROVE target[d][u] # target[e][c]
      <4>1. ElementBit(i, d, u) # ElementBit(i, e, c)
        <5>1. c \in ElementBits(i) /\ u \in ElementBits(i) /\ d # e
          BY <1>1, <1>2, <3>1
        <5> QED
          BY <1>1, <1>3, <2>3, <5>1, LoadBitsApart
      <4> QED
        BY <1>2, <2>4, <4>1
    <3>2. target[e][c] \in DOMAIN Shown(v, before.v)
      BY <2>2, <2>4
    <3>3. registers[target[e][c]] = source[e][c]
      BY <2>1, <3>1, <3>2 DEF Moves
    <3> QED
      BY <2>4, <3>3
  <2>6. ASSUME NEW b \in DOMAIN Shown(v, before.v)
                   \ {Promise!ElementBit(i, e, c) : e \in done, c \in bits}
        PROVE  registers[b] = Shown(v, before.v)[b]
    <3>1. \A e \in done, c \in bits : target[e][c] # b
      BY <2>4, <2>6
    <3> QED
      BY <2>1, <2>6, <3>1 DEF Moves
  <2>7. DOMAIN registers = DOMAIN Shown(v, before.v)
    BY <2>1 DEF Moves
  <2>8. Promise!LoadedInto(i, done, registers)
    BY <2>5, <2>6, <2>7 DEF Promise!LoadedInto
  <2> QED
    BY <1>4, <2>1, <2>8
<1>5. CASE ~Promise!IsLoad(i)
  <2>1. /\ registers = Shown(v, before.v)
        /\ Moves(done, bits, target, source, Shown(mem, before.mem), memory)
    BY <1>5 DEF Promised
  <2>2. ASSUME NEW e \in done, NEW c \in bits
        PROVE  /\ target[e][c] = 8 * Promise!ElementAddress(i, e) + c
               /\ source[e][c] = Shown(v, before.v)[Promise!ElementBit(i, e, c)]
    BY <1>1, <1>5 DEF PromisedTarget, PromisedSource
  <2>3. ASSUME NEW e \in done, NEW c \in bits,
               8 * Promise!ElementAddress(i, e) + c \in DOMAIN Shown(mem, before.mem),
               \A later \in done : later > e =>
                 ~((8 * Promise!ElementAddress(i, e) + c) - 8 * Promise!ElementAddress(i, later) \in bits)
        PROVE  memory[8 * Promise!ElementAddress(i, e) + c]
                 = Shown(v, before.v)[Promise!ElementBit(i, e, c)]
    <3>1. ASSUME NEW d \in done, NEW u \in bits, d > e PROVE target[d][u] # target[e][c]
      <4> SUFFICES ASSUME target[d][u] = target[e][c] PROVE FALSE
        OBVIOUS
      <4> DEFINE a == Promise!ElementAddress(i, d)
                 b == Promise!ElementAddress(i, e)
      <4>1. 8 * a + u = 8 * b + c
        BY <2>2
      <4>2. a \in Int /\ b \in Int /\ u \in Int /\ c \in Int
        BY <1>1, <1>3
      <4> HIDE DEF a, b
      <4>3. (8 * b + c) - 8 * a = u
        BY <4>1, <4>2
      <4> QED
        BY <2>3, <3>1, <4>3 DEF a, b
    <3>2. target[e][c] \in DOMAIN Shown(mem, before.mem)
      BY <2>2, <2>3
    <3>3. memory[target[e][c]] = source[e][c]
      BY <2>1, <3>1, <3>2 DEF Moves
    <3> QED
      BY <2>2, <3>3
  <2>4. ASSUME NEW b \in DOMAIN Shown(mem, before.mem)
                   \ {8 * Promise!ElementAddress(i, e) + c : e \in done, c \in bits}
        PROVE  memory[b] = Shown(mem, before.mem)[b]
    <3>1. \A e \in done, c \in bits : target[e][c] # b
      BY <2>2, <2>4
    <3> QED
      BY <2>1, <2>4, <3>1 DEF Moves
  <2>5. DOMAIN memory = DOMAIN Shown(mem, before.mem)
    BY <2>1 DEF Moves
  <2>6. Promise!StoredInto(i, done, memory)
    <3> HIDE DEF bits
    <3> QED
      BY <2>3, <2>4, <2>5 DEF Promise!StoredInto, bits
  <2> QED
    BY <1>5, <2>1, <2>6
<1> QED
  BY <1>4, <1>5
-----------------------------------------------------------------------------
(* The theorem.                                                            *)

\* The access that is fetched again is half way, and its checks still pass.
HalfWay ==
  \A i : how = "fault" /\ i = instr /\ i.file = "mem" /\ ~Promise!Unpromised(i) =>
          Proceeds(i) /\ \E p \in Nat : Midway(i, p)

LEMMA FaultHides ==
  ASSUME Execute, how' = "fault", xlen' = xlen
  PROVE  /\ PromiseKept /\ UNCHANGED Promise!hart
         /\ Shown(vxsat, before.vxsat)' = Shown(vxsat, before.vxsat)
         /\ Shown(fflags, before.fflags)' = Shown(fflags, before.fflags)
         /\ Shown(x, before.x)' = Shown(x, before.x) /\ Shown(pc, before.pc)' = Shown(pc, before.pc)
<1>1. before' = IF how = "fault" THEN before ELSE Snapshot
  BY DEF Execute
<1>2. /\ Shown(v, before.v)' = before'.v /\ Shown(mem, before.mem)' = before'.mem
      /\ Shown(vl, before.vl)' = before'.vl
      /\ Shown(vstart, before.vstart)' = before'.vstart
      /\ Shown(vtype, before.vtype)' = before'.vtype
      /\ Shown(vxsat, before.vxsat)' = before'.vxsat
      /\ Shown(fflags, before.fflags)' = before'.fflags
      /\ Shown(dirty, before.dirty)' = before'.dirty
      /\ Shown(double, before.double)' = before'.double
      /\ Shown(x, before.x)' = before'.x
      /\ Shown(wants, before.wants)' = before'.wants
      /\ Shown(how, before.how)' = before'.how
      /\ Shown(pc, before.pc)' = before'.pc
      /\ Shown(instr, before.instr)' = before'.instr
  BY DEF Shown
<1>3. /\ before'.v = Shown(v, before.v) /\ before'.mem = Shown(mem, before.mem)
      /\ before'.vl = Shown(vl, before.vl)
      /\ before'.vstart = Shown(vstart, before.vstart)
      /\ before'.vtype = Shown(vtype, before.vtype)
      /\ before'.vxsat = Shown(vxsat, before.vxsat)
      /\ before'.fflags = Shown(fflags, before.fflags)
      /\ before'.dirty = Shown(dirty, before.dirty)
      /\ before'.double = Shown(double, before.double)
      /\ before'.x = Shown(x, before.x)
      /\ before'.wants = Shown(wants, before.wants)
      /\ before'.how = Shown(how, before.how) /\ before'.pc = Shown(pc, before.pc)
      /\ before'.instr = Shown(instr, before.instr)
  <2>1. CASE how = "fault"
    BY <1>1, <2>1 DEF Shown
  <2>2. CASE how # "fault"
    <3>1. before' = Snapshot
      BY <1>1, <2>2
    <3>2. /\ before'.v = v /\ before'.mem = mem /\ before'.vl = vl
          /\ before'.vstart = vstart /\ before'.vtype = vtype /\ before'.vxsat = vxsat
          /\ before'.fflags = fflags /\ before'.dirty = dirty /\ before'.x = x
          /\ before'.double = double
          /\ before'.wants = wants /\ before'.how = how /\ before'.pc = pc
          /\ before'.instr = instr
      BY <3>1 DEF Snapshot
    <3> QED
      BY <2>2, <3>2 DEF Shown
  <2> QED
    BY <2>1, <2>2
<1> QED
  BY <1>2, <1>3 DEF PromiseKept, Promise!hart

LEMMA EndShows ==
  ASSUME how' # "fault"
  PROVE  /\ Shown(v, before.v)' = v' /\ Shown(mem, before.mem)' = mem' /\ Shown(vl, before.vl)' = vl'
         /\ Shown(vstart, before.vstart)' = vstart' /\ Shown(vtype, before.vtype)' = vtype'
         /\ Shown(vxsat, before.vxsat)' = vxsat' /\ Shown(fflags, before.fflags)' = fflags'
         /\ Shown(x, before.x)' = x' /\ Shown(how, before.how)' = how'
         /\ Shown(pc, before.pc)' = pc' /\ Shown(instr, before.instr)' = instr'
BY DEF Shown

\* Every access that nothing excludes starts half way or is refused.
LEMMA FetchedReady ==
  ASSUME PlainProgram, HartInv, HalfWay, NEW i \in Fetched, i.file = "mem", ~Promise!Unpromised(i)
  PROVE  /\ ~Unpromised(i)
         /\ \/ Proceeds(i) /\ \E p \in Nat : Midway(i, p)
            \/ how # "fault" /\ ~Proceeds(i)
<1>1. Encoded(i) /\ i.name # "VLSEGFFTYPE" /\ HartOK
  BY FetchedPlain DEF Plain, HartInv
<1>2. CASE how = "fault"
  <2>1. i = instr
    BY <1>2 DEF Fetched
  <2>2. Proceeds(i) /\ \E p \in Nat : Midway(i, p)
    BY <1>2, <2>1 DEF HalfWay
  <2>3. Shown(vtype, before.vtype) = vtype
    BY <2>2 DEF Midway, Agreed
  <2> QED
    BY <2>2, <2>3, TypesAgree
<1>3. CASE how # "fault"
  <2>1. Shown(vtype, before.vtype) = vtype
    BY <1>3 DEF Shown
  <2>2. Proceeds(i) => \E p \in Nat : Midway(i, p)
    BY <1>1, <1>3, StartsMidway
  <2> QED
    BY <1>3, <2>1, <2>2, TypesAgree
<1> QED
  BY <1>2, <1>3

LEMMA RefusalIsPromised ==
  ASSUME HartOK, how # "fault", NEW i, Encoded(i), i.file = "mem", i.name # "VLSEGFFTYPE",
         ~Proceeds(i), Retired(i, MemoryAccess(i)), Shown(instr, before.instr)' = i
  PROVE  how' # "fault" /\ Promise!Access(Shown(instr, before.instr)')
<1> DEFINE o == MemoryAccess(i)
<1>1. Refused(i, o)
  BY AccessLoops
<1>2. AccessedElements(i) = Promise!AccessedElements(i)
  BY PromisedFrom
<1>3. /\ v' = o.v /\ mem' = o.mem /\ vl' = o.vl /\ vstart' = o.vstart /\ vtype' = o.vtype
      /\ vxsat' = o.vxsat /\ fflags' = o.fflags /\ x' = o.x /\ how' = o.how
      /\ pc' = (IF o.how = "done" THEN pc + 1 ELSE pc) /\ xlen' = xlen
  BY DEF Retired
<1> HIDE DEF o
<1>4. /\ o.how \in {"illegal", "abort"} \/ (o.how = "done" /\ Promise!AccessedElements(i) = {})
      /\ \E h : o = [Now EXCEPT !.how = h]
  BY <1>1, <1>2 DEF Refused
<1>5. /\ o.v = v /\ o.mem = mem /\ o.vl = vl /\ o.vstart = vstart /\ o.vtype = vtype
      /\ o.vxsat = vxsat /\ o.fflags = fflags /\ o.x = x
  BY <1>4 DEF Now
<1>6. how' # "fault"
  BY <1>3, <1>4
<1>7. /\ Shown(v, before.v) = v /\ Shown(mem, before.mem) = mem /\ Shown(vl, before.vl) = vl
      /\ Shown(vstart, before.vstart) = vstart /\ Shown(vtype, before.vtype) = vtype
      /\ Shown(vxsat, before.vxsat) = vxsat /\ Shown(fflags, before.fflags) = fflags
      /\ Shown(x, before.x) = x /\ Shown(pc, before.pc) = pc
  BY DEF Shown
<1>8. Promise!Refuses(i)
  BY <1>3, <1>4, <1>5, <1>6, <1>7, EndShows DEF Promise!Refuses
<1>9. Promise!Access(i)
  BY <1>3, <1>5, <1>6, <1>7, <1>8, EndShows DEF Promise!Access
<1> QED
  BY <1>6, <1>9

LEMMA EndIsPromised ==
  ASSUME HartOK, NEW i, Encoded(i), i.file = "mem", Plain(i), ~Unpromised(i), Proceeds(i),
         NEW p \in Nat, Midway(i, p), Retired(i, MemoryAccess(i)), how' # "fault"
  PROVE  Promise!Access(i)
<1> DEFINE o == MemoryAccess(i)
           all == Promise!AccessedElements(i)
<1>0. i.name # "VLSEGFFTYPE"
  BY DEF Plain
<1>1. /\ v' = o.v /\ mem' = o.mem /\ vl' = o.vl /\ vstart' = o.vstart /\ vtype' = o.vtype
      /\ vxsat' = o.vxsat /\ fflags' = o.fflags /\ x' = o.x /\ how' = o.how
      /\ pc' = (IF o.how = "done" THEN pc + 1 ELSE pc) /\ xlen' = xlen
  BY DEF Retired
<1>2. /\ o.vl = vl /\ o.vtype = vtype /\ o.vxsat = vxsat /\ o.fflags = fflags /\ o.x = x
      /\ \/ o.how \in {"done", "illegal"} /\ o.vstart = 0 /\ Promised(i, all, o.v, o.mem)
         \/ \E e \in all :
              /\ o.how = "misaligned" /\ Promise!Misaligned(i, e)
              /\ o.vstart = e \div NumFields(i)
              /\ Promised(i, Below(all, e), o.v, o.mem)
  BY <1>1, AccessResumes
<1> HIDE DEF o
<1>3. /\ Shown(vl, before.vl) = vl /\ Shown(vtype, before.vtype) = vtype
      /\ Shown(vxsat, before.vxsat) = vxsat /\ Shown(fflags, before.fflags) = fflags
      /\ Shown(x, before.x) = x /\ Shown(pc, before.pc) = pc
  BY DEF Midway, Agreed
<1>4. /\ Shown(v, before.v)' = v' /\ Shown(mem, before.mem)' = mem' /\ Shown(vl, before.vl)' = vl'
      /\ Shown(vstart, before.vstart)' = vstart' /\ Shown(vtype, before.vtype)' = vtype'
      /\ Shown(vxsat, before.vxsat)' = vxsat' /\ Shown(fflags, before.fflags)' = fflags'
      /\ Shown(x, before.x)' = x' /\ Shown(how, before.how)' = how' /\ Shown(pc, before.pc)' = pc'
  BY EndShows
<1>5. ASSUME NEW done \in SUBSET all, Promised(i, done, o.v, o.mem)
      PROVE  Promise!Moved(i, done)
  <2>1. IF Promise!IsLoad(i)
        THEN Promise!LoadedInto(i, done, o.v) /\ o.mem = Shown(mem, before.mem)
        ELSE Promise!StoredInto(i, done, o.mem) /\ o.v = Shown(v, before.v)
    BY <1>0, <1>5, PromiseMoved
  <2> QED
    BY <1>1, <1>4, <2>1 DEF Promise!Moved
<1>6. Promise!Completes(i) \/ Promise!Traps(i)
  <2>1. CASE o.how \in {"done", "illegal"} /\ o.vstart = 0 /\ Promised(i, all, o.v, o.mem)
    <3>1. Promise!Moved(i, all)
      BY <1>5, <2>1
    <3> QED
      BY <1>1, <1>4, <2>1, <3>1 DEF Promise!Completes
  <2>2. CASE \E e \in all :
               /\ o.how = "misaligned" /\ Promise!Misaligned(i, e)
               /\ o.vstart = e \div NumFields(i)
               /\ Promised(i, Below(all, e), o.v, o.mem)
    <3>1. PICK e \in all :
            /\ o.how = "misaligned" /\ Promise!Misaligned(i, e)
            /\ o.vstart = e \div NumFields(i)
            /\ Promised(i, Below(all, e), o.v, o.mem)
      BY <2>2
    <3>2. Promise!NumFields(i) = NumFields(i)
      BY <1>3, TypesAgree
    <3>3. Below(all, e) \in SUBSET all /\ Below(all, e) = {d \in all : d < e}
      BY DEF Below
    <3>4. Promise!Moved(i, {d \in all : d < e})
      BY <1>5, <3>1, <3>3
    <3> QED
      BY <1>1, <1>4, <3>1, <3>2, <3>4 DEF Promise!Traps
  <2> QED
    BY <1>2, <2>1, <2>2
<1> QED
  BY <1>1, <1>2, <1>3, <1>4, <1>6 DEF Promise!Access

LEMMA FaultIsHalfWay ==
  ASSUME PlainProgram, HartInv, HalfWay, Execute, how' = "fault",
         NEW i \in Fetched, Retired(i, execute(i)), i.file = "mem", ~Promise!Unpromised(i)
  PROVE  Proceeds(i)' /\ \E p \in Nat : Midway(i, p)'
<1> DEFINE o == MemoryAccess(i)
<1>1. Encoded(i) /\ Plain(i) /\ i.name # "VLSEGFFTYPE" /\ HartOK
  BY FetchedPlain DEF Plain, HartInv
<1>2. execute(i) = o
  BY DEF execute
<1>3. /\ v' = o.v /\ mem' = o.mem /\ vl' = o.vl /\ vstart' = o.vstart /\ vtype' = o.vtype
      /\ vxsat' = o.vxsat /\ fflags' = o.fflags /\ x' = o.x /\ how' = o.how
      /\ pc' = (IF o.how = "done" THEN pc + 1 ELSE pc) /\ xlen' = xlen
  BY <1>2 DEF Retired
<1>4. ~Unpromised(i) /\ (Proceeds(i) => \E p \in Nat : Midway(i, p))
  BY FetchedReady
<1>5. Proceeds(i)
  <2> SUFFICES ASSUME ~Proceeds(i) PROVE FALSE
    OBVIOUS
  <2>1. Refused(i, o)
    BY <1>1, AccessLoops
  <2>2. o.how # "fault"
    BY <2>1 DEF Refused
  <2> QED
    BY <1>3, <2>2
<1>6. PICK p \in Nat : Midway(i, p)
  BY <1>4, <1>5
<1>7. /\ o.vl = vl /\ o.vtype = vtype /\ o.vxsat = vxsat /\ o.fflags = fflags /\ o.x = x
      /\ o.how = "fault" => \E r \in Nat : FaultedAt(i, o, r)
  BY <1>1, <1>4, <1>5, <1>6, AccessResumes
<1> HIDE DEF o
<1>8. PICK r \in Nat : FaultedAt(i, o, r)
  BY <1>3, <1>7
<1>9. /\ PromiseKept
      /\ Shown(vxsat, before.vxsat)' = Shown(vxsat, before.vxsat)
      /\ Shown(fflags, before.fflags)' = Shown(fflags, before.fflags)
      /\ Shown(x, before.x)' = Shown(x, before.x) /\ Shown(pc, before.pc)' = Shown(pc, before.pc)
  BY <1>3, FaultHides
<1>10. Shown(vxsat, before.vxsat) = vxsat /\ Shown(fflags, before.fflags) = fflags
       /\ Shown(x, before.x) = x /\ Shown(pc, before.pc) = pc
  BY <1>6 DEF Midway
<1>11. /\ vl' = vl /\ vtype' = vtype /\ vxsat' = vxsat /\ fflags' = fflags /\ x' = x /\ pc' = pc
       /\ \A b \in Reads(i) : v'[b] = v[b]
  BY <1>3, <1>7, <1>8 DEF FaultedAt
<1>12. /\ \/ i.name = "VSSEGTYPE"
          \/ /\ Shown(vstart, before.vstart) =< vstart'
             /\ vstart' * NumFields(i) =< r /\ r =< vstart' * NumFields(i) + NumFields(i)
       /\ Promised(i, Below(Promise!AccessedElements(i), r), v', mem') /\ Aligned(i, r)
       /\ i.name \in {"VLRETYPE", "VSRETYPE"} => vstart' < i.nf * (VLEN \div DestWidth(i))
  BY <1>3, <1>8 DEF FaultedAt
<1>13. Midway(i, r)'
  BY <1>6, <1>9, <1>10, <1>11, <1>12, MidwayKept
<1>14. Proceeds(i)'
  BY <1>5, <1>11, <1>12, ProceedsKept
<1> QED
  BY <1>13, <1>14

LEMMA StepAtomic ==
  ASSUME PlainProgram, HartInv, HalfWay, [Next]_vars
  PROVE  HalfWay' /\ (Promise!AtomicStep \/ UNCHANGED Promise!hart)
<1>1. CASE Execute
  <2>1. PICK i \in Fetched : Retired(i, execute(i))
    BY <1>1 DEF Execute, Step
  <2>2. Encoded(i) /\ Plain(i) /\ i.name # "VLSEGFFTYPE" /\ HartOK
    BY FetchedPlain DEF Plain, HartInv
  <2>3. instr' = i /\ xlen' = xlen
    BY <2>1 DEF Retired
  <2>4. CASE how' = "fault"
    <3>1. PromiseKept /\ UNCHANGED Promise!hart
      BY <1>1, <2>3, <2>4, FaultHides
    <3>2. ASSUME i.file = "mem", ~Promise!Unpromised(i)' PROVE Proceeds(i)' /\ \E p \in Nat : Midway(i, p)'
      <4>1. ~Promise!Unpromised(i)
        BY <3>1, <3>2, PromiseFrame
      <4> QED
        BY <1>1, <2>1, <2>4, <3>2, <4>1, FaultIsHalfWay
    <3>3. HalfWay'
      BY <2>3, <3>2 DEF HalfWay
    <3> QED
      BY <3>1, <3>3
  <2>5. CASE how' # "fault"
    <3>1. HalfWay'
      BY <2>5 DEF HalfWay
    <3>2. Shown(instr, before.instr)' = i
      BY <2>3, <2>5, EndShows
    <3>3. CASE i.file # "mem" \/ Promise!Unpromised(i)
      <4>1. Promise!Other(i)
        BY <3>3 DEF Promise!Other
      <4> QED
        BY <3>1, <3>2, <4>1 DEF Promise!AtomicStep
    <3>4. CASE i.file = "mem" /\ ~Promise!Unpromised(i)
      <4>1. Retired(i, MemoryAccess(i))
        BY <2>1, <3>4 DEF execute
      <4>2. /\ ~Unpromised(i)
            /\ \/ Proceeds(i) /\ \E p \in Nat : Midway(i, p)
               \/ how # "fault" /\ ~Proceeds(i)
        BY <3>4, FetchedReady
      <4>3. Promise!Access(i)
        <5>1. CASE Proceeds(i)
          <6>1. PICK p \in Nat : Midway(i, p)
            BY <4>2, <5>1
          <6> QED
            BY <2>2, <2>5, <3>4, <4>1, <4>2, <5>1, <6>1, EndIsPromised
        <5>2. CASE ~Proceeds(i)
          <6>1. Promise!Access(Shown(instr, before.instr)')
            BY <2>2, <3>2, <3>4, <4>1, <4>2, <5>2, RefusalIsPromised
          <6> QED
            BY <3>2, <6>1
        <5> QED
          BY <5>1, <5>2
      <4> QED
        BY <3>1, <3>2, <4>3 DEF Promise!AtomicStep
    <3> QED
      BY <3>3, <3>4
  <2> QED
    BY <2>4, <2>5
<1>2. CASE UNCHANGED <<hart, before>>
  <2>1. /\ v' = v /\ mem' = mem /\ vl' = vl /\ vstart' = vstart /\ vtype' = vtype /\ vxsat' = vxsat
        /\ fflags' = fflags /\ dirty' = dirty /\ double' = double /\ x' = x /\ wants' = wants /\ how' = how /\ pc' = pc
        /\ instr' = instr /\ xlen' = xlen /\ before' = before
    BY <1>2 DEF hart
  <2>2. PromiseKept /\ UNCHANGED Promise!hart
    BY <2>1 DEF PromiseKept, Promise!hart, Shown
  <2>3. /\ Shown(vxsat, before.vxsat)' = Shown(vxsat, before.vxsat)
        /\ Shown(fflags, before.fflags)' = Shown(fflags, before.fflags)
        /\ Shown(x, before.x)' = Shown(x, before.x) /\ Shown(pc, before.pc)' = Shown(pc, before.pc)
    BY <2>1 DEF Shown
  <2>4. ASSUME NEW i, how' = "fault", i = instr', i.file = "mem", ~Promise!Unpromised(i)'
        PROVE  Proceeds(i)' /\ \E p \in Nat : Midway(i, p)'
    <3>1. ~Promise!Unpromised(i)
      BY <2>2, <2>4, PromiseFrame
    <3>2. Proceeds(i) /\ \E p \in Nat : Midway(i, p)
      BY <2>1, <2>4, <3>1 DEF HalfWay
    <3>3. PICK p \in Nat : Midway(i, p)
      BY <3>2
    <3>4. Midway(i, p)'
      <4>1. /\ Promised(i, Below(Promise!AccessedElements(i), p), v', mem') /\ Aligned(i, p)
            /\ \/ i.name = "VSSEGTYPE"
               \/ /\ Shown(vstart, before.vstart) =< vstart'
                  /\ vstart' * NumFields(i) =< p /\ p =< vstart' * NumFields(i) + NumFields(i)
            /\ Shown(vxsat, before.vxsat) = vxsat /\ Shown(fflags, before.fflags) = fflags
            /\ Shown(x, before.x) = x /\ Shown(pc, before.pc) = pc
        BY <2>1, <3>3 DEF Midway
      <4>2. \A b \in Reads(i) : v'[b] = v[b]
        BY <2>1
      <4> QED
        BY <2>1, <2>2, <2>3, <3>3, <4>1, <4>2, MidwayKept
    <3>5. i.name \in {"VLRETYPE", "VSRETYPE"} => vstart' < i.nf * (VLEN \div DestWidth(i))
      BY <2>1, <3>2 DEF Proceeds, Indexes
    <3>6. Proceeds(i)'
      BY <2>1, <3>2, <3>5, ProceedsKept
    <3> QED
      BY <3>4, <3>6
  <2>5. HalfWay'
    BY <2>4 DEF HalfWay
  <2> QED
    BY <2>2, <2>5
<1> QED
  BY <1>1, <1>2 DEF Next, PageIn, Reclaim, vars

\* Whatever pages are mapped and taken away while it runs, and however often it is
\* fetched again, a load or a store that ends has the effect of the one step that
\* module VecAtomic describes, and shows no other: the elements in their place, or
\* those before the one that trapped, which vstart names (AtSegment sets vstart before
\* every element, and the handler returns to the instruction).
THEOREM AccessesAreAtomic == PlainProgram => (PagingSpec => ImplementsAtomic)
<1> SUFFICES ASSUME PlainProgram PROVE PagingSpec => ImplementsAtomic
  OBVIOUS
<1>1. PagingInit => HartInv /\ HalfWay /\ Promise!Init
  <2> SUFFICES ASSUME PagingInit PROVE HartInv /\ HalfWay /\ Promise!Init
    OBVIOUS
  <2>1. how = "done"
    BY DEF PagingInit, Init
  <2>2. Promise!Init
    BY <2>1 DEF PagingInit, Init, Promise!Init, Promise!NoDouble, NoDouble, Shown
  <2> QED
    BY <2>1, <2>2, InitHart DEF HalfWay
<1>2. HartInv /\ HalfWay /\ [Next]_vars => HartInv' /\ HalfWay'
  BY StepHart, StepAtomic
<1>3. HartInv /\ HalfWay /\ [Next]_vars => [Promise!AtomicStep]_(Promise!hart)
  BY StepAtomic
<1> QED
  BY <1>1, <1>2, <1>3, PTL DEF PagingSpec, ImplementsAtomic, Promise!AtomicSpec
=============================================================================

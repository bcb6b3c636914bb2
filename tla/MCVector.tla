------------------------------ MODULE MCVector ------------------------------
(***************************************************************************)
(* Eight registers of 64 bits, ELEN = 32, and four pages of 16 bytes.  The *)
(* scale of the 32-bit build's doubles follows: 32 bits, two to a          *)
(* register.  A program sets vtype and vl, changes them or vstart, and     *)
(* runs one instruction of every kind.                                     *)
(***************************************************************************)
EXTENDS VecPaging

\* One operation on bits stands for all; some saturate, some raise inexact.
MCAlu(op, w, args) ==
  LET sizes == [a \in DOMAIN args |-> Cardinality(DOMAIN args[a])]
  IN  [b \in 0 .. w - 1 |->
         (1 + Cardinality({a \in DOMAIN args : args[a][b % sizes[a]] = 1})) % 2]
MCSaturates(op, w, args) == IF op = "VV_VSADD" THEN args[1][0] ELSE -1
MCRaises(op, w, args) == IF op = "FVV_VADD" /\ args[1][0] = 1 THEN {"inexact"} ELSE {}

\* Register 6 holds indices of eight bits, register 7 of sixteen.
Indices == <<36, 4, 252, 20, 40, 16, 0, 44>>
MCRegisters ==
  [b \in 0 .. NumRegs * VLEN - 1 |->
     CASE b \div VLEN = 6 -> (Indices[(b % VLEN) \div 8 + 1] \div 2^(b % 8)) % 2
       [] b \div VLEN = 7 -> IF b % 16 >= 8 THEN 0
                             ELSE ((16 * ((b % VLEN) \div 16) + 4) \div 2^(b % 16)) % 2
       [] OTHER -> ((b * b + b \div 5) \div 3) % 2]
MCMemory == [b \in 0 .. 8 * Pages * PageBytes - 1 |-> ((b * b + b \div 3) \div 7) % 2]

Type(sew, lmul) == [vill |-> FALSE, vta |-> TRUE, sew |-> sew, lmul |-> lmul]

Instruction ==
  [file |-> "int", name |-> "VVTYPE", op |-> "op", vm |-> TRUE, vd |-> 4, vs1 |-> 2,
   vs2 |-> 6, x |-> 1, rm |-> 0, nf |-> 1, width |-> 3, stride |-> 0, avl |-> 0, rs1 |-> 1,
   rd |-> 1, type |-> Type(3, 0)]

Named(file, names) == {[Instruction EXCEPT !.file = file, !.name = n] : n \in names}
With(i, op) == [i EXCEPT !.op = op]
EitherMask(is) == is \cup {[i EXCEPT !.vm = FALSE] : i \in is}

SetType1 ==
  {[Instruction EXCEPT !.file = "vset", !.name = "VSETVLI", !.type = t[1], !.avl = t[2]] :
     t \in {<<Type(3, 0), 5>>, <<Type(4, 0), 6>>, <<Type(4, 1), 7>>, <<Type(5, 0), 2>>,
            <<Type(5, 1), 3>>, <<Type(4, -1), 2>>, <<Type(5, -1), 1>>}}
  \cup {[Instruction EXCEPT !.file = "vset", !.name = "VSETIVLI", !.type = Type(3, -1),
                            !.avl = 3]}
  \cup {[Instruction EXCEPT !.file = "vset", !.name = "VSETVL", !.type = Type(s, 0),
                            !.rs1 = 0] : s \in {3, 6, 7}}

Change ==
  {[Instruction EXCEPT !.file = "vset", !.name = "CSRRW", !.avl = n] : n \in {0, 1}}
  \cup {[Instruction EXCEPT !.file = "vset", !.name = "VSETVLI", !.type = Type(4, 0),
                            !.rs1 = 0, !.rd = 0]}

Maskable ==
  EitherMask(
    {With(i, "VV_VSADD") : i \in Named("int", {"VVTYPE"})}
    \cup {With(i, op) : i \in Named("int", {"VVTYPE"}),
                        op \in {"VV_VRGATHER", "VV_VRGATHEREI16"}}
    \cup {With(i, op) : i \in Named("int", {"VXSG", "VISG"}),
                        op \in {"SLIDEUP", "SLIDEDOWN", "RGATHER"}}
    \cup {With(i, op) : i \in Named("int", {"MVXTYPE"}),
                        op \in {"MVX_VSLIDE1UP", "MVX_VSLIDE1DOWN", "op"}}
    \cup Named("int", {"NVSTYPE", "NVTYPE", "NXSTYPE", "NXTYPE", "NISTYPE", "NITYPE",
                       "VXTYPE", "VITYPE", "MVVTYPE", "MVVMATYPE", "WVVTYPE", "WVTYPE",
                       "WMVVTYPE", "VEXT2TYPE", "VEXT4TYPE", "VEXT8TYPE", "MVXMATYPE",
                       "WVXTYPE", "WXTYPE", "WMVXTYPE", "RIVVTYPE", "RMVVTYPE"})
    \cup Named("mask", {"VVCMPTYPE", "VXCMPTYPE", "VICMPTYPE", "VCPOP_M", "VFIRST_M",
                        "VMSBF_M", "VMSIF_M", "VMSOF_M", "VIOTA_M", "VID_V"})
    \cup {With(i, "FVV_VADD") : i \in Named("fp", {"FVVTYPE", "VFUNARY1", "FVVMTYPE"})}
    \cup {With(i, op) : i \in Named("fp", {"FVFTYPE"}),
                        op \in {"MVX_VSLIDE1UP", "op"}}
    \cup {With(i, op) : i \in Named("fp", {"RFVVTYPE"}), op \in {"FVV_VFWREDOSUM", "op"}}
    \cup Named("fp", {"FVVMATYPE", "FWVVTYPE", "FWVVMATYPE", "FWVTYPE", "VFUNARY0",
                      "VFWUNARY0", "VFNUNARY0", "FVFMATYPE", "FWVFTYPE", "FWVFMATYPE",
                      "FWFTYPE", "FVFMTYPE"}))

Unmaskable ==
  Named("int", {"MASKTYPEV", "MASKTYPEX", "MASKTYPEI", "MOVETYPEV", "MOVETYPEX", "MOVETYPEI",
                "VMVRTYPE", "VMVXS", "VMVSX", "MVVCOMPRESS"})
  \cup Named("mask", {"VVMTYPE", "VVMCTYPE", "VVMSTYPE", "VXMTYPE", "VXMCTYPE", "VXMSTYPE",
                      "VIMTYPE", "VIMCTYPE", "VIMSTYPE", "MMTYPE"})
  \cup Named("fp", {"VFMVFS", "VFMERGE", "VFMV", "VFMVSF"})
  \cup {[i EXCEPT !.rm = 7] : i \in Named("fp", {"FVVTYPE"})}

\* Accesses that cross pages, of one field and of two.
Access(names) ==
  EitherMask({[i EXCEPT !.width = w, !.x = 4, !.stride = 8, !.vs2 = w + 3] :
                i \in Named("mem", names), w \in {3, 4}}
             \cup {[i EXCEPT !.width = w, !.x = 4, !.stride = 8, !.nf = 2, !.vd = 2] :
                     i \in Named("mem", names), w \in {3}})

Loading == {"VLSEGTYPE", "VLSSEGTYPE"}
Indexing == {"VLUXSEGTYPE", "VLOXSEGTYPE"}
Storing == {"VSSSEGTYPE", "VSUXSEGTYPE", "VSOXSEGTYPE"}

UnitStores == {[i EXCEPT !.width = w, !.x = 0] : i \in Named("mem", {"VSSEGTYPE"}), w \in {3, 5}}

Others ==
  {[i EXCEPT !.nf = n, !.width = 3, !.x = 8] :
     i \in Named("mem", {"VLRETYPE", "VSRETYPE"}), n \in {2, 3}}
  \cup {[With(i, op) EXCEPT !.x = 15] : i \in Named("mem", {"VMTYPE"}), op \in {"VLM", "VSM"}}
  \cup {[i EXCEPT !.width = 4, !.x = 9] : i \in Named("mem", {"VLSEGTYPE"})}
  \cup {[i EXCEPT !.width = 5, !.x = 8, !.stride = 6] : i \in Named("mem", {"VSSSEGTYPE"})}

Data == Maskable \cup Unmaskable \cup Access(Loading \cup Storing) \cup UnitStores \cup Others

\* Doubles that the 32-bit build loads are not here (see the README).
Floating == {i \in Maskable \cup Unmaskable : i.file = "fp"}
MCCode ==
  [n \in {32, 64} |->
     <<SetType1, Change, IF n = 64 THEN Data \cup Access(Indexing)
                          ELSE Floating \cup Others \cup UnitStores>>]

StoreCode == [n \in {64} |-> <<SetType1, Change, UnitStores>>]

\* What the theorems suppose of a program.
ASSUME MCPlain == PlainProgram
=============================================================================

------------------------------- MODULE Vector -------------------------------
(***************************************************************************)
(* A hart that runs a program of vector instructions: the execute function *)
(* of the model, and what a step of it may change.                         *)
(***************************************************************************)
EXTENDS VecMem

CONSTANTS
  Code,          \* xlen -> a sequence of the sets of instructions to choose from
  InitialRegisters, InitialMemory

\* The execute clauses that are modelled, by the file they are in.
Clauses ==
  [vset |-> {"VSETVLI", "VSETVL", "VSETIVLI", "CSRRW"},
   int  |-> {"VVTYPE", "NVSTYPE", "NVTYPE", "MASKTYPEV", "MOVETYPEV", "VXTYPE", "NXSTYPE",
             "NXTYPE", "VXSG", "MASKTYPEX", "MOVETYPEX", "VITYPE", "NISTYPE", "NITYPE",
             "VISG", "MASKTYPEI", "MOVETYPEI", "VMVRTYPE", "MVVTYPE", "MVVMATYPE",
             "WVVTYPE", "WVTYPE", "WMVVTYPE", "VEXT2TYPE", "VEXT4TYPE", "VEXT8TYPE",
             "VMVXS", "MVVCOMPRESS", "MVXTYPE", "MVXMATYPE", "WVXTYPE", "WXTYPE",
             "WMVXTYPE", "VMVSX", "RIVVTYPE", "RMVVTYPE"},
   mask |-> {"VVMTYPE", "VVMCTYPE", "VVMSTYPE", "VVCMPTYPE", "VXMTYPE", "VXMCTYPE",
             "VXMSTYPE", "VXCMPTYPE", "VIMTYPE", "VIMCTYPE", "VIMSTYPE", "VICMPTYPE",
             "MMTYPE", "VCPOP_M", "VFIRST_M", "VMSBF_M", "VMSIF_M", "VMSOF_M", "VIOTA_M",
             "VID_V"},
   fp   |-> {"FVVTYPE", "FVVMATYPE", "FWVVTYPE", "FWVVMATYPE", "FWVTYPE", "VFUNARY0",
             "VFWUNARY0", "VFNUNARY0", "VFUNARY1", "VFMVFS", "FVFTYPE", "FVFMATYPE",
             "FWVFTYPE", "FWVFMATYPE", "FWFTYPE", "VFMERGE", "VFMV", "VFMVSF",
             "FVVMTYPE", "FVFMTYPE", "RFVVTYPE"},
   mem  |-> {"VLSEGTYPE", "VLSEGFFTYPE", "VSSEGTYPE", "VLSSEGTYPE", "VSSSEGTYPE",
             "VLUXSEGTYPE", "VLOXSEGTYPE", "VSUXSEGTYPE", "VSOXSEGTYPE", "VLRETYPE",
             "VSRETYPE", "VMTYPE"}]

\* An instruction: its fields have the values their encodings have, and x, stride
\* and avl stand for the scalar registers it reads.
Encoded(i) ==
  /\ i.file \in DOMAIN Clauses /\ i.name \in Clauses[i.file]
  /\ i.vm \in BOOLEAN /\ i.vd \in 0 .. NumRegs - 1 /\ i.vs1 \in 0 .. NumRegs - 1
  /\ i.vs2 \in 0 .. NumRegs - 1 /\ i.nf \in 1 .. 8 /\ i.width \in 3 .. 6
  /\ i.x \in Int /\ i.stride \in Int /\ i.avl \in Nat
  /\ i.type \in [vill : BOOLEAN, vta : BOOLEAN, sew : 3 .. 10, lmul : -4 .. 3]
  /\ i.name \in {"VXSG", "VISG"} => i.op \in {"SLIDEUP", "SLIDEDOWN", "RGATHER"}
  /\ i.name \in {"MOVETYPEV", "MOVETYPEX", "MOVETYPEI", "VVMCTYPE", "VXMCTYPE", "VIMCTYPE",
                 "MMTYPE", "VFMV"} => i.vm

Positions == 0 .. NumRegs * VLEN - 1

ASSUME ProgramAssumption ==
  /\ \A n \in DOMAIN Code : \A p \in DOMAIN Code[n] : \A i \in Code[n][p] : Encoded(i)
  /\ DOMAIN InitialRegisters = Positions

\* The programs that fault-only-first loads and the staging of the doubles that the
\* 32-bit build loads do not upset: they change more than their body elements.
PlainProgram ==
  \A n \in DOMAIN Code : \A p \in DOMAIN Code[n] : \A i \in Code[n][p] :
    /\ i.name # "VLSEGFFTYPE"
    /\ n = 32 => /\ i.name \in {"VLSEGTYPE", "VLSSEGTYPE", "VLRETYPE"} => i.width # DoublePow
                 /\ i.name \notin {"VLUXSEGTYPE", "VLOXSEGTYPE"}

VARIABLES
  pc,            \* the next place in Code
  instr          \* the instruction fetched last

hart ==
  <<xlen, v, mem, vl, vstart, vtype, vxsat, fflags, dirty, double, x, wants, how, pc, instr>>

(***************************************************************************)
(* function clause execute.                                                *)
(***************************************************************************)
Configuration(i) ==
  CASE i.name = "VSETVLI"  -> VSETVL(i)
    [] i.name = "VSETVL"   -> VSETVL(i)
    [] i.name = "VSETIVLI" -> VSETIVLI(i)
    [] i.name = "CSRRW"    -> WriteVstart(i)

Arithmetic(i) ==
  CASE i.name = "VVTYPE"    -> VVTYPE(i)    [] i.name = "NVSTYPE"   -> NVSTYPE(i)
    [] i.name = "NVTYPE"    -> NVTYPE(i)    [] i.name = "MASKTYPEV" -> MASKTYPEV(i)
    [] i.name = "MOVETYPEV" -> MOVETYPEV(i) [] i.name = "VXTYPE"    -> VXTYPE(i)
    [] i.name = "NXSTYPE"   -> NXSTYPE(i)   [] i.name = "NXTYPE"    -> NXTYPE(i)
    [] i.name = "VXSG"      -> VXSG(i)      [] i.name = "MASKTYPEX" -> MASKTYPEX(i)
    [] i.name = "MOVETYPEX" -> MOVETYPEX(i) [] i.name = "VITYPE"    -> VITYPE(i)
    [] i.name = "NISTYPE"   -> NISTYPE(i)   [] i.name = "NITYPE"    -> NITYPE(i)
    [] i.name = "VISG"      -> VISG(i)      [] i.name = "MASKTYPEI" -> MASKTYPEI(i)
    [] i.name = "MOVETYPEI" -> MOVETYPEI(i) [] i.name = "VMVRTYPE"  -> VMVRTYPE(i)
    [] i.name = "MVVTYPE"   -> MVVTYPE(i)   [] i.name = "MVVMATYPE" -> MVVMATYPE(i)
    [] i.name = "WVVTYPE"   -> WVVTYPE(i)   [] i.name = "WVTYPE"    -> WVTYPE(i)
    [] i.name = "WMVVTYPE"  -> WMVVTYPE(i)  [] i.name = "VEXT2TYPE" -> VEXT2TYPE(i)
    [] i.name = "VEXT4TYPE" -> VEXT4TYPE(i) [] i.name = "VEXT8TYPE" -> VEXT8TYPE(i)
    [] i.name = "VMVXS"     -> VMVXS(i)     [] i.name = "MVVCOMPRESS" -> MVVCOMPRESS(i)
    [] i.name = "MVXTYPE"   -> MVXTYPE(i)   [] i.name = "MVXMATYPE" -> MVXMATYPE(i)
    [] i.name = "WVXTYPE"   -> WVXTYPE(i)   [] i.name = "WXTYPE"    -> WXTYPE(i)
    [] i.name = "WMVXTYPE"  -> WMVXTYPE(i)  [] i.name = "VMVSX"     -> VMVSX(i)
    [] i.name = "RIVVTYPE"  -> RIVVTYPE(i)  [] i.name = "RMVVTYPE"  -> RMVVTYPE(i)

MaskOperation(i) ==
  CASE i.name = "VVMTYPE"   -> VVMTYPE(i)   [] i.name = "VVMCTYPE"  -> VVMCTYPE(i)
    [] i.name = "VVMSTYPE"  -> VVMSTYPE(i)  [] i.name = "VVCMPTYPE" -> VVCMPTYPE(i)
    [] i.name = "VXMTYPE"   -> VXMTYPE(i)   [] i.name = "VXMCTYPE"  -> VXMCTYPE(i)
    [] i.name = "VXMSTYPE"  -> VXMSTYPE(i)  [] i.name = "VXCMPTYPE" -> VXCMPTYPE(i)
    [] i.name = "VIMTYPE"   -> VIMTYPE(i)   [] i.name = "VIMCTYPE"  -> VIMCTYPE(i)
    [] i.name = "VIMSTYPE"  -> VIMSTYPE(i)  [] i.name = "VICMPTYPE" -> VICMPTYPE(i)
    [] i.name = "MMTYPE"    -> MMTYPE(i)    [] i.name = "VCPOP_M"   -> VCPOP_M(i)
    [] i.name = "VFIRST_M"  -> VFIRST_M(i)  [] i.name = "VMSBF_M"   -> VMSBF_M(i)
    [] i.name = "VMSIF_M"   -> VMSIF_M(i)   [] i.name = "VMSOF_M"   -> VMSOF_M(i)
    [] i.name = "VIOTA_M"   -> VIOTA_M(i)   [] i.name = "VID_V"     -> VID_V(i)

\* The 64-bit and the 32-bit build are made from different files.
FloatingPoint(i) ==
  CASE i.name = "FVVTYPE"    -> IF xlen = 32 THEN FVVTYPE_rv32(i) ELSE FVVTYPE(i)
    [] i.name = "FVVMATYPE"  -> IF xlen = 32 THEN FVVMATYPE_rv32(i) ELSE FVVMATYPE(i)
    [] i.name = "FWVVTYPE"   -> IF xlen = 32 THEN FWVVTYPE_rv32(i) ELSE FWVVTYPE(i)
    [] i.name = "FWVVMATYPE" -> IF xlen = 32 THEN FWVVMATYPE_rv32(i) ELSE FWVVMATYPE(i)
    [] i.name = "FWVTYPE"    -> IF xlen = 32 THEN FWVTYPE_rv32(i) ELSE FWVTYPE(i)
    [] i.name = "VFUNARY0"   -> IF xlen = 32 THEN VFUNARY0_rv32(i) ELSE VFUNARY0(i)
    [] i.name = "VFWUNARY0"  -> IF xlen = 32 THEN VFWUNARY0_rv32(i) ELSE VFWUNARY0(i)
    [] i.name = "VFNUNARY0"  -> IF xlen = 32 THEN VFNUNARY0_rv32(i) ELSE VFNUNARY0(i)
    [] i.name = "VFUNARY1"   -> IF xlen = 32 THEN VFUNARY1_rv32(i) ELSE VFUNARY1(i)
    [] i.name = "VFMVFS"     -> IF xlen = 32 THEN VFMVFS_rv32(i) ELSE VFMVFS(i)
    [] i.name = "FVFTYPE"    -> IF xlen = 32 THEN FVFTYPE_rv32(i) ELSE FVFTYPE(i)
    [] i.name = "FVFMATYPE"  -> IF xlen = 32 THEN FVFMATYPE_rv32(i) ELSE FVFMATYPE(i)
    [] i.name = "FWVFTYPE"   -> IF xlen = 32 THEN FWVFTYPE_rv32(i) ELSE FWVFTYPE(i)
    [] i.name = "FWVFMATYPE" -> IF xlen = 32 THEN FWVFMATYPE_rv32(i) ELSE FWVFMATYPE(i)
    [] i.name = "FWFTYPE"    -> IF xlen = 32 THEN FWFTYPE_rv32(i) ELSE FWFTYPE(i)
    [] i.name = "VFMERGE"    -> IF xlen = 32 THEN VFMERGE_rv32(i) ELSE VFMERGE(i)
    [] i.name = "VFMV"       -> IF xlen = 32 THEN VFMV_rv32(i) ELSE VFMV(i)
    [] i.name = "VFMVSF"     -> IF xlen = 32 THEN VFMVSF_rv32(i) ELSE VFMVSF(i)
    [] i.name = "FVVMTYPE"   -> FVVMTYPE(i)
    [] i.name = "FVFMTYPE"   -> FVFMTYPE(i)
    [] i.name = "RFVVTYPE"   -> RFVVTYPE(i)

MemoryAccess(i) ==
  CASE i.name = "VLSEGTYPE"   -> VLSEGTYPE(i)   [] i.name = "VLSEGFFTYPE" -> VLSEGFFTYPE(i)
    [] i.name = "VSSEGTYPE"   -> VSSEGTYPE(i)   [] i.name = "VLSSEGTYPE"  -> VLSSEGTYPE(i)
    [] i.name = "VSSSEGTYPE"  -> VSSSEGTYPE(i)  [] i.name = "VLUXSEGTYPE" -> VLUXSEGTYPE(i)
    [] i.name = "VLOXSEGTYPE" -> VLOXSEGTYPE(i) [] i.name = "VSUXSEGTYPE" -> VSUXSEGTYPE(i)
    [] i.name = "VSOXSEGTYPE" -> VSOXSEGTYPE(i) [] i.name = "VLRETYPE"    -> VLRETYPE(i)
    [] i.name = "VSRETYPE"    -> VSRETYPE(i)    [] i.name = "VMTYPE"      -> VMTYPE(i)

execute(i) ==
  CASE i.file = "vset" -> Configuration(i)
    [] i.file = "int"  -> Arithmetic(i)
    [] i.file = "mask" -> MaskOperation(i)
    [] i.file = "fp"   -> FloatingPoint(i)
    [] i.file = "mem"  -> MemoryAccess(i)

(***************************************************************************)
(* The hart.                                                               *)
(***************************************************************************)
Init ==
  /\ xlen \in DOMAIN Code
  /\ v = InitialRegisters /\ mem = InitialMemory
  /\ vl = 0 /\ vstart = 0 /\ vxsat = 0 /\ fflags = {}
  /\ vtype = [vill |-> TRUE, vta |-> FALSE, sew |-> 3, lmul |-> 0]
  /\ dirty = FALSE /\ double = NoDouble /\ x = <<>> /\ wants = {} /\ how = "done"
  /\ pc = 1 /\ instr = <<>>

\* What the instruction i leaves; one that faulted is fetched again.
Retired(i, o) ==
  /\ instr' = i
  /\ v' = o.v /\ mem' = o.mem /\ vl' = o.vl /\ vstart' = o.vstart /\ vtype' = o.vtype
  /\ vxsat' = o.vxsat /\ fflags' = o.fflags /\ dirty' = o.dirty /\ double' = o.double
  /\ x' = o.x /\ wants' = o.wants /\ how' = o.how
  /\ pc' = IF o.how = "done" THEN pc + 1 ELSE pc
  /\ UNCHANGED xlen

\* The next instruction, or the one that faulted, once its page is there.
Fetched ==
  CASE how = "done" /\ pc \in DOMAIN Code[xlen] -> Code[xlen][pc]
    [] how = "fault" /\ wants \subseteq ToSet(resident) -> {instr}
    [] OTHER -> {}

Step == \E i \in Fetched : Retired(i, execute(i))

Spec == Init /\ [][Step]_hart

(***************************************************************************)
(* What an instruction may change.                                         *)
(***************************************************************************)
WidensResult ==
  {"WVVTYPE", "WVTYPE", "WMVVTYPE", "WVXTYPE", "WXTYPE", "WMVXTYPE", "RIVVTYPE",
   "FWVVTYPE", "FWVVMATYPE", "FWVTYPE", "VFWUNARY0", "FWVFTYPE", "FWVFMATYPE", "FWFTYPE"}
MakesMask ==
  {"VVMTYPE", "VVMCTYPE", "VVCMPTYPE", "VXMTYPE", "VXMCTYPE", "VXCMPTYPE", "VIMTYPE",
   "VIMCTYPE", "VICMPTYPE", "MMTYPE", "VMSBF_M", "VMSIF_M", "VMSOF_M", "FVVMTYPE",
   "FVFMTYPE"}
UsesMaskAsData ==
  {"MASKTYPEV", "MASKTYPEX", "MASKTYPEI", "VVMTYPE", "VVMSTYPE", "VXMTYPE", "VXMSTYPE",
   "VIMTYPE", "VIMSTYPE", "VFMERGE"}
ElementZero == {"VMVSX", "VFMVSF", "RIVVTYPE", "RMVVTYPE", "RFVVTYPE"}
WholeRegister == {"VMVRTYPE", "VLRETYPE", "VSRETYPE"}
Indexes == {"VLUXSEGTYPE", "VLOXSEGTYPE", "VSUXSEGTYPE", "VSOXSEGTYPE"}
OwnWidth == {"VLSEGTYPE", "VLSSEGTYPE", "VLRETYPE", "VSSEGTYPE", "VSSSEGTYPE"}

DestWidth(i) ==
  CASE i.name \in WidensResult \/ (i.name = "RFVVTYPE" /\ i.op \in WideningSums) -> 2 * Width
    [] i.name \in MakesMask -> 1
    [] i.name \in OwnWidth -> 2^i.width
    [] i.name \in {"VMTYPE", "VSRETYPE"} -> 8
    [] OTHER -> Width

\* The elements the vector extension lets i change: of its body, where the
\* mask is set if it is masked.
Changeable(i) ==
  CASE i.name \in ElementZero -> {0}
    [] i.name = "VMVRTYPE" -> vstart .. (i.x + 1) * (VLEN \div Width) - 1
    [] i.name \in {"VLRETYPE", "VSRETYPE"} ->
         vstart .. i.nf * (VLEN \div DestWidth(i)) - 1
    [] i.name = "MVVCOMPRESS" -> 0 .. vl - 1
    [] i.name = "VMTYPE" -> vstart .. (vl + 7) \div 8 - 1
    [] OTHER -> {k \in vstart .. vl - 1 : i.vm \/ i.name \in UsesMaskAsData \/ BitSet(0, k)}

ChangeableBits(i) ==
  LET emul == IF i.name \in OwnWidth THEN EMUL(i) ELSE LMUL
      nf   == IF i.name \in WholeRegister THEN 1 ELSE i.nf
  IN  {((i.vd + j * Group(emul)) * VLEN + k * DestWidth(i) + b) % (NumRegs * VLEN) :
         j \in 0 .. nf - 1, k \in Changeable(i), b \in 0 .. DestWidth(i) - 1}

Address(i, k, j) ==
  i.x + CASE i.name \in {"VLSEGTYPE", "VSSEGTYPE"} -> UnitStride(i, k, j)
          [] i.name \in {"VLSSEGTYPE", "VSSSEGTYPE"} -> Strided(i, k, j)
          [] i.name \in Indexes -> Indexed(i, k, j)
          [] i.name = "VLRETYPE" -> k * Bytes(i.width)
          [] OTHER -> k

ChangeableMemory(i) ==
  LET nf == IF i.name \in WholeRegister THEN 1 ELSE i.nf
  IN  {8 * Address(i, k, j) + b :
         j \in 0 .. nf - 1, k \in Changeable(i), b \in 0 .. DestWidth(i) - 1}

\* The 32-bit build replaces whole registers when it works on doubles.
Replaces(i) == xlen = 32 /\ Doubles /\ i.file = "fp"

(***************************************************************************)
(* A vector instruction changes its body elements and nothing else: no     *)
(* element before vstart, at or above vl or masked off, of no other        *)
(* register, and a store no byte of memory but those of its body elements  *)
(* (init_masked_result, init_masked_source, write_vreg).  It also holds    *)
(* of what an instruction that traps half way leaves.                      *)
(***************************************************************************)
ChangesBody(i) ==
  /\ Replaces(i) \/ {b \in DOMAIN v : v'[b] # v[b]} \subseteq ChangeableBits(i)
  /\ mem' # mem =>
       /\ i.name \in {"VSSEGTYPE", "VSSSEGTYPE", "VSUXSEGTYPE", "VSOXSEGTYPE", "VSRETYPE",
                      "VMTYPE"}
       /\ {b \in DOMAIN mem : mem'[b] # mem[b]} \subseteq ChangeableMemory(i)

OnlyBodyChanges == [][instr'.name # "VSSEGTYPE" => ChangesBody(instr')]_<<v, mem>>

(***************************************************************************)
(* The masks of init_masked_source select what a store writes: a           *)
(* unit-stride store, too, changes only the memory of its body elements.   *)
(***************************************************************************)
OnlyBodyStored == [][instr'.name = "VSSEGTYPE" => ChangesBody(instr')]_<<v, mem>>

(***************************************************************************)
(* vl never exceeds what a register group holds under the present vtype,   *)
(* also when an instruction keeps vl and changes vtype.                    *)
(***************************************************************************)
VlFits == ~vtype.vill => vl <= VLMAX
=============================================================================

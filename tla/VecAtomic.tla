----------------------------- MODULE VecAtomic ------------------------------
(***************************************************************************)
(* What the vector loads and stores promise, whatever pages are mapped     *)
(* while they run: each is one step.  All its elements are in their place, *)
(* or those before the one that trapped, which vstart names.  There are no *)
(* pages here, no loops and no second starts; the other instructions are   *)
(* left open.                                                              *)
(***************************************************************************)
EXTENDS Vector

\* The elements of an access are numbered as its loops pass them: field j of
\* segment k is k * NumFields(i) + j.
NumFields(i) == IF i.name \in WholeRegister \cup {"VMTYPE"} THEN 1 ELSE i.nf

\* The segments it accesses.  The unit-stride store takes all that v0 selects.
Accessed(i) == IF i.name = "VSSEGTYPE" THEN Unmasked(i) ELSE Changeable(i)
AccessedElements(i) ==
  {k * NumFields(i) + j : k \in Accessed(i), j \in 0 .. NumFields(i) - 1}

\* Where the bit c of element e is in the registers, and its address in memory.
DataGroup(i) == Group(IF i.name \in OwnWidth THEN EMUL(i) ELSE LMUL)

ElementBit(i, e, c) ==
  LET k == e \div NumFields(i)
      j == e % NumFields(i)
  IN  ((i.vd + j * DataGroup(i)) * VLEN + k * DestWidth(i) + c) % (NumRegs * VLEN)

ElementAddress(i, e) == Address(i, e \div NumFields(i), e % NumFields(i))

ElementBits(i) == 0 .. DestWidth(i) - 1

Misaligned(i, e) == ElementAddress(i, e) % (DestWidth(i) \div 8) # 0

\* The registers regs_after are those before, with the elements done from memory.
LoadedInto(i, done, regs_after) ==
  LET places == {ElementBit(i, e, c) : e \in done, c \in ElementBits(i)}
  IN  /\ DOMAIN regs_after = DOMAIN v
      /\ \A e \in done : \A c \in ElementBits(i) :
           regs_after[ElementBit(i, e, c)] = mem[8 * ElementAddress(i, e) + c]
      /\ \A b \in DOMAIN v \ places : regs_after[b] = v[b]

\* The memory mem_after is the one before, with the elements done from the
\* registers, the last where several have the same address.
StoredInto(i, done, mem_after) ==
  LET Holds(e, b) == b - 8 * ElementAddress(i, e) \in ElementBits(i)
      places == {8 * ElementAddress(i, e) + c : e \in done, c \in ElementBits(i)}
  IN  /\ DOMAIN mem_after = DOMAIN mem
      /\ \A e \in done : \A c \in ElementBits(i) :
           LET b == 8 * ElementAddress(i, e) + c
           IN  b \in DOMAIN mem /\ (\A later \in done : later > e => ~Holds(later, b))
                 => mem_after[b] = v[ElementBit(i, e, c)]
      /\ \A b \in DOMAIN mem \ places : mem_after[b] = mem[b]

IsLoad(i) ==
  \/ i.name \in {"VLSEGTYPE", "VLSSEGTYPE", "VLUXSEGTYPE", "VLOXSEGTYPE", "VLRETYPE"}
  \/ i.name = "VMTYPE" /\ i.op = "VLM"

Moved(i, done) ==
  IF IsLoad(i) THEN LoadedInto(i, done, v') /\ mem' = mem ELSE StoredInto(i, done, mem') /\ v' = v

\* All elements; get_start_element may report a vstart and go on.
Completes(i) ==
  /\ vstart' = 0 /\ how' \in {"done", "illegal"}
  /\ Moved(i, AccessedElements(i))

\* The elements before the first that is misaligned.
Traps(i) ==
  \E e \in AccessedElements(i) :
    /\ how' = "misaligned" /\ Misaligned(i, e)
    /\ vstart' = e \div NumFields(i)
    /\ Moved(i, {d \in AccessedElements(i) : d < e})

\* The checks refuse it, or vstart is behind the last element.
Refuses(i) ==
  /\ how' \in {"illegal", "abort"} \/ (how' = "done" /\ AccessedElements(i) = {})
  /\ UNCHANGED <<v, mem, vstart>>

\* Of dirty, double and wants nothing is promised: the first start already sets them.
Access(i) ==
  /\ i.file = "mem"
  /\ Completes(i) \/ Traps(i) \/ Refuses(i)
  /\ pc' = IF how' = "done" THEN pc + 1 ELSE pc
  /\ UNCHANGED <<xlen, vl, vtype, vxsat, fflags, x>>

\* A load that fills registers past the last one, or those of its own indices: the
\* specification of the extension reserves it, and the code does not check.
FieldRegisters(i) ==
  CASE i.name \in WholeRegister -> i.nf
    [] i.name = "VMTYPE"        -> 1
    [] OTHER                    -> DataGroup(i)

Fills(i) == NumFields(i) * FieldRegisters(i)

Overlaps(i) ==
  /\ IsLoad(i)
  /\ \/ i.vd + Fills(i) > NumRegs
     \/ i.name \in Indexes /\ i.vs2 + Group(EMUL(i)) > i.vd /\ i.vd + Fills(i) > i.vs2

\* A store of doubles that the 32-bit build has not staged, or not of its own field.
StoresStale(i) ==
  /\ xlen = 32 /\ ~IsLoad(i) /\ DestWidth(i) = 2^DoublePow
  /\ ~(i.name = "VSSEGTYPE" /\ Elements(i) = Slots /\ i.nf = 1)

Unpromised(i) == Overlaps(i) \/ StoresStale(i)

\* Nothing is promised of these, the fault-only-first loads, and what is no access.
Other(i) == i.file # "mem" \/ i.name = "VLSEGFFTYPE" \/ Unpromised(i)

AtomicStep == Access(instr') \/ Other(instr')

AtomicSpec == Init /\ [][AtomicStep]_hart
=============================================================================

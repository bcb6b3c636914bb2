------------------------------- MODULE VecMem -------------------------------
(***************************************************************************)
(* The vector loads and stores of riscv_insts_vext_mem.sail.  An access    *)
(* that is misaligned, or to a page that is not mapped, traps: the         *)
(* instruction leaves what it has done so far, and vstart names the        *)
(* segment to go on with.                                                  *)
(***************************************************************************)
EXTENDS VecFp32

VARIABLE resident   \* the pages that are mapped, the oldest first

(***************************************************************************)
(* One access.  A step s is [n, r, k, at, active]: the segment that vstart *)
(* names, the register, the element of it, and the address.  Those of      *)
(* segments have first, the register of their first field, and stages.     *)
(***************************************************************************)
Stopped(o) == o.how \in {"misaligned", "fault"}

\* Mutants: the segment is passed over, or the instruction starts again.
AtSegment_Next(o, s)  == [o EXCEPT !.vstart = s.n + 1]
AtSegment_First(o, s) == [o EXCEPT !.vstart = vstart]

\* vstart = i, before the segment is accessed.
AtSegment(o, s) == [o EXCEPT !.vstart = s.n]

Try(o, s, bytes, Effect(_)) ==
  LET here == AtSegment(o, s)
      page == s.at \div PageBytes
  IN  CASE Stopped(o) -> o
        [] ~Stopped(o) /\ s.at % bytes # 0 -> [here EXCEPT !.how = "misaligned"]
        [] ~Stopped(o) /\ s.at % bytes = 0 /\ page \notin ToSet(resident) ->
             [here EXCEPT !.how = "fault", !.wants = {page}]
        [] OTHER -> Effect(here)

BitsAt(base, w, value) == [b \in base .. base + w - 1 |-> value[b - base]]

\* The 32-bit build writes what is staged in place of the whole register.
write_single_element(o, r, k, w, value) ==
  LET real_vrid == (r + (k * w) \div VLEN) % NumRegs
      replaces == w = 2^DoublePow /\ o.staged # <<>>
      changed == IF replaces
                 THEN [b \in real_vrid * VLEN .. real_vrid * VLEN + VLEN - 1 |->
                         fill_vector(o.staged)[(b % VLEN) \div w][b % w]]
                 ELSE BitsAt(real_vrid * VLEN + ((k * w) % VLEN), w, value)
  IN  [o EXCEPT !.v = Updated(@, changed), !.dirty = TRUE,
                !.double = IF replaces THEN NoDouble ELSE @]

\* mem_read: the 32-bit build also stages each double it reads (and copies it to
\* double_to_store, which the register write that follows clears).
Fetch(o, s, bytes) ==
  LET value == [b \in 0 .. 8 * bytes - 1 |-> o.mem[8 * s.at + b]]
      read == IF xlen = 32 /\ 8 * bytes = 2^DoublePow
              THEN [o EXCEPT !.staged = Append(@, value)] ELSE o
  IN  write_single_element(read, s.r, s.k, 8 * bytes, value)

\* A load writes the elements it skips back as they were.
LoadStep(o, s, bytes) ==
  CASE s.active -> Try(o, s, bytes, LAMBDA p : Fetch(p, s, bytes))
    [] ~s.active /\ Stopped(o) -> o
    [] OTHER -> write_single_element(o, s.r, s.k, 8 * bytes, Elem(s.r, 8 * bytes, s.k))

\* mem_write_value: the 32-bit build stores double_to_store in place of a double.
\* Only some unit-stride stores stage the element there, always of their first field.
Store(o, s, bytes) ==
  LET w == 8 * bytes
      double_to_store == IF s.stages THEN Elem(s.first, w, s.k) ELSE o.double
      InMemory(value) == Updated(o.mem, BitsAt(8 * s.at, w, value))
  IN  IF xlen = 32 /\ w = 2^DoublePow
      THEN [o EXCEPT !.mem = InMemory(double_to_store), !.double = double_to_store]
      ELSE [o EXCEPT !.mem = InMemory(Elem(s.r, w, s.k))]

StoreStep(o, s, bytes) ==
  IF s.active THEN Try(o, s, bytes, LAMBDA p : Store(p, s, bytes)) ELSE o

\* What the loops have done after n of their steps.
Started == [Now EXCEPT !.how = get_start_element]

LoadsAfter(steps, bytes) ==
  LET after[n \in 0 .. Len(steps)] ==
        IF n = 0 THEN Started ELSE LoadStep(after[n - 1], steps[n], bytes)
  IN  after

StoresAfter(steps, bytes) ==
  LET after[n \in 0 .. Len(steps)] ==
        IF n = 0 THEN Started ELSE StoreStep(after[n - 1], steps[n], bytes)
  IN  after

\* vstart = zeros(), unless an access trapped.
Ended(o) == IF Stopped(o) THEN o ELSE [o EXCEPT !.vstart = 0]

Loads(steps, bytes)  == Ended(LoadsAfter(steps, bytes)[Len(steps)])
Stores(steps, bytes) == Ended(StoresAfter(steps, bytes)[Len(steps)])

(***************************************************************************)
(* Segments: nf fields, in groups of registers, for every element.         *)
(***************************************************************************)
Group(emul) == 2^AtLeast0(emul)

Segments(i, n, emul, mask, Offset(_, _)) ==
  [p \in 1 .. n * i.nf |->
     LET k == (p - 1) \div i.nf
         j == (p - 1) % i.nf
     IN  [n |-> k, r |-> (i.vd + j * Group(emul)) % NumRegs, k |-> k,
          at |-> i.x + Offset(k, j), active |-> k \in mask,
          first |-> i.vd, stages |-> i.name = "VSSEGTYPE" /\ n = Slots]]

\* The checks, and read_vreg_seg; get_num_elem asserts that there is an element.
Segmented(i, emul, eew, illegal, readable, outcome) ==
  IF eew > VlenPow + AtLeast0(emul) THEN Abort
  ELSE Checked(illegal,
               readable /\ CanRead(emul, {(i.vd + j * Group(emul)) % NumRegs :
                                            j \in 0 .. i.nf - 1}),
               outcome)

EMUL(i)  == i.width - SEW + LMUL
Bytes(w) == 2^(w - 3)

UnitStride(i, k, j) == (k * i.nf + j) * Bytes(i.width)
Strided(i, k, j)    == k * i.stride + j * Bytes(i.width)

\* signed(vs2_val[k]), for indices that thirty bits can hold.
Indexed(i, k, j) ==
  LET size  == 2^i.width
      index == Elem(i.vs2, size, k)
      n     == Number(index, size)
      signed == IF index[size - 1] = 1 THEN n - 2^(IF size < 30 THEN size ELSE 30) ELSE n
  IN  j * Bytes(SEW) + signed

\* The elements of unit-stride and strided accesses have the width of the
\* instruction; those of indexed ones have SEW, and the indices that width.
Elements(i) == get_num_elem(EMUL(i), i.width)
Unmasked(i) == read_vmask(Elements(i), i.vm, 0)
Selected(i) == Masked(Elements(i), EMUL(i), Unmasked(i))

LoadSegments(i, mask, Offset(_, _, _)) ==
  Segmented(i, EMUL(i), i.width, illegal_load(i, i.nf, i.width, EMUL(i)), TRUE,
            Loads(Segments(i, Elements(i), EMUL(i), mask, LAMBDA k, j : Offset(i, k, j)),
                  Bytes(i.width)))

StoreSegments(i, mask, Offset(_, _, _)) ==
  Segmented(i, EMUL(i), i.width, illegal_store(i.nf, i.width, EMUL(i)), TRUE,
            Stores(Segments(i, Elements(i), EMUL(i), mask, LAMBDA k, j : Offset(i, k, j)),
                   Bytes(i.width)))

VLSEGTYPE(i)  == LoadSegments(i, Selected(i), UnitStride)
VLSSEGTYPE(i) == LoadSegments(i, Selected(i), Strided)
VSSSEGTYPE(i) == StoreSegments(i, Selected(i), Strided)

\* The mask of a unit-stride store is computed and not used: every element of
\* the group that v0 does not mask off is stored.
VSSEGTYPE(i) == StoreSegments(i, Unmasked(i), UnitStride)

IndexedSegments(i) ==
  Segments(i, NumElem, LMUL, Active(i), LAMBDA k, j : Indexed(i, k, j))

VLUXSEGTYPE(i) ==
  Segmented(i, LMUL, SEW, illegal_indexed_load(i, i.nf, i.width, EMUL(i), LMUL),
            CanRead(EMUL(i), {i.vs2}), Loads(IndexedSegments(i), Bytes(SEW)))
VLOXSEGTYPE(i) == VLUXSEGTYPE(i)

VSUXSEGTYPE(i) ==
  Segmented(i, LMUL, SEW, illegal_indexed_store(i.nf, i.width, EMUL(i), LMUL),
            CanRead(EMUL(i), {i.vs2}), Stores(IndexedSegments(i), Bytes(SEW)))
VSOXSEGTYPE(i) == VSUXSEGTYPE(i)

(***************************************************************************)
(* Fault-only-first: a trap on a later segment than the first trims vl,    *)
(* and the segments after it are left alone (written back as they are when *)
(* the tail is agnostic).  vstart and vl do not select the segments.       *)
(***************************************************************************)
FirstStep(o, s, i) ==
  LET next == LoadStep(o, s, Bytes(i.width))
  IN  CASE o.trimmed /\ o.vl # s.n /\ ~vtype.vta -> o
        [] o.trimmed /\ o.vl # s.n /\ vtype.vta -> LoadStep(o, [s EXCEPT !.active = FALSE],
                                                            Bytes(i.width))
        [] Stopped(next) /\ ~Stopped(o) /\ s.n # 0 ->
             [o EXCEPT !.vl = s.n, !.trimmed = TRUE]
        [] OTHER -> [next EXCEPT !.vstart = vstart]

LoadsFirstAfter(steps, i) ==
  LET start == [f \in DOMAIN Now \cup {"trimmed"} |->
                  IF f = "trimmed" THEN FALSE ELSE Started[f]]
      after[n \in 0 .. Len(steps)] ==
        IF n = 0 THEN start ELSE FirstStep(after[n - 1], steps[n], i)
  IN  after

VLSEGFFTYPE(i) ==
  LET steps == Segments(i, Elements(i), EMUL(i), Unmasked(i),
                        LAMBDA k, j : UnitStride(i, k, j))
      end   == LoadsFirstAfter(steps, i)[Len(steps)]
  IN  Segmented(i, EMUL(i), i.width, illegal_load(i, i.nf, i.width, EMUL(i)), TRUE,
                Ended([f \in DOMAIN Now |-> end[f]]))

(***************************************************************************)
(* Whole registers, whatever vtype says, and masks.                        *)
(***************************************************************************)
WholeRegisters(i, w) ==
  LET elem_per_reg == VLEN \div 2^w
  IN  [p \in 1 .. i.nf * elem_per_reg - vstart |->
         LET n == vstart + p - 1
         IN  [n |-> n, r |-> (i.vd + n \div elem_per_reg) % NumRegs,
              k |-> n % elem_per_reg, at |-> i.x + n * Bytes(w), active |-> TRUE]]

Whole(i, w, outcome) ==
  CASE i.nf \notin {1, 2, 4, 8} -> Illegal
    [] i.nf \in {1, 2, 4, 8} /\ vstart >= i.nf * (VLEN \div 2^w) ->
         [Now EXCEPT !.how = get_start_element]
    [] OTHER -> outcome

VLRETYPE(i) == Whole(i, i.width, Loads(WholeRegisters(i, i.width), Bytes(i.width)))
VSRETYPE(i) == Whole(i, 3, Stores(WholeRegisters(i, 3), 1))

\* The bytes of a mask register that hold a bit of an element below vl.
MaskBytes(i) ==
  LET evl == (vl + 7) \div 8
  IN  [p \in 1 .. get_num_elem(0, 3) - vstart |->
         LET n == vstart + p - 1
         IN  [n |-> n, r |-> i.vd, k |-> n, at |-> i.x + n, active |-> n < evl]]

VMTYPE(i) ==
  IF illegal_vd_unmasked THEN Illegal
  ELSE IF i.op = "VLM" THEN Loads(MaskBytes(i), 1) ELSE Stores(MaskBytes(i), 1)
=============================================================================

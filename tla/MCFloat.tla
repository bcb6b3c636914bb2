------------------------------ MODULE MCFloat ------------------------------
(* The floating-point unit over small formats: every kind of operand meets    *)
(* every kind, in every rounding mode.                                        *)
EXTENDS FloatUnit

MCF16 == Format(4, 2)
MCF32 == Format(6, 6)
MCF64 == Format(7, 18)

Modes == RNE..RMM

\* Words of a format with these exponents and fractions, of both signs.
Words(n, es, fs) ==
  {pack(ByName[n], s, e, fr) : s \in {0, 1}, e \in es, fr \in fs}

\* Zeros and subnormals, numbers around one, far apart, at the top, and beyond.
Operands ==
  [H |-> Words("H", {0, 1, 2, 6, 7, 8, 12, 14, 15}, {0, 1, 3}),
   S |-> Words("S", {0, 1, 31, 38, 62, 63}, {0, 1, 33, 63}),
   D |-> Words("D", {0, 1, 63, 64, 83, 126, 127}, {0, 2^17, 2^18 - 2^14})]
Few ==
  [H |-> Words("H", {0, 1, 7, 9, 14, 15}, {0, 1, 3}),
   S |-> Words("S", {0, 1, 30, 31, 62, 63}, {0, 21, 63}),
   D |-> Words("D", {0, 1, 62, 65, 126, 127}, {0, 2^9, 2^18 - 2^16})]
Addends ==
  [H |-> Words("H", {0, 1, 6, 8, 14, 15}, {0, 1, 3}),
   S |-> Words("S", {0, 1, 24, 31, 37, 62, 63}, {0, 63}),
   D |-> Words("D", {0, 1, 43, 62, 64, 82, 126, 127}, {0, 1, 2^18 - 1})]
Singles ==
  [H |-> 0..(2^7 - 1),
   S |-> Words("S", {0, 1, 25, 28, 30, 31, 32, 36, 37, 42, 43, 44, 56, 57, 62, 63},
               {0, 1, 16, 32, 33, 40, 63}),
   D |-> Words("D", {0, 1, 32, 49, 57, 62, 63, 64, 75, 76, 81, 88, 89, 90, 94, 126,
                     127},
               {0, 1, 2^11, 2^11 + 1, 2^12, 2^17, 2^17 + 2^11, 2^18 - 2^10, 2^18 - 1})]
\* Squares: the reference takes roots of at most 13 binary digits.
Squares == {0, pack(F64, 0, 63, 0), pack(F64, 1, 63, 0), pack(F64, 0, 66, 2^15),
            pack(F64, 0, 61, 0), pack(F64, 0, 0, 1), pack(F64, 0, 0, 2^2 * 9),
            Infinity(F64, 0), Infinity(F64, 1), defaultNaN(F64), pack(F64, 0, 127, 1)}
Integers ==
  {0, 1, 2, 3, 5, 7, 8, 9, 127, 129, 255, 257, 2^12 - 1, 2^12, 2^12 + 1,
               2^13 - 1, 2^13 - 129,
   2^18 + 1, 2^19 + 1, 2^20 + 2, 2^25 - 1, 2^25, 2^25 + 1, 2^26 - 1, 2^26 - 2^7 - 1,
   2^26 - 2^19 - 1}

Op(op, n, rm) == [op |-> op, fmt |-> n, rm |-> rm]
Plain(op, n) == [op |-> op, fmt |-> n]
To(op, n, to, rm) == [op |-> op, fmt |-> n, to |-> to, rm |-> rm]
\* The operands as the loads leave them.
Start(a, b, c, v, code) ==
  LET G == ByName[code[1].fmt]
  IN  /\ f = <<nan_box(G, a), nan_box(G, b), nan_box(G, c)>>
      /\ x = v /\ program = code

\* Products the reference can hold.
Fits(n, a, b) ==
  BitLength(Number(ByName[n], a).n) + BitLength(Number(ByName[n], b).n) <= 27

Binary(n) ==
  \E a \in Operands[n], b \in Few[n], rm \in Modes :
    \/ \E op \in {"fadd", "fsub", "fdiv"} : Start(a, b, 0, 0, <<Op(op, n, rm)>>)
    \/ Fits(n, a, b) /\ Start(a, b, 0, 0, <<Op("fmul", n, rm)>>)
Fused(n) ==
  \E a \in Few[n], b \in Few[n], c \in Addends[n] :
    /\ Fits(n, a, b) /\ a <= b
    /\ \/ \E rm \in {RNE, RDN} : Start(a, b, c, 0, <<Op("fmadd", n, rm)>>)
       \/ /\ a = b
          /\ \E op \in {"fmsub", "fnmsub", "fnmadd"} :
               Start(a, a, c, 0, <<Op(op, n, RUP)>>)
Compared(n) ==
  \E a \in Operands[n], b \in Few[n],
     op \in {"feq", "flt", "fle", "fltq", "fleq", "fmin", "fmax", "fminm", "fmaxm"} :
    Start(a, b, 0, 0, <<Plain(op, n)>>)
Unary(n) ==
  \E a \in Singles[n], rm \in Modes :
    \/ n # "D" /\ Start(a, 0, 0, 0, <<Op("fsqrt", n, rm)>>)
    \/ \E op \in {"fround", "froundnx"} : Start(a, 0, 0, 0, <<Op(op, n, rm)>>)
    \/ \E to \in Ints : Start(a, 0, 0, 0, <<To("fcvtx", n, to, rm)>>)
    \/ \E to \in Formats \ {n} : Start(a, 0, 0, 0, <<To("fcvtff", n, to, rm)>>)
    \/ /\ rm = RNE
       /\ \E op \in {"fclass", "fmvx", "fmvf"} :
            Start(a, 0, 0, 2^W64 - 3, <<Plain(op, n)>>)
FromIntegers(n) ==
  \E v \in Integers, to \in Ints, rm \in Modes :
    Start(0, 0, 0, v, <<To("fcvtf", n, to, rm)>>)
DoubleOnly ==
  \/ \E a \in Squares, rm \in Modes : Start(a, 0, 0, 0, <<Op("fsqrt", "D", rm)>>)
  \/ \E a \in Singles["D"] : Start(a, 0, 0, 0, <<Plain("fcvtmod", "D")>>)
\* Words that are not boxed, and double words that look as if they were.
Unboxed ==
  \E a \in {2^7 + 1, 2^13 + 1, 2^25 + 2^13, 2^12 + 2^6}, n \in Formats :
    f = <<a, a, 0>> /\ x = 0 /\ program = <<Op("fadd", n, RNE)>>

\* One instruction after another, with a write of fcsr between: the mode comes
\* from fcsr, and the flags of the first must not be seen after the second.
Firsts == {Op("fdiv", "H", RNE), Op("fmul", "H", RNE), Op("fadd", "H", RUP),
           Plain("flt", "H"), Plain("fsgnjn", "H"), Plain("fsgnj", "H"),
           Plain("fsgnjx", "H")}
Seconds == {Op(op, n, DYN) : op \in {"fadd", "fsub", "fsqrt", "fdiv"}, n \in {"H", "S"}}
             \cup {Plain("fmin", "H"), Plain("feq", "S")}
Chains ==
  \E a \in Words("H", {0, 7, 15}, {0, 1}), b \in Words("H", {0, 1, 7}, {1}),
     first \in Firsts, mode \in 0..7, second \in Seconds :
    Start(a, b, 0, 0, <<first, [op |-> "fscsr", rm |-> mode], second>>)

MCInit ==
  /\ \/ \E n \in Formats : \/ Binary(n) \/ Fused(n) \/ Compared(n)
                           \/ Unary(n) \/ FromIntegers(n)
     \/ DoubleOnly \/ Unboxed \/ Chains
  /\ Reset
MCSpec == MCInit /\ [][Next]_vars
=============================================================================

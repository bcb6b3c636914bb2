------------------------------ MODULE CacheSim ------------------------------
(***************************************************************************)
(* The cache simulator CREATOR adds to the Sail model (riscv_mem.sail).    *)
(* It holds no data: a line is an address and a valid bit, and its product *)
(* is the sequence of hits and misses shown to the student.  Fetches and   *)
(* loads consult it just before memory is read; stores never touch it.     *)
(*                                                                         *)
(* Addresses are counted in 4-byte words, the smallest block size.         *)
(***************************************************************************)
EXTENDS Integers

CONSTANTS
  Configurations,   \* what the page may choose before the run, and the reads
  Translation,      \* TRUE when virtual and physical addresses may differ
  MaxTurns          \* how many nested calls of write_cache are followed

Cache == {"L1", "L1_I", "L1_D", "L2", "L2_I", "L2_D"}

\* The largest number of lines get_size_field knows a number of bits for.
MaxLines == 2048

\* A configuration: which caches exist; crep() and isDirect(); the lines of
\* each cache, the lines per set the page asks for and the block in words;
\* the word addresses the program reads, and how many words at once.
ASSUME GeometryAssumption ==
  /\ Translation \in BOOLEAN
  /\ \A k \in Configurations :
       /\ k.LevelType \in 0..5 /\ k.Policy \in {"Random", "FIFO"}
       /\ k.Direct \in BOOLEAN
       /\ k.Size \in [Cache -> 1..MaxLines] /\ k.NumLines \in [Cache -> 1..MaxLines]
       /\ k.Unit \in [Cache -> {1, 2, 4}]
       /\ \A c \in Cache :
            k.NumLines[c] =< k.Size[c] /\ k.NumLines["L1"] =< k.Size[c]
       /\ k.Addresses \subseteq Nat /\ k.Widths \subseteq {1, 2}

\* Enough for the FIFO pointer to pass every line of a cache.
ASSUME TurnsAssumption ==
  /\ MaxTurns \in Nat \ {0}
  /\ \A k \in Configurations, c \in Cache : k.Size[c] =< MaxTurns

VARIABLES
  config,   \* the configuration of this run
  lines,    \* per cache: the address each valid line was filled with, or None
  ptr,      \* info.repl_lines, the one FIFO pointer of each cache
  older,    \* (history) per cache, <<i, j>>: valid line i was filled before j
  hung,     \* write_cache has called itself MaxTurns times in vain
  last      \* the read just served and what was printed for it

vars == <<config, lines, ptr, older, hung, last>>

LevelType == config.LevelType
Policy == config.Policy
Direct == config.Direct
Size == config.Size
NumLines == config.NumLines
Unit == config.Unit

None == -1
Nothing == "none"

-----------------------------------------------------------------------------
(* Geometry: init_cache and get_size_field.                                *)

Used == CASE LevelType = 0 -> {"L1"}
          [] LevelType = 1 -> {"L1_I", "L1_D"}
          [] LevelType = 2 -> {"L1", "L2"}
          [] LevelType = 3 -> {"L1_I", "L1_D", "L2"}
          [] LevelType = 4 -> {"L1", "L2_I", "L2_D"}
          [] LevelType = 5 -> {"L1_I", "L1_D", "L2_I", "L2_D"}

Line(c) == 0 .. Size[c] - 1

(* num_lines_set: every cache is given the value meant for L1.             *)
Ways(c) == NumLines["L1"]

NumSet(c) == IF Direct THEN Size[c] ELSE Size[c] \div Ways(c)

(* 2 ^ (index bits): the least power of two that is not below n.           *)
Pow2Above(n) ==
  CHOOSE p \in {1, 2, 4, 8, 16, 32, 64, 128, 256, 512, 1024, 2048} :
    p >= n /\ p < 2 * n

IndexSpan(c) ==
  Pow2Above(IF Direct THEN NumLines[c] ELSE Size[c] \div NumLines[c])

Block(c, a) == a \div Unit[c]
Tag(c, a) == Block(c, a) \div IndexSpan(c)
SetId(c, a) == (Block(c, a) % IndexSpan(c)) % NumSet(c)

(* The lines a block may occupy.                                           *)
SetOf(c, a) ==
  IF IndexSpan(c) = 1 THEN 0 .. Ways(c) - 1
  ELSE IF Direct THEN {SetId(c, a)}
  ELSE LET init == SetId(c, a) * Ways(c) IN init .. init + Ways(c) - 1

(* Hit test of read_cache: equal tags in a valid line of the set.          *)
Hit_AnySet(c, a) ==
  \E i \in Line(c) : lines[c][i] # None /\ Tag(c, lines[c][i]) = Tag(c, a)
Hit_FirstLine(c, a) ==
  LET i == CHOOSE k \in SetOf(c, a) : \A l \in SetOf(c, a) : k =< l
  IN  lines[c][i] # None /\ Tag(c, lines[c][i]) = Tag(c, a)
Hit_NoValidBit(c, a) ==
  \E i \in SetOf(c, a) :
    Tag(c, IF lines[c][i] = None THEN 0 ELSE lines[c][i]) = Tag(c, a)
Hit(c, a) ==
  \E i \in SetOf(c, a) : lines[c][i] # None /\ Tag(c, lines[c][i]) = Tag(c, a)

(* What a hit promises: a line holds the block that was asked for.         *)
Resident(c, a) ==
  \E i \in Line(c) : lines[c][i] # None /\ Block(c, lines[c][i]) = Block(c, a)

-----------------------------------------------------------------------------
(* write_cache and replace_cache.                                          *)

Least(S) == CHOOSE i \in S : \A j \in S : i =< j

(* What the caches hold, before a read and between the calls it makes.     *)
Contents == [c \in Used |-> [lines |-> lines[c], ptr |-> ptr[c], older |-> older[c]]]

HasRoom(k, S) == \E i \in S : k.lines[i] = None

Emptied(k, i) ==
  [lines |-> [j \in DOMAIN k.lines |-> IF j = i THEN None ELSE k.lines[j]],
   ptr   |-> k.ptr,
   older |-> {p \in k.older : i \notin {p[1], p[2]}}]

Filled(k, i, a) ==
  [lines |-> [j \in DOMAIN k.lines |-> IF j = i THEN a ELSE k.lines[j]],
   ptr   |-> k.ptr,
   older |-> k.older \cup ({j \in DOMAIN k.lines : k.lines[j] # None} \X {i})]

(* FIFO: the pointer wraps, empties the line it points to, of whatever     *)
(* set, and moves on.                                                      *)
NextOut_Through(k, n) == [Emptied(k, k.ptr) EXCEPT !.ptr = k.ptr + 1]
NextOut_FromZero(k, n) == [Emptied(k, 0) EXCEPT !.ptr = 1]
NextOut(k, n) ==
  LET at == IF k.ptr >= n THEN 0 ELSE k.ptr IN [Emptied(k, at) EXCEPT !.ptr = at + 1]

(* Random replacement: the branches for L1_I and L1_D do not look at the   *)
(* level, so they also answer for L2_I and L2_D.                           *)
RandomVictim(c) ==
  CASE Policy = "Random" /\ c = "L2_I" -> "L1_I"
    [] Policy = "Random" /\ c = "L2_D" -> "L1_D"
    [] OTHER -> c

(* One call, for the set S of cache c: init_line is its first line, r the  *)
(* random number, 0 where none is drawn.                                   *)
replace_cache(m, c, S, r) ==
  [d \in Used |->
     IF Policy = "FIFO" /\ ~Direct
     THEN IF d = c THEN NextOut(m[d], Size[d]) ELSE m[d]
     ELSE IF d = RandomVictim(c) THEN Emptied(m[d], Least(S) + r) ELSE m[d]]

(* While the set has no free line, write_cache calls replace_cache and     *)
(* itself: the caches after n calls.                                       *)
OneTurn(m, c, S, r) == IF HasRoom(m[c], S) THEN m ELSE replace_cache(m, c, S, r)

Turns(m, c, S, draws) ==
  LET turn[n \in 0 .. MaxTurns] ==
        IF n = 0 THEN m ELSE OneTurn(turn[n - 1], c, S, draws[n])
  IN  turn

write_cache(m, c, a, draws) ==
  LET S    == SetOf(c, a)
      end  == Turns(m, c, S, draws)[MaxTurns]
      here == Least({i \in S : end[c].lines[i] = None})
  IN  IF HasRoom(end[c], S)
      THEN [ended |-> TRUE, caches |-> [end EXCEPT ![c] = Filled(@, here, a)]]
      ELSE [ended |-> FALSE, caches |-> end]

WriteCaches(w) ==
  /\ hung'  = ~w.ended
  /\ lines' = [c \in Used |-> w.caches[c].lines]
  /\ ptr'   = [c \in Used |-> w.caches[c].ptr]
  /\ older' = [c \in Used |-> w.caches[c].older]

-----------------------------------------------------------------------------
(* read_cache.  op is "fetch" or "load"; atPC is the test by which the     *)
(* unified caches tell them apart: the address equals PC or PC + 2.        *)

Request ==
  {q \in [op : {"fetch", "load"}, addr : config.Addresses,
                     width : config.Widths \cup {1}, atPC : BOOLEAN] :
     q.op = "fetch" => q.width = 1 /\ (q.atPC \/ Translation)}

L1Of(q) ==
  IF LevelType \in {0, 2, 4} THEN "L1"
  ELSE IF q.op = "fetch" THEN "L1_I" ELSE "L1_D"

L2Of(q) ==
  CASE LevelType = 2 -> "L2"
    [] LevelType = 3 /\ q.op = "fetch" -> "L2"
    [] LevelType = 4 -> IF q.atPC THEN "L2_I" ELSE "L2_D"
    [] LevelType = 5 -> IF q.op = "fetch" THEN "L2_I" ELSE "L2_D"
    [] OTHER -> Nothing

(* The L1 cache that receives a block found in no level.  A load under     *)
(* level type 3 has no branch at all, and the instruction cache of level   *)
(* type 1 tests the block size of the unified cache.                       *)
FillTarget(q) ==
  CASE LevelType = 1 /\ q.op = "fetch" /\ Unit["L1_I"] # 4 /\ Unit["L1"] = 4 -> Nothing
    [] LevelType = 3 /\ q.op = "load" -> Nothing
    [] LevelType = 3 /\ q.op = "fetch" -> IF q.atPC THEN "L1_I" ELSE "L1_D"
    [] OTHER -> L1Of(q)

(* A read wider than a block looks up its tail first; when the tail was    *)
(* found or brought in, the head is not looked up any more.                *)
TailOf(c, a, w) == IF Unit[c] < w THEN a + Unit[c] ELSE a
TailWidth(c, w) == IF Unit[c] < w THEN w - Unit[c] ELSE w

L1Addr(q) == TailOf(L1Of(q), q.addr, q.width)
L2Addr(q) == TailOf(L2Of(q), L1Addr(q), TailWidth(L1Of(q), q.width))

HitsL1(q) ==
  \/ Hit(L1Of(q), L1Addr(q))
  \/ FillTarget(q) = Nothing /\ Hit(L1Of(q), q.addr)
HitsL2(q) == L2Of(q) # Nothing /\ Hit(L2Of(q), L2Addr(q))

Printed(q, l1, l2) ==
  [op |-> q.op, addr |-> q.addr, width |-> q.width, atPC |-> q.atPC, l1 |-> l1, l2 |-> l2]

ReadHitL1(q) ==
  /\ HitsL1(q)
  /\ last' = Printed(q, "hit", Nothing)
  /\ UNCHANGED <<lines, ptr, older, hung>>

ReadHitL2(q) ==
  /\ ~HitsL1(q) /\ HitsL2(q)
  /\ last' = Printed(q, "miss", "hit")
  /\ UNCHANGED <<lines, ptr, older, hung>>

Random(c) == IF Policy = "Random" /\ ~Direct THEN 0 .. Ways(c) - 1 ELSE {0}
Draws(c) == [1 .. MaxTurns -> Random(c)]

(* No second level: the block goes to the first one, if anywhere.          *)
ReadMissL1(q) ==
  /\ ~HitsL1(q) /\ L2Of(q) = Nothing
  /\ last' = Printed(q, "miss", Nothing)
  /\ LET c == FillTarget(q) IN
       IF c = Nothing THEN UNCHANGED <<lines, ptr, older, hung>>
       ELSE \E r \in Draws(c) : WriteCaches(write_cache(Contents, c, L1Addr(q), r))

(* The first level is written first, then the second.                      *)
ReadMissBoth(q) ==
  /\ ~HitsL1(q) /\ L2Of(q) # Nothing /\ ~HitsL2(q)
  /\ last' = Printed(q, "miss", "miss")
  /\ \E r1 \in Draws(FillTarget(q)), r2 \in Draws(L2Of(q)) :
       LET one == write_cache(Contents, FillTarget(q), L2Addr(q), r1)
       IN  WriteCaches(IF one.ended
                       THEN write_cache(one.caches, L2Of(q), L2Addr(q), r2) ELSE one)

Init ==
  /\ config \in Configurations
  /\ lines = [c \in Used |-> [i \in Line(c) |-> None]]
  /\ ptr = [c \in Used |-> 0]
  /\ older = [c \in Used |-> {}]
  /\ hung = FALSE
  /\ last = Printed([op |-> Nothing, addr |-> 0, width |-> 1, atPC |-> FALSE], Nothing, Nothing)

Read(q) == ReadHitL1(q) \/ ReadHitL2(q) \/ ReadMissL1(q) \/ ReadMissBoth(q)

Next == ~hung /\ UNCHANGED config /\ \E q \in Request : Read(q)

Spec == Init /\ [][Next]_vars

-----------------------------------------------------------------------------
(* Properties                                                              *)

Valid(c) == {i \in Line(c) : lines[c][i] # None}

(* Every variable has its type, and the fill history puts exactly the      *)
(* valid lines in a row.                                                   *)
TypeOK ==
  /\ config \in Configurations
  /\ \A c \in Used :
       /\ lines[c] \in [Line(c) -> config.Addresses \cup {None}
                               \cup {a + 1 : a \in config.Addresses}]
       /\ ptr[c] \in 0 .. Size[c]
       /\ older[c] \subseteq Valid(c) \X Valid(c)
       /\ \A i, j \in Valid(c) : <<i, j>> \in older[c] <=> i # j /\ <<j, i>> \notin older[c]
  /\ hung \in BOOLEAN

(* A block is in at most one line of a cache: it is only written after the *)
(* cache was searched for it and missed, also when the write comes from a  *)
(* miss of the other level.                                                *)
NoBlockTwice ==
  \A c \in Used : \A i, j \in Line(c) :
    i # j /\ lines[c][i] # None /\ lines[c][j] # None
      => Block(c, lines[c][i]) # Block(c, lines[c][j])

Asked(p) == [op |-> p.op, addr |-> p.addr, width |-> p.width, atPC |-> p.atPC]

TrueReport(p) ==
  LET q == Asked(p)
  IN  /\ p.l1 = "hit"  => Resident(L1Of(q), L1Addr(q))
      /\ p.l1 = "miss" => ~Resident(L1Of(q), L1Addr(q))
      /\ p.l2 = "hit"  => Resident(L2Of(q), L2Addr(q))
      /\ p.l2 = "miss" => ~Resident(L2Of(q), L2Addr(q))

(* What read_cache prints is true: it reports a hit exactly when the block *)
(* asked for is in the cache it looked in.  The tag drops the index bits   *)
(* and the set is the index modulo the number of sets, so this needs the   *)
(* two to agree.                                                           *)
ReportsAreTrue == [][TrueReport(last')]_vars

(* A load under level type 3 that misses L1 is looked up nowhere else.      *)
NoBranch(q) == LevelType = 3 /\ q.op = "load"

(* Reading an address brings its block in: repeated at once, the read hits *)
(* in one of the levels it consults, unless read_cache has no branch for   *)
(* it.                                                                     *)
ReadIsCached ==
  last.op # Nothing /\ ~NoBranch(Asked(last)) =>
    LET q == Asked(last)
    IN  \/ hung
        \/ Resident(L1Of(q), q.addr)
        \/ L2Of(q) # Nothing /\ Resident(L2Of(q), q.addr)

(* The line of a cache a step gave to a new block.                         *)
Given(c) == {i \in Line(c) : lines'[c][i] # None /\ lines'[c][i] # lines[c][i]}

(* FIFO replacement: when the set is full, the line that is given away is  *)
(* the one of the set that was filled first, although one pointer serves   *)
(* all the sets and empties their lines as it passes.                      *)
OldestLeaves ==
  \A c \in Used : \A i \in Given(c) :
    lines[c][i] # None =>
      \A k \in SetOf(c, lines'[c][i]) :
        lines[c][k] # None /\ (k # i => <<i, k>> \in older[c])

(* A step that places a block changes no line outside the block's set.     *)
KeepsOtherSets ==
  \A c \in Used : \A i \in Given(c) : \A k \in Line(c) :
    lines'[c][k] # lines[c][k] => k \in SetOf(c, lines'[c][i])

RightLine ==
  /\ Policy = "FIFO" => OldestLeaves
  /\ Policy = "Random" \/ Direct => KeepsOtherSets

(* The right line is given away, also when one miss fills two caches: the  *)
(* oldest of the set under FIFO replacement, and under random replacement  *)
(* and direct mapping no line of another set.  (Of a refill that ends.)    *)
RightVictim == [][hung' \/ RightLine]_vars

(* Random replacement has to make room in a divided second level.          *)
Starves(q) ==
  /\ Policy = "Random" /\ L2Of(q) \in {"L2_I", "L2_D"}
  /\ \A i \in SetOf(L2Of(q), L2Addr(q)) : lines[L2Of(q)][i] # None

(* The calls that write_cache and replace_cache make of each other come to *)
(* an end, for a line of the set is found before long: the pointer passes  *)
(* every line, and a drawn line is of the set.  They fail to just when the *)
(* line must be found in a full set of L2_I or L2_D by random replacement, *)
(* which empties lines of L1_I or L1_D instead, for ever.                  *)
RefillEnds == [][hung' <=> last'.l2 = "miss" /\ Starves(Asked(last'))]_vars
=============================================================================

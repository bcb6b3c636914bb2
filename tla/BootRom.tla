------------------------------- MODULE BootRom -------------------------------
(***************************************************************************)
(* The boot ROM that init_sail_reset_vector puts together for CREATOR      *)
(* programs, run as the hart runs it: it clears the registers, skips the   *)
(* CSRs the configuration lacks by pointing mtvec behind them, enters the  *)
(* program, and serves its traps.  The ROM is a table of words; vector and *)
(* floating point support insert words into it and shift the rest, while   *)
(* the offsets of its jumps and loads stay those of the table.             *)
(*                                                                         *)
(* Addresses are in bytes from the start of the ROM; the program is far    *)
(* above it.  A word is a tuple: what it does and its operands; "nop" is a *)
(* word that only touches what is not modelled.  The program's ELF file    *)
(* has its tohost where the ROM has it.                                    *)
(***************************************************************************)
EXTENDS Integers, Sequences, SequencesExt, Bitwise

CONSTANTS
  Xlens,        \* the widths of the builds: a subset of {32, 64}
  Entries,      \* entry points, as offsets from default_entry
  UserValues,   \* what the program may put in a register, for each register
  Limits        \* --inst-limit: 0 for none

ASSUME BootAssumption ==
  /\ Xlens \subseteq {32, 64}
  /\ Entries \subseteq Nat /\ Limits \subseteq Nat
  /\ UserValues \in [{"gp", "a7", "t5"} -> SUBSET Nat]

VARIABLES
  cfg,                 \* the build and its command line
  pc, priv,
  mpp, mtvec, mepc, mcause,
  regs,                \* the registers the ROM and the program meet in
  tohost,              \* the low half of tohost
  htif_done, htif_exit_code,
  total_insns,
  verdict,             \* what run_sail has printed
  exited,              \* the process is over
  asked                \* history: how the program last left, if it did, and with what

machine == <<cfg, pc, priv, mpp, mtvec, mepc, mcause, regs, tohost,
             htif_done, htif_exit_code>>
vars == <<machine, total_insns, verdict, exited, asked>>

Configs == [xlen : Xlens, fdext : BOOLEAN, vext : BOOLEAN, sudo : BOOLEAN,
            rvc : BOOLEAN, pmp : BOOLEAN,
            entry : Entries, limit : Limits]

Regs == {"gp", "a7", "t0", "t5", "t6", "ra"}
-----------------------------------------------------------------------------
\* The table reset_vec_k before anything is inserted, 121 words.

Syscall ==
  <<<<"j", 140>>,
    <<"li", "t0", 13>>, <<"bgeu", "a7", "t0", 48>>,      \* [1] syscall
    <<"add", "t0", -3>>, <<"beq", "t0", "a7", 20>>,
    <<"csrr", "t0", "mepc">>, <<"add", "t0", 4>>, <<"csrw", "mepc">>, <<"mret">>>>

\* Mutant: the exit code is what the program left in gp.
Exit_OldGp == <<<<"nop">>, <<"nop">>, <<"nop">>, <<"li", "a7", 10>>, <<"j", 68>>>>

Exit == <<<<"nop">>, <<"li", "gp", 1>>, <<"nop">>, <<"li", "a7", 10>>, <<"j", 68>>>>     \* [9]

Fail ==
  <<<<"nop">>, <<"beqz", "gp", 0>>, <<"double", "gp">>, <<"or", "gp", 1>>,     \* [14]
    <<"li", "a7", 10>>, <<"nop">>, <<"j", 38>>>>

Trap_vector ==
  <<<<"csrr", "t5", "mcause">>, <<"li", "t6", 8>>, <<"beq", "t5", "t6", -88>>, \* [21]
    <<"li", "t6", 9>>, <<"beq", "t5", "t6", -96>>,
    <<"li", "t6", 11>>, <<"beq", "t5", "t6", -104>>, <<"j", 4>>,
    <<"or", "gp", 1337>>>>                                                     \* [29]

\* Mutant: the words the configuration inserts are not counted.
Write_tohost_OneOffset(c) ==
  LET base == IF c.xlen = 32 THEN 340 ELSE 336
  IN <<<<"auipc", "t5">>, <<"load", "t5", base>>, <<"sw">>, <<"sw zero">>,
       <<"j", IF c.xlen = 32 THEN -16 ELSE -20>>>>

\* write_tohost; the load's offset is chosen for each configuration.
Write_tohost(c) ==
  LET base == IF c.xlen = 32 THEN 340 ELSE 336
      more == CASE c.fdext /\ c.vext   -> 40
                [] c.fdext /\ ~c.vext  -> IF c.xlen = 32 THEN 12 ELSE 16
                [] ~c.fdext /\ c.vext  -> IF c.xlen = 32 THEN 28 ELSE 32
                [] OTHER               -> 0
  IN <<<<"auipc", "t5">>, <<"load", "t5", base + more>>, <<"sw">>, <<"sw zero">>, \* [30]
       <<"j", IF c.xlen = 32 THEN -16 ELSE -20>>>>

Point_mtvec(off) == <<<<"auipc", "t0">>, <<"add", "t0", off>>, <<"csrw", "mtvec">>>>

\* Mutant: a trap over a missing CSR leads to the second of them.
Set_pmp_ShortSkip ==
  Point_mtvec(32)
  \o <<<<"li", "t0", 1>>, <<"nop">>, <<"nop">>, <<"pmp">>, <<"li", "t0", 31>>, <<"pmp">>, <<"nop">>>>

Set_pmp ==                                                                   \* [78]
  Point_mtvec(36)
  \o <<<<"li", "t0", 1>>, <<"nop">>, <<"nop">>, <<"pmp">>, <<"li", "t0", 31>>, <<"pmp">>, <<"nop">>>>

Reset_vector(c) ==
  [i \in 1 .. 33 |-> <<"clear">>] \o <<<<"nop">>, <<"nop">>>>                  \* [35]
  \o Point_mtvec(16) \o <<<<"nop">>>>
  \o Point_mtvec(16) \o <<<<"nop">>>>
  \o Set_pmp
  \o Point_mtvec(20) \o <<<<"nop">>, <<"nop">>>>
  \o Point_mtvec(IF c.xlen = 32 THEN -288 ELSE -272) \o <<<<"csrw", "mepc">>>> \* [93]

Enter ==
  [i \in 1 .. 10 |-> <<"nop">>] \o <<<<"mpp">>>>                               \* [97]
  \o <<<<"auipc", "t0">>, <<"add", "t0", 32>>, <<"csrw", "mepc">>, <<"mret">>,
       <<"entry">>, <<"entry">>, <<"tohost", 0>>, <<"tohost", 1>>,             \* [112]
       <<"lui">>, <<"addi">>, <<"jalr">>, <<"li", "a7", 10>>, <<"ecall">>>>    \* [116]

Table(c) ==
  Syscall \o Exit \o Fail \o Trap_vector \o Write_tohost(c) \o Reset_vector(c) \o Enter

\* memmove of n words from word i up by the length of words, and the words in
\* their place.  Words are counted from zero, as in the code.
Insert(rom, i, words, n) ==
  [k \in DOMAIN rom |->
     IF k \in i .. i + Len(words) - 1 THEN words[k - i + 1]
     ELSE IF k \in i + Len(words) .. i + Len(words) + n - 1 THEN rom[k - Len(words)]
     ELSE rom[k]]

Nops(n) == [i \in 1 .. n |-> <<"nop">>]

\* Mutant: a smaller block is moved for the vector words.
reset_vec_k_Short(c) ==
  LET t      == Table(c)
      plain  == [k \in 0 .. 139 |-> IF k < Len(t) THEN t[k + 1] ELSE <<"zero">>]
      vector == IF c.vext THEN Insert(plain, 97, Nops(7), 12) ELSE plain
      float  == IF c.fdext THEN Insert(vector, IF c.vext THEN 104 ELSE 97, Nops(3), 24)
                ELSE vector
  IN IF c.xlen = 64 /\ c.fdext # c.vext
     THEN Insert(float, IF c.fdext THEN 115 ELSE 119, <<<<"zero">>>>, 9) ELSE float

\* Vector support adds seven words and floating point three, before the words
\* that choose the mode; RV64 with one of them aligns the data after mret.
reset_vec_k(c) ==
  LET t      == Table(c)
      plain  == [k \in 0 .. 139 |-> IF k < Len(t) THEN t[k + 1] ELSE <<"zero">>]
      vector == IF c.vext THEN Insert(plain, 97, Nops(7), 24) ELSE plain
      float  == IF c.fdext THEN Insert(vector, IF c.vext THEN 104 ELSE 97, Nops(3), 24)
                ELSE vector
  IN IF c.xlen = 64 /\ c.fdext # c.vext
     THEN Insert(float, IF c.fdext THEN 115 ELSE 119, <<<<"zero">>>>, 9) ELSE float

Roms == [c \in Configs |-> reset_vec_k(c)]
Word(a) == IF a \div 4 \in 0 .. 139 THEN Roms[cfg][a \div 4] ELSE <<"zero">>

\* get_entry: the entry point is split between a lui and an addi, which
\* extends the sign of its twelve bits.
High(off) == (off \div 4096) * 4096
Low(off)  == IF off % 4096 < 2048 THEN off % 4096 ELSE (off % 4096) - 4096

Program == 65536                      \* where default_entry is, for the ROM
EntryOf(off) == Program + High(off) + Low(off)
InProgram == pc >= Program - 4096     \* the addi may fall short

-----------------------------------------------------------------------------
\* The hart.

NotAsked == [why |-> "none", seen |-> TRUE, gp |-> 0, a7 |-> 0]

Init ==
  /\ cfg \in Configs
  /\ pc = 0 /\ priv = "M"
  /\ mpp = "U" /\ mtvec = 0 /\ mepc = 0 /\ mcause = 0
  /\ regs = [r \in Regs |-> 0]
  /\ tohost = 0 /\ htif_done = FALSE /\ htif_exit_code = 0
  /\ total_insns = 0 /\ verdict = "none" /\ exited = FALSE
  /\ asked = NotAsked

Goto(a)   == pc' = a /\ UNCHANGED <<priv, mpp, mtvec, mepc, mcause>>
Set(r, v) == regs' = [regs EXCEPT ![r] = v]
NoStore   == UNCHANGED <<tohost, htif_done, htif_exit_code>>
Quiet     == UNCHANGED regs /\ NoStore

Trap(cause) ==
  /\ mepc' = pc /\ mcause' = cause /\ mpp' = priv
  /\ priv' = "M" /\ pc' = mtvec
  /\ Quiet /\ UNCHANGED mtvec

mret ==
  IF priv = "M"
  THEN /\ priv' = mpp /\ mpp' = "U" /\ pc' = mepc
       /\ Quiet /\ UNCHANGED <<mtvec, mepc, mcause>>
  ELSE Trap(2)

\* The region of pmpaddr0 is meant to be all of memory.  On RV32 its size
\* wraps to none, on RV64 it ends below the ROM.
Unprotected == ~cfg.pmp \/ priv = "M" \/ (cfg.xlen = 64 /\ InProgram)

TohostMark == 9
Tohost(w) == w[1] = "tohost" /\ (cfg.xlen = 32 \/ w[2] = 0)

Jump(off) ==
  IF (pc + off) % 4 = 2 /\ ~cfg.rvc THEN Trap(0) ELSE Goto(pc + off) /\ Quiet

Csr(name) == CASE name = "mepc" -> mepc [] name = "mcause" -> mcause

Write_csr(name) ==
  /\ pc' = pc + 4 /\ Quiet
  /\ IF name = "mepc" THEN mepc' = regs["t0"] /\ UNCHANGED mtvec
                      ELSE mtvec' = regs["t0"] /\ UNCHANGED mepc
  /\ UNCHANGED <<priv, mpp, mcause>>

\* The load of tohost's address: of a doubleword, aligned, on RV64.
Load(a) ==
  IF cfg.xlen = 64 /\ a % 8 # 0 THEN Trap(4)
  ELSE Goto(pc + 4) /\ NoStore /\ Set("t5", IF Tohost(Word(a)) THEN TohostMark ELSE 0)

\* Two stores of a word make a command of tohost: with an odd payload, the end.
Store(zero) ==
  /\ Goto(pc + 4) /\ UNCHANGED regs
  /\ IF regs["t5"] # TohostMark THEN NoStore
     ELSE IF ~zero THEN tohost' = regs["gp"] /\ UNCHANGED <<htif_done, htif_exit_code>>
     ELSE IF tohost % 2 = 1
          THEN htif_done' = TRUE /\ htif_exit_code' = tohost \div 2 /\ UNCHANGED tohost
          ELSE NoStore

\* The second half of word 29 is an instruction of its own.
Half == Goto(pc + 2) /\ Quiet

Execute(w) ==
  LET next == Goto(pc + 4)
      R(k) == regs[w[k]]
  IN CASE w[1] \in {"nop", "lui"} -> next /\ Quiet
       [] w[1] = "clear" -> next /\ regs' = [r \in Regs |-> 0] /\ NoStore
       [] w[1] = "j"     -> Jump(w[2])
       [] w[1] = "li"    -> next /\ Set(w[2], w[3]) /\ NoStore
       [] w[1] = "add"   -> next /\ Set(w[2], R(2) + w[3]) /\ NoStore
       [] w[1] = "auipc" -> next /\ Set(w[2], pc) /\ NoStore
       [] w[1] = "or"    -> next /\ Set(w[2], R(2) | w[3]) /\ NoStore
       [] w[1] = "double" -> next /\ Set(w[2], 2 * R(2)) /\ NoStore
       [] w[1] = "beq"   -> Goto(pc + IF R(2) = R(3) THEN w[4] ELSE 4) /\ Quiet
       [] w[1] = "bgeu"  -> Goto(pc + IF R(2) >= R(3) THEN w[4] ELSE 4) /\ Quiet
       [] w[1] = "beqz"  -> Goto(pc + IF R(2) = 0 THEN w[3] ELSE 4) /\ Quiet
       [] w[1] = "csrr"  -> next /\ Set(w[2], Csr(w[3])) /\ NoStore
       [] w[1] = "csrw"  -> Write_csr(w[2])
       [] w[1] = "pmp"   -> IF cfg.pmp THEN next /\ Quiet ELSE Trap(2)
       [] w[1] = "mpp"   -> /\ pc' = pc + 4 /\ mpp' = IF cfg.sudo THEN "M" ELSE "U"
                            /\ Quiet /\ UNCHANGED <<priv, mtvec, mepc, mcause>>
       [] w[1] = "mret"  -> mret
       [] w[1] = "ecall" -> Trap(IF priv = "M" THEN 11 ELSE 8)
       [] w[1] = "load"  -> Load(R(2) + w[3])
       [] w[1] = "sw"    -> Store(FALSE)
       [] w[1] = "sw zero" -> Store(TRUE)
       [] w[1] = "addi"  -> next /\ Set("t0", EntryOf(cfg.entry)) /\ NoStore
       [] w[1] = "jalr"  -> /\ Goto(regs["t0"]) /\ Set("ra", pc + 4) /\ NoStore
       [] OTHER          -> Trap(2)

-----------------------------------------------------------------------------
\* run_sail: a step of the hart, and what the loop does after it.

Running == ~htif_done /\ (cfg.limit = 0 \/ total_insns < cfg.limit)

\* Bound: without a limit the instructions are not counted.
Loop(stepped) ==
  /\ total_insns' = IF cfg.limit > 0 /\ stepped THEN total_insns + 1 ELSE total_insns
  /\ verdict' = IF ~htif_done' THEN verdict
                ELSE IF htif_exit_code' = 0 THEN "SUCCESS" ELSE "FAILURE"
  /\ UNCHANGED <<cfg, exited>>

\* Bound: user code is not followed past the ROM (protection faults there).
RomEnd == 600

RomStep ==
  /\ Running /\ pc <= RomEnd
  /\ IF Unprotected
     THEN (IF pc % 4 = 2 THEN Half ELSE Execute(Word(pc))) /\ Loop(TRUE)
     ELSE Trap(1) /\ Loop(FALSE)
  /\ UNCHANGED asked

\* finish(diverged): run_sail is over, with or without a verdict.
Finish ==
  /\ ~Running /\ ~exited
  /\ exited' = TRUE
  /\ UNCHANGED <<machine, total_insns, verdict, asked>>

-----------------------------------------------------------------------------
\* The program: it computes, calls, faults or returns from main.

\* On RV64 the handler is entered behind its first four words, and takes for a
\* call what the program left in t5 and t6; seen: it takes it for what it is.
Seen(call) == cfg.xlen = 32 \/ (regs["t5"] \in {regs["t6"], 11}) = call

Ask(why) == asked' = [why |-> why, seen |-> Seen(why # "fault"),
                      gp |-> regs["gp"], a7 |-> regs["a7"]]

Service == 0 .. 12 \ {10}

\* The words of the program are its first and the one after it.
ProgramStep ==
  /\ Running /\ InProgram /\ Unprotected
  /\ \/ /\ pc = EntryOf(cfg.entry)
        /\ \/ \E r \in DOMAIN UserValues : \E v \in UserValues[r] :
                Set(r, v) /\ Goto(pc) /\ NoStore /\ UNCHANGED asked
           \/ /\ Trap(IF priv = "M" THEN 11 ELSE 8)
              /\ Ask(IF regs["a7"] = 10 THEN "exit"
                     ELSE IF regs["a7"] \in Service THEN "service" ELSE "bad code")
           \/ Trap(2) /\ Ask("fault")
           \/ Goto(regs["ra"]) /\ Quiet /\ Ask("exit")
     \/ /\ pc = EntryOf(cfg.entry) + 4
        /\ Goto(EntryOf(cfg.entry)) /\ Quiet /\ asked' = NotAsked
  /\ Loop(TRUE)

Next == RomStep \/ ProgramStep \/ Finish

\* The loop of run_sail keeps stepping; what the program does is its own.
Spec == Init /\ [][Next]_vars /\ WF_vars(RomStep) /\ WF_vars(Finish)

-----------------------------------------------------------------------------
TypeOK ==
  /\ cfg \in Configs /\ pc \in Nat /\ {priv, mpp} \subseteq {"U", "M"}
  /\ mtvec \in 0 .. RomEnd /\ mepc \in Nat /\ mcause \in {0, 1, 2, 4, 8, 11}
  /\ regs \in [Regs -> Int] /\ tohost \in Nat
  /\ htif_done \in BOOLEAN /\ htif_exit_code \in Nat
  /\ total_insns \in Nat /\ verdict \in {"none", "SUCCESS", "FAILURE"}
  /\ exited \in BOOLEAN
  /\ asked \in [why : {"none", "service", "exit", "bad code", "fault"},
                     seen : BOOLEAN, gp : Nat, a7 : Nat]

Limited == exited /\ cfg.limit > 0

\* The program runs from its entry point, in the mode the command line asks
\* for, though the way there leads through traps over missing CSRs and words
\* that were moved (get_entry and the words that set mstatus.mpp).  An entry
\* point with bit 11 set is missed by a page: the program is not entered there.
EntersProgram ==
  InProgram => /\ priv = IF cfg.sudo THEN "M" ELSE "U"
               /\ cfg.entry % 4096 < 2048 =>
                    pc \in {Program + cfg.entry, Program + cfg.entry + 4}

\* Every configuration of extensions and CSRs boots: the program is entered,
\* or the instruction limit is reached before.  Only user mode with physical
\* memory protection is not entered.
ProgramIsReached ==
  <>(InProgram \/ Limited \/ (cfg.pmp /\ ~cfg.sudo))

\* A service call comes back at all.
ServiceReturns ==
  (asked.why = "service" /\ asked.seen) ~> (InProgram \/ Limited)

\* A program that calls exit, or returns from main, ends the simulation; so
\* does one that faults (write_tohost).
ExitEnds ==
  (asked.why \in {"exit", "fault"} /\ asked.seen) ~> exited

\* It comes back behind its ecall, with the gp and a7 it was made with
\* (syscall, and its write of mepc).
ReturnsBehind ==
  (~InProgram /\ InProgram' /\ asked.why # "none") =>
    /\ asked.why = "service" \/ ~asked.seen
    /\ pc' = EntryOf(cfg.entry) + 4
    /\ regs'["gp"] = asked.gp /\ regs'["a7"] = asked.a7

\* No trap of the program is lost in the handler, and none comes back wrong.
TrapsAreServed == [][ReturnsBehind]_vars /\ ServiceReturns /\ ExitEnds

\* What is printed is what happened: SUCCESS only for a program that exited,
\* FAILURE only for one that did not, nothing only at the instruction limit.
\* On RV64 a trap of fail itself, over its misaligned jump, may be taken for
\* the call of exit it has set up.
VerdictIsTrue ==
  exited =>
    CASE verdict = "none"    -> cfg.limit > 0
      [] verdict = "FAILURE" -> asked.why # "exit" \/ ~asked.seen
      [] verdict = "SUCCESS" -> asked.why = "exit" \/ ~asked.seen
                                \/ (asked.why = "bad code" /\ cfg.xlen = 64)
=============================================================================

-------------------------------- MODULE Htif --------------------------------
(***************************************************************************)
(* The host-target interface of riscv_platform.sail: a 64-bit port tohost  *)
(* that a program writes to print a character or to end the run.  A        *)
(* program on RV64 writes it at once; on RV32 it writes the low half, the  *)
(* payload, and then the high half, the device and the command, or repeats *)
(* the low half alone.  The port counts the writes to know when a command  *)
(* is complete.                                                            *)
(***************************************************************************)
EXTENDS Integers, Sequences

CONSTANTS
  Payloads,       \* low halves the program writes; an odd one ends the run
  Controls,       \* high halves: [device, cmd] records
  Modes,          \* how commands are written: "wide", "lohi", "repeat"
  CounterBits,    \* width of htif_payload_writes, 4 in the code
  MaxCommands     \* bound on the commands of a run

NoControl == [device |-> 0, cmd |-> 0]

ASSUME HtifAssumption ==
  /\ Payloads \subseteq Nat
  /\ Controls \subseteq [device : 0 .. 255, cmd : 0 .. 255]
  /\ Modes \subseteq {"wide", "lohi", "repeat"}
  /\ 2^CounterBits \in Nat /\ 2^CounterBits >= 4     \* it counts to three
  /\ MaxCommands \in Nat

VARIABLES
  tohost_lo, tohost_hi,     \* the two halves of htif_tohost
  htif_cmd_write, htif_payload_writes, htif_done, htif_exit_code,
  writing,     \* the command the program is writing, and its writes to come
  issued,      \* the commands the program has written
  executed     \* the commands the port has executed

port == <<tohost_lo, tohost_hi, htif_cmd_write, htif_payload_writes>>
htif_vars == <<port, htif_done, htif_exit_code, writing, issued, executed>>

Commands == [payload : Payloads, control : Controls]
Idle == <<>>

\* The type invariant.
HtifTypeOK ==
  /\ tohost_lo \in Payloads \union {0}
  /\ tohost_hi \in Controls \union {NoControl}
  /\ htif_cmd_write \in {0, 1}
  /\ htif_payload_writes \in 0 .. 2^CounterBits - 1
  /\ htif_done \in BOOLEAN
  /\ htif_exit_code \in Nat
  /\ writing \in Seq({"wide", "lo", "hi"})
  /\ Len(issued) <= MaxCommands

\* init_platform
HtifInit ==
  /\ tohost_lo = 0 /\ tohost_hi = NoControl
  /\ htif_cmd_write = 0 /\ htif_payload_writes = 0
  /\ htif_done = FALSE /\ htif_exit_code = 0
  /\ writing = Idle /\ issued = <<>> /\ executed = <<>>
-----------------------------------------------------------------------------
(* The program: it starts a command when the last one is written.          *)
(* Repeating the low half serves only to end the run (riscv-tests).        *)

Exits(c) == c.control.device = 0 /\ c.payload % 2 = 1

WritesOf(mode) == CASE mode = "wide" -> <<"wide">>
                    [] mode = "lohi" -> <<"lo", "hi">>
                    [] mode = "repeat" -> <<"lo", "lo", "lo">>

Issue(c, mode) ==
  /\ ~htif_done /\ writing = Idle /\ Len(issued) < MaxCommands
  /\ mode = "repeat" => Exits(c) /\ c.control = NoControl
  /\ writing' = WritesOf(mode)
  /\ issued' = Append(issued, c)
  /\ UNCHANGED <<port, htif_done, htif_exit_code, executed>>
-----------------------------------------------------------------------------
(* htif_store *)

\* Mutant: one write of the whole port is not enough.
Ready_TwoWrites(cw, n) == (cw = 1 /\ n > 1) \/ n > 2

\* A command is executed when the control bytes and the payload have been
\* written, or the same payload three times.
Ready(cw, n) == (cw = 1 /\ n > 0) \/ n > 2

Count(n) == n % 2^CounterBits

ResetCmdWrite == 0

ExitCode(lo) == lo \div 2

\* The command interpreter, when the port holds lo and hi, the control bit cw
\* and the counter n.  Only the terminal acknowledges by resetting the port.
Interpret(lo, hi, cw, n) ==
  IF ~Ready(cw, n)
  THEN /\ tohost_lo' = lo /\ tohost_hi' = hi
       /\ htif_cmd_write' = cw /\ htif_payload_writes' = n
       /\ UNCHANGED <<htif_done, htif_exit_code, executed>>
  ELSE /\ executed' = Append(executed, [payload |-> lo, control |-> hi])
       /\ IF hi.device = 1
          THEN /\ tohost_lo' = 0 /\ tohost_hi' = NoControl
               /\ htif_cmd_write' = ResetCmdWrite
               /\ htif_payload_writes' = 0
          ELSE /\ tohost_lo' = lo /\ tohost_hi' = hi
               /\ htif_cmd_write' = cw /\ htif_payload_writes' = n
       /\ IF hi.device = 0 /\ lo % 2 = 1
          THEN htif_done' = TRUE /\ htif_exit_code' = ExitCode(lo)
          ELSE UNCHANGED <<htif_done, htif_exit_code>>

Command == issued[Len(issued)]

StoreWide ==
  /\ writing # Idle /\ Head(writing) = "wide"
  /\ Interpret(Command.payload, Command.control, 1,
               Count(htif_payload_writes + 1))

\* The low half: the counter restarts when the payload changes.
StoreLow ==
  /\ writing # Idle /\ Head(writing) = "lo"
  /\ Interpret(Command.payload, tohost_hi, htif_cmd_write,
               IF Command.payload = tohost_lo
               THEN Count(htif_payload_writes + 1) ELSE 1)

\* The high half.  Its low 16 bits belong to the payload and are zero here,
\* so they never differ from the port's.
StoreHigh ==
  /\ writing # Idle /\ Head(writing) = "hi"
  /\ Interpret(tohost_lo, Command.control, 1, Count(htif_payload_writes + 1))

htif_store ==
  /\ ~htif_done
  /\ StoreWide \/ StoreLow \/ StoreHigh
  /\ writing' = Tail(writing)
  /\ UNCHANGED issued

HtifNext == (\E c \in Commands, mode \in Modes : Issue(c, mode)) \/ htif_store

HtifSpec == HtifInit /\ [][HtifNext]_htif_vars
-----------------------------------------------------------------------------
(* Properties *)

\* A command takes effect when its last write arrives, exactly once and in
\* order: nothing is lost, repeated or mixed from two commands.
EachCommandOnce ==
  /\ writing = Idle \/ htif_done => executed = issued
  /\ writing # Idle /\ ~htif_done
       => executed = SubSeq(issued, 1, Len(issued) - 1)

\* Once a command has been processed, the port is reset.
PortIsReset ==
  writing = Idle /\ ~htif_done =>
    /\ tohost_lo = 0 /\ tohost_hi = NoControl
    /\ htif_cmd_write = 0 /\ htif_payload_writes = 0

\* The run ends exactly when the program asks for it, with its exit code.
ExitsAsAsked ==
  htif_done => Exits(Command) /\ Command.payload = 2 * htif_exit_code + 1

\* What htif_store promises a program that writes commands one after another.
CommandsAreServed == EachCommandOnce /\ PortIsReset /\ ExitsAsAsked
=============================================================================

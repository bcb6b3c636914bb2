------------------------------- MODULE MCHtif -------------------------------
(***************************************************************************)
(* TLC instances of Htif.  A terminal command and an exit in every way of  *)
(* writing them; a syscall-proxy command that asks for no exit, written    *)
(* often enough for the four-bit counter to wrap.                          *)
(***************************************************************************)
EXTENDS Htif

Putchar == [device |-> 1, cmd |-> 1]

AckedControls == {NoControl, Putchar}
ExitAndPrint == {1, 3, 5}     \* every device 0 command is an exit
SyscallOnly == {0, 1}         \* a call and an exit
OnlyNoControl == {NoControl}
AllModes == {"wide", "lohi", "repeat"}
WideOnly == {"wide"}
=============================================================================

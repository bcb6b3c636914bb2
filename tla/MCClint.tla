------------------------------- MODULE MCClint -------------------------------
(***************************************************************************)
(* TLC instance of Clint: four-bit time in halves of two bits, a tick      *)
(* every three instructions, timers in both halves and at the last instant.*)
(***************************************************************************)
EXTENDS Clint

Timers == {1, 4, 9, 15}
OneWrite == {9}
=============================================================================

------------------------------- MODULE MCLrSc -------------------------------
(***************************************************************************)
(* TLC instances of LrSc: two threads and two addresses.                   *)
(***************************************************************************)
EXTENDS LrSc

CONSTANTS t1, t2, x, y

MCThreads == {t1, t2}
MCAddrs == {x, y}
=============================================================================

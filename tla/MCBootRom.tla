------------------------------ MODULE MCBootRom ------------------------------
(***************************************************************************)
(* TLC instances of BootRom.                                               *)
(***************************************************************************)
EXTENDS BootRom

\* An exit, a service and an unknown code; t5 like t6, which stays 0, or not.
MCUserValues ==
  [r \in {"gp", "a7", "t5"} |->
     CASE r = "gp" -> {0, 3} [] r = "a7" -> {4, 10, 13} [] r = "t5" -> {0, 8}]

\* An entry point in a later page, and one whose bit 11 is set.
MCEntries == {4596, 6144}
=============================================================================

------------------------------- MODULE MCPmp -------------------------------
(***************************************************************************)
(* TLC instance of Pmp.                                                    *)
(***************************************************************************)
EXTENDS Pmp, Bitwise

\* NapotSize is what pmpAddrRange computes with its mask.
ASSUME NapotAssumption ==
  \A a \in 0 .. 2 ^ XLen - 1 :
    LET mask == a ^^ Word(a + 1)
    IN /\ Word(NapotSize[a]) = Word(mask + 1)
       /\ a - (a % NapotSize[a]) = a - (a & mask)

Byte(l, a, perms) ==
  [L |-> l, A |-> a, X |-> "X" \in perms, W |-> "W" \in perms, R |-> "R" \in perms]

\* Every mode, a locked entry of each of two modes, a reserved permission.
MCBytes ==
  {Byte(FALSE, "OFF", {}), Byte(FALSE, "TOR", {"R", "X"}),
   Byte(TRUE, "TOR", {"R"}), Byte(FALSE, "NAPOT", {"R", "W"}),
   Byte(TRUE, "NAPOT", {"W"}), Byte(FALSE, "NA4", {"X"})}

MCAddrs == {3, 6, 13}
=============================================================================

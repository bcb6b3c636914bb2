----------------------------- MODULE MCCacheSim -----------------------------
(* Small configurations for the cache simulator: caches of two or four     *)
(* lines in sets of two, for which two or three blocks compete.            *)
EXTENDS CacheSim

All(n) == [c \in Cache |-> n]

(* A first level of two lines over a second one of four.                   *)
SmallL1 == [c \in Cache |-> IF c \in {"L1", "L1_I", "L1_D"} THEN 2 ELSE 4]

Small(level, policy) ==
  [LevelType |-> level, Policy |-> policy, Direct |-> FALSE, Size |-> All(2),
   NumLines |-> All(2), Unit |-> All(1), Addresses |-> 0..2, Widths |-> {1}]

(* One unified cache of two sets of two lines.                             *)
TwoSets(policy) ==
  [Small(0, policy) EXCEPT !.Size = All(4), !.Addresses = 0..4]

(* Blocks of two words, and loads of two words that may span them.         *)
WideLoads ==
  [Small(2, "FIFO") EXCEPT !.Size = SmallL1, !.Unit = All(2),
                           !.Addresses = 0..5, !.Widths = {1, 2}]

DirectMapped == [Small(4, "FIFO") EXCEPT !.Direct = TRUE, !.Addresses = 0..3]

(* Every level type, both policies and direct mapping.                     *)
Sound == {TwoSets("FIFO"), TwoSets("Random"), WideLoads, DirectMapped}
         \cup {Small(t, "FIFO") : t \in {1, 3, 4, 5}}
         \cup {Small(t, "Random") : t \in {2, 5}}
=============================================================================

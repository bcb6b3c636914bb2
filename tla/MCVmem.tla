------------------------------- MODULE MCVmem -------------------------------
(***************************************************************************)
(* TLC instance of Vmem: two address spaces with a table of their own each *)
(* and a table they share, superpages, a global page, and a TLB of two.    *)
(***************************************************************************)
EXTENDS Vmem, TLC

MCRootOf == [a \in {1, 2} |-> 9 + a]

MCContexts ==
  {[priv |-> "Supervisor", mxr |-> FALSE, do_sum |-> FALSE],
   [priv |-> "User", mxr |-> TRUE, do_sum |-> FALSE]}

Entry(bits, ppn) == [bits |-> bits, ppn |-> ppn]

Shared == {Entry({"V"}, 12)}                       \* a pointer
Super  == {Entry({"V", "R", "W", "X"}, 4),
           Entry({"V", "R", "W"}, 5)}              \* the second is misaligned
Low    == {Entry({"V", "R", "W", "A", "G"}, 6),
           Entry({"V", "X", "U"}, 7), Entry({"V", "R", "W", "U"}, 7)}
Gone   == {Entry({}, 4)}

MCChoices ==
  [s \in {10, 11, 12} \X {0, 1} |->
     CASE s = <<12, 0>> -> Low
       [] s[2] = 0      -> Shared
       [] s = <<10, 1>> -> Super
       [] OTHER         -> Gone]

\* Only the shared table is ever protected: global pages stay mapped alike.
Guarding(verdicts) == (10 :> {"rw"}) @@ (11 :> {"rw"}) @@ (12 :> verdicts)
MCGuards    == Guarding({"rw", "none"})
MCReadOnly  == Guarding({"rw", "r"})
=============================================================================

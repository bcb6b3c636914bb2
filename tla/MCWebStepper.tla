---------------------------- MODULE MCWebStepper ----------------------------
(***************************************************************************)
(* TLC instances of WebStepper.                                            *)
(***************************************************************************)
EXTENDS WebStepper

CONSTANTS v1, v2

MCValues == {v1, v2}
=============================================================================

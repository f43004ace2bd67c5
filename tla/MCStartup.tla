------------------------------ MODULE MCStartup ------------------------------
(* Instances of Startup for TLC. *)
EXTENDS Startup

CONSTANTS p1, p2

TwoProcs == {p1, p2}
NoPorts  == {}
===============================================================================

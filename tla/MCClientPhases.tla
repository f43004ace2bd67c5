---------------------------- MODULE MCClientPhases ----------------------------
(* Instances of ClientPhases for TLC. *)
EXTENDS ClientPhases

CONSTANTS c1, c2

TwoClients == {c1, c2}
===============================================================================

-------------------------- MODULE MCGameGuardBridge --------------------------
(* Instances of GameGuardBridge for TLC. *)
EXTENDS GameGuardBridge

CONSTANTS loginWire, charWire, q1, q2

MCWires   == {loginWire, charWire}
MCQueries == {q1, q2}
===============================================================================

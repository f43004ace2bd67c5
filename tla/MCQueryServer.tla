---------------------------- MODULE MCQueryServer ----------------------------
(* Instances of QueryServer for TLC. *)
EXTENDS QueryServer

CONSTANTS c1, c2, c3

TwoConns   == {c1, c2}
ThreeConns == {c1, c2, c3}
===============================================================================

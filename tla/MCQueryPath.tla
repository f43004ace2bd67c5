----------------------------- MODULE MCQueryPath -----------------------------
(* Instances of QueryPath for TLC. *)
EXTENDS QueryPath

CONSTANTS c1, c2, login1, char1, char2

MCConns     == {c1, c2}
ThreeSessions == {login1, char1, char2}
MCRoleOf(s) == IF s = login1 THEN "login" ELSE "char"
===============================================================================

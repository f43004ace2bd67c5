--------------------------- MODULE MCOrchestrator ---------------------------
(* Instances of Orchestrator for TLC: four triples over three ports. *)
EXTENDS Orchestrator

SomeTriples == <<{1}, {1, 2}, {2}, {3}>>
===============================================================================

-------------------------- MODULE MCMemoryGovernor --------------------------
(* MemoryGovernor on small instances.                                      *)
EXTENDS MemoryGovernor

CONSTANTS c1, c3

(* c3 is asked first.                                                      *)
Priorities == [c \in Consumers |-> IF c = c3 THEN 0 ELSE 1]
=============================================================================

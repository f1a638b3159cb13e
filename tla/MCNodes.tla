------------------------------- MODULE MCNodes -------------------------------
(* The life of connections with memory for two nodes at a time:            *)
(* an opener that dials p1 and a user who tries p2 once in a while.        *)
EXTENDS Nodes

CONSTANTS o1, p1, p2

MCTargets == [t \in {o1, Rpc} |-> IF t = o1 THEN {p1} ELSE {p2}]
=============================================================================

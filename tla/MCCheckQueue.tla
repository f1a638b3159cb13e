---------------------------- MODULE MCCheckQueue ----------------------------
(* Two script-check threads beside the one in ConnectBlock. *)
EXTENDS CheckQueue, TLC

CONSTANTS w1, w2, m

MCWorker == {w1, w2}
Symmetry == Permutations(MCWorker)

=============================================================================

---------------------------- MODULE MCChainState ----------------------------
(***************************************************************************)
(* A small block tree for TLC:                                             *)
(*                                                                         *)
(*     g --- a1 --- a2           b3                                        *)
(*      \                       /                                          *)
(*       b1 ------- b2 --------x3 --- x4     x3 breaks a rule              *)
(*                                                                         *)
(* (b3 and x3 are children of b2).  Depending on the order of arrival a2   *)
(* or b2 is best first and the other is left aside.  b3 then makes the     *)
(* node disconnect a2 and a1 and connect b1, b2 and b3; x3 makes it do the *)
(* same and fail at the last block; x4 has a failed parent.  h is a child  *)
(* of a1 that AcceptBlock refuses.                                         *)
(***************************************************************************)
EXTENDS ChainState

CONSTANTS g, a1, a2, b1, b2, b3, x3, x4, h

MCBlock == {g, a1, a2, b1, b2, b3, x3, x4, h}

\* Without b3 and h, for the liveness properties.
MCSmallBlock == MCBlock \ {b3, h}

MCPrev == [b \in Block |-> CASE b = g -> NULL
                             [] b \in {a1, b1} -> g
                             [] b \in {a2, h} -> a1
                             [] b = b2 -> b1
                             [] b \in {b3, x3} -> b2
                             [] b = x4 -> x3]
MCWork == [b \in Block |-> CASE b = g -> 1
                             [] b \in {a1, b1} -> 2
                             [] b \in {a2, b2, h} -> 3
                             [] b \in {b3, x3} -> 4
                             [] b = x4 -> 5]
MCHash == [b \in Block |-> CASE b = g -> 0
                             [] b = a1 -> 4 [] b = b1 -> 3
                             [] b = b2 -> 2 [] b = a2 -> 5
                             [] b = b3 -> 8
                             [] b = x3 -> 6 [] b = x4 -> 7
                             [] b = h -> 1]

=============================================================================

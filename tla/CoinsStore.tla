------------------------------ MODULE CoinsStore ------------------------------
(***************************************************************************)
(* What the stack of coin views promises its users: three complete sets of *)
(* coins, each with the block it belongs to.  A private one is changed at  *)
(* will and then taken over by the one in memory or forgotten; the one in  *)
(* memory is written to disk as a whole; a crash goes back to the disk.    *)
(***************************************************************************)
CONSTANTS TxId, CoinsOrNone, Block, NULL

VARIABLES disk, mem, private,            \* coins of each transaction
          diskBest, memBest, privateBest \* the block they belong to

vars == <<disk, mem, private, diskBest, memBest, privateBest>>

AllCoins == [TxId -> CoinsOrNone]
MaybeBlock == Block \cup {NULL}

Init ==
    /\ disk \in AllCoins /\ diskBest \in MaybeBlock
    /\ mem = disk /\ memBest = diskBest
    /\ private = disk /\ privateBest = diskBest

\* Any change of the private set, which nobody else sees.
Modify ==
    /\ private' \in AllCoins /\ privateBest' \in MaybeBlock
    /\ UNCHANGED <<disk, mem, diskBest, memBest>>

\* All changes become visible at once.
Push ==
    /\ mem' = private /\ memBest' = privateBest
    /\ UNCHANGED <<disk, private, diskBest, privateBest>>

\* All changes are forgotten.
Drop ==
    /\ private' = mem /\ privateBest' = memBest
    /\ UNCHANGED <<disk, mem, diskBest, memBest>>

\* The coins in memory are written to disk, with their block.
Write ==
    /\ disk' = mem /\ diskBest' = memBest
    /\ UNCHANGED <<mem, private, memBest, privateBest>>

Crash ==
    /\ mem' = disk /\ memBest' = diskBest
    /\ private' = disk /\ privateBest' = diskBest
    /\ UNCHANGED <<disk, diskBest>>

Next == Modify \/ Push \/ Drop \/ Write \/ Crash

Spec == Init /\ [][Next]_vars

=============================================================================

------------------------------ MODULE MCAddrMan ------------------------------
(* A small address manager: four addresses, two sources with a new bucket  *)
(* each that holds one entry, and a tried bucket that holds two, so that   *)
(* every bucket overflows and an entry evicted from the tried bucket finds *)
(* its own new bucket free or full.  The addresses are interchangeable.    *)
EXTENDS AddrMan, TLC

CONSTANT s1

MCNetAddr == [s \in Services |-> s]
MCNewBucketOf == [k \in Services \X Sources |-> IF k[2] = s1 THEN 1 ELSE 2]
MCTriedBucketOf == [s \in Services |-> 1]

Symmetry == Permutations(Services)
=============================================================================

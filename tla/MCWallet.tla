------------------------------ MODULE MCWallet ------------------------------
(* A miner and a send, which the wallet treats alike, and a pool of three. *)
EXTENDS Wallet, TLC

Symmetry == Permutations(Callers)
=============================================================================

---------------------------- MODULE MCCoinsCache ----------------------------
(* Two transactions, two states of unspent coins and a spent one. *)
EXTENDS CoinsCache, TLC

CONSTANTS t1, t2, c1, c2, p, b1, b2

MCTxId == {t1, t2}
MCCCoins == {c1, c2, p}
MCPruned == {p}
MCBlock == {b1, b2}

=============================================================================

------------------------------ MODULE MCMemPool ------------------------------
(***************************************************************************)
(* Blocks, heights in parentheses, and the transactions in them:           *)
(*                                                                         *)
(*    g(0) - a1(1) - a2(2): t1 - a3(3): t5                                 *)
(*                 \ b2(2): t3 - b3(3) - b4(4)                             *)
(*                 \ e2(2)     - e3(3) - e4(4): t1                         *)
(*                                     \ f4(4)                             *)
(*                                                                         *)
(* t1 and t3 spend the same output of a1's coinbase, t2 and t5 the same    *)
(* output of t1, t5 the coinbase of a2 with it, t4 outputs of t1 and t2.   *)
(* A reorganisation from a3 to f4 brings t1 back into the pool and t5 not; *)
(* as orphans without t1, and without the coinbase of a2, t2 and t5        *)
(* compete for what releases both.                                         *)
(***************************************************************************)
EXTENDS Miner, TLC

In(h, k) == [hash |-> h, n |-> k]
Record(h, vin, vout) == [hash |-> h, vin |-> vin, vout |-> vout]

MCTx == [t1 |-> Record("t1", <<In("ca1", 1)>>, <<1, 1, 1>>),
         t2 |-> Record("t2", <<In("t1", 1), In("t1", 2)>>, <<2>>),
         t3 |-> Record("t3", <<In("ca1", 1)>>, <<3>>),
         t4 |-> Record("t4", <<In("t2", 1), In("t1", 3)>>, <<3>>),
         t5 |-> Record("t5", <<In("ca2", 1), In("t1", 2)>>, <<4>>)]
MCTxId == {"cg", "ca1", "ca2", "ca3", "cb2", "cb3", "cb4", "ce2", "ce3", "ce4", "cf4",
           "t1", "t2", "t3", "t4", "t5"}

MCPrev == [g |-> NULL, a1 |-> "g", a2 |-> "a1", a3 |-> "a2", b2 |-> "a1", b3 |-> "b2",
           b4 |-> "b3", e2 |-> "a1", e3 |-> "e2", e4 |-> "e3",
           f4 |-> "e3"]
MCHeight == [g |-> 0, a1 |-> 1, a2 |-> 2, a3 |-> 3, b2 |-> 2, b3 |-> 3, b4 |-> 4,
             e2 |-> 2, e3 |-> 3, e4 |-> 4, f4 |-> 4]
MCBlock == {"g", "a1", "a2", "a3", "b2", "b3", "b4", "e2", "e3", "e4", "f4"}

Coinbase(h) == Record(h, <<>>, <<4>>)
MCVtx == [g |-> <<Coinbase("cg")>>,
          a1 |-> <<Record("ca1", <<>>, <<3, 2>>)>>,
          a2 |-> <<Coinbase("ca2"), MCTx["t1"]>>,
          a3 |-> <<Coinbase("ca3"), MCTx["t5"]>>,
          b2 |-> <<Coinbase("cb2"), MCTx["t3"]>>,
          b3 |-> <<Coinbase("cb3")>>,
          b4 |-> <<Coinbase("cb4")>>,
          e2 |-> <<Coinbase("ce2")>>,
          e3 |-> <<Coinbase("ce3")>>,
          e4 |-> <<Coinbase("ce4"), MCTx["t1"]>>,
          f4 |-> <<Coinbase("cf4")>>]
MCSubsidy == [h \in 0 .. 5 |-> 5]

\* The wallet has made t1 and t2, and keeps t1 with t2 as a supporting
\* transaction.
MCVtxPrev == [t1 |-> {}, t2 |-> {"t1"}]

=============================================================================

------------------------------- MODULE MCCoins -------------------------------
(***************************************************************************)
(* A tree of blocks, heights in parentheses:                               *)
(*                                                                         *)
(*    g(0) - a1(1) - a2(2) - x3(3) - x4(4)                                 *)
(*         \       \ b2(2) - b3(3) - b4(4)                                 *)
(*          \       \     \ y3(3)                                          *)
(*           \       \ z2(2), w2(2)                                        *)
(*            \ d1(1) - d2(2) - d3(3)                                      *)
(*                    \ e2(2) - e3(3)                                      *)
(*                                                                         *)
(* b3 spends within the block; b2 has a transaction of a2 too; b4 repeats  *)
(* the coinbase of a1, which is spent by then, and d2 that of d1, which is *)
(* not.  x3 spends an output again, y3 claims too much, z2 spends its own  *)
(* coinbase, w2 has a bad script.                                          *)
(***************************************************************************)
EXTENDS Coins, TLC

In(h, k) == [hash |-> h, n |-> k]
Tx(h, vin, vout) == [hash |-> h, vin |-> vin, vout |-> vout]

MCBlock == {"g", "a1", "a2", "x3", "x4", "b2", "b3", "b4", "y3", "z2", "w2",
            "d1", "d2", "d3", "e2", "e3"}

MCPrev == [g |-> NULL, a1 |-> "g", a2 |-> "a1", x3 |-> "a2",
           x4 |-> "x3", b2 |-> "a1", b3 |-> "b2", b4 |-> "b3", y3 |-> "b2",
           z2 |-> "a1", w2 |-> "a1", d1 |-> "g", d2 |-> "d1", d3 |-> "d2",
           e2 |-> "d1", e3 |-> "e2"]

MCHeight == [g |-> 0, a1 |-> 1, a2 |-> 2, x3 |-> 3, x4 |-> 4, b2 |-> 2,
             b3 |-> 3, b4 |-> 4, y3 |-> 3, z2 |-> 2, w2 |-> 2, d1 |-> 1, d2 |-> 2,
             d3 |-> 3, e2 |-> 2, e3 |-> 3]

t1 == Tx("t1", <<In("ca1", 1)>>, <<1, 2>>)
t3 == Tx("t3", <<In("t4", 1)>>, <<1>>)
t4 == Tx("t4", <<In("ca1", 2), In("t1", 2)>>, <<2, 2>>)
t5 == Tx("t5", <<In("ca1", 1)>>, <<3>>)
t6 == Tx("t6", <<In("cz", 1)>>, <<4>>)
t7 == Tx("t7", <<In("ca1", 2)>>, <<2>>)
t8 == Tx("t8", <<In("ca1", 2)>>, <<1>>)
u1 == Tx("u1", <<In("cd", 1)>>, <<2>>)

MCVtx == [g  |-> <<Tx("cg", <<>>, <<5>>)>>,
          a1 |-> <<Tx("ca1", <<>>, <<3, 2>>)>>,
          a2 |-> <<Tx("ca2", <<>>, <<4>>), t1>>,
          x3 |-> <<Tx("cx", <<>>, <<4>>), t5>>,
          b2 |-> <<Tx("cb2", <<>>, <<4>>), t1>>,
          b3 |-> <<Tx("cb3", <<>>, <<5>>), t4, t3>>,
          b4 |-> <<Tx("ca1", <<>>, <<3, 2>>)>>,
          y3 |-> <<Tx("cy", <<>>, <<6>>), t8>>,
          z2 |-> <<Tx("cz", <<>>, <<4>>), t6>>,
          w2 |-> <<Tx("cw", <<>>, <<4>>), t7>>,
          x4 |-> <<Tx("cx4", <<>>, <<4>>)>>,
          d1 |-> <<Tx("cd", <<>>, <<2, 2>>)>>,
          d2 |-> <<Tx("cd", <<>>, <<2, 2>>)>>,
          d3 |-> <<Tx("cd3", <<>>, <<4>>), u1>>,
          e2 |-> <<Tx("ce2", <<>>, <<4>>)>>,
          e3 |-> <<Tx("ce3", <<>>, <<4>>)>>]

MCTxId == {"ca1", "ca2", "cx", "cx4", "cb2", "cb3", "cy", "cz", "cw", "cd",
           "cd3", "ce2", "ce3", "t1", "t3", "t4", "t5", "t6", "t7", "t8", "u1"}
MCSubsidy == [h \in 0 .. 4 |-> IF h = 1 THEN 5 ELSE 4]

=============================================================================

------------------------------ MODULE CoinsProofs ------------------------------
(***************************************************************************)
(* Proofs about module Coins: what ConnectBlock and DisconnectBlock do to  *)
(* the three layers of coins, for every tree of blocks.                    *)
(*                                                                         *)
(*   CoinsCorrect        the coins of every layer are those of its chain   *)
(*   VerdictCorrect      the verdict on a block follows from its chain     *)
(*   VerifyDBCorrect     VerifyDB finds nothing wrong at start-up          *)
(*   NoInflationCorrect  no layer holds more than the rewards of its chain *)
(***************************************************************************)
EXTENDS Coins, CoinRulesProofs

-----------------------------------------------------------------------------
(***************************************************************************)
(* DisconnectBlock                                                         *)
(***************************************************************************)

\* Disconnecting is defined for every number of transactions.
LEMMA DisconnectingDef ==
  ASSUME NEW C, NEW b, Len(Vtx[b]) \in Nat
  PROVE  Disconnecting(C, b) =
           [i \in 0 .. Len(Vtx[b]) |->
              IF i = 0 THEN [coins |-> C, clean |-> TRUE]
              ELSE DisconnectTx(Disconnecting(C, b)[i - 1], b, Len(Vtx[b]) + 1 - (i))]
<1> DEFINE Base == [coins |-> C, clean |-> TRUE]
           Step(p, i) == DisconnectTx(p, b, Len(Vtx[b]) + 1 - (i))
           Fits(g, n) == g = [i \in 0 .. n |-> IF i = 0 THEN Base ELSE Step(g[i - 1], i)]
           S == {n \in Nat : \E g : Fits(g, n)}
<1> HIDE DEF Base, Step
<1>1. 0 \in S
  <2>1. Fits([i \in 0 .. 0 |-> Base], 0)
    OBVIOUS
  <2> QED
    BY <2>1
<1>2. ASSUME NEW n \in Nat, n \in S PROVE n + 1 \in S
  <2>1. PICK g : Fits(g, n)
    BY <1>2
  <2> DEFINE ext == [i \in 0 .. n + 1 |-> IF i = n + 1 THEN Step(g[n], n + 1) ELSE g[i]]
  <2>2. \A i \in 0 .. n : ext[i] = g[i]
    OBVIOUS
  <2>3. ASSUME NEW i \in 0 .. n + 1
        PROVE  ext[i] = IF i = 0 THEN Base ELSE Step(ext[i - 1], i)
    <3>1. CASE i = 0
      BY <3>1, <2>1
    <3>2. CASE i # 0 /\ i # n + 1
      <4>1. i \in 0 .. n /\ i - 1 \in 0 .. n
        BY <3>2
      <4>2. ext[i] = Step(g[i - 1], i)
        BY <4>1, <3>2, <2>1, <2>2
      <4> QED
        BY <4>1, <4>2, <3>2, <2>2
    <3>3. CASE i = n + 1
      <4>1. n \in 0 .. n /\ i - 1 = n /\ i # 0
        BY <3>3
      <4>2. ext[i] = Step(g[n], i)
        BY <3>3
      <4> QED
        BY <4>1, <4>2, <2>2
    <3> QED
      BY <3>1, <3>2, <3>3
  <2>a. ext = [i \in 0 .. n + 1 |-> ext[i]]
    OBVIOUS
  <2> HIDE DEF ext
  <2>4. Fits(ext, n + 1)
    BY <2>3, <2>a
  <2> QED
    BY <2>4
<1> HIDE DEF S
<1>3. \A n \in Nat : n \in S
  BY <1>1, <1>2, Induct
<1>4. Len(Vtx[b]) \in S
  BY <1>3
<1>5. PICK g : Fits(g, Len(Vtx[b]))
  BY <1>4 DEF S
<1>6. Disconnecting(C, b) = CHOOSE z : Fits(z, Len(Vtx[b]))
  BY DEF Disconnecting, Base, Step
<1>7. Fits(Disconnecting(C, b), Len(Vtx[b]))
  BY <1>5, <1>6, Zenon
<1> QED
  BY <1>7, Zenon DEF Base, Step

\* The first state of DisconnectBlock and the next ones.
LEMMA DisconnectingStep ==
  ASSUME NEW C, NEW b, Len(Vtx[b]) \in Nat
  PROVE  /\ Disconnecting(C, b)[0] = [coins |-> C, clean |-> TRUE]
         /\ \A k \in 1 .. Len(Vtx[b]) :
              Disconnecting(C, b)[k] = DisconnectTx(Disconnecting(C, b)[k - 1], b, Len(Vtx[b]) + 1 - k)
<1> DEFINE f == Disconnecting(C, b)
<1>1. f = [k \in 0 .. Len(Vtx[b]) |->
             IF k = 0 THEN [coins |-> C, clean |-> TRUE]
             ELSE DisconnectTx(f[k - 1], b, Len(Vtx[b]) + 1 - k)]
  BY DisconnectingDef
<1> HIDE DEF f
<1>2. f[0] = [coins |-> C, clean |-> TRUE]
  BY <1>1
<1>3. ASSUME NEW k \in 1 .. Len(Vtx[b])
      PROVE  f[k] = DisconnectTx(f[k - 1], b, Len(Vtx[b]) + 1 - k)
  <2>1. k \in 0 .. Len(Vtx[b]) /\ k # 0
    OBVIOUS
  <2> QED
    BY <2>1, <1>1
<1> QED
  BY <1>2, <1>3 DEF f

\* The undo data u has an entry for every input of the block.
UndoFits(u, vtx) ==
  \A i \in 2 .. Len(vtx) : \A j \in 1 .. Len(vtx[i].vin) : u[i - 1][j] \in Undo

\* What undoing a transaction does, whatever the undo data.
LEMMA DisconnectTxFacts ==
  ASSUME NEW b \in Block \ {Genesis}, UndoFits(undo[b], Vtx[b]), NEW i \in 1 .. Len(Vtx[b]),
         NEW s, s.coins \in CoinMap, s.clean \in BOOLEAN
  PROVE  LET tx == Vtx[b][i]
             r == DisconnectTx(s, b, i)
         IN  /\ r.coins \in CoinMap /\ r.clean \in BOOLEAN
             /\ \A t \in TxId, n \in Place : LET v == Val(r.coins[t].vout, n) IN
                  v # Spent => \/ t # tx.hash /\ v = Val(s.coins[t].vout, n)
                               \/ i # 1 /\ PutBack(tx.vin, undo[b][i - 1], t, n, v)
<1> DEFINE tx == Vtx[b][i]
           r == DisconnectTx(s, b, i)
           q == [coins |-> [s.coins EXCEPT ![tx.hash] = NoCoins],
                 clean |-> (s.clean /\ s.coins[tx.hash] = CoinsOf(tx, Height[b]))]
<1>1. CheckBlock(Vtx[b]) /\ Height[b] \in Nat
  BY BlockFacts
<1>2. tx \in Transactions
  BY <1>1, VtxFacts
<1>3. tx.hash \in TxId /\ tx.vin \in Seq(OutPoints)
  BY <1>2, TxFacts, <1>1
<1>4. q.coins \in CoinMap /\ q.clean \in BOOLEAN
  BY <1>3, NoCoinsFacts DEF CoinMap
<1>5. \A t \in TxId, n \in Place : Val(q.coins[t].vout, n) # Spent =>
         t # tx.hash /\ Val(q.coins[t].vout, n) = Val(s.coins[t].vout, n)
  <2>1. ASSUME NEW t \in TxId, NEW n \in Place, Val(q.coins[t].vout, n) # Spent
        PROVE  t # tx.hash /\ Val(q.coins[t].vout, n) = Val(s.coins[t].vout, n)
    <3>1. CASE t = tx.hash
      <4>1. q.coins[t] = NoCoins
        BY <3>1, <1>3 DEF CoinMap
      <4>2. q.coins[t].vout = <<>>
        BY <4>1, NoCoinsFacts
      <4> QED
        BY <4>2, <2>1 DEF Val
    <3>2. CASE t # tx.hash
      <4>1. q.coins[t] = s.coins[t]
        BY <3>2, <1>3 DEF CoinMap
      <4> QED
        BY <4>1, <3>2, <2>1
    <3> QED
      BY <3>1, <3>2
  <2> QED
    BY <2>1
<1>6. r = IF i = 1 THEN q ELSE Restoring(q, tx.vin, undo[b][i - 1])[Len(tx.vin)]
  BY DEF DisconnectTx, RestoreInputs
<1> HIDE DEF q, r, tx
<1>7. CASE i = 1
  BY <1>4, <1>5, <1>6, <1>7 DEF r, tx
<1>8. CASE i # 1
  <2>1. i \in 2 .. Len(Vtx[b])
    BY <1>8
  <2>2. \A j \in 1 .. Len(tx.vin) : undo[b][i - 1][j] \in Undo
    BY <2>1 DEF UndoFits, tx
  <2>3. Len(tx.vin) \in 0 .. Len(tx.vin)
    BY <1>3
  <2>4. r = Restoring(q, tx.vin, undo[b][i - 1])[Len(tx.vin)]
    BY <1>6, <1>8
  <2>5. /\ r.coins \in CoinMap /\ r.clean \in BOOLEAN
        /\ \A t \in TxId, n \in Place : LET v == Val(r.coins[t].vout, n) IN
             v # Spent => v = Val(q.coins[t].vout, n) \/ PutBack(tx.vin, undo[b][i - 1], t, n, v)
    BY <2>2, <2>3, <2>4, <1>3, <1>4, RestoringCoins
  <2> QED
    BY <1>8, <2>5, <1>5 DEF r, tx
<1> QED
  BY <1>7, <1>8

\* DisconnectBlock gives well-formed coins.
LEMMA DisconnectingCoins ==
  ASSUME NEW b \in Block \ {Genesis}, UndoFits(undo[b], Vtx[b]), NEW C \in CoinMap
  PROVE  \A k \in 0 .. Len(Vtx[b]) : /\ Disconnecting(C, b)[k].coins \in CoinMap
                                     /\ Disconnecting(C, b)[k].clean \in BOOLEAN
<1> DEFINE m == Len(Vtx[b])
           f == Disconnecting(C, b)
           S == {k \in 0 .. m : f[k].coins \in CoinMap /\ f[k].clean \in BOOLEAN}
<1>a. m \in Nat
  BY BlockFacts, VtxFacts
<1>b. f[0] = [coins |-> C, clean |-> TRUE]
  BY <1>a, DisconnectingStep
<1>c. \A k \in 1 .. m : f[k] = DisconnectTx(f[k - 1], b, m + 1 - k)
  BY <1>a, DisconnectingStep, Zenon
<1> HIDE DEF f, m
<1>1. 0 \in S
  <2>1. f[0].coins = C /\ f[0].clean = TRUE
    BY <1>b
  <2>2. f[0].coins \in CoinMap /\ f[0].clean \in BOOLEAN
    BY <2>1
  <2>3. 0 \in 0 .. m
    BY <1>a
  <2> QED
    BY <2>2, <2>3
<1>2. ASSUME NEW k \in Nat, k + 1 <= m, k \in S PROVE k + 1 \in S
  <2> DEFINE i == m + 1 - (k + 1)
  <2>0. k + 1 \in 1 .. m /\ k + 1 - 1 = k /\ k + 1 \in 0 .. m /\ i \in 1 .. m
    BY <1>2, <1>a
  <2>1. f[k + 1] = DisconnectTx(f[k], b, i)
    BY <2>0, <1>c
  <2>2. f[k].coins \in CoinMap /\ f[k].clean \in BOOLEAN
    BY <1>2
  <2> HIDE DEF i
  <2>3. f[k + 1].coins \in CoinMap /\ f[k + 1].clean \in BOOLEAN
    BY <2>0, <2>1, <2>2, DisconnectTxFacts DEF m
  <2> QED
    BY <2>0, <2>3
<1> HIDE DEF S
<1>3. \A k \in 0 .. m : k \in S
  BY <1>a, <1>1, <1>2, InductTo
<1> QED
  BY <1>3 DEF S, f, m

\* The states of DisconnectBlock are records of coins and a verdict.
LEMMA DisconnectingShape ==
  ASSUME NEW C, NEW b \in Block \ {Genesis}
  PROVE  \A k \in 0 .. Len(Vtx[b]) :
           Disconnecting(C, b)[k] =
             [coins |-> Disconnecting(C, b)[k].coins, clean |-> Disconnecting(C, b)[k].clean]
<1> DEFINE Rec(s) == s = [coins |-> s.coins, clean |-> s.clean]
           f == Disconnecting(C, b)
           m == Len(Vtx[b])
<1>1. m \in Nat /\ \A i \in 1 .. m : Vtx[b][i] \in Transactions
  BY BlockFacts, VtxFacts
<1>2. f[0] = [coins |-> C, clean |-> TRUE]
  BY <1>1, DisconnectingStep
<1>3. \A k \in 1 .. m : f[k] = DisconnectTx(f[k - 1], b, m + 1 - k)
  BY <1>1, DisconnectingStep, Zenon
<1>4. ASSUME NEW s, NEW i \in 1 .. m PROVE Rec(DisconnectTx(s, b, i))
  <2> DEFINE tx == Vtx[b][i]
             q == [coins |-> [s.coins EXCEPT ![tx.hash] = NoCoins],
                   clean |-> (s.clean /\ s.coins[tx.hash] = CoinsOf(tx, Height[b]))]
             r == Restoring(q, tx.vin, undo[b][i - 1])
  <2>1. DisconnectTx(s, b, i) = IF i = 1 THEN q ELSE r[Len(tx.vin)]
    BY DEF DisconnectTx, RestoreInputs
  <2>2. tx.vin \in Seq(OutPoints)
    BY <1>1 DEF Transactions
  <2>3. Len(tx.vin) \in Nat
    BY <2>2
  <2>4. Rec(q)
    OBVIOUS
  <2>5. /\ r[0] = q
        /\ \A k \in 1 .. Len(tx.vin) :
             r[k] = RestoreInput(r[k - 1], tx.vin[Len(tx.vin) + 1 - k], undo[b][i - 1][Len(tx.vin) + 1 - k])
    BY <2>2, RestoringStep, SMTT(30)
  <2>6. \A z, in, u : Rec(RestoreInput(z, in, u))
    BY DEF RestoreInput
  <2> HIDE DEF q, r, Rec
  <2>7. Rec(r[Len(tx.vin)])
    <3>1. CASE Len(tx.vin) = 0
      BY <3>1, <2>4, <2>5
    <3>2. CASE Len(tx.vin) # 0
      <4>1. Len(tx.vin) \in 1 .. Len(tx.vin)
        BY <3>2, <2>3
      <4> QED
        BY <4>1, <2>5, <2>6
    <3> QED
      BY <3>1, <3>2
  <2> QED
    BY <2>1, <2>4, <2>7
<1> HIDE DEF f, m
<1>5. ASSUME NEW k \in 0 .. m PROVE Rec(f[k])
  <2>1. CASE k = 0
    BY <2>1, <1>2
  <2>2. CASE k # 0
    <3>1. k \in 1 .. m /\ m + 1 - k \in 1 .. m
      BY <2>2, <1>1
    <3> HIDE DEF Rec
    <3> QED
      BY <3>1, <1>3, <1>4
  <2> QED
    BY <2>1, <2>2
<1> QED
  BY <1>5 DEF f, m

\* The coins of the transactions of b are pruned before b.
Fresh(b) == \A i \in 1 .. Len(Vtx[b]) : UnspentIn[Prev[b]][Vtx[b][i].hash].vout = <<>>

\* The undo data of b is what ConnectBlock makes of the coins of its parent.
Recorded(b) == /\ Connected(UnspentIn[Prev[b]], b).ok
               /\ undo[b] = Connected(UnspentIn[Prev[b]], b).undo

\* The undo data of a block has an entry for every input.
LEMMA ConnectedUndo ==
  ASSUME NEW b \in Block \ {Genesis}, NEW C \in CoinMap, Connected(C, b).ok
  PROVE  Connected(C, b).undo \in Seq(Seq(Undo)) /\ UndoFits(Connected(C, b).undo, Vtx[b])
<1> DEFINE vtx == Vtx[b]
           h == Height[b]
           m == Len(vtx)
           f == Connecting(C, vtx, h)
<1>1. CheckBlock(vtx) /\ h \in Nat
  BY BlockFacts
<1>2. m \in Nat \ {0} /\ \A i \in 1 .. m : vtx[i] \in Transactions
  BY <1>1, VtxFacts
<1>3. f[m].ok /\ Connected(C, b).undo = f[m].undo
  BY ConnectedFacts
<1> HIDE DEF vtx, h
<1>4. \A k \in 0 .. m : f[k].ok
  BY <1>1, <1>3, ConnectingOk
<1>u. ASSUME NEW k \in 1 .. m, f[k].ok, NEW j \in 2 .. k
      PROVE  f[k].undo[j - 1] = UpdateCoins(f[j - 1].coins, vtx[j], h).undo
  BY <1>1, <1>u, ConnectingUndo
<1>5. ASSUME NEW i \in 2 .. m, NEW j \in 1 .. Len(vtx[i].vin) PROVE f[m].undo[i - 1][j] \in Undo
  <2> DEFINE c == f[i - 1].coins
             tx == vtx[i]
             u == Spending(c, tx.vin)[Len(tx.vin)].undo
  <2>1. i \in 0 .. m /\ i # 0 /\ i - 1 \in 0 .. m /\ i \in 1 .. m /\ m \in 1 .. m
    BY <1>2
  <2>2. tx \in Transactions
    BY <2>1, <1>2
  <2>3. Ready(c, tx.vin)
    BY <2>1, <1>1, <1>4, ConnectingCoins
  <2>4. c \in CoinMap
    BY <2>1, <1>1, ConnectingCoins
  <2>5. f[m].undo[i - 1] = UpdateCoins(c, tx, h).undo
    BY <2>1, <1>3, <1>u
  <2> HIDE DEF c, tx, f, m
  <2>6. UpdateCoins(c, tx, h).undo = u
    BY <2>2, <2>4, <1>1, UpdateCoinsFacts
  <2>7. tx.vin \in Seq(OutPoints)
    BY <2>2, <1>1, TxFacts
  <2>8. Len(tx.vin) \in Nat
    BY <2>7
  <2>9. Len(tx.vin) \in 0 .. Len(tx.vin)
    BY <2>8
  <2>10. u \in Seq(Undo) /\ Len(u) = Len(tx.vin)
    BY <2>3, <2>4, <2>7, <2>9, SpendingUndo
  <2>11. j \in 1 .. Len(u)
    BY <2>10 DEF tx
  <2> HIDE DEF u
  <2>12. u[j] \in Undo
    BY <2>10, <2>11
  <2> QED
    BY <2>5, <2>6, <2>12
<1>6. f[m].undo \in Seq(Seq(Undo))
  <2>1. m \in 1 .. m
    BY <1>2
  <2> QED
    BY <2>1, <1>1, <1>3, ConnectingUndo
<1> QED
  BY <1>3, <1>5, <1>6 DEF UndoFits, vtx

\* Undoing the i-th transaction of a block is the inverse of connecting it.
LEMMA DisconnectTxUndoes ==
  ASSUME NEW b \in Block \ {Genesis}, Fresh(b), Recorded(b), NEW i \in 1 .. Len(Vtx[b]),
         NEW D \in CoinMap,
         Same(D, Connecting(UnspentIn[Prev[b]], Vtx[b], Height[b])[i].coins)
  PROVE  LET r == DisconnectTx([coins |-> D, clean |-> TRUE], b, i)
         IN  /\ r.coins \in CoinMap /\ r.clean = TRUE
             /\ Same(r.coins, Connecting(UnspentIn[Prev[b]], Vtx[b], Height[b])[i - 1].coins)
<1> DEFINE U == UnspentIn[Prev[b]]
           vtx == Vtx[b]
           h == Height[b]
           m == Len(vtx)
           f == Connecting(U, vtx, h)
           tx == vtx[i]
           c == f[i - 1].coins
           s == Spending(c, tx.vin)[Len(tx.vin)].coins
           q == [coins |-> [D EXCEPT ![tx.hash] = NoCoins],
                 clean |-> (TRUE /\ D[tx.hash] = CoinsOf(tx, h))]
           r == DisconnectTx([coins |-> D, clean |-> TRUE], b, i)
<1>1. CheckBlock(vtx) /\ h \in Nat /\ h # 0 /\ Prev[b] \in Node
  BY BlockFacts DEF Node
<1>2. /\ m \in Nat /\ \A j \in 1 .. m : vtx[j] \in Transactions
  BY <1>1, VtxFacts
<1>3. tx \in Transactions /\ i \in 0 .. m /\ i - 1 \in 0 .. m /\ i # 0 /\ i \in (i - 1) + 1 .. m /\ i \in 1 .. m
  BY <1>2
<1>4. U \in CoinMap
  BY <1>1, UnspentInFacts
<1>5. /\ tx.hash \in TxId /\ tx.vin \in Seq(OutPoints) /\ tx.vout # <<>>
      /\ CoinsOf(tx, h) \in Coin /\ CoinsOf(tx, h).vout = tx.vout
  BY <1>1, <1>3, TxFacts
<1>6. f[m].ok /\ undo[b] = f[m].undo
  BY <1>4, ConnectedFacts DEF Recorded
<1>8. \A k \in 0 .. m : f[k].ok
  BY <1>1, <1>4, <1>6, ConnectingOk
<1>9. /\ f[i].coins = UpdateCoins(c, tx, h).coins /\ Ready(c, tx.vin) /\ c \in CoinMap
      /\ f[i].coins \in CoinMap
  BY <1>1, <1>3, <1>4, <1>8, ConnectingCoins
<1>10. /\ f[i].coins = [s EXCEPT ![tx.hash] = CoinsOf(tx, h)]
       /\ UpdateCoins(c, tx, h).undo = Spending(c, tx.vin)[Len(tx.vin)].undo
  <2>1. c \in CoinMap /\ tx \in Transactions /\ h \in Nat
    BY <1>1, <1>3, <1>9
  <2> HIDE DEF c, tx, h
  <2>2. /\ UpdateCoins(c, tx, h).coins = [s EXCEPT ![tx.hash] = CoinsOf(tx, h)]
        /\ UpdateCoins(c, tx, h).undo = Spending(c, tx.vin)[Len(tx.vin)].undo
    BY <2>1, UpdateCoinsFacts
  <2>3. f[i].coins = UpdateCoins(c, tx, h).coins
    BY <1>9 DEF c, tx, h
  <2> HIDE DEF s, f
  <2> QED
    BY <2>2, <2>3
<1>11. Len(tx.vin) \in 0 .. Len(tx.vin) /\ Len(tx.vin) \in Nat
  BY <1>5
<1>12. /\ s \in CoinMap
       /\ \A t \in TxId, n \in Place : Val(s[t].vout, n) =
            IF Hit(tx.vin, Len(tx.vin), t, n) THEN Spent ELSE Val(c[t].vout, n)
  BY <1>5, <1>9, <1>11, SpendingCoins
<1>13. c[tx.hash].vout = <<>>
  BY <1>1, <1>3, <1>4, <1>8, ConnectingPruned DEF Fresh
<1>14. \A t \in TxId : c[t].vout # <<>> => c[t].nHeight # 0
  <2> DEFINE V == Unspent(After(History[Prev[b]], vtx, h, i - 1))
  <2>1. History[Prev[b]] \in Seq(Event) /\ Same(U, Unspent(History[Prev[b]]))
    BY <1>1, HistoryFacts, UnspentInFacts DEF Same, Like
  <2>2. After(History[Prev[b]], vtx, h, i - 1) \in Seq(Event)
    BY <1>1, <1>3, <2>1, AfterFacts
  <2>3. Same(c, V)
    BY <1>1, <1>3, <1>4, <1>8, <2>1, ConnectingHistory
  <2>4. \A t \in TxId : V[t].vout # <<>> => V[t].nHeight # 0
    BY <2>2, UnspentType
  <2> HIDE DEF V, c
  <2> QED
    BY <2>3, <2>4 DEF Same, Like
<1>15. s[tx.hash].vout = <<>>
  <2> HIDE DEF s, c, tx
  <2>0. \A n \in Place : Val(c[tx.hash].vout, n) = Spent
    BY <1>13 DEF Val
  <2>1. \A n \in Place : Val(s[tx.hash].vout, n) = Spent
    BY <2>0, <1>5, <1>12
  <2>2. s[tx.hash] \in Coin
    BY <1>5, <1>12 DEF CoinMap
  <2> QED
    BY <2>1, <2>2, PrunedEmpty
<1>16. Same(D, f[i].coins)
  OBVIOUS
<1>r. r = IF i = 1 THEN q ELSE Restoring(q, tx.vin, undo[b][i - 1])[Len(tx.vin)]
  BY DEF DisconnectTx, RestoreInputs
<1>u. i # 1 => undo[b][i - 1] = UpdateCoins(c, tx, h).undo
  <2>1. ASSUME i # 1 PROVE f[m].undo[i - 1] = UpdateCoins(f[i - 1].coins, vtx[i], h).undo
    <3>1. m \in 1 .. m /\ i \in 2 .. m
      BY <2>1, <1>2, <1>3
    <3>2. \A k \in 1 .. m : f[k].ok =>
            \A j \in 2 .. k : f[k].undo[j - 1] = UpdateCoins(f[j - 1].coins, vtx[j], h).undo
      <4> HIDE DEF U, vtx, h
      <4>1. U \in CoinMap /\ CheckBlock(vtx) /\ h \in Nat
        BY <1>1, <1>4
      <4>2. ASSUME NEW k \in 1 .. m, f[k].ok, NEW j \in 2 .. k
            PROVE  f[k].undo[j - 1] = UpdateCoins(f[j - 1].coins, vtx[j], h).undo
        BY <4>1, <4>2, ConnectingUndo
      <4> HIDE DEF f
      <4> QED
        BY <4>2
    <3> HIDE DEF f, m, vtx, h
    <3> QED
      BY <3>1, <3>2, <1>6
  <2> QED
    BY <2>1, <1>6
<1>v. i = 1 => Len(tx.vin) = 0
  <2>1. i = 1 => IsCoinBase(tx)
    BY <1>1, VtxFacts
  <2> QED
    BY <2>1 DEF IsCoinBase
<1>w. Spending(c, tx.vin)[0] = [coins |-> c, undo |-> <<>>]
  BY <1>5, SpendingStep, Zenon
<1> HIDE DEF c, s, tx, f, h, U, vtx, m, r
<1>17. D[tx.hash] = CoinsOf(tx, h)
  <2>1. f[i].coins[tx.hash] = CoinsOf(tx, h)
    BY <1>5, <1>10, <1>12 DEF CoinMap
  <2>2. Like(D[tx.hash], CoinsOf(tx, h))
    BY <1>5, <1>16, <2>1 DEF Same
  <2> QED
    BY <2>2, <1>5 DEF Like
<1>18. q.coins = [D EXCEPT ![tx.hash] = NoCoins] /\ q.clean = TRUE
  BY <1>17
<1>19. q.coins \in CoinMap
  BY <1>5, <1>18, NoCoinsFacts DEF CoinMap
<1>q. q = [coins |-> q.coins, clean |-> TRUE]
  BY <1>17
<1> HIDE DEF q
<1>20. Same(q.coins, s)
  <2>1. ASSUME NEW t \in TxId PROVE Like(q.coins[t], s[t])
    <3>1. CASE t = tx.hash
      BY <3>1, <1>15, <1>18, NoCoinsFacts DEF Like, CoinMap
    <3>2. CASE t # tx.hash
      <4>1. q.coins[t] = D[t] /\ f[i].coins[t] = s[t]
        BY <3>2, <1>10, <1>12, <1>18 DEF CoinMap
      <4> QED
        BY <4>1, <1>16 DEF Same
    <3> QED
      BY <3>1, <3>2
  <2> QED
    BY <2>1 DEF Same
<1>21. CASE i = 1
  <2>1. r = q
    BY <1>r, <1>21
  <2>2. s = c
    BY <1>v, <1>w, <1>21 DEF s
  <2> QED
    BY <2>1, <2>2, <1>18, <1>19, <1>20 DEF c, f, r, U, vtx, h
<1>22. CASE i # 1
  <2> DEFINE u == Spending(c, tx.vin)[Len(tx.vin)].undo
             p == Restoring([coins |-> q.coins, clean |-> TRUE], tx.vin, u)
  <2>1. r = p[Len(tx.vin)]
    BY <1>r, <1>q, <1>u, <1>10, <1>22
  <2>2. \A k \in 0 .. Len(tx.vin) : /\ p[k].coins \in CoinMap /\ p[k].clean = TRUE
                                    /\ Same(p[k].coins, Spending(c, tx.vin)[Len(tx.vin) - k].coins)
    BY <1>5, <1>9, <1>14, <1>19, <1>20, RestoringUndoes DEF s
  <2>3. Len(tx.vin) - Len(tx.vin) = 0 /\ Spending(c, tx.vin)[0].coins = c
    BY <1>11, <1>w
  <2> HIDE DEF p
  <2>4. r.coins \in CoinMap /\ r.clean = TRUE /\ Same(r.coins, c)
    BY <2>1, <2>2, <2>3, <1>11
  <2> QED
    BY <2>4 DEF c, f, r, U, vtx, h
<1> QED
  BY <1>21, <1>22

\* DisconnectBlock is the inverse of ConnectBlock on the coins of a chain,
\* unless the block overwrote something, and finds nothing wrong.
LEMMA DisconnectedUndoes ==
  ASSUME NEW b \in Block \ {Genesis}, Fresh(b), Recorded(b),
         NEW D \in CoinMap, Same(D, UnspentIn[b])
  PROVE  /\ Disconnected(D, b).coins \in CoinMap /\ Disconnected(D, b).clean
         /\ Same(Disconnected(D, b).coins, UnspentIn[Prev[b]])
<1> DEFINE U == UnspentIn[Prev[b]]
           m == Len(Vtx[b])
           f == Connecting(U, Vtx[b], Height[b])
           g == Disconnecting(D, b)
           P(k) == g[k].coins \in CoinMap /\ g[k].clean = TRUE /\ Same(g[k].coins, f[m - k].coins)
           S == {k \in 0 .. m : P(k)}
<1>1. CheckBlock(Vtx[b]) /\ Height[b] \in Nat /\ Prev[b] \in Node
  BY BlockFacts DEF Node
<1>2. m \in Nat
  BY <1>1, VtxFacts
<1>3. U \in CoinMap /\ Same(U, UnspentIn[Prev[b]])
  BY <1>1, UnspentInFacts DEF Same, Like
<1>4. Connected(U, b).ok /\ Connected(U, b).coins = f[m].coins
  BY <1>3, ConnectedFacts DEF Recorded
<1>5. Same(f[m].coins, UnspentIn[b])
  BY <1>3, <1>4, ConnectedHistory
<1>6. Same(D, f[m].coins)
  BY <1>5 DEF Same, Like
<1>7. f[0].coins = U
  <2>1. f[0] = [ok |-> TRUE, coins |-> U, undo |-> <<>>, nFees |-> 0]
    BY <1>2, ConnectingStep
  <2> HIDE DEF f
  <2> QED
    BY <2>1
<1>8. g[0] = [coins |-> D, clean |-> TRUE]
  BY <1>2, DisconnectingStep
<1>9. \A k \in 1 .. m : g[k] = DisconnectTx(g[k - 1], b, m + 1 - k)
  BY <1>2, DisconnectingStep, Zenon
<1>10. ASSUME NEW i \in 1 .. m, NEW C \in CoinMap, Same(C, f[i].coins)
       PROVE  LET r == DisconnectTx([coins |-> C, clean |-> TRUE], b, i)
              IN  r.coins \in CoinMap /\ r.clean = TRUE /\ Same(r.coins, f[i - 1].coins)
  BY <1>10, DisconnectTxUndoes
<1>d. Disconnected(D, b) = g[m]
  BY DEF Disconnected
<1>g. \A k \in 0 .. m : g[k] = [coins |-> g[k].coins, clean |-> g[k].clean]
  BY <1>2, DisconnectingShape
<1> HIDE DEF f, g, m
<1>11. 0 \in S
  <2>1. g[0].coins = D /\ g[0].clean = TRUE /\ m - 0 = m /\ 0 \in 0 .. m
    BY <1>8, <1>2
  <2> QED
    BY <2>1, <1>6
<1>12. ASSUME NEW k \in Nat, k + 1 <= m, k \in S PROVE k + 1 \in S
  <2> DEFINE i == m + 1 - (k + 1)
  <2>0. /\ k + 1 \in 1 .. m /\ k + 1 - 1 = k /\ k + 1 \in 0 .. m /\ i \in 1 .. m /\ k \in 0 .. m
        /\ m - k = i /\ m - (k + 1) = i - 1
    BY <1>12, <1>2
  <2>1. g[k + 1] = DisconnectTx(g[k], b, i)
    BY <2>0, <1>9
  <2>2. g[k].coins \in CoinMap /\ g[k].clean = TRUE /\ Same(g[k].coins, f[i].coins)
    BY <1>12, <2>0
  <2> HIDE DEF i
  <2>3. g[k] = [coins |-> g[k].coins, clean |-> TRUE]
    BY <2>0, <2>2, <1>g
  <2>4. g[k + 1].coins \in CoinMap /\ g[k + 1].clean = TRUE /\ Same(g[k + 1].coins, f[i - 1].coins)
    BY <2>0, <2>1, <2>2, <2>3, <1>10
  <2> QED
    BY <2>0, <2>4
<1> HIDE DEF S
<1>13. \A k \in 0 .. m : k \in S
  BY <1>2, <1>11, <1>12, InductTo
<1>14. P(m)
  BY <1>13, <1>2 DEF S
<1>15. m - m = 0
  BY <1>2
<1> QED
  BY <1>14, <1>15, <1>7, <1>d

-----------------------------------------------------------------------------
(***************************************************************************)
(* The layers                                                              *)
(***************************************************************************)

\* The entries of a layer.
CacheMap == [TxId -> Coin \cup {Absent}]

\* No entry is not an entry.
LEMMA AbsentFacts == Absent \notin Coin /\ NoUndo \notin Seq(Seq(Undo))
  BY AbsentAssumption DEF Coin, Undo

\* The layers stay well formed, whichever is read through or written to which.
LEMMA LayerTypes ==
  ASSUME NEW u \in CacheMap, NEW v \in CacheMap
  PROVE  /\ Cache!Empty \in CacheMap /\ Complete(u) \in CoinMap
         /\ Cache!GetCoins(v, u) \in CacheMap /\ Cache!BatchWrite(u, v) \in CacheMap
         /\ Cache!BatchWriteCoins(u, v) \in CacheMap
         /\ Cache!GetCoins(Cache!Empty, u) = u
<1>1. Cache!Empty \in CacheMap /\ Cache!GetCoins(v, u) \in CacheMap /\ Cache!BatchWrite(u, v) \in CacheMap
  BY DEF CacheMap, Cache!Empty, Cache!GetCoins, Cache!BatchWrite
<1>2. Complete(u) \in CoinMap
  BY NoCoinsFacts DEF CacheMap, CoinMap, Complete
<1>3. Cache!BatchWriteCoins(u, v) \in CacheMap
  BY DEF CacheMap, Cache!BatchWriteCoins
<1>4. Cache!GetCoins(Cache!Empty, u) = u
  BY DEF CacheMap, Cache!GetCoins, Cache!Empty
<1> QED
  BY <1>1, <1>2, <1>3, <1>4

\* A flush into a cache leaves what both together show.
LEMMA FlushShows ==
  ASSUME NEW u \in CacheMap, NEW v \in CacheMap, NEW c \in CacheMap
  PROVE  Cache!GetCoins(Cache!BatchWrite(u, v), c) = Cache!GetCoins(v, Cache!GetCoins(u, c))
  BY DEF CacheMap, Cache!GetCoins, Cache!BatchWrite

\* A flush to disk leaves the coins that both together show; pruned ones are
\* erased.
LEMMA DiskShows ==
  ASSUME NEW e \in CacheMap, NEW v \in CacheMap
  PROVE  Same(Complete(Cache!BatchWriteCoins(e, v)), Complete(Cache!GetCoins(v, e)))
<1> DEFINE Pruned == [fCoinBase : BOOLEAN, nHeight : Nat, vout : {<<>>}]
           C == Complete(Cache!BatchWriteCoins(e, v))
           D == Complete(Cache!GetCoins(v, e))
<1>1. \A c \in Pruned : c.vout = <<>> /\ c # Absent
  <2>1. ASSUME NEW c \in Pruned PROVE c \in CoinsSet /\ c.vout = <<>>
    <3> DEFINE Outs == Seq(Nat \cup {Spent})
    <3>1. <<>> \in Outs
      OBVIOUS
    <3> HIDE DEF Outs
    <3>2. c \in [fCoinBase : BOOLEAN, nHeight : Nat, vout : Outs] /\ c.vout = <<>>
      BY <3>1
    <3> QED
      BY <3>2 DEF CoinsSet, Outs
  <2> QED
    BY <2>1, AbsentAssumption
<1>2. ASSUME NEW t \in TxId
      PROVE  /\ C[t] = IF v[t] \in Pruned THEN NoCoins
                       ELSE IF v[t] # Absent THEN v[t] ELSE IF e[t] = Absent THEN NoCoins ELSE e[t]
             /\ D[t] = IF v[t] # Absent THEN v[t] ELSE IF e[t] = Absent THEN NoCoins ELSE e[t]
  BY DEF Complete, Cache!BatchWriteCoins, Cache!GetCoins
<1> HIDE DEF Pruned, C, D
<1>3. ASSUME NEW t \in TxId PROVE Like(C[t], D[t])
  BY <1>1, <1>2, NoCoinsFacts DEF Like
<1> QED
  BY <1>3 DEF Same, C, D

\* What a view shows after its entries have been changed to show C.
LEMMA ViewShows ==
  ASSUME NEW w \in CacheMap, NEW c \in CacheMap, NEW C \in CoinMap
  PROVE  LET now == Complete(Cache!GetCoins(w, c))
             v == [t \in TxId |-> IF C[t] # now[t] THEN C[t] ELSE w[t]]
         IN  v \in CacheMap /\ Complete(Cache!GetCoins(v, c)) = C
<1> DEFINE now == Complete(Cache!GetCoins(w, c))
           v == [t \in TxId |-> IF C[t] # now[t] THEN C[t] ELSE w[t]]
           D == Complete(Cache!GetCoins(v, c))
<1>1. \A t \in TxId : now[t] = IF w[t] # Absent THEN w[t] ELSE IF c[t] = Absent THEN NoCoins ELSE c[t]
  BY DEF Complete, Cache!GetCoins
<1>2. \A t \in TxId : D[t] = IF v[t] # Absent THEN v[t] ELSE IF c[t] = Absent THEN NoCoins ELSE c[t]
  BY DEF Complete, Cache!GetCoins
<1>3. \A t \in TxId : v[t] = IF C[t] # now[t] THEN C[t] ELSE w[t]
  OBVIOUS
<1>4. v \in CacheMap
  BY DEF CacheMap, CoinMap
<1>5. D = [t \in TxId |-> D[t]] /\ C = [t \in TxId |-> C[t]]
  BY DEF Complete, CoinMap
<1> HIDE DEF now, v, D
<1>6. \A t \in TxId : D[t] = C[t]
  BY <1>1, <1>2, <1>3, AbsentFacts DEF CoinMap
<1>7. D = C
  BY <1>5, <1>6
<1> QED
  BY <1>4, <1>7 DEF D, v, now

\* A layer that holds the coins of b, up to the metadata of pruned entries.
LEMMA NormalSame ==
  ASSUME NEW C \in CoinMap, NEW b \in Node, Same(C, UnspentIn[b])
  PROVE  Normal(C) = UnspentIn[b]
<1> DEFINE U == UnspentIn[b]
<1>1. U \in CoinMap /\ \A t \in TxId : U[t].vout = <<>> => U[t] = NoCoins
  BY UnspentInFacts
<1>2. Same(C, U)
  OBVIOUS
<1> HIDE DEF U
<1>3. ASSUME NEW t \in TxId PROVE (IF IsPruned(C[t]) THEN NoCoins ELSE C[t]) = U[t]
  <2>1. IsPruned(C[t]) <=> C[t].vout = <<>>
    BY PrunedEmpty DEF CoinMap
  <2>2. Like(C[t], U[t])
    BY <1>2 DEF Same
  <2> QED
    BY <2>1, <2>2, <1>1 DEF Like
<1>4. U = [t \in TxId |-> U[t]]
  BY <1>1 DEF CoinMap
<1>5. Normal(C) = U
  BY <1>3, <1>4 DEF Normal
<1> QED
  BY <1>5 DEF U

-----------------------------------------------------------------------------
(***************************************************************************)
(* What the steps do to the three layers                                   *)
(***************************************************************************)

\* The undo data of each block.
UndoMap == [Block -> Seq(Seq(Undo)) \cup {NoUndo}]

\* The values the variables range over.
CoinsType ==
  /\ db \in CacheMap /\ tip \in CacheMap /\ view \in CacheMap
  /\ dbBest \in Node /\ tipBest \in Node /\ viewBest \in Node /\ pindexNew \in Node
  /\ open = (pindexNew # NULL) /\ failed \subseteq Block /\ undo \in UndoMap

\* The view is there only within SetBestChain, and it knows its best block
\* unless there is none.
ViewInv ==
  /\ pindexNew = NULL => view = Cache!Empty /\ viewBest = NULL
  /\ pindexNew # NULL /\ viewBest = NULL => tipBest = NULL /\ dbBest = NULL

\* The three layers as complete coins with their best blocks.
DiskLayer == <<Complete(db), dbBest>>
TipLayer  == <<Complete(Cache!TipCoins), Cache!TipBestBlock>>
ViewLayer == <<ViewNow, Cache!ViewBestBlock>>

\* The layers are well formed.
LEMMA LayerFacts ==
  ASSUME CoinsType
  PROVE  /\ Cache!TipCoins \in CacheMap /\ Cache!ViewCoins \in CacheMap
         /\ Complete(db) \in CoinMap /\ Complete(Cache!TipCoins) \in CoinMap /\ ViewNow \in CoinMap
         /\ Cache!TipBestBlock \in Node /\ Cache!ViewBestBlock \in Node
<1>1. Cache!TipCoins \in CacheMap
  BY LayerTypes DEF CoinsType, Cache!TipCoins
<1>2. Cache!ViewCoins \in CacheMap
  BY <1>1, LayerTypes DEF CoinsType, Cache!ViewCoins
<1>3. Complete(db) \in CoinMap /\ Complete(Cache!TipCoins) \in CoinMap /\ ViewNow \in CoinMap
  BY <1>1, <1>2, LayerTypes DEF CoinsType, ViewNow
<1>4. Cache!TipBestBlock \in Node /\ Cache!ViewBestBlock \in Node
  BY DEF CoinsType, Cache!TipBestBlock, Cache!ViewBestBlock, Cache!GetBestBlock
<1> QED
  BY <1>1, <1>2, <1>3, <1>4

\* While there is a view its best block is the block its coins belong to.
LEMMA ViewBestFacts ==
  ASSUME ViewInv, pindexNew # NULL
  PROVE  Cache!ViewBestBlock = viewBest
  BY DEF ViewInv, Cache!ViewBestBlock, Cache!TipBestBlock, Cache!GetBestBlock

\* A new view shows what pcoinsTip shows.
LEMMA NewViewStep ==
  ASSUME CoinsType, ViewInv, NEW b \in Block, SetBestChain(b)
  PROVE  CoinsType' /\ ViewInv' /\ DiskLayer' = DiskLayer /\ TipLayer' = TipLayer /\ ViewLayer' = TipLayer
<1>1. /\ db' = db /\ dbBest' = dbBest /\ tip' = tip /\ undo' = undo /\ failed' = failed /\ pindexNew' = b
      /\ open' = TRUE /\ view' = Cache!Empty
      /\ tipBest' = Cache!TipBestBlock /\ viewBest' = Cache!TipBestBlock
  BY DEF SetBestChain, Cache!NewView
<1>2. Cache!TipBestBlock \in Node /\ Cache!Empty \in CacheMap /\ b # NULL /\ b \in Node
  BY LayerFacts, LayerTypes, TreeAssumption DEF CoinsType, Node
<1>3. CoinsType'
  BY <1>1, <1>2 DEF CoinsType
<1>4. ViewInv'
  BY <1>1, <1>2 DEF ViewInv, Cache!TipBestBlock, Cache!GetBestBlock
<1>5. Cache!TipCoins' = Cache!TipCoins
  BY <1>1 DEF Cache!TipCoins
<1>6. Cache!ViewCoins' = Cache!GetCoins(Cache!Empty, Cache!TipCoins)
  BY <1>1, <1>5 DEF Cache!ViewCoins
<1>7. Cache!ViewCoins' = Cache!TipCoins
  BY <1>6, LayerFacts, LayerTypes
<1>8. Cache!TipBestBlock' = Cache!TipBestBlock /\ Cache!ViewBestBlock' = Cache!TipBestBlock
  BY <1>1 DEF Cache!TipBestBlock, Cache!ViewBestBlock, Cache!GetBestBlock
<1> QED
  BY <1>1, <1>3, <1>4, <1>5, <1>7, <1>8 DEF DiskLayer, TipLayer, ViewLayer, ViewNow

\* When the view is dropped what pcoinsTip shows is left.
LEMMA DropStep ==
  ASSUME CoinsType, ViewInv, SetBestChainFails, undo' = undo, failed' \subseteq Block
  PROVE  CoinsType' /\ ViewInv' /\ DiskLayer' = DiskLayer /\ TipLayer' = TipLayer /\ ViewLayer' = TipLayer
<1>1. /\ db' = db /\ dbBest' = dbBest /\ tip' = tip /\ tipBest' = tipBest /\ pindexNew' = NULL
      /\ view' = Cache!Empty /\ viewBest' = NULL /\ open' = FALSE
  BY DEF SetBestChainFails, Cache!DropView, Cache!base
<1>2. Cache!Empty \in CacheMap /\ NULL \in Node
  BY LayerTypes DEF CoinsType, Node
<1>3. CoinsType'
  BY <1>1, <1>2 DEF CoinsType
<1>4. ViewInv'
  BY <1>1 DEF ViewInv, Cache!Empty
<1>5. Cache!TipCoins' = Cache!TipCoins
  BY <1>1 DEF Cache!TipCoins
<1>6. Cache!ViewCoins' = Cache!GetCoins(Cache!Empty, Cache!TipCoins)
  BY <1>1, <1>5 DEF Cache!ViewCoins
<1>7. Cache!ViewCoins' = Cache!TipCoins
  BY <1>6, LayerFacts, LayerTypes
<1>8. Cache!TipBestBlock' = Cache!TipBestBlock /\ Cache!ViewBestBlock' = Cache!TipBestBlock
  BY <1>1 DEF Cache!TipBestBlock, Cache!ViewBestBlock, Cache!GetBestBlock
<1> QED
  BY <1>1, <1>3, <1>4, <1>5, <1>7, <1>8 DEF DiskLayer, TipLayer, ViewLayer, ViewNow

\* The view is changed to show the coins C of block b.
LEMMA ViewStep ==
  ASSUME CoinsType, ViewInv, pindexNew # NULL,
         NEW C \in CoinMap, view' = ViewWith(C), NEW b \in Block, viewBest' = b,
         UNCHANGED <<db, dbBest, tip, tipBest, open, failed, pindexNew>>, undo' \in UndoMap
  PROVE  CoinsType' /\ ViewInv' /\ DiskLayer' = DiskLayer /\ TipLayer' = TipLayer /\ ViewLayer' = <<C, b>>
<1> DEFINE v == ViewWith(C)
<1>0. b \in Node /\ b # NULL
  BY TreeAssumption DEF Node
<1>1. v = [t \in TxId |-> IF C[t] # Complete(Cache!GetCoins(view, Cache!TipCoins))[t] THEN C[t] ELSE view[t]]
  BY DEF ViewWith, ViewNow, Cache!ViewCoins
<1>2. v \in CacheMap /\ Complete(Cache!GetCoins(v, Cache!TipCoins)) = C
  BY <1>1, LayerFacts, ViewShows DEF CoinsType
<1>3. CoinsType'
  BY <1>0, <1>2 DEF CoinsType
<1>4. ViewInv'
  BY <1>0 DEF ViewInv
<1>5. Cache!TipCoins' = Cache!TipCoins
  BY DEF Cache!TipCoins
<1>6. Cache!ViewCoins' = Cache!GetCoins(v, Cache!TipCoins)
  BY <1>5 DEF Cache!ViewCoins
<1>7. Cache!TipBestBlock' = Cache!TipBestBlock /\ Cache!ViewBestBlock' = b
  BY <1>0 DEF Cache!TipBestBlock, Cache!ViewBestBlock, Cache!GetBestBlock
<1> HIDE DEF v
<1>8. ViewNow' = C
  BY <1>2, <1>6 DEF ViewNow
<1> QED
  BY <1>3, <1>4, <1>5, <1>7, <1>8 DEF DiskLayer, TipLayer, ViewLayer

\* The view is flushed into pcoinsTip.
LEMMA FlushViewStep ==
  ASSUME CoinsType, ViewInv, SwitchTip, Cache!FlushView
  PROVE  CoinsType' /\ ViewInv' /\ DiskLayer' = DiskLayer /\ TipLayer' = ViewLayer /\ ViewLayer' = ViewLayer
<1>1. /\ db' = db /\ dbBest' = dbBest /\ tip' = Cache!BatchWrite(tip, view) /\ tipBest' = viewBest
      /\ view' = Cache!Empty /\ viewBest' = NULL /\ open' = FALSE
      /\ pindexNew # NULL /\ viewBest = pindexNew /\ pindexNew' = NULL
      /\ undo' = undo /\ failed' = failed
  BY DEF SwitchTip, Cache!FlushView
<1>2. Cache!Empty \in CacheMap /\ NULL \in Node /\ Cache!BatchWrite(tip, view) \in CacheMap
  BY LayerTypes DEF CoinsType, Node
<1>3. CoinsType'
  BY <1>1, <1>2 DEF CoinsType
<1>4. ViewInv'
  BY <1>1 DEF ViewInv, Cache!Empty
<1>5. Cache!TipCoins' = Cache!GetCoins(Cache!BatchWrite(tip, view), db)
  BY <1>1 DEF Cache!TipCoins
<1>6. Cache!TipCoins' = Cache!ViewCoins
  BY <1>5, FlushShows DEF CoinsType, Cache!ViewCoins, Cache!TipCoins
<1>7. Cache!ViewCoins' = Cache!GetCoins(Cache!Empty, Cache!ViewCoins)
  BY <1>1, <1>6 DEF Cache!ViewCoins
<1>8. Cache!ViewCoins' = Cache!ViewCoins
  BY <1>7, LayerFacts, LayerTypes
<1>9. Cache!TipBestBlock' = viewBest /\ Cache!ViewBestBlock' = viewBest /\ Cache!ViewBestBlock = viewBest
  BY <1>1 DEF Cache!TipBestBlock, Cache!ViewBestBlock, Cache!GetBestBlock
<1> QED
  BY <1>1, <1>3, <1>4, <1>6, <1>8, <1>9 DEF DiskLayer, TipLayer, ViewLayer, ViewNow

\* The new coins database shows the coins C of block best, and so do the empty
\* caches over it.
LEMMA WrittenLayers ==
  ASSUME CoinsType', tip' = Cache!Empty, view' = Cache!Empty, viewBest' = NULL,
         tipBest' \in {NULL, dbBest'}
  PROVE  TipLayer' = DiskLayer' /\ ViewLayer' = DiskLayer'
<1>0. db' \in CacheMap
  BY DEF CoinsType
<1>1. Cache!TipCoins' = Cache!GetCoins(Cache!Empty, db')
  BY DEF Cache!TipCoins
<1>2. Cache!TipCoins' = db'
  BY <1>0, <1>1, LayerTypes
<1>3. Cache!ViewCoins' = Cache!GetCoins(Cache!Empty, db')
  BY <1>2 DEF Cache!ViewCoins
<1>4. Cache!ViewCoins' = db'
  BY <1>0, <1>3, LayerTypes
<1>5. Cache!TipBestBlock' = dbBest' /\ Cache!ViewBestBlock' = dbBest'
  BY DEF Cache!TipBestBlock, Cache!ViewBestBlock, Cache!GetBestBlock
<1> QED
  BY <1>2, <1>4, <1>5 DEF DiskLayer, TipLayer, ViewLayer, ViewNow

\* The view and pcoinsTip are flushed to disk.
LEMMA FlushBothStep ==
  ASSUME CoinsType, ViewInv, SwitchTip, FlushBoth
  PROVE  /\ CoinsType' /\ ViewInv' /\ TipLayer' = DiskLayer' /\ ViewLayer' = DiskLayer'
         /\ Same(Complete(db'), ViewNow) /\ dbBest' = Cache!ViewBestBlock
<1>1. /\ db' = Cache!BatchWriteCoins(db, Cache!BatchWrite(tip, view)) /\ dbBest' = viewBest
      /\ tip' = Cache!Empty /\ tipBest' = viewBest
      /\ view' = Cache!Empty /\ viewBest' = NULL /\ open' = FALSE
      /\ pindexNew # NULL /\ viewBest = pindexNew /\ pindexNew' = NULL
      /\ undo' = undo /\ failed' = failed
  BY DEF SwitchTip, FlushBoth, Cache!Empty
<1>2. /\ Cache!Empty \in CacheMap /\ NULL \in Node /\ Cache!BatchWrite(tip, view) \in CacheMap
  BY LayerTypes DEF CoinsType, Node
<1>a. Cache!BatchWriteCoins(db, Cache!BatchWrite(tip, view)) \in CacheMap
  BY <1>2, LayerTypes DEF CoinsType
<1>3. CoinsType'
  BY <1>1, <1>2, <1>a DEF CoinsType
<1>4. ViewInv'
  BY <1>1 DEF ViewInv, Cache!Empty
<1>5. TipLayer' = DiskLayer' /\ ViewLayer' = DiskLayer'
  BY <1>1, <1>3, WrittenLayers
<1>6. Same(Complete(db'), Complete(Cache!GetCoins(Cache!BatchWrite(tip, view), db)))
  BY <1>1, <1>2, DiskShows DEF CoinsType
<1>7. Cache!GetCoins(Cache!BatchWrite(tip, view), db) = Cache!ViewCoins
  BY FlushShows DEF CoinsType, Cache!ViewCoins, Cache!TipCoins
<1>8. Cache!ViewBestBlock = viewBest
  BY <1>1 DEF Cache!ViewBestBlock, Cache!GetBestBlock
<1> QED
  BY <1>1, <1>3, <1>4, <1>5, <1>6, <1>7, <1>8 DEF ViewNow

\* pcoinsTip is flushed to disk, and the process ends.
LEMMA ShutdownStep ==
  ASSUME CoinsType, ViewInv, Shutdown
  PROVE  /\ CoinsType' /\ ViewInv' /\ TipLayer' = DiskLayer' /\ ViewLayer' = DiskLayer'
         /\ Same(Complete(db'), Complete(Cache!TipCoins)) /\ dbBest' = Cache!TipBestBlock
<1>1. /\ db' = Cache!BatchWriteCoins(db, tip) /\ dbBest' = Cache!TipBestBlock
      /\ tip' = Cache!Empty /\ tipBest' = NULL /\ pindexNew = NULL
      /\ view' = view /\ viewBest' = viewBest /\ open' = open
      /\ pindexNew' = pindexNew /\ undo' = undo /\ failed' = failed
  BY DEF Shutdown, Cache!Empty
<1>2. view' = Cache!Empty /\ viewBest' = NULL
  BY <1>1 DEF ViewInv
<1>3. Cache!Empty \in CacheMap /\ NULL \in Node /\ Cache!BatchWriteCoins(db, tip) \in CacheMap
  BY LayerTypes DEF CoinsType, Node
<1>4. CoinsType'
  BY <1>1, <1>3, LayerFacts DEF CoinsType
<1>5. ViewInv'
  BY <1>1, <1>2 DEF ViewInv, Cache!Empty
<1>6. TipLayer' = DiskLayer' /\ ViewLayer' = DiskLayer'
  BY <1>1, <1>2, <1>4, WrittenLayers
<1>7. Same(Complete(db'), Complete(Cache!GetCoins(tip, db)))
  BY <1>1, DiskShows DEF CoinsType
<1> QED
  BY <1>1, <1>4, <1>5, <1>6, <1>7 DEF Cache!TipCoins

\* What is on disk is left.
LEMMA CrashStep ==
  ASSUME CoinsType, ViewInv, Crash
  PROVE  /\ CoinsType' /\ ViewInv' /\ TipLayer' = DiskLayer' /\ ViewLayer' = DiskLayer'
         /\ DiskLayer' = DiskLayer
<1>1. /\ db' = db /\ dbBest' = dbBest
      /\ tip' = Cache!Empty /\ tipBest' = NULL /\ pindexNew' = NULL
      /\ view' = Cache!Empty /\ viewBest' = NULL /\ open' = FALSE
      /\ undo' = undo /\ failed' = failed
  BY DEF Crash, Cache!Crash
<1>2. Cache!Empty \in CacheMap /\ NULL \in Node
  BY LayerTypes DEF CoinsType, Node
<1>3. CoinsType'
  BY <1>1, <1>2 DEF CoinsType
<1>4. ViewInv'
  BY <1>1 DEF ViewInv, Cache!Empty
<1>5. TipLayer' = DiskLayer' /\ ViewLayer' = DiskLayer'
  BY <1>1, <1>3, WrittenLayers
<1> QED
  BY <1>1, <1>3, <1>4, <1>5 DEF DiskLayer

-----------------------------------------------------------------------------
(***************************************************************************)
(* The invariant                                                           *)
(***************************************************************************)

\* Every block of the chain of b has its undo data.
Kept(u, b) == \A a \in Chain(b) \ {Genesis} : u[a] # NoUndo

\* No block that overwrites something has undo data.
Clear(u) == \A b \in Overwriting : u[b] = NoUndo

\* The coins C belong to the chain of b.
Good(u, C, b) == Kept(u, b) /\ (Clear(u) => Same(C, UnspentIn[b]))
OnLayer(u, layer) == Good(u, layer[1], layer[2])

\* The undo data is what the coins of the ancestors give.
UndoGood(u) == \A b \in Block : u[b] # NoUndo => /\ Connected(UnspentIn[Prev[b]], b).ok
                                                 /\ u[b] = Connected(UnspentIn[Prev[b]], b).undo

UndoInv == \A b \in Block : undo[b] # NoUndo => b # Genesis /\ UndoFits(undo[b], Vtx[b])
LayerInv == OnLayer(undo, DiskLayer) /\ OnLayer(undo, TipLayer) /\ OnLayer(undo, ViewLayer)
VerdictInv == Clear(undo) => UndoGood(undo) /\ failed \cap GoodByChain = {}

\* The inductive invariant.
CoinsInv == CoinsType /\ ViewInv /\ UndoInv /\ LayerInv /\ VerdictInv

\* w has all the undo data of u.
Extends(w, u) == \A a \in Block : u[a] # NoUndo => w[a] = u[a]

\* The chain of a block consists of blocks.
LEMMA ChainBlocks ==
  ASSUME NEW b \in Node PROVE Chain(b) \subseteq Block
  BY ChainClosed, ChainFacts DEF Node

\* As undo data is added nothing can become clear that was not.
LEMMA ClearShrinks ==
  ASSUME NEW u, NEW w, Extends(w, u), Clear(w) PROVE Clear(u)
  BY DEF Clear, Overwriting, Extends

\* Coins stay the coins of their chain.
LEMMA GoodGrows ==
  ASSUME NEW u, NEW w, Extends(w, u), NEW C, NEW D, NEW b \in Node, Good(u, C, b), Same(D, C)
  PROVE  Good(w, D, b)
<1>1. Kept(w, b)
  BY ChainBlocks DEF Good, Kept, Extends
<1>2. ASSUME Clear(w) PROVE Same(D, UnspentIn[b])
  BY <1>2, ClearShrinks, SameTrans DEF Good
<1> QED
  BY <1>1, <1>2 DEF Good

\* ConnectBlock makes the coins of a chain those of the longer chain.
LEMMA GoodConnect ==
  ASSUME NEW u, NEW w, Extends(w, u), NEW b \in Block, NEW C \in CoinMap, Good(u, C, Prev[b]),
         Connected(C, b).ok, b # Genesis => w[b] # NoUndo
  PROVE  Good(w, Connected(C, b).coins, b)
<1>0. Prev[b] \in Node
  BY HeightFacts
<1>1. Kept(w, b)
  <2>1. Kept(u, Prev[b]) /\ Chain(b) = Chain(Prev[b]) \cup {b} /\ Chain(Prev[b]) \subseteq Block
    BY <1>0, ChainFacts, ChainBlocks DEF Good
  <2> QED
    BY <2>1 DEF Kept, Extends
<1>2. ASSUME Clear(w) PROVE Same(Connected(C, b).coins, UnspentIn[b])
  <2>1. Same(C, UnspentIn[Prev[b]])
    BY <1>2, ClearShrinks DEF Good
  <2> QED
    BY <2>1, ConnectedHistory
<1> QED
  BY <1>1, <1>2 DEF Good

\* A block that overwrites nothing finds the coins of its transactions pruned.
LEMMA NotOverwriting ==
  ASSUME NEW b \in Block \ {Genesis}, b \notin Overwriting PROVE Fresh(b)
<1> DEFINE U == UnspentIn[Prev[b]]
<1>1. CheckBlock(Vtx[b]) /\ Prev[b] \in Node
  BY BlockFacts DEF Node
<1>2. U \in CoinMap
  BY <1>1, UnspentInFacts
<1>3. /\ DOMAIN Vtx[b] = 1 .. Len(Vtx[b])
      /\ \A i \in 1 .. Len(Vtx[b]) : Vtx[b][i].hash \in TxId
  BY <1>1 DEF CheckBlock, CheckTransaction
<1>4. \A i \in 1 .. Len(Vtx[b]) : IsPruned(U[Vtx[b][i].hash])
  BY <1>3 DEF Overwriting
<1> HIDE DEF U
<1>5. \A i \in 1 .. Len(Vtx[b]) : U[Vtx[b][i].hash].vout = <<>>
  BY <1>2, <1>3, <1>4, PrunedEmpty DEF CoinMap
<1> QED
  BY <1>5 DEF Fresh, U

\* DisconnectBlock makes the coins of a chain those of the shorter chain, and
\* finds nothing wrong.
LEMMA GoodDisconnect ==
  ASSUME UndoInv, VerdictInv, NEW b \in Block \ {Genesis}, NEW C \in CoinMap, Good(undo, C, b)
  PROVE  /\ Disconnected(C, b).coins \in CoinMap
         /\ Good(undo, Disconnected(C, b).coins, Prev[b])
         /\ Clear(undo) => Disconnected(C, b).clean
<1>1. Chain(b) = Chain(Prev[b]) \cup {b}
  BY ChainFacts
<1>2. undo[b] # NoUndo /\ Kept(undo, Prev[b])
  BY <1>1 DEF Good, Kept
<1>3. UndoFits(undo[b], Vtx[b])
  BY <1>2 DEF UndoInv
<1>4. Disconnected(C, b).coins \in CoinMap
  <2>1. Len(Vtx[b]) \in Nat
    BY BlockFacts, VtxFacts
  <2>2. Len(Vtx[b]) \in 0 .. Len(Vtx[b])
    BY <2>1
  <2> QED
    BY <1>3, <2>2, DisconnectingCoins DEF Disconnected
<1>5. ASSUME Clear(undo)
      PROVE  Disconnected(C, b).clean /\ Same(Disconnected(C, b).coins, UnspentIn[Prev[b]])
  <2>1. b \notin Overwriting
    BY <1>2, <1>5 DEF Clear
  <2>2. Fresh(b)
    BY <2>1, NotOverwriting
  <2>3. Recorded(b)
    BY <1>2, <1>5 DEF VerdictInv, UndoGood, Recorded
  <2>4. Same(C, UnspentIn[b])
    BY <1>5 DEF Good
  <2> QED
    BY <2>2, <2>3, <2>4, DisconnectedUndoes
<1> QED
  BY <1>2, <1>4, <1>5 DEF Good

\* Initially there is no coin and no block.
LEMMA CoinsInitial == Init => CoinsInv
<1> SUFFICES ASSUME Init PROVE CoinsInv
  OBVIOUS
<1>1. /\ db = Cache!Empty /\ tip = Cache!Empty /\ view = Cache!Empty
      /\ dbBest = NULL /\ tipBest = NULL /\ viewBest = NULL /\ pindexNew = NULL /\ open = FALSE
      /\ failed = {} /\ undo = [b \in Block |-> NoUndo]
  BY DEF Init, Cache!Empty
<1>2. Cache!Empty \in CacheMap /\ NULL \in Node
  BY DEF Cache!Empty, CacheMap, Node
<1>3. CoinsType
  BY <1>1, <1>2 DEF CoinsType, UndoMap
<1>4. ViewInv
  BY <1>1 DEF ViewInv, Cache!Empty
<1>5. Cache!TipCoins = Cache!Empty
  BY <1>1, <1>2, LayerTypes DEF Cache!TipCoins
<1>6. Cache!ViewCoins = Cache!Empty
  BY <1>1, <1>2, <1>5, LayerTypes DEF Cache!ViewCoins
<1>7. Cache!TipBestBlock = NULL /\ Cache!ViewBestBlock = NULL
  BY <1>1 DEF Cache!TipBestBlock, Cache!ViewBestBlock, Cache!GetBestBlock
<1>8. Good(undo, Complete(Cache!Empty), NULL)
  <2>1. Same(Complete(Cache!Empty), UnspentIn[NULL])
    BY UnspentInFacts DEF Same, Like, Complete, Cache!Empty
  <2> QED
    BY <2>1, ChainFacts DEF Good, Kept
<1>9. LayerInv
  BY <1>1, <1>5, <1>6, <1>7, <1>8 DEF LayerInv, OnLayer, DiskLayer, TipLayer, ViewLayer, ViewNow
<1>10. UndoInv /\ VerdictInv
  BY <1>1 DEF UndoInv, VerdictInv, UndoGood
<1> QED
  BY <1>3, <1>4, <1>9, <1>10 DEF CoinsInv

\* Steps that only move the coins of a chain between the layers.
LEMMA MoveStep ==
  ASSUME CoinsInv, CoinsType', ViewInv', undo' = undo, failed' = failed,
         DiskLayer' = DiskLayer, TipLayer' \in {DiskLayer, TipLayer, ViewLayer},
         ViewLayer' \in {DiskLayer, TipLayer, ViewLayer}
  PROVE  CoinsInv'
<1>1. LayerInv'
  BY DEF CoinsInv, LayerInv
<1>2. UndoInv' /\ VerdictInv'
  BY DEF CoinsInv, UndoInv, VerdictInv
<1> QED
  BY <1>1, <1>2 DEF CoinsInv

\* Steps that write the coins of a layer to disk.
LEMMA WriteStep ==
  ASSUME CoinsInv, CoinsType', ViewInv', undo' = undo, failed' = failed,
         TipLayer' = DiskLayer', ViewLayer' = DiskLayer',
         NEW C, NEW b \in Node, Good(undo, C, b), Same(Complete(db'), C), dbBest' = b
  PROVE  CoinsInv'
<1>1. Good(undo, Complete(db'), b)
  <2>1. Extends(undo, undo)
    BY DEF Extends
  <2> QED
    BY <2>1, GoodGrows
<1>2. OnLayer(undo, DiskLayer')
  BY <1>1 DEF OnLayer, DiskLayer
<1>3. LayerInv'
  BY <1>2 DEF LayerInv
<1>4. UndoInv' /\ VerdictInv'
  BY DEF CoinsInv, UndoInv, VerdictInv
<1> QED
  BY <1>3, <1>4 DEF CoinsInv

\* The block to be connected comes right after those of the view.
LEMMA ConnectsFacts ==
  ASSUME CoinsInv, NEW b, Connects(b)
  PROVE  /\ b \in Block /\ pindexNew # NULL /\ ViewNow \in CoinMap
         /\ Good(undo, ViewNow, Prev[b])
<1>1. pindexNew \in Node /\ pindexNew # NULL /\ b \in Chain(pindexNew) /\ Prev[b] = viewBest
  BY DEF Connects, CoinsInv, CoinsType
<1>2. b \in Block
  BY <1>1, ChainBlocks
<1>3. Cache!ViewBestBlock = viewBest
  BY <1>1, ViewBestFacts DEF CoinsInv
<1>4. Good(undo, ViewNow, Cache!ViewBestBlock)
  BY DEF CoinsInv, LayerInv, OnLayer, ViewLayer
<1>5. ViewNow \in CoinMap
  BY LayerFacts DEF CoinsInv
<1> QED
  BY <1>1, <1>2, <1>3, <1>4, <1>5

\* ConnectBlock keeps the invariant.
LEMMA ConnectStep ==
  ASSUME CoinsInv, NEW b \in Block, ConnectBlock(b)
  PROVE  CoinsInv'
<1> DEFINE C == ViewNow
           r == Connected(C, b)
           P == UnspentIn[Prev[b]]
<1>1. pindexNew # NULL /\ C \in CoinMap /\ Good(undo, C, Prev[b])
  BY ConnectsFacts DEF ConnectBlock
<1>2. /\ r.ok /\ view' = ViewWith(r.coins) /\ viewBest' = b
      /\ undo' = IF undo[b] = NoUndo /\ b # Genesis THEN [undo EXCEPT ![b] = r.undo] ELSE undo
      /\ UNCHANGED <<db, dbBest, tip, tipBest, open, failed, pindexNew>>
  BY DEF ConnectBlock
<1>3. CoinsType /\ ViewInv /\ UndoInv /\ LayerInv /\ VerdictInv
  BY DEF CoinsInv
<1>4. undo \in [Block -> Seq(Seq(Undo)) \cup {NoUndo}]
  BY <1>3 DEF CoinsType, UndoMap
<1> HIDE DEF C
<1>5. r.coins \in CoinMap
  BY <1>1, ConnectedFacts
<1>6. b # Genesis => r.undo \in Seq(Seq(Undo)) /\ UndoFits(r.undo, Vtx[b])
  BY <1>1, <1>2, ConnectedUndo
<1> HIDE DEF r
<1>7. undo' \in UndoMap
  BY <1>2, <1>4, <1>6 DEF UndoMap
<1>8. Extends(undo', undo)
  BY <1>2, <1>4 DEF Extends
<1>9. b # Genesis => undo'[b] # NoUndo
  BY <1>2, <1>4, <1>6, AbsentFacts
<1>10. \A a \in Block : undo'[a] # NoUndo =>
          undo'[a] = undo[a] \/ (a = b /\ b # Genesis /\ undo'[a] = r.undo)
  BY <1>2, <1>4
<1>11. /\ CoinsType' /\ ViewInv' /\ DiskLayer' = DiskLayer /\ TipLayer' = TipLayer
       /\ ViewLayer' = <<r.coins, b>>
  BY <1>1, <1>2, <1>3, <1>5, <1>7, ViewStep
<1>12. UndoInv'
  BY <1>3, <1>6, <1>10 DEF UndoInv
<1>13. LayerInv'
  <2>1. OnLayer(undo', DiskLayer')
    <3>1. Good(undo, Complete(db), dbBest) /\ dbBest \in Node /\ Same(Complete(db), Complete(db))
      BY <1>3 DEF LayerInv, OnLayer, DiskLayer, CoinsType, Same, Like
    <3>2. Good(undo', Complete(db), dbBest)
      BY <3>1, <1>8, GoodGrows
    <3> QED
      BY <3>2, <1>11 DEF OnLayer, DiskLayer
  <2>2. OnLayer(undo', TipLayer')
    <3>1. Good(undo, Complete(Cache!TipCoins), Cache!TipBestBlock)
      BY <1>3 DEF LayerInv, OnLayer, TipLayer
    <3>2. Cache!TipBestBlock \in Node /\ Same(Complete(Cache!TipCoins), Complete(Cache!TipCoins))
      BY <1>3, LayerFacts DEF Same, Like
    <3>3. Good(undo', Complete(Cache!TipCoins), Cache!TipBestBlock)
      BY <3>1, <3>2, <1>8, GoodGrows
    <3> QED
      BY <3>3, <1>11 DEF OnLayer, TipLayer
  <2>3. OnLayer(undo', ViewLayer')
    <3>1. Good(undo', r.coins, b)
      BY <1>1, <1>2, <1>8, <1>9, GoodConnect DEF r
    <3> QED
      BY <3>1, <1>11 DEF OnLayer
  <2> QED
    BY <2>1, <2>2, <2>3 DEF LayerInv
<1>14. VerdictInv'
  <2> SUFFICES ASSUME Clear(undo') PROVE UndoGood(undo') /\ failed \cap GoodByChain = {}
    BY <1>2 DEF VerdictInv
  <2>1. Clear(undo)
    BY <1>8, ClearShrinks
  <2>2. UndoGood(undo) /\ failed \cap GoodByChain = {}
    BY <2>1, <1>3 DEF VerdictInv
  <2>3. Same(C, P) /\ P \in CoinMap
    BY <2>1, <1>1, HeightFacts, UnspentInFacts DEF Good
  <2>4. Connected(P, b).ok /\ r.undo = Connected(P, b).undo
    <3> HIDE DEF P
    <3> QED
      BY <2>3, <1>1, <1>2, ConnectedSame DEF r
  <2>5. UndoGood(undo')
    <3>1. ASSUME NEW a \in Block, undo'[a] # NoUndo
          PROVE  Connected(UnspentIn[Prev[a]], a).ok /\ undo'[a] = Connected(UnspentIn[Prev[a]], a).undo
      <4>1. CASE undo'[a] = undo[a]
        BY <3>1, <4>1, <2>2 DEF UndoGood
      <4>2. CASE a = b /\ undo'[a] = r.undo
        BY <4>2, <2>4
      <4> QED
        BY <3>1, <4>1, <4>2, <1>10
    <3> QED
      BY <3>1 DEF UndoGood
  <2> QED
    BY <2>2, <2>5
<1> QED
  BY <1>11, <1>12, <1>13, <1>14 DEF CoinsInv

\* A block is marked only if the coins of its ancestors do not allow it.
LEMMA InvalidStep ==
  ASSUME CoinsInv, NEW b \in Block, ConnectBlockInvalid(b)
  PROVE  CoinsInv'
<1> DEFINE C == ViewNow
           P == UnspentIn[Prev[b]]
<1>1. C \in CoinMap /\ Good(undo, C, Prev[b])
  BY ConnectsFacts DEF ConnectBlockInvalid
<1>2. /\ ~Connected(C, b).ok /\ failed' = failed \cup {b} /\ SetBestChainFails /\ undo' = undo
  BY DEF ConnectBlockInvalid
<1>3. CoinsType /\ ViewInv /\ UndoInv /\ LayerInv /\ VerdictInv
  BY DEF CoinsInv
<1>4. failed' \subseteq Block
  BY <1>2, <1>3 DEF CoinsType
<1>5. CoinsType' /\ ViewInv' /\ DiskLayer' = DiskLayer /\ TipLayer' = TipLayer /\ ViewLayer' = TipLayer
  BY <1>2, <1>3, <1>4, DropStep
<1>6. LayerInv' /\ UndoInv'
  BY <1>2, <1>3, <1>5 DEF LayerInv, UndoInv
<1> HIDE DEF C
<1>7. VerdictInv'
  <2> SUFFICES ASSUME Clear(undo) PROVE UndoGood(undo) /\ failed' \cap GoodByChain = {}
    BY <1>2 DEF VerdictInv
  <2>1. UndoGood(undo) /\ failed \cap GoodByChain = {}
    BY <1>3 DEF VerdictInv
  <2>2. Same(C, P) /\ P \in CoinMap
    BY <1>1, HeightFacts, UnspentInFacts DEF Good
  <2>3. ~Connected(P, b).ok
    <3> HIDE DEF P
    <3> QED
      BY <2>2, <1>1, <1>2, ConnectedSame
  <2>4. b \notin GoodByChain
    BY <2>3 DEF GoodByChain
  <2> QED
    BY <2>1, <2>4, <1>2
<1> QED
  BY <1>5, <1>6, <1>7 DEF CoinsInv

\* The genesis block is never disconnected.
LEMMA DisconnectsFacts ==
  ASSUME CoinsInv, Disconnects
  PROVE  /\ viewBest \in Block \ {Genesis} /\ pindexNew # NULL /\ ViewNow \in CoinMap
         /\ Good(undo, ViewNow, viewBest)
<1>1. /\ pindexNew \in Node /\ pindexNew # NULL /\ viewBest \in Node /\ viewBest # NULL
      /\ viewBest \notin Chain(pindexNew)
  BY DEF Disconnects, CoinsInv, CoinsType
<1>2. pindexNew \in Block /\ viewBest \in Block
  BY <1>1 DEF Node
<1>3. viewBest # Genesis
  BY <1>1, <1>2, ChainClosed
<1>4. Cache!ViewBestBlock = viewBest
  BY <1>1, ViewBestFacts DEF CoinsInv
<1>5. Good(undo, ViewNow, Cache!ViewBestBlock)
  BY DEF CoinsInv, LayerInv, OnLayer, ViewLayer
<1>6. ViewNow \in CoinMap
  BY LayerFacts DEF CoinsInv
<1> QED
  BY <1>1, <1>2, <1>3, <1>4, <1>5, <1>6

\* DisconnectBlock keeps the invariant.
LEMMA DisconnectStep ==
  ASSUME CoinsInv, DisconnectBlock
  PROVE  CoinsInv'
<1> DEFINE C == ViewNow
           r == Disconnected(C, viewBest)
<1>1. viewBest \in Block \ {Genesis} /\ pindexNew # NULL /\ C \in CoinMap /\ Good(undo, C, viewBest)
  BY DisconnectsFacts DEF DisconnectBlock
<1>2. /\ view' = ViewWith(r.coins) /\ viewBest' = Prev[viewBest] /\ undo' = undo
      /\ UNCHANGED <<db, dbBest, tip, tipBest, open, failed, pindexNew>>
  BY DEF DisconnectBlock
<1>3. CoinsType /\ ViewInv /\ UndoInv /\ LayerInv /\ VerdictInv
  BY DEF CoinsInv
<1> HIDE DEF C
<1>4. r.coins \in CoinMap /\ Good(undo, r.coins, Prev[viewBest])
  BY <1>1, <1>3, GoodDisconnect
<1>5. Prev[viewBest] \in Block /\ undo' \in UndoMap
  BY <1>1, <1>2, <1>3, BlockFacts DEF CoinsType
<1> HIDE DEF r
<1>6. /\ CoinsType' /\ ViewInv' /\ DiskLayer' = DiskLayer /\ TipLayer' = TipLayer
      /\ ViewLayer' = <<r.coins, Prev[viewBest]>>
  BY <1>1, <1>2, <1>3, <1>4, <1>5, ViewStep
<1>7. LayerInv'
  <2>1. OnLayer(undo, <<r.coins, Prev[viewBest]>>)
    BY <1>4 DEF OnLayer
  <2> QED
    BY <1>2, <1>3, <1>6, <2>1 DEF LayerInv
<1>8. UndoInv' /\ VerdictInv'
  BY <1>2, <1>3 DEF UndoInv, VerdictInv
<1> QED
  BY <1>6, <1>7, <1>8 DEF CoinsInv

\* Every step keeps the invariant.
LEMMA CoinsStep == CoinsInv /\ [Next]_vars => CoinsInv'
<1> SUFFICES ASSUME CoinsInv, [Next]_vars PROVE CoinsInv'
  OBVIOUS
<1>0. CoinsType /\ ViewInv /\ LayerInv /\ failed \subseteq Block
  BY DEF CoinsInv, CoinsType
<1>1. ASSUME NEW b \in Block, SetBestChain(b) PROVE CoinsInv'
  <2>1. undo' = undo /\ failed' = failed
    BY <1>1 DEF SetBestChain
  <2> QED
    BY <1>0, <1>1, <2>1, NewViewStep, MoveStep
<1>2. ASSUME NEW b \in Block, ConnectBlock(b) PROVE CoinsInv'
  BY <1>2, ConnectStep
<1>3. ASSUME NEW b \in Block, ConnectBlockInvalid(b) PROVE CoinsInv'
  BY <1>3, InvalidStep
<1>4. CASE DisconnectBlock
  BY <1>4, DisconnectStep
<1>5. CASE DisconnectBlockFails
  <2>1. undo' = undo /\ failed' = failed /\ SetBestChainFails
    BY <1>5 DEF DisconnectBlockFails
  <2> QED
    BY <1>0, <2>1, DropStep, MoveStep
<1>6. CASE SwitchTip
  <2>1. undo' = undo /\ failed' = failed
    BY <1>6 DEF SwitchTip
  <2>2. CASE Cache!FlushView
    BY <1>0, <1>6, <2>1, <2>2, FlushViewStep, MoveStep
  <2>3. CASE FlushBoth
    <3>1. Good(undo, ViewNow, Cache!ViewBestBlock)
      BY <1>0 DEF LayerInv, OnLayer, ViewLayer
    <3>2. Cache!ViewBestBlock \in Node
      BY <1>0, LayerFacts
    <3> QED
      BY <1>0, <1>6, <2>1, <2>3, <3>1, <3>2, FlushBothStep, WriteStep
  <2> QED
    BY <1>6, <2>2, <2>3 DEF SwitchTip
<1>7. CASE Shutdown
  <2>1. undo' = undo /\ failed' = failed
    BY <1>7 DEF Shutdown
  <2>2. Good(undo, Complete(Cache!TipCoins), Cache!TipBestBlock)
    BY <1>0 DEF LayerInv, OnLayer, TipLayer
  <2>3. Cache!TipBestBlock \in Node
    BY <1>0, LayerFacts
  <2> QED
    BY <1>0, <1>7, <2>1, <2>2, <2>3, ShutdownStep, WriteStep
<1>8. CASE Crash
  <2>1. undo' = undo /\ failed' = failed
    BY <1>8 DEF Crash
  <2> QED
    BY <1>0, <1>8, <2>1, CrashStep, MoveStep
<1>9. CASE UNCHANGED vars
  <2>1. /\ db' = db /\ dbBest' = dbBest /\ tip' = tip /\ tipBest' = tipBest /\ view' = view
        /\ viewBest' = viewBest /\ open' = open /\ undo' = undo /\ failed' = failed /\ pindexNew' = pindexNew
    BY <1>9 DEF vars, cache
  <2>2. Cache!TipCoins' = Cache!TipCoins
    BY <2>1 DEF Cache!TipCoins
  <2>3. Cache!ViewCoins' = Cache!ViewCoins
    BY <2>1, <2>2 DEF Cache!ViewCoins
  <2>4. Cache!TipBestBlock' = Cache!TipBestBlock /\ Cache!ViewBestBlock' = Cache!ViewBestBlock
    BY <2>1 DEF Cache!TipBestBlock, Cache!ViewBestBlock
  <2>5. DiskLayer' = DiskLayer /\ TipLayer' = TipLayer /\ ViewLayer' = ViewLayer
    BY <2>1, <2>2, <2>3, <2>4 DEF DiskLayer, TipLayer, ViewLayer, ViewNow
  <2>6. CoinsType' /\ ViewInv'
    BY <1>0, <2>1 DEF CoinsType, ViewInv, Cache!Empty
  <2> QED
    BY <2>1, <2>5, <2>6, MoveStep
<1> QED
  BY <1>1, <1>2, <1>3, <1>4, <1>5, <1>6, <1>7, <1>8, <1>9 DEF Next

\* The invariant holds in every state.
LEMMA CoinsInvariant == Spec => []CoinsInv
  BY CoinsInitial, CoinsStep, PTL DEF Spec

-----------------------------------------------------------------------------
(***************************************************************************)
(* The theorems                                                            *)
(***************************************************************************)

\* Clear is the condition of the properties.
LEMMA ClearMeans == NothingOverwritten <=> Clear(undo)
  BY DEF NothingOverwritten, Clear

\* Well-formed entries have no spent output at the end.
LEMMA EntriesClean ==
  ASSUME NEW c \in CacheMap
  PROVE  /\ c \in [TxId -> CoinsSet \cup {Absent}]
         /\ \A t \in TxId : c[t] # Absent => c[t].vout = Cleanup(c[t].vout)
<1>1. c \in [TxId -> CoinsSet \cup {Absent}]
  BY DEF CacheMap, Coin
<1>2. ASSUME NEW t \in TxId, c[t] # Absent PROVE c[t].vout = Cleanup(c[t].vout)
  <2>1. c[t] \in CoinsSet /\ Trim(c[t].vout)
    BY <1>2 DEF CacheMap, Coin
  <2>2. c[t].vout \in Seq(Value)
    BY <2>1 DEF CoinsSet, Value
  <2> QED
    BY <2>1, <2>2, CleanupFacts
<1> QED
  BY <1>1, <1>2

\* Whatever was connected, disconnected, given up, flushed or lost in a crash,
\* the entries of every layer are well formed and, as long as nothing was
\* overwritten, every layer holds exactly the unspent outputs of the chain that
\* its best block ends: DisconnectBlock is the inverse of ConnectBlock, and a
\* flush loses nothing.
THEOREM CoinsCorrect == Spec => []CoinsMatchChain
<1>1. ASSUME CoinsInv PROVE CoinsMatchChain
  <2>1. CoinsType /\ LayerInv
    BY <1>1 DEF CoinsInv
  <2>2. TypeOK
    <3>1. db \in CacheMap /\ tip \in CacheMap /\ view \in CacheMap
      BY <2>1 DEF CoinsType
    <3>2. \A c \in {db, tip, view} : \A t \in TxId : c[t] # Absent => c[t].vout = Cleanup(c[t].vout)
      BY <3>1, EntriesClean
    <3>3. /\ db \in [TxId -> CoinsSet \cup {Absent}] /\ tip \in [TxId -> CoinsSet \cup {Absent}]
          /\ view \in [TxId -> CoinsSet \cup {Absent}]
      BY <3>1, EntriesClean
    <3> QED
      BY <2>1, <3>2, <3>3 DEF TypeOK, CoinsType, Node
  <2>3. ASSUME NothingOverwritten
        PROVE  /\ Normal(Complete(db)) = UnspentIn[dbBest]
               /\ Normal(Complete(Cache!TipCoins)) = UnspentIn[Cache!TipBestBlock]
               /\ Normal(ViewNow) = UnspentIn[Cache!ViewBestBlock]
    <3>1. /\ Same(Complete(db), UnspentIn[dbBest])
          /\ Same(Complete(Cache!TipCoins), UnspentIn[Cache!TipBestBlock])
          /\ Same(ViewNow, UnspentIn[Cache!ViewBestBlock])
      BY <2>1, <2>3, ClearMeans DEF LayerInv, OnLayer, DiskLayer, TipLayer, ViewLayer, Good
    <3>2. /\ Complete(db) \in CoinMap /\ Complete(Cache!TipCoins) \in CoinMap /\ ViewNow \in CoinMap
          /\ Cache!TipBestBlock \in Node /\ Cache!ViewBestBlock \in Node /\ dbBest \in Node
      BY <2>1, LayerFacts DEF CoinsType
    <3> QED
      BY <3>1, <3>2, NormalSame
  <2> QED
    BY <2>2, <2>3 DEF CoinsMatchChain
<1> QED
  BY <1>1, CoinsInvariant, PTL

\* A block is marked as failed only if the coins of its ancestors do not allow
\* it, and only blocks that they allow are in the best chain, whichever
\* reorganisations the node went through.
THEOREM VerdictCorrect == Spec => []VerdictByChain
<1>1. ASSUME CoinsInv PROVE VerdictByChain
  <2> SUFFICES ASSUME NothingOverwritten
               PROVE  failed \cap GoodByChain = {} /\ Chain(Cache!TipBestBlock) \subseteq GoodByChain
    BY DEF VerdictByChain
  <2>1. Clear(undo)
    BY ClearMeans
  <2>2. UndoGood(undo) /\ failed \cap GoodByChain = {}
    BY <1>1, <2>1 DEF CoinsInv, VerdictInv
  <2>3. Kept(undo, Cache!TipBestBlock) /\ Cache!TipBestBlock \in Node
    BY <1>1, LayerFacts DEF CoinsInv, LayerInv, OnLayer, TipLayer, Good
  <2>4. ASSUME NEW a \in Chain(Cache!TipBestBlock) PROVE a \in GoodByChain
    <3>1. a \in Block
      BY <2>3, ChainBlocks
    <3>2. CASE a = Genesis
      BY <3>1, <3>2 DEF GoodByChain, Connected
    <3>3. CASE a # Genesis
      BY <3>1, <3>3, <2>2, <2>3 DEF Kept, UndoGood, GoodByChain
    <3> QED
      BY <3>2, <3>3
  <2> QED
    BY <2>2, <2>4
<1> QED
  BY <1>1, CoinsInvariant, PTL

\* Undoing is defined for every number of blocks.
LEMMA UndoingDef ==
  ASSUME NEW C, NEW best, Len(ChainOf[best]) \in Nat
  PROVE  Undoing(C, best) =
           [i \in 0 .. Len(ChainOf[best]) |->
              IF i = 0 THEN [coins |-> C, clean |-> TRUE]
              ELSE UndoBlock(Undoing(C, best)[i - 1], ChainOf[best][Len(ChainOf[best]) + 1 - (i)])]
<1> DEFINE Base == [coins |-> C, clean |-> TRUE]
           Step(p, i) == UndoBlock(p, ChainOf[best][Len(ChainOf[best]) + 1 - (i)])
           Fits(g, n) == g = [i \in 0 .. n |-> IF i = 0 THEN Base ELSE Step(g[i - 1], i)]
           S == {n \in Nat : \E g : Fits(g, n)}
<1> HIDE DEF Base, Step
<1>1. 0 \in S
  <2>1. Fits([i \in 0 .. 0 |-> Base], 0)
    OBVIOUS
  <2> QED
    BY <2>1
<1>2. ASSUME NEW n \in Nat, n \in S PROVE n + 1 \in S
  <2>1. PICK g : Fits(g, n)
    BY <1>2
  <2> DEFINE ext == [i \in 0 .. n + 1 |-> IF i = n + 1 THEN Step(g[n], n + 1) ELSE g[i]]
  <2>2. \A i \in 0 .. n : ext[i] = g[i]
    OBVIOUS
  <2>3. ASSUME NEW i \in 0 .. n + 1
        PROVE  ext[i] = IF i = 0 THEN Base ELSE Step(ext[i - 1], i)
    <3>1. CASE i = 0
      BY <3>1, <2>1
    <3>2. CASE i # 0 /\ i # n + 1
      <4>1. i \in 0 .. n /\ i - 1 \in 0 .. n
        BY <3>2
      <4>2. ext[i] = Step(g[i - 1], i)
        BY <4>1, <3>2, <2>1, <2>2
      <4> QED
        BY <4>1, <4>2, <3>2, <2>2
    <3>3. CASE i = n + 1
      <4>1. n \in 0 .. n /\ i - 1 = n /\ i # 0
        BY <3>3
      <4>2. ext[i] = Step(g[n], i)
        BY <3>3
      <4> QED
        BY <4>1, <4>2, <2>2
    <3> QED
      BY <3>1, <3>2, <3>3
  <2>a. ext = [i \in 0 .. n + 1 |-> ext[i]]
    OBVIOUS
  <2> HIDE DEF ext
  <2>4. Fits(ext, n + 1)
    BY <2>3, <2>a
  <2> QED
    BY <2>4
<1> HIDE DEF S
<1>3. \A n \in Nat : n \in S
  BY <1>1, <1>2, Induct
<1>4. Len(ChainOf[best]) \in S
  BY <1>3
<1>5. PICK g : Fits(g, Len(ChainOf[best]))
  BY <1>4 DEF S
<1>6. Undoing(C, best) = CHOOSE z : Fits(z, Len(ChainOf[best]))
  BY DEF Undoing, Base, Step
<1>7. Fits(Undoing(C, best), Len(ChainOf[best]))
  BY <1>5, <1>6, Zenon
<1> QED
  BY <1>7, Zenon DEF Base, Step

\* VerifyDB undoes the blocks on disk one after the other, and each time the
\* coins of the chain below are left.
LEMMA UndoingFacts ==
  ASSUME CoinsInv, NothingOverwritten, dbBest # NULL
  PROVE  LET r == Undoing(Complete(db), dbBest)[Len(ChainOf[dbBest]) - 1] IN
         r.clean /\ r.coins \in CoinMap /\ Same(r.coins, UnspentIn[Genesis])
<1> DEFINE best == dbBest
           L == ChainOf[best]
           n == Len(L)
           f == Undoing(Complete(db), best)
           P(k) == f[k].clean /\ f[k].coins \in CoinMap /\ Good(undo, f[k].coins, L[n - k])
           S == {k \in 0 .. n - 1 : P(k)}
<1>0. CoinsType /\ UndoInv /\ LayerInv /\ VerdictInv /\ Clear(undo)
  BY ClearMeans DEF CoinsInv
<1>1. best \in Block
  BY <1>0 DEF CoinsType, Node
<1>2. L \in Seq(Block) /\ n = Height[best] + 1 /\ Height[best] \in Nat
  BY <1>1, ChainFacts, HeightFacts
<1>3. n \in Nat /\ n # 0 /\ n - 1 \in Nat /\ n \in 1 .. n
  BY <1>2
<1>4. \A i \in 1 .. n : /\ Height[L[i]] = i - 1 /\ (i # 1 => Prev[L[i]] = L[i - 1])
                        /\ (i = n => L[i] = best) /\ L[i] \in Chain(best)
  BY <1>1, ChainLinks
<1>5. \A i \in 1 .. n : L[i] \in Block /\ (L[i] = Genesis <=> i = 1)
  <2> SUFFICES ASSUME NEW i \in 1 .. n PROVE L[i] \in Block /\ (L[i] = Genesis <=> i = 1)
    OBVIOUS
  <2>1. L[i] \in Block /\ Height[L[i]] = i - 1
    BY <1>1, <1>4, ChainClosed
  <2>2. Height[Genesis] = 0
    BY TreeAssumption
  <2>3. L[i] # Genesis => Height[L[i]] # 0
    BY <2>1, BlockFacts
  <2> HIDE DEF L, n
  <2> QED
    BY <2>1, <2>2, <2>3, <1>3
<1>6. f = [k \in 0 .. n |-> IF k = 0 THEN [coins |-> Complete(db), clean |-> TRUE]
                            ELSE UndoBlock(f[k - 1], L[n + 1 - k])]
  BY <1>3, UndoingDef, Zenon
<1>7. f[0] = [coins |-> Complete(db), clean |-> TRUE]
  <2> HIDE DEF f, n, L
  <2> QED
    BY <1>3, <1>6
<1>8. \A k \in 1 .. n : f[k] = UndoBlock(f[k - 1], L[n + 1 - k])
  <2> HIDE DEF f, n, L
  <2>1. ASSUME NEW k \in 1 .. n PROVE f[k] = UndoBlock(f[k - 1], L[n + 1 - k])
    <3>1. k \in 0 .. n /\ k # 0
      BY <1>3
    <3> QED
      BY <3>1, <1>6
  <2> QED
    BY <2>1
<1>9. Good(undo, Complete(db), best) /\ Complete(db) \in CoinMap
  BY <1>0, LayerFacts DEF LayerInv, OnLayer, DiskLayer
<1> HIDE DEF f, n, L, best
<1>10. 0 \in S
  <2>1. L[n - 0] = best /\ 0 \in 0 .. n - 1
    BY <1>3, <1>4
  <2>2. f[0].coins = Complete(db) /\ f[0].clean = TRUE
    BY <1>7
  <2> QED
    BY <2>1, <2>2, <1>9
<1>11. ASSUME NEW k \in Nat, k + 1 <= n - 1, k \in S PROVE k + 1 \in S
  <2> DEFINE i == n - k
             b == L[i]
             r == Disconnected(f[k].coins, b)
  <2>1. /\ k + 1 \in 1 .. n /\ k + 1 - 1 = k /\ k + 1 \in 0 .. n - 1 /\ i \in 1 .. n /\ i # 1
        /\ n + 1 - (k + 1) = i /\ n - (k + 1) = i - 1
    BY <1>3, <1>11
  <2>2. f[k].clean /\ f[k].coins \in CoinMap /\ Good(undo, f[k].coins, b)
    BY <1>11
  <2> HIDE DEF i
  <2>3. b \in Block \ {Genesis} /\ Prev[b] = L[i - 1]
    BY <2>1, <1>4, <1>5
  <2>4. f[k + 1] = UndoBlock(f[k], b)
    BY <2>1, <1>8
  <2> HIDE DEF b
  <2>5. r.coins \in CoinMap /\ Good(undo, r.coins, Prev[b]) /\ r.clean
    BY <1>0, <2>2, <2>3, GoodDisconnect
  <2>6. f[k + 1].coins = r.coins /\ f[k + 1].clean
    <3>1. f[k + 1] = [coins |-> r.coins, clean |-> (f[k].clean /\ r.clean)]
      BY <2>4 DEF UndoBlock
    <3>2. f[k + 1].coins = r.coins
      BY <3>1
    <3>3. f[k + 1].clean = (f[k].clean /\ r.clean)
      BY <3>1
    <3> QED
      BY <3>2, <3>3, <2>2, <2>5
  <2> HIDE DEF r
  <2>7. P(k + 1)
    BY <2>1, <2>2, <2>3, <2>5, <2>6
  <2> QED
    BY <2>1, <2>7
<1> HIDE DEF S
<1>12. \A k \in 0 .. n - 1 : k \in S
  BY <1>3, <1>10, <1>11, InductTo
<1>13. P(n - 1)
  BY <1>3, <1>12 DEF S
<1>14. n - (n - 1) = 1 /\ 1 \in 1 .. n
  BY <1>3
<1>15. L[1] = Genesis
  BY <1>5, <1>14
<1>16. f[n - 1].clean /\ f[n - 1].coins \in CoinMap /\ Same(f[n - 1].coins, UnspentIn[Genesis])
  BY <1>0, <1>13, <1>14, <1>15 DEF Good
<1> QED
  BY <1>16 DEF f, n, L, best

\* At whatever point the node was stopped, every block of the chain on disk is
\* undone cleanly from its undo data, and below the first block no coin is left.
THEOREM VerifyDBCorrect == Spec => []VerifyDBPasses
<1>1. ASSUME CoinsInv PROVE VerifyDBPasses
  <2> DEFINE r == Undoing(Complete(db), dbBest)[Len(ChainOf[dbBest]) - 1]
  <2> SUFFICES ASSUME NothingOverwritten, dbBest # NULL
               PROVE  r.clean /\ \A t \in TxId : IsPruned(r.coins[t])
    BY DEF VerifyDBPasses
  <2>1. r.clean /\ r.coins \in CoinMap /\ Same(r.coins, UnspentIn[Genesis])
    BY <1>1, UndoingFacts
  <2> HIDE DEF r
  <2>2. ASSUME NEW t \in TxId PROVE IsPruned(r.coins[t])
    <3>1. UnspentIn[Genesis][t] = NoCoins
      BY UnspentInFacts
    <3>2. r.coins[t] \in Coin /\ r.coins[t].vout = <<>>
      BY <2>1, <3>1, NoCoinsFacts DEF Same, Like, CoinMap
    <3> QED
      BY <3>2, PrunedEmpty
  <2> QED
    BY <2>1, <2>2
<1> QED
  BY <1>1, CoinsInvariant, PTL

-----------------------------------------------------------------------------
(***************************************************************************)
(* The value of coins                                                      *)
(***************************************************************************)

\* The value of an output, nothing if it is spent.
Amount(v, n) == IF Val(v, n) = Spent THEN 0 ELSE Val(v, n)

\* An amount is a natural number.
LEMMA AmountType ==
  ASSUME NEW v \in Seq(Value), NEW n \in Place
  PROVE  Amount(v, n) \in Nat
  BY DEF Amount, Val, Value, Spent, Place

\* What is behind the end has no value.
LEMMA WorthTo ==
  ASSUME NEW v \in Seq(Value), NEW N \in Nat, Len(v) <= N
  PROVE  Worth(v) = SumFunctionOnSet([n \in 1 .. N |-> Amount(v, n)], 1 .. N)
<1> DEFINE m == Len(v)
           w == [n \in 1 .. m |-> IF v[n] = Spent THEN 0 ELSE v[n]]
           a == [n \in 1 .. N |-> Amount(v, n)]
<1>1. m \in Nat /\ IsFiniteSet(1 .. N) /\ IsFiniteSet(1 .. m) /\ 1 .. m \subseteq 1 .. N
  BY FS_Interval
<1>2. \A n \in 1 .. N : n \in Place /\ a[n] = Amount(v, n)
  BY DEF Place
<1>3. \A n \in 1 .. N : a[n] \in Int
  BY <1>2, AmountType
<1>4. \A n \in (1 .. N) \ (1 .. m) : a[n] = 0
  BY <1>2 DEF Amount, Val
<1>5. \A n \in 1 .. m : w[n] = a[n]
  BY <1>1 DEF Amount, Val
<1>6. Worth(v) = SumFunctionOnSet(w, 1 .. m)
  <2>1. DOMAIN w = 1 .. m
    OBVIOUS
  <2>2. Worth(v) = SumFunction(w)
    BY Zenon DEF Worth
  <2>3. SumFunction(w) = SumFunctionOnSet(w, DOMAIN w)
    BY Zenon DEF SumFunction, SumFunctionOnSet, FoldFunction
  <2> QED
    BY <2>1, <2>2, <2>3
<1> HIDE DEF m, w, a
<1>7. SumFunctionOnSet(a, 1 .. N) = SumFunctionOnSet(a, 1 .. m)
  <2> DEFINE S == 1 .. N
             R == 1 .. m
  <2>1. IsFiniteSet(S) /\ R \subseteq S /\ (\A n \in S : a[n] \in Int) /\ \A n \in S \ R : a[n] = 0
    BY <1>1, <1>3, <1>4
  <2> HIDE DEF S, R
  <2>2. SumFunctionOnSet(a, S) = SumFunctionOnSet(a, R)
    BY <2>1, SumPad
  <2> QED
    BY <2>2 DEF S, R
<1>8. SumFunctionOnSet(w, 1 .. m) = SumFunctionOnSet(a, 1 .. m)
  <2> DEFINE R == 1 .. m
  <2>1. IsFiniteSet(R) /\ \A n \in R : a[n] \in Int /\ w[n] = a[n]
    BY <1>1, <1>3, <1>5
  <2> HIDE DEF R
  <2>2. SumFunctionOnSet(w, R) = SumFunctionOnSet(a, R)
    BY <2>1, SumEqual
  <2> QED
    BY <2>2 DEF R
<1> QED
  BY <1>6, <1>7, <1>8 DEF a

\* Of two lists of outputs the one with the larger amounts is worth more.
LEMMA WorthMono ==
  ASSUME NEW v \in Seq(Value), NEW w \in Seq(Value),
         \A n \in Place : Amount(v, n) <= Amount(w, n)
  PROVE  Worth(v) <= Worth(w)
<1> DEFINE N == Len(v) + Len(w)
           S == 1 .. N
           a == [n \in S |-> Amount(v, n)]
           b == [n \in S |-> Amount(w, n)]
<1>1. N \in Nat /\ Len(v) <= N /\ Len(w) <= N /\ IsFiniteSet(S)
  BY FS_Interval
<1>2. \A n \in S : n \in Place /\ a[n] = Amount(v, n) /\ b[n] = Amount(w, n)
  BY DEF Place
<1>3. \A n \in S : a[n] \in Int /\ b[n] \in Int /\ a[n] <= b[n]
  BY <1>2, AmountType
<1> HIDE DEF N
<1>4. Worth(v) = SumFunctionOnSet(a, S) /\ Worth(w) = SumFunctionOnSet(b, S)
  BY <1>1, WorthTo
<1> HIDE DEF S, a, b
<1> QED
  BY <1>1, <1>3, <1>4, SumMono

\* One output is changed.
LEMMA WorthChange ==
  ASSUME NEW v \in Seq(Value), NEW w \in Seq(Value), NEW n \in Place,
         \A m \in Place \ {n} : Amount(w, m) = Amount(v, m)
  PROVE  Worth(w) = Worth(v) - Amount(v, n) + Amount(w, n) /\ Worth(v) \in Int /\ Worth(w) \in Int
<1> DEFINE N == Len(v) + Len(w) + n
           S == 1 .. N
           a == [m \in S |-> Amount(v, m)]
           b == [m \in S |-> Amount(w, m)]
<1>1. N \in Nat /\ Len(v) <= N /\ Len(w) <= N /\ IsFiniteSet(S) /\ n \in S
  BY FS_Interval DEF Place
<1>2. \A m \in S : m \in Place /\ a[m] = Amount(v, m) /\ b[m] = Amount(w, m)
  BY DEF Place
<1>3. \A m \in S : a[m] \in Int /\ b[m] \in Int
  BY <1>2, AmountType
<1>4. \A m \in S \ {n} : b[m] = a[m]
  BY <1>2
<1>5. a[n] = Amount(v, n) /\ b[n] = Amount(w, n)
  BY <1>1, <1>2
<1> HIDE DEF N
<1>6. Worth(v) = SumFunctionOnSet(a, S) /\ Worth(w) = SumFunctionOnSet(b, S)
  BY <1>1, WorthTo
<1> HIDE DEF S, a, b
<1>7. SumFunctionOnSet(b, S) = SumFunctionOnSet(a, S) - a[n] + b[n]
  BY <1>1, <1>3, <1>4, SumChange
<1>8. SumFunctionOnSet(a, S) \in Int /\ SumFunctionOnSet(b, S) \in Int
  BY <1>1, <1>3, SumInt
<1> QED
  BY <1>5, <1>6, <1>7, <1>8

\* No outputs are worth nothing, and no outputs are worth less.
LEMMA WorthType ==
  /\ Worth(<<>>) = 0
  /\ \A v \in Seq(Value) : Worth(v) \in Nat
<1>1. Worth(<<>>) = 0
  <2> DEFINE a == [n \in 1 .. 0 |-> Amount(<<>>, n)]
  <2>1. <<>> \in Seq(Value) /\ Len(<<>>) <= 0 /\ 1 .. 0 = {}
    OBVIOUS
  <2>2. Worth(<<>>) = SumFunctionOnSet(a, 1 .. 0)
    BY <2>1, WorthTo
  <2> HIDE DEF a
  <2>3. SumFunctionOnSet(a, {}) = 0
    BY SumFirst, FS_EmptySet
  <2> QED
    BY <2>1, <2>2, <2>3
<1>2. ASSUME NEW v \in Seq(Value) PROVE Worth(v) \in Nat
  <2>1. <<>> \in Seq(Value) /\ 1 \in Place
    BY DEF Place
  <2>2. \A n \in Place : Amount(<<>>, n) <= Amount(v, n)
    BY AmountType DEF Amount, Val, Place
  <2>3. Worth(<<>>) <= Worth(v)
    BY <2>1, <2>2, WorthMono
  <2>4. Worth(v) \in Int
    BY <2>1, WorthChange
  <2> QED
    BY <1>1, <2>3, <2>4
<1> QED
  BY <1>1, <1>2

\* The outputs of a new transaction are worth the value out of it.
LEMMA WorthNew ==
  ASSUME NEW tx \in Transactions
  PROVE  Worth(tx.vout) = GetValueOut(tx)
<1> DEFINE m == Len(tx.vout)
           w == [n \in 1 .. m |-> IF tx.vout[n] = Spent THEN 0 ELSE tx.vout[n]]
<1>1. tx.vout \in Seq(Nat)
  BY TxFacts
<1>2. w = tx.vout
  <2>1. \A n \in 1 .. m : tx.vout[n] # Spent
    BY <1>1 DEF Spent
  <2>2. tx.vout = [n \in 1 .. m |-> tx.vout[n]]
    BY <1>1
  <2> QED
    BY <2>1, <2>2, Zenon
<1>3. Worth(tx.vout) = SumFunction(w)
  BY Zenon DEF Worth
<1> HIDE DEF w
<1> QED
  BY <1>2, <1>3 DEF GetValueOut

\* A total is the sum of what the entries are worth.
LEMMA TotalFacts ==
  ASSUME NEW C \in CoinMap
  PROVE  LET a == [t \in TxId |-> Worth(C[t].vout)] IN
         /\ Total(C) = SumFunctionOnSet(a, TxId)
         /\ \A t \in TxId : a[t] = Worth(C[t].vout) /\ a[t] \in Nat
         /\ Total(C) \in Int
<1> DEFINE a == [t \in TxId |-> Worth(C[t].vout)]
<1>1. DOMAIN a = TxId
  OBVIOUS
<1>2. Total(C) = SumFunction(a)
  BY Zenon DEF Total
<1>3. SumFunction(a) = SumFunctionOnSet(a, DOMAIN a)
  BY Zenon DEF SumFunction, SumFunctionOnSet, FoldFunction
<1>4. ASSUME NEW t \in TxId PROVE a[t] = Worth(C[t].vout) /\ a[t] \in Nat
  <2>1. C[t].vout \in Seq(Value)
    BY DEF CoinMap, Coin, CoinsSet, Value
  <2> QED
    BY <2>1, WorthType
<1> HIDE DEF a
<1>5. SumFunctionOnSet(a, TxId) \in Int
  BY <1>4, SumInt, MoneyAssumption
<1> QED
  BY <1>1, <1>2, <1>3, <1>4, <1>5 DEF a

\* Fewer coins are not worth more.
LEMMA TotalMono ==
  ASSUME NEW C \in CoinMap, NEW D \in CoinMap, Within(C, D)
  PROVE  Total(C) <= Total(D)
<1> DEFINE a == [t \in TxId |-> Worth(C[t].vout)]
           b == [t \in TxId |-> Worth(D[t].vout)]
<1>1. ASSUME NEW t \in TxId PROVE Worth(C[t].vout) <= Worth(D[t].vout)
  <2>1. C[t].vout \in Seq(Value) /\ D[t].vout \in Seq(Value)
    BY DEF CoinMap, Coin, CoinsSet, Value
  <2>2. ASSUME NEW n \in Place PROVE Amount(C[t].vout, n) <= Amount(D[t].vout, n)
    <3>1. Amount(D[t].vout, n) \in Nat /\ Amount(C[t].vout, n) \in Nat
      BY <2>1, AmountType
    <3>2. Val(C[t].vout, n) # Spent => Val(D[t].vout, n) = Val(C[t].vout, n)
      BY DEF Within
    <3> QED
      BY <3>1, <3>2 DEF Amount
  <2> QED
    BY <2>1, <2>2, WorthMono
<1>2. /\ Total(C) = SumFunctionOnSet(a, TxId) /\ \A t \in TxId : a[t] = Worth(C[t].vout) /\ a[t] \in Nat
      /\ Total(D) = SumFunctionOnSet(b, TxId) /\ \A t \in TxId : b[t] = Worth(D[t].vout) /\ b[t] \in Nat
  BY TotalFacts
<1> HIDE DEF a, b
<1>3. \A t \in TxId : a[t] \in Int /\ b[t] \in Int /\ a[t] <= b[t]
  BY <1>1, <1>2
<1> QED
  BY <1>2, <1>3, SumMono, MoneyAssumption

\* One entry is changed.
LEMMA TotalExcept ==
  ASSUME NEW C \in CoinMap, NEW t \in TxId, NEW c \in Coin
  PROVE  /\ [C EXCEPT ![t] = c] \in CoinMap
         /\ Total([C EXCEPT ![t] = c]) = Total(C) - Worth(C[t].vout) + Worth(c.vout)
         /\ Worth(C[t].vout) \in Nat /\ Worth(c.vout) \in Nat
<1> DEFINE D == [C EXCEPT ![t] = c]
           a == [s \in TxId |-> Worth(C[s].vout)]
           b == [s \in TxId |-> Worth(D[s].vout)]
<1>1. D \in CoinMap
  BY DEF CoinMap
<1>2. D[t] = c /\ \A s \in TxId \ {t} : D[s] = C[s]
  BY DEF CoinMap
<1> HIDE DEF D
<1>3. /\ Total(C) = SumFunctionOnSet(a, TxId) /\ \A s \in TxId : a[s] = Worth(C[s].vout) /\ a[s] \in Nat
      /\ Total(D) = SumFunctionOnSet(b, TxId) /\ \A s \in TxId : b[s] = Worth(D[s].vout) /\ b[s] \in Nat
  BY <1>1, TotalFacts
<1> HIDE DEF a, b
<1>4. \A s \in TxId : a[s] \in Int /\ b[s] \in Int
  BY <1>3
<1>5. \A s \in TxId \ {t} : b[s] = a[s]
  BY <1>2, <1>3
<1>6. SumFunctionOnSet(b, TxId) = SumFunctionOnSet(a, TxId) - a[t] + b[t]
  <2> DEFINE S == TxId
  <2>1. /\ IsFiniteSet(S) /\ t \in S
        /\ \A s \in S : a[s] \in Int /\ b[s] \in Int
        /\ \A s \in S \ {t} : b[s] = a[s]
    BY <1>4, <1>5, MoneyAssumption
  <2> HIDE DEF S
  <2>2. ASSUME NEW x \in S, \A s \in S \ {x} : b[s] = a[s]
        PROVE  SumFunctionOnSet(b, S) = SumFunctionOnSet(a, S) - a[x] + b[x]
    BY <2>1, <2>2, SumChange
  <2> QED
    BY <2>1, <2>2 DEF S
<1>7. a[t] = Worth(C[t].vout) /\ b[t] = Worth(c.vout) /\ a[t] \in Nat /\ b[t] \in Nat
  BY <1>2, <1>3
<1> QED
  BY <1>1, <1>3, <1>6, <1>7 DEF D

\* Spending an output takes its value away.
LEMMA WorthSpend ==
  ASSUME NEW c \in Coin, NEW n \in Place, Val(c.vout, n) # Spent
  PROVE  /\ Worth(Spend(c, n).vout) = Worth(c.vout) - Val(c.vout, n)
         /\ Val(c.vout, n) \in Nat
<1> DEFINE v == c.vout
           w == Spend(c, n).vout
<1>1. v \in Seq(Value) /\ w \in Seq(Value)
  BY SpendFacts DEF Coin, CoinsSet, Value
<1>2. \A m \in Place : Val(w, m) = IF m = n THEN Spent ELSE Val(v, m)
  BY SpendFacts
<1>3. Val(v, n) # Spent
  OBVIOUS
<1> HIDE DEF v, w
<1>4. \A m \in Place \ {n} : Amount(w, m) = Amount(v, m)
  BY <1>2 DEF Amount
<1>5. Amount(w, n) = 0 /\ Amount(v, n) = Val(v, n) /\ Amount(v, n) \in Nat
  BY <1>1, <1>2, <1>3, AmountType DEF Amount
<1>6. Worth(w) = Worth(v) - Amount(v, n) + Amount(w, n) /\ Worth(v) \in Int
  BY <1>1, <1>4, WorthChange
<1>7. Worth(w) = Worth(v) - Val(v, n) /\ Val(v, n) \in Nat
  BY <1>5, <1>6
<1> QED
  BY <1>7 DEF v, w

\* Spending the inputs takes the value in away.
LEMMA SpendingTotal ==
  ASSUME NEW C \in CoinMap, NEW tx \in Transactions, Ready(C, tx.vin)
  PROVE  /\ Total(Spending(C, tx.vin)[Len(tx.vin)].coins) = Total(C) - GetValueIn(C, tx)
         /\ GetValueIn(C, tx) \in Int
<1> DEFINE vin == tx.vin
           m == Len(vin)
           f == Spending(C, vin)
           g == [i \in 1 .. m |-> C[vin[i].hash].vout[vin[i].n]]
           part(i) == SumFunctionOnSet(g, 1 .. i)
           P == {i \in 0 .. m : Total(f[i].coins) = Total(C) - part(i) /\ part(i) \in Int}
<1>1. vin \in Seq(OutPoints) /\ m \in Nat /\ Ready(C, vin)
  BY TxFacts
<1>2. GetValueIn(C, tx) = part(m)
  <2>1. DOMAIN g = 1 .. m
    OBVIOUS
  <2>2. GetValueIn(C, tx) = SumFunction(g)
    BY Zenon DEF GetValueIn
  <2>3. SumFunction(g) = SumFunctionOnSet(g, DOMAIN g)
    BY Zenon DEF SumFunction, SumFunctionOnSet, FoldFunction
  <2> QED
    BY <2>1, <2>2, <2>3
<1>3. \A i \in 1 .. m : g[i] = C[vin[i].hash].vout[vin[i].n]
  OBVIOUS
<1> HIDE DEF vin, m, g
<1>4. f[0] = [coins |-> C, undo |-> <<>>] /\ \A i \in 1 .. m : f[i] = SpendInput(f[i - 1], vin[i])
  BY <1>1, SpendingStep DEF m
<1>5. \A i \in 0 .. m : f[i].coins \in CoinMap
  BY <1>1, SpendingCoins DEF m
<1>6. ASSUME NEW i \in 1 .. m
      PROVE  /\ vin[i].hash \in TxId /\ vin[i].n \in Place
             /\ f[i - 1].coins \in CoinMap /\ f[i - 1].coins[vin[i].hash] \in Coin
             /\ Val(f[i - 1].coins[vin[i].hash].vout, vin[i].n) # Spent
             /\ Val(f[i - 1].coins[vin[i].hash].vout, vin[i].n) = g[i]
  <2>1. /\ vin[i].hash \in TxId /\ vin[i].n \in Place
        /\ f[i - 1].coins[vin[i].hash] \in Coin
        /\ Val(f[i - 1].coins[vin[i].hash].vout, vin[i].n) # Spent
    BY <1>1, SpendingReady DEF m
  <2>2. i - 1 \in 0 .. m
    BY <1>1
  <2>3. Val(f[i - 1].coins[vin[i].hash].vout, vin[i].n) =
          IF Hit(vin, i - 1, vin[i].hash, vin[i].n) THEN Spent ELSE Val(C[vin[i].hash].vout, vin[i].n)
    BY <1>1, <2>1, <2>2, SpendingCoins DEF m
  <2>4. Val(C[vin[i].hash].vout, vin[i].n) = C[vin[i].hash].vout[vin[i].n]
    BY <2>1, <2>3 DEF Val
  <2> QED
    BY <1>3, <1>5, <2>1, <2>2, <2>3, <2>4
<1> HIDE DEF f
<1>7. 0 \in P
  <2>1. part(0) = 0
    <3>1. 1 .. 0 = {}
      OBVIOUS
    <3>2. SumFunctionOnSet(g, {}) = 0
      BY SumFirst, FS_EmptySet
    <3> QED
      BY <3>1, <3>2
  <2>2. f[0].coins = C
    BY <1>4
  <2>3. Total(C) \in Int
    BY TotalFacts
  <2> HIDE DEF part
  <2> QED
    BY <1>1, <2>1, <2>2, <2>3
<1>8. ASSUME NEW i \in Nat, i + 1 <= m, i \in P PROVE i + 1 \in P
  <2> DEFINE k == i + 1
             t == vin[k].hash
             n == vin[k].n
             D == f[i].coins
  <2>1. k \in 1 .. m /\ k - 1 = i /\ k \in 0 .. m
    BY <1>1, <1>8
  <2>2. t \in TxId /\ n \in Place /\ D \in CoinMap /\ D[t] \in Coin
        /\ Val(D[t].vout, n) # Spent /\ Val(D[t].vout, n) = g[k]
    BY <1>6, <2>1
  <2>a. f[k] = SpendInput(f[k - 1], vin[k])
    BY <1>4, <2>1
  <2>b. f[k] = SpendInput(f[i], vin[k])
    BY <2>1, <2>a
  <2>3. f[k].coins = [D EXCEPT ![t] = Spend(@, n)]
    BY <2>b DEF SpendInput
  <2> HIDE DEF k, t, n, D
  <2>4. Spend(D[t], n) \in Coin /\ Worth(Spend(D[t], n).vout) = Worth(D[t].vout) - g[k] /\ g[k] \in Nat
    BY <2>2, SpendFacts, WorthSpend
  <2>5. f[k].coins = [D EXCEPT ![t] = Spend(D[t], n)]
    BY <2>3
  <2>6. Total(f[k].coins) = Total(D) - Worth(D[t].vout) + Worth(Spend(D[t], n).vout)
        /\ Worth(D[t].vout) \in Nat
    BY <2>2, <2>4, <2>5, TotalExcept
  <2>7. part(k) = part(i) + g[k] /\ part(i) \in Int
    <3>1. ASSUME NEW j \in 1 .. i + 1 PROVE g[j] \in Int
      <4>1. j \in 1 .. m
        BY <1>1, <1>8
      <4>2. Val(f[j - 1].coins[vin[j].hash].vout, vin[j].n) \in Nat
        BY <1>6, <4>1, WorthSpend
      <4> QED
        BY <1>6, <4>1, <4>2
    <3> QED
      BY <3>1, SumTo DEF k
  <2>8. Total(D) = Total(C) - part(i) /\ Total(C) \in Int
    BY <1>8, TotalFacts DEF D
  <2> HIDE DEF part
  <2>9. Total(f[k].coins) = Total(C) - part(k) /\ part(k) \in Int
    BY <2>4, <2>6, <2>7, <2>8
  <2> QED
    BY <2>1, <2>9 DEF k
<1> HIDE DEF P
<1>9. m \in P
  <2>1. \A i \in 0 .. m : i \in P
    BY <1>1, <1>7, <1>8, InductTo
  <2> QED
    BY <1>1, <2>1
<1> QED
  BY <1>2, <1>9 DEF P, f, m, vin

\* The coins after a transaction are worth what goes out of it instead of what
\* goes in, or less.
LEMMA UpdateTotal ==
  ASSUME NEW C \in CoinMap, NEW tx \in Transactions, NEW h \in Nat, Ready(C, tx.vin)
  PROVE  /\ Total(UpdateCoins(C, tx, h).coins) <= Total(C) - GetValueIn(C, tx) + GetValueOut(tx)
         /\ GetValueIn(C, tx) \in Int /\ GetValueOut(tx) \in Nat
<1> DEFINE D == Spending(C, tx.vin)[Len(tx.vin)].coins
           c == CoinsOf(tx, h)
<1>1. tx.hash \in TxId /\ tx.vin \in Seq(OutPoints) /\ c \in Coin /\ c.vout = tx.vout
  BY TxFacts
<1>2. D \in CoinMap
  <2>1. Len(tx.vin) \in 0 .. Len(tx.vin)
    BY <1>1
  <2> QED
    BY <1>1, <2>1, SpendingCoins
<1>3. UpdateCoins(C, tx, h).coins = [D EXCEPT ![tx.hash] = c]
  BY UpdateCoinsFacts
<1>4. Total(D) = Total(C) - GetValueIn(C, tx) /\ GetValueIn(C, tx) \in Int
  BY SpendingTotal
<1>5. Total(C) \in Int
  BY TotalFacts
<1>6. Worth(c.vout) = GetValueOut(tx)
  BY <1>1, WorthNew
<1> HIDE DEF D, c
<1>7. /\ Total([D EXCEPT ![tx.hash] = c]) = Total(D) - Worth(D[tx.hash].vout) + Worth(c.vout)
      /\ Worth(D[tx.hash].vout) \in Nat /\ Worth(c.vout) \in Nat
  BY <1>1, <1>2, TotalExcept
<1> QED
  BY <1>3, <1>4, <1>5, <1>6, <1>7

\* Undoing a transaction with such undo data keeps fewer coins fewer.
LEMMA DisconnectTxWithin ==
  ASSUME NEW b \in Block \ {Genesis}, UndoFits(undo[b], Vtx[b]), Honest(undo[b], b),
         NEW i \in 1 .. Len(Vtx[b]), NEW s, s.coins \in CoinMap, s.clean \in BOOLEAN,
         Within(s.coins, Midway(b, i))
  PROVE  Within(DisconnectTx(s, b, i).coins, Midway(b, i - 1))
<1> DEFINE tx == Vtx[b][i]
           r == DisconnectTx(s, b, i)
<1>1. PICK C \in CoinMap : ConnectedOn(C, undo[b], b)
  BY DEF Honest
<1> DEFINE D == Connecting(C, Vtx[b], Height[b])[i - 1].coins
           M == Midway(b, i - 1)
<1>2. /\ tx \in Transactions /\ Height[b] \in Nat /\ D \in CoinMap /\ Ready(D, tx.vin)
      /\ Within(D, M) /\ M \in CoinMap /\ Midway(b, i) \in CoinMap
      /\ Same(UpdateCoins(M, tx, Height[b]).coins, Midway(b, i))
      /\ i # 1 => undo[b][i - 1] = UpdateCoins(D, tx, Height[b]).undo
  BY <1>1, ConnectedOnFacts
<1>3. \A t \in TxId, n \in Place : LET v == Val(r.coins[t].vout, n) IN
        v # Spent => \/ t # tx.hash /\ v = Val(s.coins[t].vout, n)
                     \/ i # 1 /\ PutBack(tx.vin, undo[b][i - 1], t, n, v)
  BY DisconnectTxFacts
<1> HIDE DEF tx, r, D, M
<1>4. ASSUME NEW t \in TxId, NEW n \in Place, Val(r.coins[t].vout, n) # Spent
      PROVE  Val(M[t].vout, n) = Val(r.coins[t].vout, n)
  <2> DEFINE v == Val(r.coins[t].vout, n)
  <2>1. CASE t # tx.hash /\ v = Val(s.coins[t].vout, n)
    <3>1. Val(Midway(b, i)[t].vout, n) = v /\ v # Spent
      BY <1>4, <2>1 DEF Within
    <3>2. UpdateCoins(M, tx, Height[b]).coins \in CoinMap
      BY <1>2, UpdateCoinsFacts
    <3>3. Within(Midway(b, i), UpdateCoins(M, tx, Height[b]).coins)
      BY <1>2, <3>2, WithinSame
    <3>4. Val(UpdateCoins(M, tx, Height[b]).coins[t].vout, n) = v
      BY <3>1, <3>3 DEF Within
    <3>5. Val(UpdateCoins(M, tx, Height[b]).coins[t].vout, n) =
            IF t = tx.hash THEN Val(tx.vout, n)
            ELSE IF Hit(tx.vin, Len(tx.vin), t, n) THEN Spent ELSE Val(M[t].vout, n)
      BY <1>2, UpdateValues
    <3> HIDE DEF v
    <3>6. Val(M[t].vout, n) = v
      BY <2>1, <3>1, <3>4, <3>5
    <3> QED
      BY <3>6 DEF v
  <2>2. CASE i # 1 /\ PutBack(tx.vin, undo[b][i - 1], t, n, v)
    <3>1. PutBack(tx.vin, UpdateCoins(D, tx, Height[b]).undo, t, n, v)
      BY <1>2, <2>2
    <3>2. v = Val(D[t].vout, n) /\ v # Spent
      <4> HIDE DEF v
      <4> QED
        BY <1>2, <3>1, UndoValues
    <3> QED
      BY <1>2, <3>2 DEF Within
  <2> QED
    BY <1>3, <1>4, <2>1, <2>2
<1> QED
  BY <1>4 DEF Within, r, M

\* DisconnectBlock with such undo data leaves coins within those of the chain
\* before the block.
LEMMA DisconnectedWithin ==
  ASSUME NEW b \in Block \ {Genesis}, UndoFits(undo[b], Vtx[b]), Honest(undo[b], b),
         NEW D \in CoinMap, Within(D, UnspentIn[b])
  PROVE  Within(Disconnected(D, b).coins, UnspentIn[Prev[b]])
<1> DEFINE m == Len(Vtx[b])
           f == Disconnecting(D, b)
           S == {k \in 0 .. m : Within(f[k].coins, Midway(b, m - k))}
<1>1. CheckBlock(Vtx[b]) /\ Height[b] \in Nat \ {0} /\ Prev[b] \in Node /\ b \in Node
  BY BlockFacts DEF Node
<1>a. m \in Nat
  BY <1>1, VtxFacts
<1>b. f[0] = [coins |-> D, clean |-> TRUE]
  BY <1>a, DisconnectingStep
<1>c. \A k \in 1 .. m : f[k] = DisconnectTx(f[k - 1], b, m + 1 - k)
  BY <1>a, DisconnectingStep, Zenon
<1>d. \A k \in 0 .. m : f[k].coins \in CoinMap /\ f[k].clean \in BOOLEAN
  BY DisconnectingCoins
<1>e. Midway(b, 0) = UnspentIn[Prev[b]]
  <2>1. After(History[Prev[b]], Vtx[b], Height[b], 0) = History[Prev[b]]
    BY <1>1, HistoryFacts, AfterFacts
  <2> QED
    BY <1>1, <2>1, UnspentInFacts DEF Midway
<1>f. Midway(b, m) = UnspentIn[b]
  BY <1>1, HistoryFacts, UnspentInFacts DEF Midway
<1> HIDE DEF f, m
<1>2. 0 \in S
  <2>1. f[0].coins = D /\ m - 0 = m /\ 0 \in 0 .. m
    BY <1>a, <1>b
  <2> QED
    BY <1>f, <2>1
<1>3. ASSUME NEW k \in Nat, k + 1 <= m, k \in S PROVE k + 1 \in S
  <2> DEFINE i == m + 1 - (k + 1)
  <2>0. k + 1 \in 1 .. m /\ k + 1 - 1 = k /\ k + 1 \in 0 .. m /\ i \in 1 .. m /\ k \in 0 .. m
        /\ m - k = i /\ m - (k + 1) = i - 1
    BY <1>3, <1>a
  <2>1. f[k + 1] = DisconnectTx(f[k], b, i)
    BY <2>0, <1>c
  <2>2. f[k].coins \in CoinMap /\ f[k].clean \in BOOLEAN /\ Within(f[k].coins, Midway(b, i))
    BY <1>3, <1>d, <2>0
  <2> HIDE DEF i
  <2>3. Within(f[k + 1].coins, Midway(b, i - 1))
    BY <2>0, <2>1, <2>2, DisconnectTxWithin DEF m
  <2> QED
    BY <2>0, <2>3
<1> HIDE DEF S
<1>4. m \in S
  <2>1. \A k \in 0 .. m : k \in S
    BY <1>a, <1>2, <1>3, InductTo
  <2> QED
    BY <1>a, <2>1
<1>5. m - m = 0
  BY <1>a
<1>6. Within(f[m].coins, Midway(b, 0))
  BY <1>4, <1>5 DEF S
<1> QED
  BY <1>6, <1>e DEF Disconnected, f, m

\* What a chain may create is what its parent may and the subsidy of its last block.
LEMMA SupplyDef ==
  Supply = [b \in Node |-> IF b = NULL THEN 0 ELSE Supply[Prev[b]] + (IF b = Genesis THEN 0 ELSE Subsidy[Height[b]])]
<1> DEFINE Step(p, b) == p + (IF b = Genesis THEN 0 ELSE Subsidy[Height[b]])
           Fits(g, D) == g = [b \in D |-> IF b = NULL THEN 0 ELSE Step(g[Prev[b]], b)]
           S == {n \in Nat : \E g : Fits(g, Below(n))}
<1> HIDE DEF Step
<1>0. ASSUME NEW b \in Block, NEW n \in Nat, b \in Below(n)
      PROVE  b # NULL /\ Prev[b] \in Below(n) /\ n # 0 /\ Prev[b] \in Below(n - 1)
  BY <1>0, HeightFacts DEF Below, Node, HeightOf
<1>a. \A n \in Nat : \A b \in Below(n) : b = NULL \/ b \in Block
  BY DEF Below, Node
<1>1. 0 \in S
  <2>1. Below(0) = {NULL}
    BY HeightFacts DEF Below, Node, HeightOf
  <2>2. Fits([b \in {NULL} |-> 0], {NULL})
    OBVIOUS
  <2> QED
    BY <2>1, <2>2
<1>2. ASSUME NEW n \in Nat, n \in S PROVE n + 1 \in S
  <2>1. PICK g : Fits(g, Below(n))
    BY <1>2
  <2>2. Below(n) \subseteq Below(n + 1)
    BY HeightFacts DEF Below, Node, HeightOf
  <2> DEFINE h == [b \in Below(n + 1) |-> IF b \in Below(n) THEN g[b] ELSE Step(g[Prev[b]], b)]
  <2>3. \A b \in Below(n) : h[b] = g[b]
    BY <2>2
  <2>4. ASSUME NEW b \in Below(n + 1)
        PROVE  h[b] = IF b = NULL THEN 0 ELSE Step(h[Prev[b]], b)
    <3>1. CASE b = NULL
      <4>1. b \in Below(n)
        BY <3>1 DEF Below, Node, HeightOf
      <4> QED
        BY <4>1, <3>1, <2>1, <2>3
    <3>2. CASE b # NULL
      <4>1. b \in Block /\ Prev[b] \in Below(n)
        <5>1. n + 1 \in Nat /\ n + 1 - 1 = n /\ b \in Block
          BY <3>2, <1>a
        <5> QED
          BY <5>1, <1>0
      <4>2. h[b] = Step(g[Prev[b]], b)
        BY <2>1, <2>3, <3>2
      <4> QED
        BY <4>1, <4>2, <2>3, <3>2
    <3> QED
      BY <3>1, <3>2
  <2>5. h = [b \in Below(n + 1) |-> h[b]]
    OBVIOUS
  <2> HIDE DEF h
  <2>6. Fits(h, Below(n + 1))
    BY <2>4, <2>5
  <2> QED
    BY <2>6
<1>3. \A n \in Nat : n \in S
  <2> HIDE DEF S
  <2> QED
    BY <1>1, <1>2, Induct
<1>4. ASSUME NEW m \in Nat, NEW g, NEW h, Fits(g, Below(m)), Fits(h, Below(m + 1))
      PROVE  \A b \in Below(m) : g[b] = h[b]
  <2> DEFINE T == {k \in Nat : \A b \in Below(m) \cap Below(k) : g[b] = h[b]}
  <2>0. Below(m) \subseteq Below(m + 1)
    BY HeightFacts DEF Below, Node, HeightOf
  <2>1. 0 \in T
    <3>1. \A b \in Below(0) : b = NULL
      BY HeightFacts DEF Below, Node, HeightOf
    <3> QED
      BY <3>1, <1>4, <2>0
  <2>2. ASSUME NEW k \in Nat, k \in T PROVE k + 1 \in T
    <3>1. ASSUME NEW b \in Below(m) \cap Below(k + 1) PROVE g[b] = h[b]
      <4>1. CASE b = NULL
        BY <4>1, <1>4, <2>0
      <4>2. CASE b # NULL
        <5>1. b \in Block
          BY <4>2, <1>a
        <5>2. Prev[b] \in Below(m)
          BY <5>1, <1>0
        <5>3. Prev[b] \in Below(k)
          <6>1. k + 1 \in Nat /\ k + 1 - 1 = k
            OBVIOUS
          <6> QED
            BY <6>1, <5>1, <1>0
        <5>4. g[Prev[b]] = h[Prev[b]]
          BY <5>2, <5>3, <2>2
        <5>5. g[b] = Step(g[Prev[b]], b) /\ h[b] = Step(h[Prev[b]], b)
          BY <4>2, <1>4, <2>0
        <5> QED
          BY <5>4, <5>5
      <4> QED
        BY <4>1, <4>2
    <3> QED
      BY <3>1
  <2> HIDE DEF T
  <2>3. m \in T
    BY <2>1, <2>2, Induct
  <2> QED
    BY <2>3 DEF T
<1> DEFINE G(n) == CHOOSE g : Fits(g, Below(n))
           F == [b \in Node |-> G(HeightOf(b) + 1)[b]]
<1>5. ASSUME NEW n \in Nat PROVE Fits(G(n), Below(n))
  <2>1. PICK g : Fits(g, Below(n))
    BY <1>3
  <2> QED
    BY <2>1, Zenon
<1> HIDE DEF G, S
<1>6. ASSUME NEW b \in Node
      PROVE  F[b] = IF b = NULL THEN 0 ELSE Step(F[Prev[b]], b)
  <2>1. F[b] = G(HeightOf(b) + 1)[b]
    OBVIOUS
  <2>2. CASE b = NULL
    <3>1. HeightOf(b) + 1 = 0 /\ b \in Below(0)
      BY <2>2 DEF HeightOf, Below, Node
    <3>2. Fits(G(0), Below(0))
      BY <1>5
    <3>3. G(0)[b] = 0
      BY <3>1, <3>2, <2>2
    <3>4. F[b] = G(0)[b]
      BY <2>1, <3>1, Zenon
    <3> QED
      BY <2>2, <3>3, <3>4
  <2>3. CASE b # NULL
    <3>1. b \in Block
      BY <2>3 DEF Node
    <3>2. /\ HeightOf(b) \in Nat /\ b \in Below(HeightOf(b) + 1)
          /\ Prev[b] \in Node /\ HeightOf(Prev[b]) + 1 = HeightOf(b)
      BY <3>1, HeightFacts DEF Below, Node, HeightOf
    <3>3. Prev[b] \in Below(HeightOf(b))
      <4>1. HeightOf(b) + 1 \in Nat /\ HeightOf(b) + 1 - 1 = HeightOf(b)
        BY <3>2
      <4> QED
        BY <4>1, <3>1, <3>2, <1>0
    <3>4. Fits(G(HeightOf(b)), Below(HeightOf(b))) /\ Fits(G(HeightOf(b) + 1), Below(HeightOf(b) + 1))
      BY <3>2, <1>5
    <3>5. G(HeightOf(b))[Prev[b]] = G(HeightOf(b) + 1)[Prev[b]]
      <4> HIDE DEF Fits
      <4> QED
        BY <3>2, <3>3, <3>4, <1>4
    <3>6. F[Prev[b]] = G(HeightOf(b))[Prev[b]]
      BY <3>2
    <3>7. G(HeightOf(b) + 1)[b] = Step(G(HeightOf(b) + 1)[Prev[b]], b)
      BY <3>2, <3>4, <2>3
    <3> QED
      BY <2>1, <2>3, <3>5, <3>6, <3>7
  <2> QED
    BY <2>2, <2>3
<1>7. F = [b \in Node |-> F[b]]
  OBVIOUS
<1> HIDE DEF F
<1>8. Fits(F, Node)
  BY <1>6, <1>7
<1>9. Supply = CHOOSE g : Fits(g, Node)
  BY DEF Supply, Node, Step
<1>10. Fits(Supply, Node)
  BY <1>8, <1>9, Zenon
<1> QED
  BY <1>10, Zenon DEF Step

\* A coinbase takes nothing in.
LEMMA CoinBaseIn ==
  ASSUME NEW C, NEW tx, IsCoinBase(tx)
  PROVE  GetValueIn(C, tx) = 0
<1> DEFINE g == [i \in 1 .. Len(tx.vin) |-> C[tx.vin[i].hash].vout[tx.vin[i].n]]
<1>1. 1 .. Len(tx.vin) = {}
  BY DEF IsCoinBase
<1>2. DOMAIN g = {}
  BY <1>1
<1>3. GetValueIn(C, tx) = SumFunction(g)
  BY Zenon DEF GetValueIn
<1>4. SumFunction(g) = SumFunctionOnSet(g, DOMAIN g)
  BY Zenon DEF SumFunction, SumFunctionOnSet, FoldFunction
<1> HIDE DEF g
<1>5. SumFunctionOnSet(g, {}) = 0
  BY SumFirst, FS_EmptySet
<1> QED
  BY <1>2, <1>3, <1>4, <1>5

\* A block that was connected on coins within those of its chain creates no
\* more than its subsidy.
LEMMA BlockSupply ==
  ASSUME NEW b \in Block \ {Genesis}, NEW u, Honest(u, b)
  PROVE  Total(UnspentIn[b]) <= Total(UnspentIn[Prev[b]]) + Subsidy[Height[b]]
<1>1. PICK C \in CoinMap : ConnectedOn(C, u, b)
  BY DEF Honest
<1> DEFINE h == Height[b]
           m == Len(Vtx[b])
           f == Connecting(C, Vtx[b], h)
           M(k) == Total(Midway(b, k))
           claim == GetValueOut(Vtx[b][1])
           S == {k \in 0 .. m : /\ f[k].nFees \in Nat
                                /\ M(k) <= M(0) + (IF k = 0 THEN 0 ELSE claim) - f[k].nFees}
<1>2. CheckBlock(Vtx[b]) /\ h \in Nat \ {0} /\ Prev[b] \in Node /\ b \in Node
  BY BlockFacts DEF Node
<1>3. m \in Nat \ {0} /\ Vtx[b][1] \in Transactions
  BY <1>2, VtxFacts
<1>4. f[0] = [ok |-> TRUE, coins |-> C, undo |-> <<>>, nFees |-> 0]
      /\ \A k \in 1 .. m : f[k] = ConnectTx(f[k - 1], Vtx[b][k], h)
  BY <1>3, ConnectingStep
<1>5. \A k \in 0 .. m : Shape(f[k]) /\ f[k].ok \in BOOLEAN
  BY <1>2, ConnectingCoins
<1>6. f[m].ok /\ claim <= GetBlockValue(h, f[m].nFees)
  BY <1>1, ConnectedFacts DEF ConnectedOn
<1>7. \A k \in 0 .. m : f[k].ok
  BY <1>2, <1>6, ConnectingOk
<1>8. ASSUME NEW i \in 1 .. m
      PROVE  /\ Vtx[b][i] \in Transactions /\ (IsCoinBase(Vtx[b][i]) <=> i = 1)
             /\ f[i - 1].coins \in CoinMap /\ Ready(f[i - 1].coins, Vtx[b][i].vin)
             /\ Within(f[i - 1].coins, Midway(b, i - 1))
             /\ Midway(b, i - 1) \in CoinMap /\ Midway(b, i) \in CoinMap
             /\ Same(UpdateCoins(Midway(b, i - 1), Vtx[b][i], h).coins, Midway(b, i))
  BY <1>1, ConnectedOnFacts
<1>9. Midway(b, 0) = UnspentIn[Prev[b]] /\ Midway(b, m) = UnspentIn[b]
  <2>1. After(History[Prev[b]], Vtx[b], h, 0) = History[Prev[b]]
    BY <1>2, HistoryFacts, AfterFacts
  <2> QED
    BY <1>2, <2>1, HistoryFacts, UnspentInFacts DEF Midway
<1>10. UnspentIn[Prev[b]] \in CoinMap /\ UnspentIn[b] \in CoinMap
  BY <1>2, UnspentInFacts
<1>11. M(0) \in Int /\ M(m) \in Int
  BY <1>9, <1>10, TotalFacts
<1>12. claim \in Nat
  <2>1. Worth(Vtx[b][1].vout) = claim
    BY <1>3, WorthNew
  <2>2. Vtx[b][1].vout \in Seq(Nat)
    BY <1>3, TxFacts
  <2>3. Vtx[b][1].vout \in Seq(Value)
    BY <2>2 DEF Value
  <2> QED
    BY <2>1, <2>3, WorthType
<1> HIDE DEF f, m, h, claim
<1>13. 0 \in S
  <2>1. f[0].nFees = 0 /\ 0 \in 0 .. m
    BY <1>3, <1>4
  <2> HIDE DEF M
  <2> QED
    BY <1>11, <2>1
<1>14. ASSUME NEW k \in Nat, k + 1 <= m, k \in S PROVE k + 1 \in S
  <2> DEFINE i == k + 1
             tx == Vtx[b][i]
             U == Midway(b, k)
             D == f[k].coins
  <2>0. i \in 1 .. m /\ i - 1 = k /\ i \in 0 .. m /\ k \in 0 .. m /\ i # 0
    BY <1>3, <1>14
  <2>1. /\ tx \in Transactions /\ (IsCoinBase(tx) <=> i = 1)
        /\ D \in CoinMap /\ Ready(D, tx.vin) /\ Within(D, U) /\ U \in CoinMap
        /\ Midway(b, i) \in CoinMap /\ Same(UpdateCoins(U, tx, h).coins, Midway(b, i))
    BY <1>8, <2>0
  <2>2. f[i] = ConnectTx(f[k], tx, h)
    BY <1>4, <2>0
  <2>3. Shape(f[k]) /\ f[k].ok \in BOOLEAN /\ f[k].ok /\ f[i].ok
    BY <1>5, <1>7, <2>0
  <2>4. IsCoinBase(tx) \/ CheckInputs(D, tx, h)
    BY <2>2, <2>3, ConnectTxFacts
  <2>5. f[i].nFees = IF ~IsCoinBase(tx) THEN f[k].nFees + GetValueIn(D, tx) - GetValueOut(tx)
                     ELSE f[k].nFees
    <3> DEFINE s == f[k]
    <3>1. Shape(s) /\ s.ok \in BOOLEAN /\ f[i] = ConnectTx(s, tx, h) /\ f[i].ok /\ D = s.coins
      BY <2>2, <2>3
    <3> HIDE DEF s, tx, i, D
    <3>2. ConnectTx(s, tx, h).nFees = IF ConnectTx(s, tx, h).ok /\ ~IsCoinBase(tx)
                                      THEN s.nFees + GetValueIn(s.coins, tx) - GetValueOut(tx)
                                      ELSE s.nFees
      BY <3>1, ConnectTxFacts, Zenon
    <3> QED
      BY <3>1, <3>2 DEF s
  <2>6. f[k].nFees \in Nat /\ M(k) <= M(0) + (IF k = 0 THEN 0 ELSE claim) - f[k].nFees
    BY <1>14
  <2>7. i = 1 => claim = GetValueOut(tx) /\ k = 0 /\ f[k].nFees = 0
    BY <1>4, <2>0 DEF claim
  <2>8. M(k) = Total(U)
    OBVIOUS
  <2>9. i # 0 /\ (i # 1 => k # 0)
    BY <2>0
  <2> HIDE DEF tx, U, D, i
  <2>10. Ready(U, tx.vin) /\ GetValueIn(D, tx) = GetValueIn(U, tx)
    BY <2>1, WithinReady
  <2>11. /\ Total(UpdateCoins(U, tx, h).coins) <= Total(U) - GetValueIn(U, tx) + GetValueOut(tx)
         /\ GetValueIn(U, tx) \in Int /\ GetValueOut(tx) \in Nat
    BY <1>2, <2>1, <2>10, UpdateTotal
  <2>12. UpdateCoins(U, tx, h).coins \in CoinMap
    BY <1>2, <2>1, UpdateCoinsFacts
  <2>13. M(i) <= Total(UpdateCoins(U, tx, h).coins)
    BY <2>1, <2>12, WithinSame, TotalMono
  <2>14. Total(UpdateCoins(U, tx, h).coins) \in Int /\ Total(U) \in Int /\ M(i) \in Int
    BY <2>1, <2>12, TotalFacts
  <2>15. i # 1 => GetValueIn(D, tx) >= GetValueOut(tx)
    BY <2>1, <2>4 DEF CheckInputs
  <2>16. i = 1 => GetValueIn(U, tx) = 0
    BY <2>1, CoinBaseIn
  <2> HIDE DEF M
  <2>17. CASE i = 1
    <3>1. M(i) <= M(0) + claim - f[i].nFees /\ f[i].nFees = 0
      BY <1>11, <1>12, <2>1, <2>5, <2>6, <2>7, <2>8, <2>11, <2>13, <2>14, <2>16, <2>17
    <3> QED
      BY <2>0, <2>9, <3>1 DEF i
  <2>18. CASE i # 1
    <3>1. f[i].nFees = f[k].nFees + GetValueIn(U, tx) - GetValueOut(tx) /\ f[i].nFees \in Nat
      BY <2>1, <2>5, <2>6, <2>10, <2>11, <2>15, <2>18
    <3>2. M(i) <= M(0) + claim - f[i].nFees
      BY <1>11, <1>12, <2>6, <2>8, <2>9, <2>11, <2>13, <2>14, <2>18, <3>1
    <3> QED
      BY <2>0, <2>9, <3>1, <3>2 DEF i
  <2> QED
    BY <2>17, <2>18
<1> HIDE DEF S
<1>15. m \in S
  <2>1. m \in Nat
    BY <1>3
  <2>2. \A k \in 0 .. m : k \in S
    BY <2>1, <1>13, <1>14, InductTo
  <2> QED
    BY <2>1, <2>2
<1>16. f[m].nFees \in Nat /\ M(m) <= M(0) + claim - f[m].nFees
  BY <1>3, <1>15 DEF S
<1>17. Subsidy[h] \in Nat
  BY MoneyAssumption DEF h
<1>18. claim <= Subsidy[h] + (IF h < FirstFeeHeight THEN 0 ELSE f[m].nFees)
  BY <1>6 DEF GetBlockValue
<1> HIDE DEF M
<1>19. M(m) <= M(0) + Subsidy[h]
  BY <1>11, <1>12, <1>16, <1>17, <1>18
<1> QED
  BY <1>9, <1>19 DEF M, h

\* The coins of such a chain are covered by its subsidies.
LEMMA ChainSupply == \A b \in Node : Backed(b) => Total(UnspentIn[b]) <= Supply[b] /\ Supply[b] \in Int
<1> DEFINE S == {b \in Node : Backed(b) => Total(UnspentIn[b]) <= Supply[b] /\ Supply[b] \in Int}
<1>1. Total(UnspentIn[NULL]) = 0
  <2> DEFINE C == UnspentIn[NULL]
             a == [t \in TxId |-> Worth(C[t].vout)]
  <2>1. C \in CoinMap /\ \A t \in TxId : C[t] = NoCoins
    BY UnspentInFacts DEF Node
  <2> HIDE DEF C
  <2>2. Total(C) = SumFunctionOnSet(a, TxId) /\ \A t \in TxId : a[t] = Worth(C[t].vout)
    BY <2>1, TotalFacts
  <2> HIDE DEF a
  <2>3. \A t \in TxId : a[t] = 0
    BY <2>1, <2>2, NoCoinsFacts, WorthType
  <2>4. IsFiniteSet(TxId) /\ {} \subseteq TxId /\ (\A t \in TxId : a[t] \in Int) /\ \A t \in TxId \ {} : a[t] = 0
    BY <2>3, MoneyAssumption
  <2>5. SumFunctionOnSet(a, TxId) = SumFunctionOnSet(a, {})
    BY <2>4, SumPad
  <2>6. SumFunctionOnSet(a, {}) = 0
    BY SumFirst, FS_EmptySet
  <2> QED
    BY <2>2, <2>5, <2>6 DEF C
<1>2. Supply[NULL] = 0
  BY SupplyDef DEF Node
<1>3. NULL \in S
  BY <1>1, <1>2 DEF Node
<1>4. ASSUME NEW b \in Block, Prev[b] \in S PROVE b \in S
  <2>1. b \in Node /\ b # NULL /\ Prev[b] \in Node
    BY HeightFacts DEF Node
  <2>2. Supply[b] = Supply[Prev[b]] + (IF b = Genesis THEN 0 ELSE Subsidy[Height[b]])
    BY <2>1, SupplyDef
  <2>3. SUFFICES ASSUME Backed(b) PROVE Total(UnspentIn[b]) <= Supply[b] /\ Supply[b] \in Int
    BY <2>1
  <2>4. Total(UnspentIn[Prev[b]]) <= Supply[Prev[b]] /\ Supply[Prev[b]] \in Int
    BY <1>4, <2>3, BackedPrev
  <2>5. Total(UnspentIn[Prev[b]]) \in Int /\ Total(UnspentIn[b]) \in Int
    BY <2>1, UnspentInFacts, TotalFacts
  <2>6. CASE b = Genesis
    <3>1. UnspentIn[b] = UnspentIn[Prev[b]]
      BY <2>6, UnspentInFacts, TreeAssumption
    <3> QED
      BY <2>2, <2>4, <2>5, <2>6, <3>1
  <2>7. CASE b # Genesis
    <3>1. Total(UnspentIn[b]) <= Total(UnspentIn[Prev[b]]) + Subsidy[Height[b]]
      BY <2>3, <2>7, BackedPrev, BlockSupply
    <3>2. Subsidy[Height[b]] \in Nat
      BY <2>7, MoneyAssumption
    <3> QED
      BY <2>2, <2>4, <2>5, <2>7, <3>1, <3>2
  <2> QED
    BY <2>6, <2>7
<1> HIDE DEF S
<1>5. \A b \in Node : b \in S
  BY <1>3, <1>4, TreeInduct
<1> QED
  BY <1>5 DEF S

-----------------------------------------------------------------------------
(***************************************************************************)
(* No value comes from nowhere                                             *)
(***************************************************************************)

\* Undo data comes from a block that found its coins, and every layer, also
\* after coins were overwritten, is within the coins of its chain.
HonestUndo == \A b \in Block : undo[b] # NoUndo => Honest(undo[b], b)
Covers(layer) == Within(layer[1], UnspentIn[layer[2]])
MoneyInv == HonestUndo /\ Covers(DiskLayer) /\ Covers(TipLayer) /\ Covers(ViewLayer)

\* It holds before the first block.
LEMMA MoneyInitial == Init => MoneyInv
<1> SUFFICES ASSUME Init PROVE MoneyInv
  OBVIOUS
<1>1. /\ db = Cache!Empty /\ tip = Cache!Empty /\ view = Cache!Empty
      /\ dbBest = NULL /\ tipBest = NULL /\ viewBest = NULL /\ undo = [b \in Block |-> NoUndo]
  BY DEF Init, Cache!Empty
<1>2. Cache!Empty \in CacheMap
  BY DEF Cache!Empty, CacheMap
<1>3. Cache!TipCoins = Cache!Empty
  BY <1>1, <1>2, LayerTypes DEF Cache!TipCoins
<1>4. Cache!ViewCoins = Cache!Empty
  BY <1>1, <1>2, <1>3, LayerTypes DEF Cache!ViewCoins
<1>5. Cache!TipBestBlock = NULL /\ Cache!ViewBestBlock = NULL
  BY <1>1 DEF Cache!TipBestBlock, Cache!ViewBestBlock, Cache!GetBestBlock
<1>6. Within(Complete(Cache!Empty), UnspentIn[NULL])
  <2>1. Same(Complete(Cache!Empty), UnspentIn[NULL])
    BY UnspentInFacts DEF Same, Like, Complete, Cache!Empty
  <2>2. Complete(Cache!Empty) \in CoinMap /\ UnspentIn[NULL] \in CoinMap
    BY <1>2, LayerTypes, UnspentInFacts DEF Node
  <2> QED
    BY <2>1, <2>2, WithinSame
<1>7. Covers(DiskLayer) /\ Covers(TipLayer) /\ Covers(ViewLayer)
  BY <1>1, <1>3, <1>4, <1>5, <1>6 DEF Covers, DiskLayer, TipLayer, ViewLayer, ViewNow
<1> QED
  BY <1>1, <1>7 DEF MoneyInv, HonestUndo

\* Steps that only move coins between the layers.
LEMMA MoneyMove ==
  ASSUME MoneyInv, undo' = undo, DiskLayer' = DiskLayer,
         TipLayer' \in {DiskLayer, TipLayer, ViewLayer},
         ViewLayer' \in {DiskLayer, TipLayer, ViewLayer}
  PROVE  MoneyInv'
<1>1. HonestUndo'
  BY DEF MoneyInv, HonestUndo
<1>2. Covers(DiskLayer') /\ Covers(TipLayer') /\ Covers(ViewLayer')
  BY DEF MoneyInv
<1> QED
  BY <1>1, <1>2 DEF MoneyInv

\* Steps that write the coins of a layer to disk.
LEMMA MoneyWrite ==
  ASSUME MoneyInv, CoinsType', undo' = undo, TipLayer' = DiskLayer', ViewLayer' = DiskLayer',
         NEW C \in CoinMap, NEW b, Within(C, UnspentIn[b]), Same(Complete(db'), C), dbBest' = b
  PROVE  MoneyInv'
<1>1. HonestUndo'
  BY DEF MoneyInv, HonestUndo
<1>2. Complete(db') \in CoinMap
  BY LayerTypes DEF CoinsType
<1>3. Within(Complete(db'), UnspentIn[b])
  <2>1. Within(Complete(db'), C)
    BY <1>2, WithinSame
  <2> QED
    BY <2>1, WithinTrans
<1>4. Covers(DiskLayer')
  BY <1>3 DEF Covers, DiskLayer
<1> QED
  BY <1>1, <1>4 DEF MoneyInv

\* ConnectBlock keeps it, whatever was overwritten.
LEMMA MoneyConnect ==
  ASSUME CoinsInv, MoneyInv, NEW b \in Block, ConnectBlock(b)
  PROVE  MoneyInv'
<1> DEFINE C == ViewNow
           r == Connected(C, b)
<1>1. Connects(b) /\ pindexNew # NULL /\ C \in CoinMap
  BY ConnectsFacts DEF ConnectBlock
<1>2. /\ r.ok /\ view' = ViewWith(r.coins) /\ viewBest' = b
      /\ undo' = IF undo[b] = NoUndo /\ b # Genesis THEN [undo EXCEPT ![b] = r.undo] ELSE undo
      /\ UNCHANGED <<db, dbBest, tip, tipBest, open, failed, pindexNew>>
  BY DEF ConnectBlock
<1>3. CoinsType /\ ViewInv /\ undo \in [Block -> Seq(Seq(Undo)) \cup {NoUndo}]
  BY DEF CoinsInv, CoinsType, UndoMap
<1>4. Within(C, UnspentIn[Prev[b]])
  <2>1. Cache!ViewBestBlock = Prev[b]
    BY <1>1, <1>3, ViewBestFacts DEF Connects
  <2>2. Covers(ViewLayer)
    BY DEF MoneyInv
  <2> QED
    BY <2>1, <2>2 DEF Covers, ViewLayer
<1> HIDE DEF C
<1>5. r.coins \in CoinMap /\ (b # Genesis => r.undo \in Seq(Seq(Undo)))
  BY <1>1, <1>2, ConnectedFacts, ConnectedUndo
<1>6. ConnectedOn(C, r.undo, b)
  BY <1>1, <1>2, <1>4 DEF ConnectedOn
<1>7. Within(r.coins, UnspentIn[b])
  BY <1>1, <1>2, <1>4, ConnectedWithin
<1> HIDE DEF r
<1>8. Honest(r.undo, b)
  BY <1>1, <1>6 DEF Honest
<1>9. undo' \in UndoMap
  BY <1>2, <1>3, <1>5 DEF UndoMap
<1>10. DiskLayer' = DiskLayer /\ TipLayer' = TipLayer /\ ViewLayer' = <<r.coins, b>>
  BY <1>1, <1>2, <1>3, <1>5, <1>9, ViewStep
<1>11. \A a \in Block : undo'[a] # NoUndo => undo'[a] = undo[a] \/ (a = b /\ undo'[a] = r.undo)
  BY <1>2, <1>3
<1>12. HonestUndo'
  <2>1. ASSUME NEW a \in Block, undo'[a] # NoUndo PROVE Honest(undo'[a], a)
    <3>1. CASE undo'[a] = undo[a]
      BY <2>1, <3>1 DEF MoneyInv, HonestUndo
    <3>2. CASE a = b /\ undo'[a] = r.undo
      BY <3>2, <1>8
    <3> QED
      BY <1>11, <2>1, <3>1, <3>2
  <2> QED
    BY <2>1 DEF HonestUndo
<1>13. Covers(DiskLayer') /\ Covers(TipLayer') /\ Covers(ViewLayer')
  <2>1. Covers(<<r.coins, b>>)
    BY <1>7 DEF Covers
  <2> QED
    BY <1>10, <2>1 DEF MoneyInv
<1> QED
  BY <1>12, <1>13 DEF MoneyInv

\* So does DisconnectBlock, although it cannot bring overwritten coins back.
LEMMA MoneyDisconnect ==
  ASSUME CoinsInv, MoneyInv, DisconnectBlock
  PROVE  MoneyInv'
<1> DEFINE C == ViewNow
           b == viewBest
           r == Disconnected(C, b)
<1>1. b \in Block \ {Genesis} /\ pindexNew # NULL /\ C \in CoinMap /\ Good(undo, C, b)
  BY DisconnectsFacts DEF DisconnectBlock
<1>2. /\ view' = ViewWith(r.coins) /\ viewBest' = Prev[b] /\ undo' = undo
      /\ UNCHANGED <<db, dbBest, tip, tipBest, open, failed, pindexNew>>
  BY DEF DisconnectBlock
<1>3. CoinsType /\ ViewInv /\ UndoInv /\ VerdictInv /\ undo \in UndoMap
  BY DEF CoinsInv, CoinsType
<1>4. Within(C, UnspentIn[b])
  <2>1. Cache!ViewBestBlock = b
    BY <1>1, <1>3, ViewBestFacts
  <2>2. Covers(ViewLayer)
    BY DEF MoneyInv
  <2> QED
    BY <2>1, <2>2 DEF Covers, ViewLayer
<1>5. b \in Chain(b)
  BY <1>1, ChainClosed
<1> HIDE DEF C, b
<1>6. undo[b] # NoUndo
  BY <1>1, <1>5 DEF Good, Kept
<1>7. Honest(undo[b], b) /\ UndoFits(undo[b], Vtx[b])
  BY <1>1, <1>3, <1>6 DEF MoneyInv, HonestUndo, UndoInv
<1>8. r.coins \in CoinMap
  BY <1>1, <1>3, GoodDisconnect
<1>9. Within(r.coins, UnspentIn[Prev[b]])
  BY <1>1, <1>4, <1>7, DisconnectedWithin
<1>10. Prev[b] \in Block /\ undo' \in UndoMap
  BY <1>1, <1>2, <1>3, BlockFacts
<1> HIDE DEF r
<1>11. DiskLayer' = DiskLayer /\ TipLayer' = TipLayer /\ ViewLayer' = <<r.coins, Prev[b]>>
  BY <1>1, <1>2, <1>3, <1>8, <1>10, ViewStep
<1>12. Covers(DiskLayer') /\ Covers(TipLayer') /\ Covers(ViewLayer')
  <2>1. Covers(<<r.coins, Prev[b]>>)
    BY <1>9 DEF Covers
  <2> QED
    BY <1>11, <2>1 DEF MoneyInv
<1>13. HonestUndo'
  BY <1>2 DEF MoneyInv, HonestUndo
<1> QED
  BY <1>12, <1>13 DEF MoneyInv

\* Every step keeps it.
LEMMA MoneyStep == CoinsInv /\ MoneyInv /\ [Next]_vars => MoneyInv'
<1> SUFFICES ASSUME CoinsInv, MoneyInv, [Next]_vars PROVE MoneyInv'
  OBVIOUS
<1>0. CoinsType /\ ViewInv /\ failed \subseteq Block
  BY DEF CoinsInv, CoinsType
<1>1. ASSUME NEW b \in Block, SetBestChain(b) PROVE MoneyInv'
  <2>1. undo' = undo
    BY <1>1 DEF SetBestChain
  <2> QED
    BY <1>0, <1>1, <2>1, NewViewStep, MoneyMove
<1>2. ASSUME NEW b \in Block, ConnectBlock(b) PROVE MoneyInv'
  BY <1>2, MoneyConnect
<1>3. ASSUME NEW b \in Block, ConnectBlockInvalid(b) PROVE MoneyInv'
  <2>1. undo' = undo /\ failed' \subseteq Block /\ SetBestChainFails
    BY <1>0, <1>3 DEF ConnectBlockInvalid
  <2> QED
    BY <1>0, <2>1, DropStep, MoneyMove
<1>4. CASE DisconnectBlock
  BY <1>4, MoneyDisconnect
<1>5. CASE DisconnectBlockFails
  <2>1. undo' = undo /\ failed' = failed /\ SetBestChainFails
    BY <1>5 DEF DisconnectBlockFails
  <2> QED
    BY <1>0, <2>1, DropStep, MoneyMove
<1>6. CASE SwitchTip
  <2>1. undo' = undo
    BY <1>6 DEF SwitchTip
  <2>2. CASE Cache!FlushView
    BY <1>0, <1>6, <2>1, <2>2, FlushViewStep, MoneyMove
  <2>3. CASE FlushBoth
    <3>1. Within(ViewNow, UnspentIn[Cache!ViewBestBlock]) /\ ViewNow \in CoinMap
      BY <1>0, LayerFacts DEF MoneyInv, Covers, ViewLayer
    <3> QED
      BY <1>0, <1>6, <2>1, <2>3, <3>1, FlushBothStep, MoneyWrite
  <2> QED
    BY <1>6, <2>2, <2>3 DEF SwitchTip
<1>7. CASE Shutdown
  <2>1. undo' = undo
    BY <1>7 DEF Shutdown
  <2>2. Within(Complete(Cache!TipCoins), UnspentIn[Cache!TipBestBlock]) /\ Complete(Cache!TipCoins) \in CoinMap
    BY <1>0, LayerFacts DEF MoneyInv, Covers, TipLayer
  <2> QED
    BY <1>0, <1>7, <2>1, <2>2, ShutdownStep, MoneyWrite
<1>8. CASE Crash
  <2>1. undo' = undo
    BY <1>8 DEF Crash
  <2> QED
    BY <1>0, <1>8, <2>1, CrashStep, MoneyMove
<1>9. CASE UNCHANGED vars
  <2>1. /\ db' = db /\ dbBest' = dbBest /\ tip' = tip /\ tipBest' = tipBest /\ view' = view
        /\ viewBest' = viewBest /\ undo' = undo
    BY <1>9 DEF vars, cache
  <2>2. Cache!TipCoins' = Cache!TipCoins
    BY <2>1 DEF Cache!TipCoins
  <2>3. Cache!ViewCoins' = Cache!ViewCoins
    BY <2>1, <2>2 DEF Cache!ViewCoins
  <2>4. Cache!TipBestBlock' = Cache!TipBestBlock /\ Cache!ViewBestBlock' = Cache!ViewBestBlock
    BY <2>1 DEF Cache!TipBestBlock, Cache!ViewBestBlock
  <2>5. DiskLayer' = DiskLayer /\ TipLayer' = TipLayer /\ ViewLayer' = ViewLayer
    BY <2>1, <2>2, <2>3, <2>4 DEF DiskLayer, TipLayer, ViewLayer, ViewNow
  <2> QED
    BY <2>1, <2>5, MoneyMove
<1> QED
  BY <1>1, <1>2, <1>3, <1>4, <1>5, <1>6, <1>7, <1>8, <1>9 DEF Next

\* A chain whose history is covered spends nothing twice.
LEMMA CoveredSpendsOnce ==
  ASSUME NEW b \in Node, Covered(History[b])
  PROVE  b \in SpendsOnce
<1> DEFINE H == History[b]
<1>1. H \in Seq(Event) /\ Covered(H)
  BY HistoryFacts
<1> HIDE DEF H
<1>2. \A j, k \in 1 .. Len(H) : j < k =>
        \A i \in 1 .. Len(H[j].tx.vin) :
          Spends(H[k].tx, H[j].tx.vin[i].hash, H[j].tx.vin[i].n) =>
            \E m \in j + 1 .. k - 1 : H[m].tx.hash = H[j].tx.vin[i].hash
  BY <1>1, CoveredOnce
<1> QED
  BY <1>2, Zenon DEF SpendsOnce, H, Node

\* No output is spent twice in the best chain, and the coins in memory are
\* never worth more than the subsidies of its blocks, through every
\* reorganisation, flush, failure and crash, and also after a block was
\* connected that overwrites the coins of an older transaction.
THEOREM NoInflationCorrect == Spec => []NoInflation
<1>1. CoinsInv /\ MoneyInv => NoInflation
  <2> SUFFICES ASSUME CoinsInv, MoneyInv PROVE NoInflation
    OBVIOUS
  <2> DEFINE b == Cache!TipBestBlock
             C == Complete(Cache!TipCoins)
  <2>1. b \in Node /\ C \in CoinMap
    BY LayerFacts DEF CoinsInv
  <2>2. Within(C, UnspentIn[b])
    BY DEF MoneyInv, Covers, TipLayer
  <2>3. Kept(undo, b)
    BY DEF CoinsInv, LayerInv, OnLayer, TipLayer, Good
  <2>4. NoDoubleSpend <=> b \in SpendsOnce
    BY DEF NoDoubleSpend
  <2>5. MoneySupply <=> Total(C) <= Supply[b]
    BY DEF MoneySupply
  <2> HIDE DEF b, C
  <2>6. Backed(b)
    <3>1. ASSUME NEW a \in Chain(b) \ {Genesis} PROVE \E u : Honest(u, a)
      <4>1. undo[a] # NoUndo /\ a \in Block
        BY <2>1, <2>3, ChainBlocks DEF Kept
      <4>2. Honest(undo[a], a)
        BY <4>1 DEF MoneyInv, HonestUndo
      <4> QED
        BY <4>2
    <3> QED
      BY <3>1 DEF Backed
  <2>7. b \in SpendsOnce
    BY <2>1, <2>6, ChainCovered, CoveredSpendsOnce
  <2>8. Total(C) <= Supply[b]
    <3>1. Total(UnspentIn[b]) <= Supply[b] /\ Supply[b] \in Int
      BY <2>1, <2>6, ChainSupply
    <3>2. UnspentIn[b] \in CoinMap
      BY <2>1, UnspentInFacts
    <3>3. Total(C) <= Total(UnspentIn[b])
      BY <2>1, <2>2, <3>2, TotalMono
    <3>4. Total(C) \in Int /\ Total(UnspentIn[b]) \in Int
      BY <2>1, <3>2, TotalFacts
    <3> QED
      BY <3>1, <3>3, <3>4
  <2> QED
    BY <2>4, <2>5, <2>7, <2>8 DEF NoInflation
<1> QED
  BY <1>1, MoneyInitial, MoneyStep, CoinsInvariant, PTL DEF Spec

=============================================================================

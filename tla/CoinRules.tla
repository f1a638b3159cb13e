------------------------------ MODULE CoinRules ------------------------------
(***************************************************************************)
(* The rules for coins (main.h, main.cpp) as operators on complete sets of *)
(* coins: CCoins and CTxInUndo, CheckInputs, UpdateCoins, ConnectBlock and *)
(* the restoring half of DisconnectBlock, and, as a reference, the coins   *)
(* of a chain defined from its transactions alone.                         *)
(*                                                                         *)
(* A transaction is a record: its hash, the outpoints it spends (none for  *)
(* a coinbase) and the values of its outputs.  Outputs are numbered from   *)
(* 1; a script is good or bad as a whole (BadScript).  Sizes, signature    *)
(* operations and transaction versions are left out.                       *)
(***************************************************************************)
EXTENDS Integers, Sequences, SequencesExt, FiniteSetsExt, Functions

CONSTANTS
    TxId,               \* transaction hashes
    Block, Genesis,     \* blocks
    Prev, Height,       \* CBlockIndex::pprev, nHeight
    Vtx,                \* CBlock::vtx
    BadScript,          \* transactions with a script that does not verify
    COINBASE_MATURITY,
    MAX_MONEY,
    Subsidy,            \* GetBlockValue without fees, by height
    FirstFeeHeight,     \* height from which the coinbase may claim fees
    NULL

\* The blocks are a tree with the genesis block at its root.
ASSUME TreeAssumption ==
    /\ NULL \notin Block /\ Genesis \in Block
    /\ Prev[Genesis] = NULL /\ Height[Genesis] = 0
    /\ \A b \in Block \ {Genesis} :
         Prev[b] \in Block /\ Height[b] \in Nat /\ Height[b] = Height[Prev[b]] + 1

IsCoinBase(tx) == tx.vin = <<>>
MoneyRange(v) == v \in 0 .. MAX_MONEY
GetValueOut(tx) == SumFunction(tx.vout)

\* Some outputs, none of a negative value and all together within the range of
\* money, and no input twice.
CheckTransaction(tx) ==
    /\ tx \in [hash : TxId, vin : Seq([hash : TxId, n : Nat \ {0}]), vout : Seq(Nat)]
    /\ tx.vout # <<>> /\ MoneyRange(GetValueOut(tx))
    /\ \A i, j \in 1 .. Len(tx.vin) : i # j => tx.vin[i] # tx.vin[j]

\* The first transaction is the coinbase and no other, and no hash comes twice.
CheckBlock(vtx) ==
    /\ Len(vtx) \in Nat \ {0} /\ DOMAIN vtx = 1 .. Len(vtx)
    /\ \A i \in 1 .. Len(vtx) : CheckTransaction(vtx[i]) /\ (IsCoinBase(vtx[i]) <=> i = 1)
    /\ \A i, j \in 1 .. Len(vtx) : i # j => vtx[i].hash # vtx[j].hash

\* A block comes into the index after CheckBlock.
ASSUME VtxAssumption == \A b \in Block \ {Genesis} : CheckBlock(Vtx[b])

\* The hash of a transaction covers its inputs, so that none of them can name it.
ASSUME HashAssumption ==
    \A b \in Block \ {Genesis} : \A i \in 1 .. Len(Vtx[b]) :
        \A j \in 1 .. Len(Vtx[b][i].vin) : Vtx[b][i].vin[j].hash # Vtx[b][i].hash

\* A spent output is one with nValue = -1.
Spent == -1
CoinsSet == [fCoinBase : BOOLEAN, nHeight : Nat, vout : Seq(Nat \cup {Spent})]

-----------------------------------------------------------------------------
(***************************************************************************)
(* CCoins and CTxInUndo                                                    *)
(***************************************************************************)

\* The constructors.
CoinsOf(tx, nHeight) == [fCoinBase |-> IsCoinBase(tx), nHeight |-> nHeight, vout |-> tx.vout]
NoCoins == [fCoinBase |-> FALSE, nHeight |-> 0, vout |-> <<>>]

\* Spent outputs at the end are dropped.
Cleanup(vout) == SubSeq(vout, 1, Max({0} \cup {i \in 1 .. Len(vout) : vout[i] # Spent}))

IsAvailable(c, n) == n <= Len(c.vout) /\ c.vout[n] # Spent
IsPruned(c) == \A i \in 1 .. Len(c.vout) : c.vout[i] = Spent

\* Fault: a copy of the coins is changed.
SpendOnCopy(c, n) == c

\* CCoins::Spend: the coins without output n, and the data to undo it.
Spend(c, n) == [c EXCEPT !.vout = Cleanup([@ EXCEPT ![n] = Spent])]

\* Fault: the metadata is never recorded.
UndoWithoutHeight(c, n) == [txout |-> c.vout[n], nHeight |-> 0, fCoinBase |-> FALSE]

SpendUndo(c, n) ==
    IF Spend(c, n).vout = <<>>
    THEN [txout |-> c.vout[n], nHeight |-> c.nHeight, fCoinBase |-> c.fCoinBase]
    ELSE [txout |-> c.vout[n], nHeight |-> 0, fCoinBase |-> FALSE]

\* DisconnectBlock's way of putting output n back.
Restore(c, n, u) ==
    LET d == IF u.nHeight = 0 THEN c
             ELSE [fCoinBase |-> u.fCoinBase, nHeight |-> u.nHeight, vout |-> <<>>]
    IN  [d EXCEPT !.vout = [i \in 1 .. Max({n, Len(@)}) |->
                              IF i = n THEN u.txout
                              ELSE IF i <= Len(@) THEN @[i] ELSE Spent]]

\* What DisconnectBlock expects of the coins it puts an output back into.
RestoresCleanly(c, n, u) ==
    /\ IsPruned(c) <=> u.nHeight # 0
    /\ u.nHeight = 0 => ~IsAvailable(c, n)

-----------------------------------------------------------------------------
(***************************************************************************)
(* CheckInputs, UpdateCoins and ConnectBlock on complete coins C           *)
(***************************************************************************)

GetValueIn(C, tx) == SumFunction([i \in 1 .. Len(tx.vin) |-> C[tx.vin[i].hash].vout[tx.vin[i].n]])

HaveInputs(C, tx) == \A i \in 1 .. Len(tx.vin) : IsAvailable(C[tx.vin[i].hash], tx.vin[i].n)

CheckInputs(C, tx, nSpendHeight) ==
    /\ HaveInputs(C, tx)
    /\ \A i \in 1 .. Len(tx.vin) : LET c == C[tx.vin[i].hash] IN
         c.fCoinBase => nSpendHeight - c.nHeight >= COINBASE_MATURITY
    /\ \A i \in 1 .. Len(tx.vin) : MoneyRange(C[tx.vin[i].hash].vout[tx.vin[i].n])
    /\ MoneyRange(GetValueIn(C, tx))
    /\ GetValueIn(C, tx) >= GetValueOut(tx)
    /\ tx.hash \notin BadScript

SpendInput(s, in) ==
    [coins |-> [s.coins EXCEPT ![in.hash] = Spend(@, in.n)],
     undo  |-> Append(s.undo, SpendUndo(s.coins[in.hash], in.n))]

\* The coins and the undo data after the first i inputs.
Spending(C, vin) ==
    LET s[i \in 0 .. Len(vin)] == IF i = 0 THEN [coins |-> C, undo |-> <<>>]
                                  ELSE SpendInput(s[i - 1], vin[i])
    IN  s

\* Mark the inputs spent, collect the undo data, add the outputs.
UpdateCoins(C, tx, nHeight) ==
    LET s == Spending(C, tx.vin)[Len(tx.vin)]
    IN  [s EXCEPT !.coins[tx.hash] = CoinsOf(tx, nHeight)]

GetBlockValue(nHeight, nFees) ==
    Subsidy[nHeight] + (IF nHeight < FirstFeeHeight THEN 0 ELSE nFees)

\* One transaction of ConnectBlock.
ConnectTx(s, tx, nHeight) ==
    IF ~s.ok THEN s
    ELSE IF IsCoinBase(tx)
    THEN [s EXCEPT !.coins = UpdateCoins(@, tx, nHeight).coins]
    ELSE IF ~CheckInputs(s.coins, tx, nHeight) THEN [s EXCEPT !.ok = FALSE]
    ELSE LET r == UpdateCoins(s.coins, tx, nHeight)
         IN  [ok |-> TRUE, coins |-> r.coins, undo |-> Append(s.undo, r.undo),
              nFees |-> s.nFees + GetValueIn(s.coins, tx) - GetValueOut(tx)]

\* The state of ConnectBlock after the first k transactions.
Connecting(C, vtx, nHeight) ==
    LET s[k \in 0 .. Len(vtx)] ==
          IF k = 0 THEN [ok |-> TRUE, coins |-> C, undo |-> <<>>, nFees |-> 0]
          ELSE ConnectTx(s[k - 1], vtx[k], nHeight)
    IN  s

\* The block's transactions one after the other, then the coinbase's claim.
\* fEnforceBIP30 is false for a block that is in the index.  The transactions
\* of the genesis block are skipped.
Connected(C, b) ==
    IF b = Genesis THEN [ok |-> TRUE, coins |-> C, undo |-> <<>>, nFees |-> 0]
    ELSE LET s == Connecting(C, Vtx[b], Height[b])[Len(Vtx[b])]
         IN  [s EXCEPT !.ok = @ /\ GetValueOut(Vtx[b][1]) <= GetBlockValue(Height[b], s.nFees)]

RestoreInput(s, in, u) ==
    [coins |-> [s.coins EXCEPT ![in.hash] = Restore(@, in.n, u)],
     clean |-> s.clean /\ RestoresCleanly(s.coins[in.hash], in.n, u)]

\* The state of DisconnectBlock after the last k inputs are put back, the last
\* one first.
Restoring(s, vin, txundo) ==
    LET r[k \in 0 .. Len(vin)] ==
          IF k = 0 THEN s
          ELSE LET j == Len(vin) + 1 - k IN RestoreInput(r[k - 1], vin[j], txundo[j])
    IN  r
RestoreInputs(s, tx, txundo) == Restoring(s, tx.vin, txundo)[Len(tx.vin)]

-----------------------------------------------------------------------------
(***************************************************************************)
(* The tree of blocks                                                      *)
(***************************************************************************)

\* The chain of b, genesis block first; none for NULL.
ChainOf[b \in Block \cup {NULL}] ==
    IF b = NULL THEN <<>> ELSE Append(ChainOf[Prev[b]], b)
Chain(b) == Range(ChainOf[b])
HeightOf(b) == IF b = NULL THEN -1 ELSE Height[b]

-----------------------------------------------------------------------------
(***************************************************************************)
(* Reference: the coins of a chain, from nothing but its transactions      *)
(***************************************************************************)

\* The transactions of b with their height.
Events(b) == IF b = Genesis THEN <<>>
             ELSE [i \in 1 .. Len(Vtx[b]) |-> [tx |-> Vtx[b][i], nHeight |-> Height[b]]]

\* The transactions of the chain of b, in order.
History[b \in Block \cup {NULL}] ==
    IF b = NULL THEN <<>> ELSE History[Prev[b]] \o Events(b)

Spends(tx, t, n) == \E i \in 1 .. Len(tx.vin) : tx.vin[i] = [hash |-> t, n |-> n]

Creators(H, t) == {k \in 1 .. Len(H) : H[k].tx.hash = t}

\* What later transactions leave of the outputs of the k-th.
Left(H, k) == [n \in 1 .. Len(H[k].tx.vout) |->
                 IF \E j \in k + 1 .. Len(H) : Spends(H[j].tx, H[k].tx.hash, n)
                 THEN Spent ELSE H[k].tx.vout[n]]

\* An output is unspent if its transaction is in the chain and no later one
\* spends it; of two transactions with the same hash the later one counts.
Unspent(H) ==
    [t \in TxId |->
       LET k == Max(Creators(H, t))
       IN  IF Creators(H, t) = {} \/ Cleanup(Left(H, k)) = <<>> THEN NoCoins
           ELSE [fCoinBase |-> IsCoinBase(H[k].tx), nHeight |-> H[k].nHeight,
                 vout |-> Cleanup(Left(H, k))]]

UnspentIn == [b \in Block \cup {NULL} |-> Unspent(History[b])]

\* Coins with all pruned entries alike.
Normal(C) == [t \in TxId |-> IF IsPruned(C[t]) THEN NoCoins ELSE C[t]]

=============================================================================

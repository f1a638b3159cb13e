-------------------------------- MODULE Coins --------------------------------
(***************************************************************************)
(* The coins of a chain as the node keeps them (main.cpp): ConnectBlock    *)
(* and DisconnectBlock by the rules of module CoinRules, and the way       *)
(* SetBestChain and VerifyDB use them on the stack of coin views of module *)
(* CoinsCache.                                                             *)
(***************************************************************************)
EXTENDS CoinRules

CONSTANTS Absent, NoUndo

\* No entry is not an entry, and no undo data is not undo data.
ASSUME AbsentAssumption ==
    /\ Absent \notin CoinsSet
    /\ NoUndo \notin Seq(Seq([txout : Nat, nHeight : Nat, fCoinBase : BOOLEAN]))

\* Hashes have a width, and no reward is negative.
ASSUME MoneyAssumption ==
    IsFiniteSet(TxId) /\ \A b \in Block \ {Genesis} : Subsidy[Height[b]] \in Nat

VARIABLES
    db, dbBest, tip, tipBest, view, viewBest, open,   \* see CoinsCache
    undo,               \* CBlockUndo of each block, on disk
    failed,             \* blocks with BLOCK_FAILED_VALID, on disk
    pindexNew           \* the block SetBestChain is to make best, or NULL

cache == <<db, dbBest, tip, tipBest, view, viewBest, open>>
vars  == <<cache, undo, failed, pindexNew>>

Cache == INSTANCE CoinsCache
           WITH CCoins <- CoinsSet,
                Pruned <- [fCoinBase : BOOLEAN, nHeight : Nat, vout : {<<>>}]

-----------------------------------------------------------------------------
(***************************************************************************)
(* DisconnectBlock on complete coins C                                     *)
(***************************************************************************)

\* Undo transaction i of b: check and remove its outputs, restore its inputs.
DisconnectTx(s, b, i) ==
    LET tx == Vtx[b][i]
        removed == [coins |-> [s.coins EXCEPT ![tx.hash] = NoCoins],
                    clean |-> s.clean /\ s.coins[tx.hash] = CoinsOf(tx, Height[b])]
    IN  IF i = 1 THEN removed ELSE RestoreInputs(removed, tx, undo[b][i - 1])

\* The state of DisconnectBlock after the last k transactions are undone.
Disconnecting(C, b) ==
    LET s[k \in 0 .. Len(Vtx[b])] ==
          IF k = 0 THEN [coins |-> C, clean |-> TRUE]
          ELSE DisconnectTx(s[k - 1], b, Len(Vtx[b]) + 1 - k)
    IN  s
Disconnected(C, b) == Disconnecting(C, b)[Len(Vtx[b])]

-----------------------------------------------------------------------------
(***************************************************************************)
(* SetBestChain                                                            *)
(***************************************************************************)

Init ==
    /\ db = [t \in TxId |-> Absent] /\ dbBest = NULL
    /\ tip = [t \in TxId |-> Absent] /\ tipBest = NULL
    /\ view = [t \in TxId |-> Absent] /\ viewBest = NULL /\ open = FALSE
    /\ undo = [b \in Block |-> NoUndo]
    /\ failed = {}
    /\ pindexNew = NULL

\* A view as complete coins.
Complete(c) == [t \in TxId |-> IF c[t] = Absent THEN NoCoins ELSE c[t]]
ViewNow == Complete(Cache!ViewCoins)

\* The entries of the view after the coins it shows have become C.
ViewWith(C) == LET now == ViewNow IN [t \in TxId |-> IF C[t] # now[t] THEN C[t] ELSE view[t]]

\* ConnectBestBlock makes the first block with more work best; every block
\* has the same work here.
SetBestChain(b) ==
    /\ pindexNew = NULL /\ Cache!NewView
    /\ Height[b] = HeightOf(Cache!TipBestBlock) + 1
    /\ Chain(b) \cap failed = {}
    /\ pindexNew' = b
    /\ UNCHANGED <<undo, failed>>

\* SetBestChain returns false and the view is gone.
SetBestChainFails == Cache!DropView /\ pindexNew' = NULL

\* The view's best block is to be disconnected.
Disconnects == pindexNew # NULL /\ viewBest # NULL /\ viewBest \notin Chain(pindexNew)

DisconnectBlock ==
    /\ Disconnects
    /\ LET r == Disconnected(ViewNow, viewBest) IN r.clean /\ view' = ViewWith(r.coins)
    /\ viewBest' = Prev[viewBest]
    /\ UNCHANGED <<db, dbBest, tip, tipBest, open, undo, failed, pindexNew>>

\* "database corrupted": the reorganisation is given up.
DisconnectBlockFails ==
    /\ Disconnects /\ ~Disconnected(ViewNow, viewBest).clean
    /\ SetBestChainFails
    /\ UNCHANGED <<undo, failed>>

\* The block that is to be connected next.
Connects(b) == pindexNew # NULL /\ b \in Chain(pindexNew) /\ Prev[b] = viewBest

ConnectBlock(b) ==
    /\ Connects(b)
    /\ LET r == Connected(ViewNow, b) IN
         /\ r.ok
         /\ view' = ViewWith(r.coins)
         /\ undo' = IF undo[b] = NoUndo /\ b # Genesis THEN [undo EXCEPT ![b] = r.undo] ELSE undo
    /\ viewBest' = b
    /\ UNCHANGED <<db, dbBest, tip, tipBest, open, failed, pindexNew>>

\* Fault: the block to be made best is marked instead of the offender.
InvalidMarksNew(b) ==
    /\ Connects(b) /\ ~Connected(ViewNow, b).ok
    /\ failed' = failed \cup {pindexNew}
    /\ SetBestChainFails
    /\ UNCHANGED undo

\* A rule is violated: the block is marked, and SetBestChain gives up.
ConnectBlockInvalid(b) ==
    /\ Connects(b) /\ ~Connected(ViewNow, b).ok
    /\ failed' = failed \cup {b}
    /\ SetBestChainFails
    /\ UNCHANGED undo

\* Fault: only what the view changed is written to the database.
FlushOnlyView ==
    /\ db' = Cache!BatchWriteCoins(db, view) /\ dbBest' = viewBest
    /\ tip' = [t \in TxId |-> Absent] /\ tipBest' = viewBest
    /\ view' = [t \in TxId |-> Absent] /\ viewBest' = NULL /\ open' = FALSE

\* view.Flush() and pcoinsTip->Flush().
FlushBoth ==
    /\ db' = Cache!BatchWriteCoins(db, Cache!BatchWrite(tip, view)) /\ dbBest' = viewBest
    /\ tip' = [t \in TxId |-> Absent] /\ tipBest' = viewBest
    /\ view' = [t \in TxId |-> Absent] /\ viewBest' = NULL /\ open' = FALSE

\* Everything is connected: the view is flushed into pcoinsTip, and that one
\* to disk unless in initial download.
SwitchTip ==
    /\ pindexNew # NULL /\ viewBest = pindexNew
    /\ Cache!FlushView \/ FlushBoth
    /\ pindexNew' = NULL
    /\ UNCHANGED <<undo, failed>>

\* Shutdown flushes pcoinsTip and ends the process, between two blocks.
Shutdown ==
    /\ pindexNew = NULL
    /\ db' = Cache!BatchWriteCoins(db, tip) /\ dbBest' = Cache!TipBestBlock
    /\ tip' = [t \in TxId |-> Absent] /\ tipBest' = NULL
    /\ UNCHANGED <<view, viewBest, open, undo, failed, pindexNew>>

\* The process is killed at any time.
Crash == Cache!Crash /\ pindexNew' = NULL /\ UNCHANGED <<undo, failed>>

Next ==
    \/ \E b \in Block : SetBestChain(b) \/ ConnectBlock(b) \/ ConnectBlockInvalid(b)
    \/ DisconnectBlock \/ DisconnectBlockFails
    \/ SwitchTip \/ Shutdown \/ Crash

Spec == Init /\ [][Next]_vars

-----------------------------------------------------------------------------
(***************************************************************************)
(* Properties                                                              *)
(***************************************************************************)

\* The values the variables range over; coins in the caches and on disk are
\* well formed, with no spent output at the end.
TypeOK ==
    /\ db \in [TxId -> CoinsSet \cup {Absent}] /\ dbBest \in Block \cup {NULL}
    /\ tip \in [TxId -> CoinsSet \cup {Absent}] /\ tipBest \in Block \cup {NULL}
    /\ view \in [TxId -> CoinsSet \cup {Absent}] /\ viewBest \in Block \cup {NULL}
    /\ \A c \in {db, tip, view} : \A t \in TxId :
          c[t] # Absent => c[t].vout = Cleanup(c[t].vout)
    /\ open = (pindexNew # NULL)
    /\ failed \subseteq Block /\ pindexNew \in Block \cup {NULL}

\* The blocks that repeat a transaction with unspent outputs.
Overwriting == {b \in Block \ {Genesis} :
                  \E i \in DOMAIN Vtx[b] : ~IsPruned(UnspentIn[Prev[b]][Vtx[b][i].hash])}

\* The node has connected none of them: they are not undone right.
NothingOverwritten == \A b \in Overwriting : undo[b] = NoUndo

\* The layers are well formed and, whatever was connected, disconnected, given
\* up, flushed or lost in a crash, as long as nothing was overwritten, the coins
\* of every layer are exactly the unspent outputs of the chain that its best
\* block ends: DisconnectBlock is the inverse of ConnectBlock.
CoinsMatchChain ==
  /\ TypeOK
  /\ NothingOverwritten =>
       /\ Normal(Complete(db)) = UnspentIn[dbBest]
       /\ Normal(Complete(Cache!TipCoins)) = UnspentIn[Cache!TipBestBlock]
       /\ Normal(ViewNow) = UnspentIn[Cache!ViewBestBlock]

\* The blocks that the coins of their ancestors allow.
GoodByChain == {b \in Block : Connected(UnspentIn[Prev[b]], b).ok}

\* Whether ConnectBlock accepts a block depends on its ancestors only, not on
\* the reorganisations the node went through: it gives the verdict that the
\* coins of the ancestors give, and never changes it.
VerdictByChain ==
  NothingOverwritten =>
    /\ failed \cap GoodByChain = {}
    /\ Chain(Cache!TipBestBlock) \subseteq GoodByChain

\* Disconnecting block after block from the top, as VerifyDB does.
UndoBlock(s, b) ==
    LET r == Disconnected(s.coins, b) IN [coins |-> r.coins, clean |-> s.clean /\ r.clean]
Undoing(C, best) ==
    LET s[k \in 0 .. Len(ChainOf[best])] ==
          IF k = 0 THEN [coins |-> C, clean |-> TRUE]
          ELSE UndoBlock(s[k - 1], ChainOf[best][Len(ChainOf[best]) + 1 - k])
    IN  s

\* VerifyDB finds no inconsistency in what is on disk, at whatever point the
\* node was stopped: down to the genesis block every block of the chain is
\* undone cleanly from its undo data, and nothing is left.
VerifyDBPasses ==
    NothingOverwritten /\ dbBest # NULL =>
        LET r == Undoing(Complete(db), dbBest)[Len(ChainOf[dbBest]) - 1]
        IN  r.clean /\ \A t \in TxId : IsPruned(r.coins[t])

\* The blocks whose chain spends no output twice, unless its transaction was
\* included again in between.
SpendsOnce == {b \in Block \cup {NULL} :
    LET H == History[b] IN
    \A j, k \in 1 .. Len(H) : j < k =>
        \A i \in 1 .. Len(H[j].tx.vin) :
            LET o == H[j].tx.vin[i] IN
            Spends(H[k].tx, o.hash, o.n) => \E m \in j + 1 .. k - 1 : H[m].tx.hash = o.hash}

\* No output is ever spent twice in the best chain, overwritten coins included.
NoDoubleSpend == Cache!TipBestBlock \in SpendsOnce

\* What the blocks of a chain were allowed to create.
Supply[b \in Block \cup {NULL}] ==
    IF b = NULL THEN 0
    ELSE Supply[Prev[b]] + (IF b = Genesis THEN 0 ELSE Subsidy[Height[b]])

\* The value of the unspent outputs in C.
Worth(vout) == SumFunction([n \in 1 .. Len(vout) |-> IF vout[n] = Spent THEN 0 ELSE vout[n]])
Total(C) == SumFunction([t \in TxId |-> Worth(C[t].vout)])

\* The value of the coins never exceeds what the blocks of the best chain were
\* allowed to create.
MoneySupply == Total(Complete(Cache!TipCoins)) <= Supply[Cache!TipBestBlock]

\* No value comes from nowhere: no output is spent twice, and the coins are
\* covered by the subsidies, also on the branch that overwrites a coinbase.
NoInflation == NoDoubleSpend /\ MoneySupply

\* "Do not allow blocks that contain transactions which 'overwrite' older
\* transactions, unless those are already completely spent."
NoOverwrite ==
    LET H == History[Cache!TipBestBlock] IN
    \A j, k \in 1 .. Len(H) : j < k /\ H[j].tx.hash = H[k].tx.hash =>
        \A n \in 1 .. Len(H[j].tx.vout) :
            \E m \in j + 1 .. k : Spends(H[m].tx, H[j].tx.hash, n)

=============================================================================

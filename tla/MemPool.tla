------------------------------- MODULE MemPool -------------------------------
(***************************************************************************)
(* The memory pool and the orphan transactions (main.cpp): accept,         *)
(* addUnchecked, remove and removeConflicts of CTxMemPool, the handler of  *)
(* a "tx" message with mapOrphanTransactions, what SetBestChain does to    *)
(* the pool after a reorganisation, and the thread that puts the wallet's  *)
(* transactions back at start-up.                                          *)
(*                                                                         *)
(* Message handlers and SetBestChain run under cs_main, one at a time.     *)
(* ReacceptWalletTransactions runs beside them and takes only the lock of  *)
(* the pool, which accept gives up between its checks and addUnchecked.    *)
(*                                                                         *)
(* The coins of pcoinsTip are those of the chain of pindexBest (invariant  *)
(* CoinsMatchChain of module Coins); what the pool sees of them depends on *)
(* the pruned entries left in the cache of pcoinsTip, too.  Fees are       *)
(* abstracted to the set of transactions that pay too little for free      *)
(* relay, which the rate limiter may or may not let through.               *)
(***************************************************************************)
EXTENDS CoinRules

CONSTANTS
    Tx,            \* the transactions, by hash, that are not coinbases
    NonStandard,   \* transactions IsStandard and the like refuse
    LowFee,        \* transactions that pay less than the relay fee
    WalletTx,      \* transactions in mapWallet, in no block as far as it knows
    VtxPrev,       \* CWalletTx::vtxPrev of these, coinbases left out
    MEMPOOL_HEIGHT,
    MAX_ORPHAN_TRANSACTIONS

\* Transactions are named by their hashes and have passed CheckTransaction; the
\* wallet's are among them, and limits are numbers.
ASSUME TxAssumption ==
    /\ NULL \notin DOMAIN Tx
    /\ \A t \in DOMAIN Tx : CheckTransaction(Tx[t]) /\ Tx[t].hash = t /\ ~IsCoinBase(Tx[t])
    /\ WalletTx \subseteq DOMAIN Tx
    /\ \A t \in WalletTx : VtxPrev[t] \subseteq DOMAIN Tx /\ IsFiniteSet(VtxPrev[t])
    /\ MEMPOOL_HEIGHT \in Nat /\ MAX_ORPHAN_TRANSACTIONS \in Nat

\* The blocks that become best have passed ConnectBlock, no hash comes twice in a
\* chain, and the same hash is the same transaction, in a block as in the pool.
ASSUME BlocksAssumption ==
    /\ \A b \in Block \ {Genesis} : Connected(UnspentIn[Prev[b]], b).ok
    /\ \A b \in Block : \A j, k \in 1 .. Len(History[b]) :
         History[b][j].tx.hash = History[b][k].tx.hash => j = k
    /\ Len(Vtx[Genesis]) = 1 /\ DOMAIN Vtx[Genesis] = {1} /\ IsCoinBase(Vtx[Genesis][1])
    /\ \A b \in Block : \A i \in 1 .. Len(Vtx[b]) :
         IF i = 1 THEN Vtx[b][i].hash \notin DOMAIN Tx
         ELSE Vtx[b][i].hash \in DOMAIN Tx /\ Vtx[b][i] = Tx[Vtx[b][i].hash]

VARIABLES
    pindexBest,     \* best block, the one pcoinsTip stands at
    pruned,         \* transactions with a pruned entry in pcoinsTip's cache
    mapTx,          \* transactions in the pool
    mapNextTx,      \* the pool transaction that spends an output, or NULL
    mapOrphanTransactions,
    mapOrphanTransactionsByPrev,
    pc,             \* what the thread that holds cs_main is doing
    accepting,      \* transaction between accept's checks and addUnchecked
    vWorkQueue,     \* "tx": accepted transactions, whose orphans are to be tried
    nWorked,        \* "tx": how many of them were worked on
    vTry,           \* "tx": orphans still to be tried for the current one
    vEraseQueue,    \* "tx": orphans to be erased in the end
    vResurrect,     \* SetBestChain: transactions of the disconnected blocks
    nResurrected,   \* ... how many of them were tried
    vDelete,        \* SetBestChain: transactions of the connected blocks
    vWallet,        \* wallet transactions still to be reaccepted
    disconnected    \* transactions that were ever in a disconnected block

pool    == <<mapTx, mapNextTx>>
orphans == <<mapOrphanTransactions, mapOrphanTransactionsByPrev>>
queues  == <<vWorkQueue, nWorked, vTry, vEraseQueue>>
reorg   == <<vResurrect, nResurrected, vDelete, disconnected>>
vars    == <<pindexBest, pruned, pool, orphans, pc, accepting, queues, reorg, vWallet>>

Loose    == DOMAIN Tx
Inputs(t) == Range(Tx[t].vin)
Prevs(t) == {o.hash : o \in Inputs(t)}
Outpoint == UNION {Inputs(t) : t \in Loose}

-----------------------------------------------------------------------------
(***************************************************************************)
(* CTxMemPool::accept                                                      *)
(***************************************************************************)

\* CCoinsViewMemPool over pcoinsTip: an entry of pcoinsTip hides the pool's.
CoinView == LET C == UnspentIn[pindexBest] IN
    [t \in TxId |-> IF t \in mapTx /\ C[t] = NoCoins /\ t \notin pruned
                    THEN CoinsOf(Tx[t], MEMPOOL_HEIGHT) ELSE C[t]]
HaveCoins(t) == t \in mapTx \cup pruned \/ UnspentIn[pindexBest][t] # NoCoins

\* The checks that come before the inputs.
Refused(t) ==
    \/ t \in NonStandard
    \/ t \in mapTx
    \/ \E o \in Inputs(t) : mapNextTx[o] # NULL

\* accept returns false with fMissingInputs set.
MissingInputs(t) ==
    /\ ~Refused(t) /\ ~HaveCoins(t)
    /\ \E h \in Prevs(t) : ~HaveCoins(h)

\* accept comes to addUnchecked, unless the fee is too low.
Acceptable(t) ==
    /\ ~Refused(t) /\ ~HaveCoins(t)
    /\ \A h \in Prevs(t) : HaveCoins(h)
    /\ CheckInputs(CoinView, Tx[t], Height[pindexBest] + 1)

\* accept(t), with fLimitFree, may fail for another reason.
MayFail(t) == ~MissingInputs(t) /\ (~Acceptable(t) \/ t \in LowFee)

AddUnchecked(t, txs, next) ==
    /\ mapTx' = txs \cup {t}
    /\ mapNextTx' = [o \in Outpoint |-> IF o \in Inputs(t) THEN t ELSE next[o]]

-----------------------------------------------------------------------------
(***************************************************************************)
(* mapOrphanTransactions                                                   *)
(***************************************************************************)

\* EraseOrphanTx for each of S.
EraseFrom(S, all, byPrev) ==
    [txs |-> all \ S, byPrev |-> [h \in TxId |-> byPrev[h] \ S]]

\* Fault: an orphan is erased under its first input only.
EraseFirst(S, all, byPrev) ==
    [txs |-> all \ S,
     byPrev |-> [h \in TxId |-> byPrev[h] \ {t \in S : Tx[t].vin[1].hash = h}]]

EraseOrphanTx(S, all, byPrev) == EraseFrom(S, all, byPrev)

SetOrphans(o) ==
    /\ mapOrphanTransactions' = o.txs
    /\ mapOrphanTransactionsByPrev' = o.byPrev

\* LimitOrphanTxSize: the sets of random orphans it may evict.
LimitOrphanTxSize(all) ==
    {S \in SUBSET all : Cardinality(S) = Max({0, Cardinality(all) - MAX_ORPHAN_TRANSACTIONS})}

AddOrphanTx(t) ==
    LET all == mapOrphanTransactions \cup {t}
        byPrev == [h \in TxId |-> IF h \in Prevs(t)
                                  THEN mapOrphanTransactionsByPrev[h] \cup {t}
                                  ELSE mapOrphanTransactionsByPrev[h]]
    IN  \E S \in LimitOrphanTxSize(all) : SetOrphans(EraseOrphanTx(S, all, byPrev))

-----------------------------------------------------------------------------
(***************************************************************************)
(* ProcessMessage, "tx"                                                    *)
(***************************************************************************)

Init ==
    /\ pindexBest \in Block /\ pruned = {}
    /\ mapTx = {} /\ mapNextTx = [o \in Outpoint |-> NULL]
    /\ mapOrphanTransactions = {}
    /\ mapOrphanTransactionsByPrev = [h \in TxId |-> {}]
    /\ pc = "idle" /\ accepting = NULL
    /\ vWorkQueue = <<>> /\ nWorked = 0 /\ vTry = {} /\ vEraseQueue = {}
    /\ vResurrect = <<>> /\ nResurrected = 0 /\ vDelete = <<>>
    /\ vWallet = WalletTx /\ disconnected = {}

\* A peer sends t, and the checks of accept let it pass.
ReceiveTx(t) ==
    /\ pc = "idle" /\ Acceptable(t)
    /\ accepting' = t /\ pc' = "tx"
    /\ UNCHANGED <<pindexBest, pruned, pool, orphans, queues, reorg, vWallet>>

\* A peer sends t, and an input is missing.
ReceiveOrphan(t) ==
    /\ pc = "idle" /\ MissingInputs(t)
    /\ t \notin mapOrphanTransactions /\ AddOrphanTx(t)
    /\ UNCHANGED <<pindexBest, pruned, pool, pc, accepting, queues, reorg, vWallet>>

\* A peer sends t, and accept refuses it or AddOrphanTx has it already.
RefuseTx(t) ==
    /\ pc = "idle"
    /\ MayFail(t) \/ (MissingInputs(t) /\ t \in mapOrphanTransactions)
    /\ UNCHANGED vars

\* sendrawtransaction and CommitTransaction: accept without limits on fees,
\* and without a look at the orphans.
SubmitTx(t) ==
    /\ pc = "idle" /\ Acceptable(t)
    /\ accepting' = t /\ pc' = "submit"
    /\ UNCHANGED <<pindexBest, pruned, pool, orphans, queues, reorg, vWallet>>

\* The rest of accept: the transaction goes into the pool, whatever has
\* happened to that since the checks.
AcceptEnds ==
    /\ accepting # NULL
    /\ AddUnchecked(accepting, mapTx, mapNextTx)
    /\ accepting' = NULL
    /\ IF pc = "tx" THEN /\ vWorkQueue' = Append(vWorkQueue, accepting)
                         /\ vEraseQueue' = vEraseQueue \cup {accepting}
                    ELSE UNCHANGED <<vWorkQueue, vEraseQueue>>
    /\ pc' = IF pc = "submit" THEN "idle" ELSE pc
    /\ UNCHANGED <<pindexBest, pruned, orphans, nWorked, vTry, reorg, vWallet>>

\* Fault: the size of vWorkQueue is taken once, before the loop.
WorkFirst == nWorked < 1

WorkLeft == nWorked < Len(vWorkQueue)

\* The orphans that spend an output of the next transaction in vWorkQueue.
NextInWorkQueue ==
    /\ pc = "tx" /\ accepting = NULL /\ vTry = {} /\ WorkLeft
    /\ nWorked' = nWorked + 1
    /\ vTry' = mapOrphanTransactionsByPrev[vWorkQueue[nWorked']]
    /\ UNCHANGED <<pindexBest, pruned, pool, orphans, pc, accepting, vWorkQueue,
                   vEraseQueue, reorg, vWallet>>

\* One of them is tried: it passes, fails for good, or still misses inputs.
TryOrphan(t) ==
    /\ pc = "tx" /\ accepting = NULL /\ t \in vTry
    /\ vTry' = vTry \ {t}
    /\ \/ Acceptable(t) /\ accepting' = t /\ UNCHANGED vEraseQueue
       \/ MayFail(t) /\ vEraseQueue' = vEraseQueue \cup {t} /\ UNCHANGED accepting
       \/ MissingInputs(t) /\ UNCHANGED <<accepting, vEraseQueue>>
    /\ UNCHANGED <<pindexBest, pruned, pool, orphans, pc, vWorkQueue, nWorked, reorg, vWallet>>

TxDone ==
    /\ pc = "tx" /\ accepting = NULL /\ vTry = {} /\ ~WorkLeft
    /\ SetOrphans(EraseOrphanTx(vEraseQueue, mapOrphanTransactions,
                                mapOrphanTransactionsByPrev))
    /\ vWorkQueue' = <<>> /\ nWorked' = 0 /\ vEraseQueue' = {}
    /\ pc' = "idle"
    /\ UNCHANGED <<pindexBest, pruned, pool, accepting, vTry, reorg, vWallet>>

-----------------------------------------------------------------------------
(***************************************************************************)
(* SetBestChain                                                            *)
(***************************************************************************)

\* Hashes of a block's transactions after the coinbase.
TxsOf(b) == [i \in 1 .. Len(Vtx[b]) - 1 |-> Vtx[b][i + 1].hash]

\* The transactions of the blocks of a list that are not in S.
Gathering(blocks, S) ==
    LET s[k \in 0 .. Len(blocks)] ==
          IF k = 0 THEN <<>>
          ELSE s[k - 1] \o (IF blocks[k] \in S THEN <<>> ELSE TxsOf(blocks[k]))
    IN  s
Gathered(blocks, S) == Gathering(blocks, S)[Len(blocks)]

\* Transactions whose coins connecting or disconnecting b writes.
Touched(b) == UNION {{tx.hash} \cup {o.hash : o \in Range(tx.vin)} : tx \in Range(Vtx[b])}

\* A block with more work becomes best.  pcoinsTip is flushed, and its cache
\* emptied, unless in initial download.
SetBestChain(b) ==
    LET off == Chain(pindexBest) \ Chain(b)
        on  == Chain(b) \ Chain(pindexBest)
        written == UNION {Touched(a) : a \in off \cup on}
    IN  /\ pc = "idle" /\ Height[b] = Height[pindexBest] + 1
        /\ pindexBest' = b
        /\ pruned' \in {{}, {t \in (pruned \cup written) \cap TxId : UnspentIn[b][t] = NoCoins}}
        /\ vResurrect' = Gathered(Reverse(ChainOf[pindexBest]), Chain(b)) /\ nResurrected' = 0
        /\ vDelete' = Gathered(ChainOf[b], Chain(pindexBest))
        /\ disconnected' = disconnected \cup
              (TxId \cap UNION {{tx.hash : tx \in Range(Vtx[a])} : a \in off})
        /\ pc' = "reorg"
        /\ UNCHANGED <<pool, orphans, accepting, queues, vWallet>>

\* A transaction of a disconnected block is tried; errors are ignored.
Resurrect ==
    /\ pc = "reorg" /\ accepting = NULL /\ nResurrected < Len(vResurrect)
    /\ nResurrected' = nResurrected + 1
    /\ accepting' = LET t == vResurrect[nResurrected + 1] IN
                    IF Acceptable(t) THEN t ELSE NULL
    /\ UNCHANGED <<pindexBest, pruned, pool, orphans, pc, queues, vResurrect, vDelete,
                   disconnected, vWallet>>

\* What remove(t, true) removes: t, and what spends its outputs, and so on.
Descendants(t, txs, next) ==
    {d \in txs : \A S \in SUBSET txs :
        /\ t \in S
        /\ \A o \in Outpoint : o.hash \in S /\ next[o] # NULL => next[o] \in S
      => d \in S}

RemoveRecursive(t, txs, next) == Descendants(t, txs, next)

\* Fault: mapNextTx keeps the entries of what is removed.
RemoveOnlyTx(S) == mapTx' = mapTx \ S /\ UNCHANGED mapNextTx

RemoveAll(S) ==
    /\ mapTx' = mapTx \ S
    /\ mapNextTx' = [o \in Outpoint |->
                       IF \E t \in S : o \in Inputs(t) THEN NULL ELSE mapNextTx[o]]

\* Fault: conflicts are not looked for.
NoConflictsOf(t) == {}

\* Pool transactions that spend an input of t, with their descendants.
ConflictsOf(t) ==
    UNION {RemoveRecursive(mapNextTx[o], mapTx, mapNextTx) :
             o \in {o \in Inputs(t) : mapNextTx[o] \notin {NULL, t}}}

\* mempool.remove(tx) and mempool.removeConflicts(tx).
DeleteTx ==
    /\ pc = "reorg" /\ accepting = NULL /\ nResurrected = Len(vResurrect) /\ vDelete # <<>>
    /\ LET t == Head(vDelete) IN RemoveAll((mapTx \cap {t}) \cup ConflictsOf(t))
    /\ vDelete' = Tail(vDelete)
    /\ UNCHANGED <<pindexBest, pruned, orphans, pc, accepting, queues, vResurrect,
                   nResurrected, disconnected, vWallet>>

SetBestChainDone ==
    /\ pc = "reorg" /\ accepting = NULL /\ nResurrected = Len(vResurrect) /\ vDelete = <<>>
    /\ vResurrect' = <<>> /\ nResurrected' = 0
    /\ pc' = "idle"
    /\ UNCHANGED <<pindexBest, pruned, pool, orphans, accepting, queues, vDelete,
                   disconnected, vWallet>>

-----------------------------------------------------------------------------
(***************************************************************************)
(* ReacceptWalletTransactions                                              *)
(***************************************************************************)

\* accept without a check of the inputs.
AcceptUnchecked(p, t) ==
    IF \/ t \in NonStandard \cup p.txs
       \/ \E o \in Inputs(t) : p.next[o] # NULL
    THEN p
    ELSE [txs |-> p.txs \cup {t},
          next |-> [o \in Outpoint |-> IF o \in Inputs(t) THEN t ELSE p.next[o]]]

\* pcoinsTip->HaveCoins
TipHaveCoins(t) == t \in pruned \/ UnspentIn[pindexBest][t] # NoCoins

\* The pool after the transactions of a list are put into it.
Supporting(prev) ==
    LET p[i \in 0 .. Len(prev)] ==
          IF i = 0 THEN [txs |-> mapTx, next |-> mapNextTx] ELSE AcceptUnchecked(p[i - 1], prev[i])
    IN  p

\* AcceptWalletTransaction: the supporting transactions first.
AcceptWalletTransaction(t) ==
    LET prev == SetToSeq({s \in VtxPrev[t] : s \notin mapTx /\ TipHaveCoins(s)})
    IN  AcceptUnchecked(Supporting(prev)[Len(prev)], t)

InMainChain(t) == \E b \in Chain(pindexBest) : t \in {tx.hash : tx \in Range(Vtx[b])}

\* The start-up thread comes to one of the wallet's transactions; one with
\* coins or in a block of the main chain is left alone.
Reaccept(t) ==
    /\ t \in vWallet
    /\ vWallet' = vWallet \ {t}
    /\ IF TipHaveCoins(t) \/ InMainChain(t) THEN UNCHANGED pool
       ELSE LET p == AcceptWalletTransaction(t) IN mapTx' = p.txs /\ mapNextTx' = p.next
    /\ UNCHANGED <<pindexBest, pruned, orphans, pc, accepting, queues, reorg>>

-----------------------------------------------------------------------------

Next ==
    \/ \E t \in Loose : ReceiveTx(t) \/ ReceiveOrphan(t) \/ RefuseTx(t)
    \/ \E t \in Loose : SubmitTx(t) \/ TryOrphan(t)
    \/ AcceptEnds \/ NextInWorkQueue \/ TxDone
    \/ \E b \in Block : SetBestChain(b)
    \/ Resurrect \/ DeleteTx \/ SetBestChainDone
    \/ \E t \in WalletTx : Reaccept(t)

Spec == Init /\ [][Next]_vars

-----------------------------------------------------------------------------
(***************************************************************************)
(* Properties                                                              *)
(***************************************************************************)

\* The values the variables range over; "do not allow mapOrphanTransactions
\* to grow unbounded".
TypeOK ==
    /\ pindexBest \in Block /\ pruned \subseteq TxId
    /\ mapTx \subseteq Loose /\ mapNextTx \in [Outpoint -> Loose \cup {NULL}]
    /\ mapOrphanTransactions \subseteq Loose
    /\ Cardinality(mapOrphanTransactions) <= MAX_ORPHAN_TRANSACTIONS
    /\ mapOrphanTransactionsByPrev \in [TxId -> SUBSET Loose]
    /\ pc \in {"idle", "tx", "submit", "reorg"}
    /\ accepting \in Loose \cup {NULL}
    /\ vWorkQueue \in Seq(Loose) /\ nWorked \in 0 .. Len(vWorkQueue)
    /\ vTry \subseteq Loose /\ vEraseQueue \subseteq Loose
    /\ vResurrect \in Seq(Loose) /\ nResurrected \in 0 .. Len(vResurrect)
    /\ vDelete \in Seq(Loose)
    /\ vWallet \subseteq WalletTx /\ disconnected \subseteq TxId

\* The start-up thread has put nothing back yet; what it puts back is not
\* checked against the chain, and may come between the checks of another
\* thread and addUnchecked.
Undisturbed == vWallet = WalletTx

\* Undisturbed, mapNextTx holds the inputs of the pool's transactions and
\* nothing else, through every removal of conflicts and every resurrection: no
\* output is spent twice in the pool and none is blocked by a transaction that
\* left.
PoolIndexed ==
    Undisturbed =>
        \A o \in Outpoint, t \in Loose : mapNextTx[o] = t <=> t \in mapTx /\ o \in Inputs(t)

\* The pointer mapNextTx keeps for an output is to a transaction of the pool
\* that spends it, even while the start-up thread adds conflicts to the pool.
NoDanglingPtr ==
    \A o \in Outpoint : mapNextTx[o] # NULL =>
        mapNextTx[o] \in mapTx /\ o \in Inputs(mapNextTx[o])

\* Undisturbed, the pool holds between two messages no transaction of the best
\* chain and none that spends what the chain has spent, whatever was
\* reorganised.
PoolUnconfirmed ==
    Undisturbed /\ pc = "idle" =>
        \A b \in Chain(pindexBest) : \A tx \in Range(Vtx[b]) :
            /\ tx.hash \notin mapTx
            /\ \A t \in mapTx : Inputs(t) \cap Range(tx.vin) = {}

\* An output that exists in the pool or is unspent in the chain.
Available(o) ==
    \/ o.hash \in mapTx /\ o.n <= Len(Tx[o.hash].vout)
    \/ IsAvailable(UnspentIn[pindexBest][o.hash], o.n)

\* Undisturbed, a pool transaction misses an input between two messages only if
\* that was once in a block that was disconnected: connecting blocks and
\* removing conflicts strands nobody.
StrandedByReorgOnly ==
    Undisturbed /\ pc = "idle" =>
        \A t \in mapTx : \A o \in Inputs(t) : Available(o) \/ o.hash \in disconnected

\* What the pool says of the chain and of itself is right after every message,
\* block and reorganisation: nothing confirmed or conflicting is kept, only a
\* disconnected block strands a transaction, no pointer dangles, and the
\* orphans stay within their bound.
PoolSound == TypeOK /\ NoDanglingPtr /\ PoolUnconfirmed /\ StrandedByReorgOnly

\* The two maps of the orphans agree, through additions, evictions and
\* resolutions of orphans with several parents.
OrphanIndex ==
    \A h \in TxId : mapOrphanTransactionsByPrev[h] = {t \in mapOrphanTransactions : h \in Prevs(t)}

\* accept cannot take t: an input is missing, or something in the pool spends it.
Unresolved(t) == MissingInputs(t) \/ \E o \in Inputs(t) : mapNextTx[o] # NULL

\* Undisturbed, when the handler of a "tx" message returns, an orphan that
\* spends an output of a transaction accepted meanwhile is still there only
\* because another input is missing, or was spent by an orphan that came first.
\* (What the start-up thread adds, it adds without a look at the orphans.)
OrphansSettled ==
    [][Undisturbed /\ pc = "tx" /\ pc' = "idle" =>
         \A t \in mapOrphanTransactions' : Prevs(t) \cap Range(vWorkQueue) # {} => Unresolved(t)]_vars

=============================================================================

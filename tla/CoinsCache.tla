------------------------------ MODULE CoinsCache ------------------------------
(***************************************************************************)
(* The stack of coin views (main.cpp, txdb.cpp): the coin database         *)
(* (CCoinsViewDB), pcoinsTip, a CCoinsViewCache on top of it, and the      *)
(* CCoinsViewCache that SetBestChain, VerifyDB or CreateNewBlock puts on   *)
(* top of that one and flushes into it or throws away.                     *)
(*                                                                         *)
(* A cache maps the transactions it has an entry for to their CCoins,      *)
(* Absent stands for no entry.  The content of a CCoins matters only for   *)
(* whether it is pruned: such an entry hides the one of the base in a      *)
(* cache and erases it in the database.                                    *)
(***************************************************************************)
CONSTANTS
    TxId,       \* transaction hashes
    CCoins,     \* what a CCoins can be
    Pruned,     \* the ones without an unspent output
    Absent,     \* no entry
    Block,      \* CBlockIndex objects
    NULL        \* no block

ASSUME CoinsAssumption ==
    /\ Absent \notin CCoins /\ Pruned \subseteq CCoins
    /\ NULL \notin Block

VARIABLES
    db, dbBest,         \* CCoinsViewDB: entries, hashBestChain
    tip, tipBest,       \* pcoinsTip: cacheCoins, pindexTip
    view, viewBest,     \* the view on top: cacheCoins, pindexTip
    open                \* whether there is one

base == <<db, dbBest, tip, tipBest>>
views == <<base, view, viewBest, open>>

Cache == [TxId -> CCoins \cup {Absent}]
Empty == [t \in TxId |-> Absent]
MaybeBlock == Block \cup {NULL}

-----------------------------------------------------------------------------
(***************************************************************************)
(* Reading                                                                 *)
(***************************************************************************)

\* CCoinsViewCache::GetCoins and FetchCoins, cache over a base with coins c.
GetCoins(cache, c) == [t \in TxId |-> IF cache[t] # Absent THEN cache[t] ELSE c[t]]

TipCoins  == GetCoins(tip, db)
ViewCoins == GetCoins(view, TipCoins)

\* CCoinsViewCache::GetBestBlock, b being the base's.
GetBestBlock(pindexTip, b) == IF pindexTip = NULL THEN b ELSE pindexTip

TipBestBlock  == GetBestBlock(tipBest, dbBest)
ViewBestBlock == GetBestBlock(viewBest, TipBestBlock)

-----------------------------------------------------------------------------
(***************************************************************************)
(* Writing                                                                 *)
(***************************************************************************)

\* CCoinsViewCache::BatchWrite.
BatchWrite(cache, changes) ==
    [t \in TxId |-> IF changes[t] # Absent THEN changes[t] ELSE cache[t]]

\* Fault: the database keeps the entry of a transaction that is spent now.
BatchKeepsPruned(entries, changes) ==
    [t \in TxId |-> IF changes[t] \in CCoins \ Pruned THEN changes[t] ELSE entries[t]]

\* CCoinsViewDB::BatchWrite: pruned coins are erased.
BatchWriteCoins(entries, changes) ==
    [t \in TxId |-> IF changes[t] \in Pruned THEN Absent
                    ELSE IF changes[t] # Absent THEN changes[t] ELSE entries[t]]

ViewsInit ==
    /\ db \in [TxId -> (CCoins \ Pruned) \cup {Absent}] /\ dbBest \in MaybeBlock
    /\ tip = Empty /\ tipBest = NULL
    /\ view = Empty /\ viewBest = NULL /\ open = FALSE

\* A view on top of pcoinsTip; its users ask for its best block at once.
NewView ==
    /\ ~open /\ open' = TRUE
    /\ tipBest' = TipBestBlock /\ viewBest' = TipBestBlock
    /\ view' = Empty
    /\ UNCHANGED <<db, dbBest, tip>>

\* FetchCoins: what is read is kept in both caches.
FetchCoins(t) ==
    /\ open /\ ViewCoins[t] # Absent
    /\ view' = [view EXCEPT ![t] = ViewCoins[t]]
    /\ tip' = IF view[t] # Absent THEN tip ELSE [tip EXCEPT ![t] = TipCoins[t]]
    /\ UNCHANGED <<db, dbBest, tipBest, viewBest, open>>

\* SetCoins, or a change through the reference that GetCoins returns.
SetCoins(t, c) ==
    /\ open
    /\ view' = [view EXCEPT ![t] = c]
    /\ UNCHANGED <<base, viewBest, open>>

SetBestBlock(b) ==
    /\ open /\ viewBest' = b
    /\ UNCHANGED <<base, view, open>>

\* view.Flush().
FlushView ==
    /\ open
    /\ tip' = BatchWrite(tip, view) /\ tipBest' = viewBest
    /\ view' = Empty /\ viewBest' = NULL /\ open' = FALSE
    /\ UNCHANGED <<db, dbBest>>

\* The view goes out of scope without a flush.
DropView ==
    /\ open
    /\ view' = Empty /\ viewBest' = NULL /\ open' = FALSE
    /\ UNCHANGED base

\* pcoinsTip->Flush(), in SetBestChain after view.Flush() and in Shutdown.
FlushTip ==
    /\ ~open
    /\ db' = BatchWriteCoins(db, tip)
    /\ dbBest' = IF tipBest # NULL THEN tipBest ELSE dbBest
    /\ tip' = Empty
    /\ UNCHANGED <<tipBest, view, viewBest, open>>

\* The process dies and starts again.
Crash ==
    /\ tip' = Empty /\ tipBest' = NULL
    /\ view' = Empty /\ viewBest' = NULL /\ open' = FALSE
    /\ UNCHANGED <<db, dbBest>>

ViewsNext ==
    \/ NewView
    \/ \E t \in TxId : FetchCoins(t)
    \/ \E t \in TxId, c \in CCoins : SetCoins(t, c)
    \/ \E b \in Block : SetBestBlock(b)
    \/ FlushView \/ DropView \/ FlushTip \/ Crash

ViewsSpec == ViewsInit /\ [][ViewsNext]_views

-----------------------------------------------------------------------------
(***************************************************************************)
(* Properties                                                              *)
(***************************************************************************)

\* The values the variables range over; "only !IsPruned() CCoins can be
\* serialized", so the database has no pruned entry.
ViewsTypeOK ==
    /\ db \in [TxId -> (CCoins \ Pruned) \cup {Absent}] /\ dbBest \in MaybeBlock
    /\ tip \in Cache /\ tipBest \in MaybeBlock
    /\ view \in Cache /\ viewBest \in MaybeBlock
    /\ open \in BOOLEAN

\* A view that does not know its best block has a base that knows none
\* either: flushing it cannot take the best block from pcoinsTip.
BestBlockKnown ==
    /\ open /\ viewBest = NULL => tipBest = NULL /\ dbBest = NULL
    /\ ~open => view = Empty /\ viewBest = NULL

\* What a user makes of coins: a missing and a pruned entry are the same.
Unspent(coins) == [t \in TxId |-> IF coins[t] \in Pruned THEN Absent ELSE coins[t]]

\* The stack of caches behaves as three complete sets of coins: caching,
\* erasing and flushing in any order never bring back a spent coin, lose an
\* unspent one, or part the coins from the block they belong to.
Store == INSTANCE CoinsStore
           WITH CoinsOrNone <- (CCoins \ Pruned) \cup {Absent},
                disk <- Unspent(db), diskBest <- dbBest,
                mem <- Unspent(TipCoins), memBest <- TipBestBlock,
                private <- Unspent(ViewCoins), privateBest <- ViewBestBlock
StoreSpec == Store!Spec

=============================================================================

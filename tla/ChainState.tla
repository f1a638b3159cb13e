------------------------------ MODULE ChainState ------------------------------
(***************************************************************************)
(* The block index and the choice of the best chain (main.cpp):            *)
(* ProcessBlock, AcceptBlock, AddToBlockIndex, ConnectBestBlock,           *)
(* SetBestChain, InvalidBlockFound, LoadBlockIndexDB and Shutdown, with    *)
(* the holding area for orphan blocks, the two databases (block tree and   *)
(* coins) and crashes of the process between any two steps.                *)
(*                                                                         *)
(* All of this runs under cs_main, so one handler at a time is active; pc  *)
(* says where it is, and a step ends wherever a database write or a loop   *)
(* iteration of the code ends.                                             *)
(*                                                                         *)
(* Abstraction.  The set of coins is represented by the block it is the    *)
(* result of (CCoinsView::GetBestBlock); the coins themselves are modelled *)
(* in module Coins.  Whether a block passes the contextual header checks   *)
(* of AcceptBlock, or all checks of ConnectBlock, depends only on the      *)
(* block and its ancestors, and is given by the sets BadHeader and         *)
(* Invalid.                                                                *)
(***************************************************************************)
EXTENDS Integers, Sequences, FiniteSets

CONSTANTS
    Block,      \* the blocks that may ever be seen
    Genesis,    \* hashGenesisBlock
    Prev,       \* CBlockIndex::pprev, NULL for Genesis
    Work,       \* CBlockIndex::nChainWork, cumulative
    Hash,       \* GetBlockHash() as a number: breaks ties in the candidate set
    BadHeader,  \* blocks AcceptBlock refuses (proof of work, time, finality)
    Invalid,    \* blocks ConnectBlock finds to violate a rule
    NULL,       \* no block
    MaxFaults   \* bound on crashes and disk-space errors

ASSUME BlockTreeAssumption ==
    /\ Genesis \in Block /\ NULL \notin Block
    /\ Prev \in [Block -> Block \cup {NULL}]
    /\ \A b \in Block : Prev[b] = NULL <=> b = Genesis
    /\ Work \in [Block -> Nat \ {0}]
    /\ \A b \in Block \ {Genesis} : Work[Prev[b]] < Work[b]
    /\ Hash \in [Block -> Nat]
    /\ \A a, b \in Block : Hash[a] = Hash[b] => a = b

ASSUME RulesAssumption ==
    /\ BadHeader \subseteq Block \ {Genesis}
    /\ Invalid \subseteq Block \ {Genesis}

ASSUME FaultsAssumption == MaxFaults \in Nat

VARIABLES
    \* in memory, lost in a crash
    mapBlockIndex,       \* blocks with a CBlockIndex
    failed,              \* nStatus has a bit of BLOCK_FAILED_MASK
    haveUndo,            \* nStatus has BLOCK_HAVE_UNDO, at BLOCK_VALID_SCRIPTS
    setBlockIndexValid,  \* the candidates for the best chain
    pnext,               \* CBlockIndex::pnext
    pindexBest,          \* tip of the best chain
    coinsTip,            \* pcoinsTip->GetBestBlock()
    mapOrphanBlocks,     \* blocks waiting for their parent
    fRequestShutdown,
    \* on disk
    dbIndex,             \* blocks the block tree database has an entry for
    dbFailed,            \* ... whose entry has a bit of BLOCK_FAILED_MASK
    dbUndo,              \* ... whose entry has BLOCK_HAVE_UNDO
    dbCoinsTip,          \* best block of the coin database
    nBestInvalidWork,    \* written through to the block tree database
    \* the running handler
    pc,                  \* where it is
    cur,                 \* block in AddToBlockIndex, NULL in AppInit2's own
                         \* call of ConnectBestBlock
    vWorkQueue,          \* ProcessBlock: blocks whose orphans are to be tried
    vAttach,             \* ConnectBestBlock: blocks still to be made best
    pindexNew,           \* SetBestChain: the block it is to make best
    viewTip,             \* SetBestChain: best block of its private view
    faults               \* crashes and disk errors so far (bounds the model)

index   == <<mapBlockIndex, failed, haveUndo>>
chain   == <<setBlockIndexValid, pnext, pindexBest, coinsTip>>
disk    == <<dbIndex, dbFailed, dbUndo, dbCoinsTip, nBestInvalidWork>>
handler == <<pc, cur, vWorkQueue, vAttach, pindexNew, viewTip>>
vars    == <<index, chain, mapOrphanBlocks, fRequestShutdown, disk, handler, faults>>

MaybeBlock == Block \cup {NULL}

-----------------------------------------------------------------------------
(***************************************************************************)
(* The tree of blocks.                                                     *)
(***************************************************************************)

\* b and its ancestors: the smallest set that holds b and follows pprev.
Closed(S) == \A x \in S : Prev[x] \in S \cup {NULL}
Anc == [b \in Block |-> {a \in Block :
          \A S \in SUBSET Block : b \in S /\ Closed(S) => a \in S}]

\* The blocks from b down to the genesis block; none for NULL.
Chain(b) == IF b = NULL THEN {} ELSE Anc[b]

WorkOf(b) == IF b = NULL THEN 0 ELSE Work[b]

\* Fault: the comparator looks at the hash alone.
BetterByHash(a, b) == Hash[a] < Hash[b]

\* CBlockIndexWorkComparator: more work first, then the smaller hash.
Better(a, b) ==
    \/ Work[a] > Work[b]
    \/ Work[a] = Work[b] /\ Hash[a] < Hash[b]

\* *setBlockIndexValid.rbegin()
IsTop(b) == b \in setBlockIndexValid
            /\ \A c \in setBlockIndexValid \ {b} : Better(b, c)

\* The blocks the ancestry check of ConnectBestBlock visits, from b down to
\* the first one with a pnext or without a pprev.
Walk(b) == {a \in Anc[b] :
              \A c \in Anc[b] : a \in Anc[c] /\ c # a => pnext[c] = NULL}

-----------------------------------------------------------------------------
(***************************************************************************)
(* ProcessBlock and AcceptBlock                                            *)
(***************************************************************************)

Init ==
    /\ mapBlockIndex = {} /\ failed = {} /\ haveUndo = {}
    /\ setBlockIndexValid = {}
    /\ pnext = [b \in Block |-> NULL]
    /\ pindexBest = NULL /\ coinsTip = NULL
    /\ mapOrphanBlocks = {}
    /\ fRequestShutdown = FALSE
    /\ dbIndex = {} /\ dbFailed = {} /\ dbUndo = {}
    /\ dbCoinsTip = NULL /\ nBestInvalidWork = 0
    /\ pc = "down" /\ cur = NULL /\ vWorkQueue = <<>>
    /\ vAttach = {} /\ pindexNew = NULL /\ viewTip = NULL
    /\ faults = 0

\* AddToBlockIndex up to its call of ConnectBestBlock: a CBlockIndex at
\* BLOCK_VALID_TRANSACTIONS, made a candidate and written to the database.
AddToBlockIndex(b) ==
    /\ mapBlockIndex' = mapBlockIndex \cup {b}
    /\ setBlockIndexValid' = setBlockIndexValid \cup {b}
    /\ dbIndex' = dbIndex \cup {b}
    /\ cur' = b
    /\ pc' = "best"
    /\ UNCHANGED <<failed, haveUndo, pnext, pindexBest, coinsTip, dbFailed,
                   dbUndo, dbCoinsTip, nBestInvalidWork, vAttach, pindexNew,
                   viewTip>>

\* A block that is neither indexed nor held as an orphan.
IsNew(b) == b \notin mapBlockIndex /\ b \notin mapOrphanBlocks

\* ProcessBlock: a peer sends a block whose parent is unknown.
HoldOrphan(b) ==
    /\ pc = "idle"
    /\ IsNew(b) /\ Prev[b] \notin mapBlockIndex /\ Prev[b] # NULL
    /\ mapOrphanBlocks' = mapOrphanBlocks \cup {b}
    /\ UNCHANGED <<index, chain, fRequestShutdown, disk, handler, faults>>

\* ProcessBlock, AcceptBlock: a block whose parent is known and that passes
\* the contextual checks goes into the index.
AcceptBlock(b) ==
    /\ pc = "idle"
    /\ IsNew(b) /\ Prev[b] \in mapBlockIndex /\ b \notin BadHeader
    /\ AddToBlockIndex(b)
    /\ UNCHANGED <<mapOrphanBlocks, fRequestShutdown, vWorkQueue, faults>>

\* A failed CheckDiskSpace: AbortNode asks for a shutdown and the handler
\* returns with state.Error().
DiskSpaceLow ==
    /\ faults < MaxFaults
    /\ faults' = faults + 1
    /\ fRequestShutdown' = TRUE

\* AcceptBlock: FindBlockPos fails before the block is indexed.
AcceptBlockError(b) ==
    /\ pc = "idle"
    /\ IsNew(b) /\ Prev[b] \in mapBlockIndex /\ b \notin BadHeader
    /\ DiskSpaceLow
    /\ UNCHANGED <<index, chain, mapOrphanBlocks, disk, handler>>

\* ProcessBlock: an orphan that waits for the first block of vWorkQueue goes
\* through AcceptBlock; one that is refused is dropped.
TryOrphan(b) ==
    /\ pc = "orphans" /\ vWorkQueue # <<>>
    /\ b \in mapOrphanBlocks /\ Prev[b] = Head(vWorkQueue)
    /\ \/ /\ b \notin BadHeader \cup mapBlockIndex
          /\ AddToBlockIndex(b)
          /\ UNCHANGED mapOrphanBlocks
       \/ /\ b \in BadHeader \cup mapBlockIndex
          /\ mapOrphanBlocks' = mapOrphanBlocks \ {b}
          /\ UNCHANGED <<index, chain, disk, pc, cur, vAttach, pindexNew, viewTip>>
    /\ UNCHANGED <<fRequestShutdown, vWorkQueue, faults>>

\* AcceptBlock of an orphan: FindBlockPos fails, and the orphan is dropped.
TryOrphanError(b) ==
    /\ pc = "orphans" /\ vWorkQueue # <<>>
    /\ b \in mapOrphanBlocks \ BadHeader /\ Prev[b] = Head(vWorkQueue)
    /\ mapOrphanBlocks' = mapOrphanBlocks \ {b}
    /\ DiskSpaceLow
    /\ UNCHANGED <<index, chain, disk, handler>>

\* No orphan waits for the first block of vWorkQueue any more.
NextInWorkQueue ==
    /\ pc = "orphans" /\ vWorkQueue # <<>>
    /\ \A b \in mapOrphanBlocks : Prev[b] # Head(vWorkQueue)
    /\ vWorkQueue' = Tail(vWorkQueue)
    /\ UNCHANGED <<index, chain, mapOrphanBlocks, fRequestShutdown, disk, pc,
                   cur, vAttach, pindexNew, viewTip, faults>>

\* ProcessBlock returns true.
ProcessBlockDone ==
    /\ pc = "orphans" /\ vWorkQueue = <<>>
    /\ pc' = "idle"
    /\ UNCHANGED <<index, chain, mapOrphanBlocks, fRequestShutdown, disk,
                   cur, vWorkQueue, vAttach, pindexNew, viewTip, faults>>

-----------------------------------------------------------------------------
(***************************************************************************)
(* ConnectBestBlock                                                        *)
(***************************************************************************)

\* InvalidChainFound.
BestInvalid(b) == IF Work[b] > nBestInvalidWork THEN Work[b] ELSE nBestInvalidWork

\* The process ends; what is only in memory is gone.
LoseMemory ==
    /\ mapBlockIndex' = {} /\ failed' = {} /\ haveUndo' = {}
    /\ setBlockIndexValid' = {}
    /\ pnext' = [b \in Block |-> NULL]
    /\ pindexBest' = NULL /\ coinsTip' = NULL
    /\ mapOrphanBlocks' = {} /\ fRequestShutdown' = FALSE
    /\ pc' = "down" /\ cur' = NULL /\ vWorkQueue' = <<>>
    /\ vAttach' = {} /\ pindexNew' = NULL /\ viewTip' = NULL

\* ConnectBestBlock returns at once: no candidate, or none with more work.
NothingToDo ==
    \/ setBlockIndexValid = {}
    \/ \E top \in setBlockIndexValid :
         IsTop(top) /\ (top = pindexBest \/ WorkOf(top) = WorkOf(pindexBest))

NoBetterCandidate ==
    /\ pc = "best" /\ NothingToDo
    /\ pc' = "done"
    /\ UNCHANGED <<index, chain, mapOrphanBlocks, fRequestShutdown, disk, cur,
                   vWorkQueue, vAttach, pindexNew, viewTip, faults>>

\* The blocks above the topmost failed one that the ancestry check finds
\* below candidate top.
FailedDescendants(top) ==
    {a \in Walk(top) : /\ \E f \in Walk(top) \cap failed : f \in Anc[a]
                       /\ \A f \in Walk(top) \cap failed : a \notin Anc[f]}

\* Fault: the failed blocks stay candidates.
MarkWithoutErase(S) == failed' = failed \cup S /\ UNCHANGED setBlockIndexValid

\* BLOCK_FAILED_CHILD, in memory.
MarkFailed(S) ==
    /\ failed' = failed \cup S
    /\ setBlockIndexValid' = setBlockIndexValid \ S

\* ConnectBestBlock finds a failed ancestor: the blocks above it are failed
\* too, and the next candidate is tried.  The log line of InvalidChainFound
\* reads pindexBest without a test, so the process dies here without one.
MarkFailedDescendants(top) ==
    /\ pc = "best" /\ ~NothingToDo /\ IsTop(top)
    /\ Walk(top) \cap failed # {}
    /\ dbFailed' = dbFailed \cup FailedDescendants(top)
    /\ nBestInvalidWork' = BestInvalid(top)
    /\ UNCHANGED <<dbIndex, dbUndo, dbCoinsTip, faults>>
    /\ \/ /\ pindexBest # NULL
          /\ MarkFailed(FailedDescendants(top))
          /\ UNCHANGED <<mapBlockIndex, haveUndo, pnext, pindexBest, coinsTip,
                         mapOrphanBlocks, fRequestShutdown, handler>>
       \/ pindexBest = NULL /\ LoseMemory

\* Fault: >= for >, blocks with the work of pindexBest are attached too.
ToAttachOrEqual(top) ==
    {a \in Walk(top) \ {pindexBest} : Work[a] >= WorkOf(pindexBest)}

\* The blocks on the way to the candidate with more work than the best chain.
ToAttach(top) == {a \in Walk(top) : Work[a] > WorkOf(pindexBest)}

\* The ancestry of the best candidate is sound: its blocks are to be made
\* best one after the other.
StartAttach(top) ==
    /\ pc = "best" /\ ~NothingToDo /\ IsTop(top)
    /\ Walk(top) \cap failed = {}
    /\ vAttach' = ToAttach(top)
    /\ pc' = "attach"
    /\ UNCHANGED <<index, chain, mapOrphanBlocks, fRequestShutdown, disk, cur,
                   vWorkQueue, pindexNew, viewTip, faults>>

AttachDone ==
    /\ pc = "attach" /\ vAttach = {}
    /\ pc' = "done"
    /\ UNCHANGED <<index, chain, mapOrphanBlocks, fRequestShutdown, disk, cur,
                   vWorkQueue, vAttach, pindexNew, viewTip, faults>>

\* The interruption point between two calls of SetBestChain: once a shutdown
\* is requested the thread ends here, unless it is the one in AppInit2.
Interrupted ==
    /\ pc = "attach" /\ vAttach # {}
    /\ fRequestShutdown /\ cur \notin {NULL, Genesis}
    /\ pc' = "idle" /\ vAttach' = {} /\ cur' = NULL /\ vWorkQueue' = <<>>
    /\ UNCHANGED <<index, chain, mapOrphanBlocks, fRequestShutdown, disk,
                   pindexNew, viewTip, faults>>

-----------------------------------------------------------------------------
(***************************************************************************)
(* SetBestChain                                                            *)
(***************************************************************************)

\* SetBestChain begins with a private view on top of pcoinsTip.
SetBestChain(b) ==
    /\ pc = "attach" /\ b \in vAttach
    /\ \A a \in vAttach : Work[b] <= Work[a]
    /\ pindexNew' = b /\ viewTip' = coinsTip
    /\ pc' = "switch"
    /\ UNCHANGED <<index, chain, mapOrphanBlocks, fRequestShutdown, disk, cur,
                   vWorkQueue, vAttach, faults>>

vDisconnect == Chain(coinsTip) \ Chain(pindexNew)
vConnect    == Chain(pindexNew) \ Chain(coinsTip)

\* The tip of the view is not an ancestor of pindexNew: undo it.
DisconnectBlock ==
    /\ pc = "switch"
    /\ viewTip \in vDisconnect /\ viewTip \in haveUndo
    /\ viewTip' = Prev[viewTip]
    /\ UNCHANGED <<index, chain, mapOrphanBlocks, fRequestShutdown, disk, pc,
                   cur, vWorkQueue, vAttach, pindexNew, faults>>

\* The block SetBestChain connects next.
Connects(b) == pc = "switch" /\ b \in vConnect /\ Prev[b] = viewTip

\* Fault: the new nStatus is not written to the block tree database.
UndoNotWritten(b) == haveUndo' = haveUndo \cup ({b} \ {Genesis}) /\ UNCHANGED dbUndo

\* BLOCK_HAVE_UNDO, in memory and on disk, for all but the genesis block.
UndoWritten(b) ==
    /\ haveUndo' = haveUndo \cup ({b} \ {Genesis})
    /\ dbUndo' = dbUndo \cup ({b} \ {Genesis})

\* ConnectBlock succeeds.
ConnectBlock(b) ==
    /\ Connects(b) /\ b \notin Invalid
    /\ viewTip' = b
    /\ UndoWritten(b)
    /\ UNCHANGED <<mapBlockIndex, failed, chain, mapOrphanBlocks,
                   fRequestShutdown, dbIndex, dbFailed, dbCoinsTip,
                   nBestInvalidWork, pc, cur, vWorkQueue, vAttach, pindexNew,
                   faults>>

\* SetBestChain returns false and ConnectBestBlock with it.
SetBestChainFails ==
    /\ pc' = "fail" /\ vAttach' = {} /\ pindexNew' = NULL /\ viewTip' = NULL
    /\ UNCHANGED <<mapBlockIndex, haveUndo, mapOrphanBlocks, cur, vWorkQueue,
                   dbIndex, dbUndo, dbCoinsTip, pnext, pindexBest>>

\* Fault: InvalidBlockFound leaves the block among the candidates.
InvalidNotErased(b) ==
    /\ failed' = failed \cup {b} /\ dbFailed' = dbFailed \cup {b}
    /\ UNCHANGED setBlockIndexValid

\* Fault: InvalidBlockFound does not write the block's nStatus.
InvalidNotWritten(b) ==
    /\ failed' = failed \cup {b} /\ setBlockIndexValid' = setBlockIndexValid \ {b}
    /\ UNCHANGED dbFailed

\* InvalidBlockFound.  The block has no pnext, so nothing is reorganised away
\* from it (BestChainValid).
InvalidBlockFound(b) ==
    /\ failed' = failed \cup {b} /\ dbFailed' = dbFailed \cup {b}
    /\ setBlockIndexValid' = setBlockIndexValid \ {b}

\* Fault: SetBestChain goes on after a block that fails to connect.
InvalidWithoutReturn(b) ==
    /\ Connects(b) /\ b \in Invalid
    /\ nBestInvalidWork' = BestInvalid(pindexNew)
    /\ InvalidBlockFound(b)
    /\ viewTip' = b
    /\ UNCHANGED <<mapBlockIndex, haveUndo, pnext, pindexBest, coinsTip,
                   mapOrphanBlocks, fRequestShutdown, dbIndex, dbUndo,
                   dbCoinsTip, pc, cur, vWorkQueue, vAttach, pindexNew,
                   faults>>

\* ConnectBlock finds a violated rule: InvalidChainFound, InvalidBlockFound.
ConnectBlockInvalid(b) ==
    /\ Connects(b) /\ b \in Invalid
    /\ nBestInvalidWork' = BestInvalid(pindexNew)
    /\ InvalidBlockFound(b)
    /\ SetBestChainFails
    /\ UNCHANGED <<coinsTip, fRequestShutdown, faults>>

\* Fault: no test of state.IsInvalid(), a full disk counts as a bad block.
ErrorMarksFailed(b) ==
    /\ Connects(b) /\ b \notin Invalid
    /\ b \notin haveUndo /\ b # Genesis
    /\ DiskSpaceLow
    /\ InvalidBlockFound(b)
    /\ SetBestChainFails
    /\ UNCHANGED <<coinsTip, nBestInvalidWork>>

\* ConnectBlock finds no room for the undo data (FindUndoPos).
ConnectBlockError(b) ==
    /\ Connects(b) /\ b \notin Invalid
    /\ b \notin haveUndo /\ b # Genesis
    /\ DiskSpaceLow
    /\ SetBestChainFails
    /\ UNCHANGED <<failed, setBlockIndexValid, coinsTip, dbFailed, nBestInvalidWork>>

\* Fault: the links into the disconnected branch are not cut.
LinksWithoutCut == [b \in Block |->
    IF \E c \in vConnect : Prev[c] = b THEN CHOOSE c \in vConnect : Prev[c] = b
    ELSE pnext[b]]

\* The links after a reorganisation: cut below the disconnected branch, set
\* along the connected one.
NewLinks == [b \in Block |->
    IF \E c \in vConnect : Prev[c] = b THEN CHOOSE c \in vConnect : Prev[c] = b
    ELSE IF \E d \in vDisconnect : Prev[d] = b THEN NULL ELSE pnext[b]]

\* All blocks are connected in the view: it is flushed into pcoinsTip, that
\* one to disk unless in initial download, and the memory is updated.
SwitchTip ==
    /\ pc = "switch" /\ viewTip = pindexNew
    /\ coinsTip' = pindexNew
    /\ \/ UNCHANGED dbCoinsTip
       \/ pindexBest # NULL /\ dbCoinsTip' = pindexNew
    /\ pnext' = NewLinks
    /\ pindexBest' = pindexNew
    /\ vAttach' = vAttach \ {pindexNew}
    /\ pindexNew' = NULL /\ viewTip' = NULL
    /\ pc' = "attach"
    /\ UNCHANGED <<index, setBlockIndexValid, mapOrphanBlocks, fRequestShutdown,
                   dbIndex, dbFailed, dbUndo, nBestInvalidWork, cur, vWorkQueue,
                   faults>>

\* The view is flushed into pcoinsTip, then there is no room to flush that.
SwitchTipError ==
    /\ pc = "switch" /\ viewTip = pindexNew
    /\ pindexBest # NULL
    /\ coinsTip' = pindexNew
    /\ DiskSpaceLow
    /\ SetBestChainFails
    /\ UNCHANGED <<failed, setBlockIndexValid, dbFailed, nBestInvalidWork>>

-----------------------------------------------------------------------------
(***************************************************************************)
(* ConnectBestBlock returns to its caller                                  *)
(***************************************************************************)

\* Fault: the orphans of an accepted orphan are not queued.
QueueOnlyFirst == IF pc = "done" /\ vWorkQueue = <<>> THEN <<cur>> ELSE vWorkQueue

\* vWorkQueue after AcceptBlock has returned.
NewWorkQueue == IF pc = "done" THEN Append(vWorkQueue, cur) ELSE vWorkQueue

\* AddToBlockIndex and AcceptBlock return to ProcessBlock: it goes on with
\* the orphans of a block it could add, and gives up on its own block if not.
AcceptBlockReturns ==
    /\ pc \in {"done", "fail"} /\ cur \notin {NULL, Genesis}
    /\ vWorkQueue' = NewWorkQueue
    /\ pc' = IF pc = "fail" /\ vWorkQueue = <<>> THEN "idle" ELSE "orphans"
    /\ mapOrphanBlocks' = mapOrphanBlocks \ {cur}
    /\ cur' = NULL
    /\ UNCHANGED <<index, chain, fRequestShutdown, disk, vAttach, pindexNew,
                   viewTip, faults>>

\* InitBlockIndex returns to AppInit2, which scans for better chains.
GenesisAdded ==
    /\ pc = "done" /\ cur = Genesis
    /\ cur' = NULL /\ pc' = "best"
    /\ UNCHANGED <<index, chain, mapOrphanBlocks, fRequestShutdown, disk,
                   vWorkQueue, vAttach, pindexNew, viewTip, faults>>

\* AppInit2 comes to its end, and the node serves.
InitDone ==
    /\ pc = "done" /\ cur = NULL
    /\ pc' = "idle"
    /\ UNCHANGED <<index, chain, mapOrphanBlocks, fRequestShutdown, disk, cur,
                   vWorkQueue, vAttach, pindexNew, viewTip, faults>>

\* Shutdown writes the coins and ends the process.
FlushAndExit ==
    /\ dbCoinsTip' = coinsTip
    /\ LoseMemory
    /\ UNCHANGED <<dbIndex, dbFailed, dbUndo, nBestInvalidWork, faults>>

\* "Failed to connect best block": AppInit2 fails, and AppInit calls Shutdown.
InitError == pc = "fail" /\ cur = NULL /\ FlushAndExit

-----------------------------------------------------------------------------
(***************************************************************************)
(* Start, shutdown and crash                                               *)
(***************************************************************************)

\* VerifyDB disconnects the blocks of the best chain on a scratch view.
VerifyDB == Chain(dbCoinsTip) \ {Genesis} \subseteq dbUndo

\* LoadBlockIndexDB.
LoadBlockIndexDB ==
    /\ failed' = dbFailed /\ haveUndo' = dbUndo
    /\ pindexBest' = dbCoinsTip /\ coinsTip' = dbCoinsTip
    /\ pnext' = [b \in Block |->
                   IF \E c \in Chain(dbCoinsTip) : Prev[c] = b
                   THEN CHOOSE c \in Chain(dbCoinsTip) : Prev[c] = b ELSE NULL]
    /\ UNCHANGED <<mapOrphanBlocks, fRequestShutdown, dbFailed, dbUndo,
                   dbCoinsTip, nBestInvalidWork, vWorkQueue, vAttach, pindexNew,
                   viewTip, faults>>

\* AppInit2 loads the index; InitBlockIndex adds the genesis block to an
\* empty one.
Start ==
    /\ pc = "down" /\ VerifyDB
    /\ LoadBlockIndexDB
    /\ dbIndex' = dbIndex \cup {Genesis}
    /\ mapBlockIndex' = dbIndex'
    /\ setBlockIndexValid' = dbIndex' \ dbFailed
    /\ cur' = IF Genesis \in dbIndex THEN NULL ELSE Genesis
    /\ pc' = "best"

\* HandleSIGTERM or the RPC command stop, at any time.
StartShutdown ==
    /\ pc # "down" /\ ~fRequestShutdown
    /\ fRequestShutdown' = TRUE
    /\ UNCHANGED <<index, chain, mapOrphanBlocks, disk, handler, faults>>

\* Shutdown, once every other thread has ended.
Shutdown == pc = "idle" /\ fRequestShutdown /\ FlushAndExit

\* The process is killed; the databases keep what was written to them.
Crash ==
    /\ pc # "down"
    /\ faults < MaxFaults /\ faults' = faults + 1
    /\ LoseMemory
    /\ UNCHANGED disk

\* The process is killed while ConnectBestBlock marks descendants: from the
\* top down, the entries of some are written, nBestInvalidWork is not.
CrashInMarking(top) ==
    /\ pc = "best" /\ ~NothingToDo /\ IsTop(top)
    /\ faults < MaxFaults /\ faults' = faults + 1
    /\ \E a \in FailedDescendants(top) :
         dbFailed' = dbFailed \cup {d \in FailedDescendants(top) : Work[d] >= Work[a]}
    /\ LoseMemory
    /\ UNCHANGED <<dbIndex, dbUndo, dbCoinsTip, nBestInvalidWork>>

\* Fault: SetBestChain calls InvalidBlockFound first.
MarkedBeforeWork(b) ==
    /\ Connects(b) /\ b \in Invalid
    /\ faults < MaxFaults /\ faults' = faults + 1
    /\ dbFailed' = dbFailed \cup {b}
    /\ LoseMemory
    /\ UNCHANGED <<dbIndex, dbUndo, dbCoinsTip, nBestInvalidWork>>

\* The process is killed between InvalidChainFound and InvalidBlockFound.
CrashInInvalidFound(b) ==
    /\ Connects(b) /\ b \in Invalid
    /\ faults < MaxFaults /\ faults' = faults + 1
    /\ nBestInvalidWork' = BestInvalid(pindexNew)
    /\ LoseMemory
    /\ UNCHANGED <<dbIndex, dbFailed, dbUndo, dbCoinsTip>>

-----------------------------------------------------------------------------

\* The steps of the running handler, which nothing but a fault can stop.
HandlerStep ==
    \/ \E b \in Block : TryOrphan(b)
    \/ NextInWorkQueue \/ ProcessBlockDone
    \/ NoBetterCandidate
    \/ \E top \in Block : MarkFailedDescendants(top) \/ StartAttach(top)
    \/ AttachDone
    \/ \E b \in Block : SetBestChain(b)
    \/ DisconnectBlock
    \/ \E b \in Block : ConnectBlock(b) \/ ConnectBlockInvalid(b)
    \/ SwitchTip
    \/ AcceptBlockReturns \/ GenesisAdded \/ InitDone \/ InitError

Fault ==
    \/ \E b \in Block : AcceptBlockError(b) \/ TryOrphanError(b) \/ ConnectBlockError(b)
    \/ SwitchTipError
    \/ Crash
    \/ \E b \in Block : CrashInMarking(b) \/ CrashInInvalidFound(b)

Next ==
    \/ \E b \in Block : HoldOrphan(b) \/ AcceptBlock(b)
    \/ HandlerStep
    \/ Interrupted
    \/ Start \/ StartShutdown \/ Shutdown
    \/ Fault

Spec == Init /\ [][Next]_vars

\* A handler runs until it returns, and a node that is down is started again.
FairSpec == Spec /\ WF_vars(HandlerStep) /\ WF_vars(Start)

-----------------------------------------------------------------------------
(***************************************************************************)
(* Properties                                                              *)
(***************************************************************************)

MemoryTypeOK ==
    /\ mapBlockIndex \subseteq Block /\ failed \subseteq Block
    /\ haveUndo \subseteq Block /\ setBlockIndexValid \subseteq Block
    /\ pnext \in [Block -> MaybeBlock]
    /\ pindexBest \in MaybeBlock /\ coinsTip \in MaybeBlock
    /\ mapOrphanBlocks \subseteq Block
DiskTypeOK ==
    /\ dbIndex \subseteq Block /\ dbFailed \subseteq Block /\ dbUndo \subseteq Block
    /\ dbCoinsTip \in MaybeBlock /\ nBestInvalidWork \in Nat
HandlerTypeOK ==
    /\ pc \in {"down", "idle", "best", "attach", "switch", "done", "fail", "orphans"}
    /\ cur \in MaybeBlock /\ vAttach \subseteq Block
    /\ pindexNew \in MaybeBlock /\ viewTip \in MaybeBlock

\* The values the variables range over.
TypeOK ==
    /\ MemoryTypeOK /\ DiskTypeOK /\ HandlerTypeOK
    /\ vWorkQueue \in Seq(Block)
    /\ fRequestShutdown \in BOOLEAN
    /\ faults \in 0 .. MaxFaults

\* pindexBest, pcoinsTip and the pnext pointers agree between any two calls of
\* SetBestChain, whatever blocks were disconnected or failed to connect: the
\* pointers link exactly the chain of pindexBest, whose coins pcoinsTip holds.
\* Only a node that is shutting down may have left its coins ahead.
MainChainLinked ==
    ~fRequestShutdown =>
        /\ coinsTip = pindexBest
        /\ \A b, c \in Block : pnext[b] = c <=> c \in Chain(pindexBest) /\ Prev[c] = b

\* No block that breaks a rule, and none marked as failed, is ever on the best
\* chain or in the coins of memory or disk, reorganisations and restarts
\* included.
BestChainValid ==
    \A tip \in {pindexBest, coinsTip, dbCoinsTip} :
        Chain(tip) \cap (failed \cup dbFailed \cup Invalid) = {}

\* setBlockIndexValid "must contain those who aren't failed" and none that is:
\* a failed candidate would make ConnectBestBlock loop for ever.
CandidatesRight == setBlockIndexValid = mapBlockIndex \ failed

\* A block is marked as failed only for a rule that it or an ancestor breaks:
\* no order of arrival, full disk or crash makes the node shun a good block.
FailedSound == \A b \in failed \cup dbFailed : Anc[b] \cap Invalid # {}

\* Whatever the tip of the coins, in memory or after a crash on disk, the
\* blocks down to the genesis block are indexed and can be disconnected again.
UndoAvailable ==
    /\ Chain(coinsTip) \subseteq mapBlockIndex
    /\ Chain(coinsTip) \ {Genesis} \subseteq haveUndo
    /\ Chain(dbCoinsTip) \subseteq dbIndex
    /\ Chain(dbCoinsTip) \ {Genesis} \subseteq dbUndo

\* Between two messages no fully valid block that the node knows has more work
\* than its best chain, although ConnectBestBlock gives up at the first block
\* that fails to connect.
BestHasMostWork ==
    pc = "idle" /\ ~fRequestShutdown =>
        \A b \in mapBlockIndex :
            Anc[b] \cap Invalid = {} => Work[b] <= WorkOf(pindexBest)

\* Between two messages an orphan whose parent is in the index is left over
\* only where the parent's chain has failed.
OrphansResolved ==
    pc = "idle" /\ ~fRequestShutdown =>
        \A b \in mapOrphanBlocks :
            Prev[b] \in mapBlockIndex => Anc[Prev[b]] \cap failed # {}

\* nBestInvalidWork on disk, from which GetWarnings warns the user, covers the
\* first offender of every failed branch: it is written before the mark.
InvalidWorkCovers ==
    \A b \in dbFailed : Anc[b] \cap Invalid = {b} => Work[b] <= nBestInvalidWork

\* While the node runs, the best chain only ever changes to one with more work.
BestWorkGrows ==
    [][pc # "down" /\ pc' # "down" /\ pindexBest' # pindexBest
         => WorkOf(pindexBest') > WorkOf(pindexBest)]_vars

\* ProcessBlock and the call of ConnectBestBlock in AppInit2 return: marking
\* failed blocks makes progress, whatever the index holds.
HandlerReturns == (pc \notin {"idle", "down"}) ~> (pc \in {"idle", "down"})

\* A node that went down, by Shutdown or in a crash at any point, comes up
\* again if it is started often enough.
Restarts == (pc = "down") ~> (pc = "idle")

=============================================================================

---------------------------- MODULE MemPoolProofs ----------------------------
(***************************************************************************)
(* Proofs about the memory pool, the orphan transactions and the miner,    *)
(* for any transactions, any tree of blocks and any limit on the orphans:  *)
(* the index of the outputs the pool spends is exact as long as the        *)
(* start-up thread has added nothing, the two maps of the orphans always   *)
(* agree, the pool holds nothing the chain has confirmed, every block made *)
(* of it connects, and one with room for all leaves nothing out.           *)
(***************************************************************************)
EXTENDS Miner, CoinRulesProofs

\* mapNextTx has every input of a pool transaction; with NoDanglingPtr, and
\* nothing else.
InputsIndexed == \A t \in mapTx : \A o \in Outpoint \cap Inputs(t) : mapNextTx[o] = t

\* What accept has found out is still true when it comes to addUnchecked.
StillFree ==
    accepting # NULL => \A o \in Outpoint \cap Inputs(accepting) : mapNextTx[o] = NULL

\* The invariant of the pool, inductive as long as the start-up thread has put
\* nothing back.
PoolInv == NULL \notin mapTx /\ NoDanglingPtr /\ InputsIndexed /\ StillFree

\* The pool starts empty.
LEMMA PoolInit == Init => PoolInv
  BY DEF Init, PoolInv, NoDanglingPtr, InputsIndexed, StillFree

\* The checks of accept leave nothing in mapNextTx for an input.
LEMMA AcceptableFree ==
  ASSUME NEW t, Acceptable(t)
  PROVE  \A o \in Outpoint \cap Inputs(t) : mapNextTx[o] = NULL
  BY DEF Acceptable, Refused

\* addUnchecked keeps the invariant if the inputs are free.
LEMMA AddUncheckedKeeps ==
  ASSUME PoolInv, AcceptEnds
  PROVE  PoolInv'
<1>1. /\ accepting # NULL /\ accepting' = NULL
      /\ mapTx' = mapTx \cup {accepting}
      /\ mapNextTx' = [o \in Outpoint |-> IF o \in Inputs(accepting) THEN accepting
                                          ELSE mapNextTx[o]]
  BY DEF AcceptEnds, AddUnchecked
<1>2. NoDanglingPtr'
  BY <1>1 DEF PoolInv, NoDanglingPtr, Inputs
<1>3. InputsIndexed'
  BY <1>1 DEF PoolInv, NoDanglingPtr, InputsIndexed, StillFree, Inputs
<1> QED
  BY <1>1, <1>2, <1>3 DEF PoolInv, StillFree

\* removeConflicts removes pool transactions only.
LEMMA ConflictsInPool == ASSUME NEW t PROVE ConflictsOf(t) \subseteq mapTx
<1>1. \A u : RemoveRecursive(u, mapTx, mapNextTx) \subseteq mapTx
  BY DEF RemoveRecursive, Descendants
<1> QED
  BY <1>1 DEF ConflictsOf

\* Removing any set of pool transactions keeps the invariant.
LEMMA RemoveAllKeeps ==
  ASSUME PoolInv, NEW S \in SUBSET mapTx, RemoveAll(S), accepting = NULL, accepting' = NULL
  PROVE  PoolInv'
<1>1. /\ mapTx' = mapTx \ S
      /\ mapNextTx' = [o \in Outpoint |->
                         IF \E t \in S : o \in Inputs(t) THEN NULL ELSE mapNextTx[o]]
  BY DEF RemoveAll
<1>2. NoDanglingPtr'
  <2> SUFFICES ASSUME NEW o \in Outpoint, mapNextTx'[o] # NULL
               PROVE  mapNextTx'[o] \in mapTx' /\ o \in Inputs(mapNextTx'[o])
    BY DEF NoDanglingPtr, Inputs, Outpoint, Loose
  <2>1. mapNextTx'[o] = mapNextTx[o] /\ ~ \E t \in S : o \in Inputs(t)
    BY <1>1
  <2> QED
    BY <1>1, <2>1 DEF PoolInv, NoDanglingPtr
<1>3. InputsIndexed'
  <2> SUFFICES ASSUME NEW t \in mapTx', NEW o \in Outpoint \cap Inputs(t)
               PROVE  mapNextTx'[o] = t
    BY DEF InputsIndexed, Inputs, Outpoint, Loose
  <2>1. mapNextTx[o] = t /\ t \in mapTx /\ t \notin S
    BY <1>1 DEF PoolInv, InputsIndexed
  <2>2. \A u \in S : o \notin Inputs(u)
    BY <2>1 DEF PoolInv, InputsIndexed
  <2> QED
    BY <1>1, <2>1, <2>2
<1> QED
  BY <1>1, <1>2, <1>3 DEF PoolInv, StillFree

\* A step of the start-up thread is the only one that disturbs.
LEMMA DisturbedForGood == ASSUME NEW t \in WalletTx, Reaccept(t) PROVE ~Undisturbed'
  BY DEF Reaccept, Undisturbed

\* Every step that leaves the pool undisturbed keeps the invariant.
LEMMA PoolStep == ASSUME PoolInv, Undisturbed', [Next]_vars PROVE PoolInv'
<1> USE DEF PoolInv, NoDanglingPtr, InputsIndexed, StillFree
<1>1. ASSUME NEW t \in Loose, ReceiveTx(t) PROVE PoolInv'
  BY <1>1, AcceptableFree DEF ReceiveTx, pool
<1>2. ASSUME NEW t \in Loose, ReceiveOrphan(t) PROVE PoolInv'
  BY <1>2 DEF ReceiveOrphan, pool
<1>3. ASSUME NEW t \in Loose, SubmitTx(t) PROVE PoolInv'
  BY <1>3, AcceptableFree DEF SubmitTx, pool
<1>4. ASSUME NEW t \in Loose, TryOrphan(t) PROVE PoolInv'
  BY <1>4, AcceptableFree DEF TryOrphan, pool
<1>5. CASE AcceptEnds
  BY <1>5, AddUncheckedKeeps
<1>6. CASE NextInWorkQueue
  BY <1>6 DEF NextInWorkQueue, pool
<1>7. CASE TxDone
  BY <1>7 DEF TxDone, pool
<1>8. ASSUME NEW b \in Block, SetBestChain(b) PROVE PoolInv'
  BY <1>8 DEF SetBestChain, pool
<1>9. CASE Resurrect
  BY <1>9, AcceptableFree DEF Resurrect, pool
<1>10. CASE DeleteTx
  <2>1. PICK t : RemoveAll((mapTx \cap {t}) \cup ConflictsOf(t))
    BY <1>10 DEF DeleteTx
  <2>2. (mapTx \cap {t}) \cup ConflictsOf(t) \in SUBSET mapTx
    BY ConflictsInPool
  <2>3. accepting = NULL /\ accepting' = NULL
    BY <1>10 DEF DeleteTx
  <2> QED
    BY <2>1, <2>2, <2>3, RemoveAllKeeps
<1>11. CASE SetBestChainDone
  BY <1>11 DEF SetBestChainDone, pool
<1>12. CASE UNCHANGED vars
  BY <1>12 DEF vars, pool
<1>13. ASSUME NEW t \in Loose, RefuseTx(t) PROVE PoolInv'
  BY <1>13, <1>12 DEF RefuseTx
<1> HIDE DEF PoolInv
<1> QED
  BY <1>1, <1>2, <1>3, <1>4, <1>5, <1>6, <1>7, <1>8, <1>9, <1>10, <1>11, <1>12, <1>13,
     DisturbedForGood DEF Next

\* Undisturbed now, undisturbed before.
LEMMA UndisturbedBefore == ASSUME [Next]_vars, Undisturbed' PROVE Undisturbed
  BY DEF Next, vars, ReceiveTx, ReceiveOrphan, RefuseTx, SubmitTx, TryOrphan, AcceptEnds,
         NextInWorkQueue, TxDone, SetBestChain, Resurrect, DeleteTx, SetBestChainDone,
         Reaccept, Undisturbed

\* As long as the start-up thread has put nothing back, mapNextTx holds the
\* inputs of the pool's transactions and nothing else: accept, addUnchecked,
\* remove and removeConflicts let no output be spent twice in the pool and
\* leave none blocked, whatever is received and reorganised.
THEOREM PoolIndexCorrect == Spec => []PoolIndexed
<1>1. Init => (Undisturbed => PoolInv)
  BY PoolInit
<1>2. (Undisturbed => PoolInv) /\ [Next]_vars => (Undisturbed => PoolInv)'
  <2> SUFFICES ASSUME Undisturbed => PoolInv, [Next]_vars, Undisturbed' PROVE PoolInv'
    OBVIOUS
  <2>1. Undisturbed
    BY UndisturbedBefore
  <2> QED
    BY <2>1, PoolStep
<1>3. (Undisturbed => PoolInv) => PoolIndexed
  BY TxAssumption DEF PoolInv, NoDanglingPtr, InputsIndexed, PoolIndexed, Loose
<1> QED
  BY <1>1, <1>2, <1>3, PTL DEF Spec

-----------------------------------------------------------------------------
(***************************************************************************)
(* mapOrphanTransactions and mapOrphanTransactionsByPrev                   *)
(***************************************************************************)

\* EraseOrphanTx takes any set of orphans out of both maps.
LEMMA EraseKeeps ==
  ASSUME NEW S, NEW all, NEW byPrev,
         \A h \in TxId : byPrev[h] = {t \in all : h \in Prevs(t)},
         SetOrphans(EraseOrphanTx(S, all, byPrev))
  PROVE  OrphanIndex'
<1>1. /\ mapOrphanTransactions' = all \ S
      /\ mapOrphanTransactionsByPrev' = [h \in TxId |-> byPrev[h] \ S]
  BY DEF SetOrphans, EraseOrphanTx, EraseFrom
<1>2. ASSUME NEW h \in TxId
      PROVE  mapOrphanTransactionsByPrev'[h] = {t \in mapOrphanTransactions' : h \in Prevs(t)}
  BY <1>1, <1>2
<1> QED
  BY <1>2 DEF OrphanIndex, Prevs, Inputs

\* AddOrphanTx with the evictions that follow.
LEMMA AddOrphanKeeps == ASSUME OrphanIndex, NEW t, AddOrphanTx(t) PROVE OrphanIndex'
<1> DEFINE all == mapOrphanTransactions \cup {t}
           byPrev == [h \in TxId |-> IF h \in Prevs(t)
                                     THEN mapOrphanTransactionsByPrev[h] \cup {t}
                                     ELSE mapOrphanTransactionsByPrev[h]]
<1>1. PICK S : SetOrphans(EraseOrphanTx(S, all, byPrev))
  BY DEF AddOrphanTx
<1>2. ASSUME NEW h \in TxId PROVE byPrev[h] = {u \in all : h \in Prevs(u)}
  BY <1>2 DEF OrphanIndex
<1> QED
  BY <1>1, <1>2, EraseKeeps

\* The two maps of the orphans agree, whoever adds to the pool meanwhile: an
\* orphan is found under each of its parents until it is erased or evicted.
THEOREM OrphanIndexCorrect == Spec => []OrphanIndex
<1>1. Init => OrphanIndex
  BY DEF Init, OrphanIndex
<1>2. ASSUME OrphanIndex, [Next]_vars PROVE OrphanIndex'
  <2>1. ASSUME NEW t \in Loose, ReceiveOrphan(t) PROVE OrphanIndex'
    BY <2>1, <1>2, AddOrphanKeeps DEF ReceiveOrphan
  <2>2. CASE TxDone
    BY <2>2, <1>2, EraseKeeps DEF TxDone, OrphanIndex
  <2>3. CASE UNCHANGED orphans
    BY <2>3, <1>2 DEF orphans, OrphanIndex, Prevs, Inputs
  <2>4. \/ \E t \in Loose : ReceiveOrphan(t)
        \/ TxDone \/ UNCHANGED orphans
    BY <1>2 DEF Next, vars, ReceiveTx, RefuseTx, SubmitTx, TryOrphan, AcceptEnds,
                NextInWorkQueue, SetBestChain, Resurrect, DeleteTx, SetBestChainDone, Reaccept
  <2> QED
    BY <2>1, <2>2, <2>3, <2>4
<1> QED
  BY <1>1, <1>2, PTL DEF Spec

-----------------------------------------------------------------------------
(***************************************************************************)
(* The orphans that an accepted transaction releases                       *)
(***************************************************************************)

\* Orphan t is yet to be tried, is to be erased, or cannot be accepted.
Seen(t) ==
    \/ t \in vTry \cup vEraseQueue
    \/ accepting # NULL /\ (t = accepting \/ accepting \in Prevs(t))
    \/ \E j \in nWorked + 1 .. Len(vWorkQueue) : vWorkQueue[j] \in Prevs(t)
    \/ Unresolved(t)

QueueType ==
    /\ mapOrphanTransactions \subseteq Loose
    /\ pc = "tx" => /\ vWorkQueue \in Seq(Loose) /\ nWorked \in 0 .. Len(vWorkQueue)
                    /\ accepting \in Loose \cup {NULL}
    /\ pc # "tx" => vWorkQueue = <<>> /\ nWorked = 0

\* Every orphan that spends an output of what was worked on has been seen to.
WorkDone ==
    Undisturbed /\ pc = "tx" =>
        \A t \in mapOrphanTransactions : \A i \in 1 .. nWorked :
            vWorkQueue[i] \in Prevs(t) => Seen(t)

WorkInv == OrphanIndex /\ QueueType /\ WorkDone

\* A transaction that goes into the pool resolves only the orphans that spend it.
LEMMA StaysUnresolved ==
  ASSUME NEW a, a # NULL, AddUnchecked(a, mapTx, mapNextTx), UNCHANGED <<pindexBest, pruned>>,
         NEW t \in Loose, t # a, a \notin Prevs(t), Unresolved(t)
  PROVE  Unresolved(t)'
<1>1. /\ mapTx' = mapTx \cup {a}
      /\ mapNextTx' = [o \in Outpoint |-> IF o \in Inputs(a) THEN a ELSE mapNextTx[o]]
  BY DEF AddUnchecked
<1>2. \A o \in Inputs(t) : o \in Outpoint
  BY DEF Outpoint
<1>3. CASE \E o \in Inputs(t) : mapNextTx[o] # NULL
  <2>1. PICK o \in Inputs(t) : mapNextTx[o] # NULL
    BY <1>3
  <2>2. mapNextTx'[o] # NULL
    BY <1>1, <1>2, <2>1
  <2> QED
    BY <2>2 DEF Unresolved, Inputs
<1>4. CASE MissingInputs(t) /\ \A o \in Inputs(t) : mapNextTx'[o] = NULL
  <2>1. ~Refused(t)'
    BY <1>1, <1>4 DEF MissingInputs, Refused, Inputs
  <2>2. ~HaveCoins(t)'
    BY <1>1, <1>4 DEF MissingInputs, HaveCoins
  <2>3. PICK h \in Prevs(t) : ~HaveCoins(h)
    BY <1>4 DEF MissingInputs
  <2>4. ~HaveCoins(h)'
    BY <1>1, <2>3 DEF HaveCoins
  <2>5. MissingInputs(t)'
    BY <2>1, <2>2, <2>4 DEF MissingInputs, Prevs, Inputs
  <2> QED
    BY <2>5 DEF Unresolved
<1>5. CASE \E o \in Inputs(t) : mapNextTx'[o] # NULL
  BY <1>5 DEF Unresolved, Inputs
<1> QED
  BY <1>3, <1>4, <1>5 DEF Unresolved

\* The handler of a "tx" message, its work on the orphans included.
LEMMA WorkStep == WorkInv /\ OrphanIndex' /\ [Next]_vars => WorkInv'
<1> SUFFICES ASSUME WorkInv, OrphanIndex', [Next]_vars PROVE QueueType' /\ WorkDone'
  BY DEF WorkInv
<1>0. OrphanIndex /\ QueueType /\ WorkDone
  BY DEF WorkInv
<1>1. ASSUME NEW t \in Loose, ReceiveTx(t) PROVE QueueType' /\ WorkDone'
  <2>1. /\ pc = "idle" /\ pc' = "tx" /\ accepting' = t
        /\ UNCHANGED <<vWorkQueue, nWorked, mapOrphanTransactions>>
    BY <1>1 DEF ReceiveTx, queues, orphans
  <2>2. vWorkQueue' = <<>> /\ nWorked' = 0 /\ <<>> \in Seq(Loose)
    BY <1>0, <2>1 DEF QueueType
  <2> QED
    BY <1>0, <2>1, <2>2 DEF QueueType, WorkDone
<1>2. ASSUME pc' # "tx", vWorkQueue' = <<>>, nWorked' = 0, mapOrphanTransactions' \subseteq Loose
      PROVE  QueueType' /\ WorkDone'
  BY <1>2 DEF QueueType, WorkDone
<1>3. ASSUME NEW t \in Loose, ReceiveOrphan(t) PROVE QueueType' /\ WorkDone'
  <2>1. pc = "idle" /\ UNCHANGED <<pc, vWorkQueue, nWorked>> /\ AddOrphanTx(t)
    BY <1>3 DEF ReceiveOrphan, queues
  <2>2. mapOrphanTransactions' \subseteq mapOrphanTransactions \cup {t}
    BY <2>1 DEF AddOrphanTx, SetOrphans, EraseOrphanTx, EraseFrom
  <2> QED
    BY <1>0, <1>2, <2>1, <2>2 DEF QueueType
<1>4. ASSUME NEW t \in Loose, SubmitTx(t) PROVE QueueType' /\ WorkDone'
  BY <1>0, <1>2, <1>4 DEF SubmitTx, QueueType, queues, orphans
<1>5. ASSUME NEW t \in Loose, TryOrphan(t) PROVE QueueType' /\ WorkDone'
  <2>1. /\ pc = "tx" /\ pc' = "tx" /\ accepting = NULL /\ t \in vTry /\ vTry' = vTry \ {t}
        /\ \/ accepting' = t /\ vEraseQueue' = vEraseQueue
           \/ vEraseQueue' = vEraseQueue \cup {t} /\ accepting' = accepting
           \/ MissingInputs(t) /\ accepting' = accepting /\ vEraseQueue' = vEraseQueue
        /\ UNCHANGED <<mapOrphanTransactions, vWorkQueue, nWorked, vWallet>>
        /\ UNCHANGED <<pindexBest, pruned, mapTx, mapNextTx>>
    BY <1>5 DEF TryOrphan, orphans, pool
  <2>2. QueueType'
    BY <1>0, <2>1 DEF QueueType
  <2>3. ASSUME NEW u, Unresolved(u) PROVE Unresolved(u)'
    BY <2>1, <2>3 DEF Unresolved, MissingInputs, Refused, HaveCoins, Prevs, Inputs
  <2>4. ASSUME NEW u, Seen(u) PROVE Seen(u)'
    <3>1. t # NULL
      BY TxAssumption DEF Loose
    <3>2. CASE u = t
      BY <2>1, <2>3, <3>1, <3>2 DEF Seen, Unresolved
    <3>3. CASE u # t
      BY <2>1, <2>3, <2>4, <3>3 DEF Seen, Prevs, Inputs
    <3> QED
      BY <3>2, <3>3
  <2>5. WorkDone'
    BY <1>0, <2>1, <2>4 DEF WorkDone, Undisturbed, Prevs, Inputs
  <2> QED
    BY <2>2, <2>5
<1>6. CASE AcceptEnds
  <2>1. /\ accepting # NULL /\ accepting' = NULL /\ AddUnchecked(accepting, mapTx, mapNextTx)
        /\ UNCHANGED <<pindexBest, pruned, mapOrphanTransactions, nWorked, vTry, vWallet>>
        /\ pc' = IF pc = "submit" THEN "idle" ELSE pc
    BY <1>6 DEF AcceptEnds, orphans
  <2>2. CASE pc # "tx"
    BY <1>0, <1>2, <1>6, <2>1, <2>2 DEF AcceptEnds, QueueType
  <2>3. CASE pc = "tx"
    <3>1. /\ vWorkQueue' = Append(vWorkQueue, accepting)
          /\ vEraseQueue' = vEraseQueue \cup {accepting} /\ pc' = "tx"
      BY <1>6, <2>1, <2>3 DEF AcceptEnds
    <3>2. /\ vWorkQueue \in Seq(Loose) /\ accepting \in Loose /\ nWorked \in 0 .. Len(vWorkQueue)
          /\ mapOrphanTransactions \subseteq Loose
      BY <1>0, <2>1, <2>3 DEF QueueType
    <3>3. /\ vWorkQueue' \in Seq(Loose) /\ Len(vWorkQueue') = Len(vWorkQueue) + 1
          /\ \A j \in 1 .. Len(vWorkQueue) : vWorkQueue'[j] = vWorkQueue[j]
          /\ vWorkQueue'[Len(vWorkQueue) + 1] = accepting /\ Len(vWorkQueue) \in Nat
      BY <3>1, <3>2
    <3>4. QueueType'
      BY <2>1, <3>1, <3>2, <3>3 DEF QueueType
    <3>5. ASSUME NEW u \in Loose, Seen(u) PROVE Seen(u)'
      <4>1. CASE u \in vTry \cup vEraseQueue \cup {accepting}
        BY <2>1, <3>1, <4>1 DEF Seen
      <4>2. CASE accepting \in Prevs(u)
        <5>1. Len(vWorkQueue) + 1 \in nWorked' + 1 .. Len(vWorkQueue')
          BY <2>1, <3>2, <3>3
        <5>2. vWorkQueue'[Len(vWorkQueue) + 1] \in Prevs(u)
          BY <3>3, <4>2
        <5> QED
          BY <5>1, <5>2 DEF Seen, Prevs, Inputs
      <4>3. ASSUME NEW j \in nWorked + 1 .. Len(vWorkQueue), vWorkQueue[j] \in Prevs(u)
            PROVE  Seen(u)'
        <5>1. j \in nWorked' + 1 .. Len(vWorkQueue') /\ j \in 1 .. Len(vWorkQueue)
          BY <2>1, <3>2, <3>3
        <5>2. vWorkQueue'[j] \in Prevs(u)
          BY <3>3, <4>3, <5>1
        <5> QED
          BY <5>1, <5>2 DEF Seen, Prevs, Inputs
      <4>4. CASE u # accepting /\ accepting \notin Prevs(u) /\ Unresolved(u)
        <5>1. Unresolved(u)'
          BY <2>1, <4>4, StaysUnresolved
        <5> QED
          BY <5>1 DEF Seen
      <4> QED
        BY <3>5, <4>1, <4>2, <4>3, <4>4 DEF Seen
    <3>6. ASSUME Undisturbed', NEW u \in mapOrphanTransactions', NEW i \in 1 .. nWorked',
                 vWorkQueue'[i] \in Prevs(u)
          PROVE  Seen(u)'
      <4>1. u \in Loose /\ u \in mapOrphanTransactions /\ i \in 1 .. nWorked
            /\ i \in 1 .. Len(vWorkQueue)
        BY <2>1, <3>2, <3>3
      <4>2. vWorkQueue[i] \in Prevs(u)
        BY <3>3, <3>6, <4>1
      <4>3. Undisturbed
        BY <2>1, <3>6 DEF Undisturbed
      <4> QED
        BY <1>0, <2>3, <3>5, <4>1, <4>2, <4>3 DEF WorkDone
    <3> QED
      BY <3>4, <3>6 DEF WorkDone, Prevs, Inputs
  <2> QED
    BY <2>2, <2>3
<1>7. CASE NextInWorkQueue
  <2>1. /\ pc = "tx" /\ pc' = "tx" /\ accepting = NULL /\ accepting' = NULL /\ vTry = {}
        /\ nWorked < Len(vWorkQueue) /\ nWorked' = nWorked + 1
        /\ vTry' = mapOrphanTransactionsByPrev[vWorkQueue[nWorked']]
        /\ UNCHANGED <<mapOrphanTransactions, vWorkQueue, vEraseQueue, vWallet>>
        /\ UNCHANGED <<pindexBest, pruned, mapTx, mapNextTx>>
    BY <1>7 DEF NextInWorkQueue, WorkLeft, orphans, pool
  <2>2. /\ vWorkQueue \in Seq(Loose) /\ nWorked \in Nat /\ Len(vWorkQueue) \in Nat
        /\ nWorked \in 0 .. Len(vWorkQueue)
    BY <1>0, <2>1 DEF QueueType
  <2>3. nWorked' \in 0 .. Len(vWorkQueue) /\ nWorked' \in 1 .. Len(vWorkQueue)
    BY <2>1, <2>2
  <2>4. QueueType'
    BY <1>0, <2>1, <2>2, <2>3 DEF QueueType
  <2>5. vWorkQueue[nWorked'] \in TxId
    BY <2>2, <2>3, TxAssumption DEF Loose, CheckTransaction
  <2>6. ASSUME NEW u \in mapOrphanTransactions, vWorkQueue[nWorked'] \in Prevs(u) PROVE Seen(u)'
    <3>1. u \in vTry'
      BY <1>0, <2>1, <2>5, <2>6 DEF OrphanIndex
    <3> QED
      BY <3>1 DEF Seen
  <2>7. ASSUME NEW u \in mapOrphanTransactions, Seen(u) PROVE Seen(u)'
    <3>1. CASE u \in vEraseQueue
      BY <2>1, <3>1 DEF Seen
    <3>2. ASSUME NEW j \in nWorked + 1 .. Len(vWorkQueue), vWorkQueue[j] \in Prevs(u)
          PROVE  Seen(u)'
      <4>1. CASE j = nWorked'
        BY <2>6, <3>2, <4>1
      <4>2. CASE j # nWorked'
        <5>1. j \in nWorked' + 1 .. Len(vWorkQueue')
          BY <2>1, <2>2, <4>2
        <5> QED
          BY <2>1, <3>2, <5>1 DEF Seen, Prevs, Inputs
      <4> QED
        BY <4>1, <4>2
    <3>3. CASE Unresolved(u)
      <4>1. Unresolved(u)'
        BY <2>1, <3>3 DEF Unresolved, MissingInputs, Refused, HaveCoins, Prevs, Inputs
      <4> QED
        BY <4>1 DEF Seen
    <3> QED
      BY <2>1, <2>7, <3>1, <3>2, <3>3 DEF Seen
  <2>8. ASSUME Undisturbed', NEW u \in mapOrphanTransactions', NEW i \in 1 .. nWorked',
               vWorkQueue'[i] \in Prevs(u)
        PROVE  Seen(u)'
    <3>1. u \in mapOrphanTransactions /\ vWorkQueue[i] \in Prevs(u) /\ Undisturbed
      BY <2>1, <2>8 DEF Undisturbed
    <3>2. CASE i = nWorked'
      BY <2>6, <3>1, <3>2
    <3>3. CASE i # nWorked'
      <4>1. i \in 1 .. nWorked
        BY <2>1, <2>2, <3>3
      <4> QED
        BY <1>0, <2>1, <2>7, <3>1, <4>1 DEF WorkDone
    <3> QED
      BY <3>2, <3>3
  <2> QED
    BY <2>4, <2>8 DEF WorkDone, Prevs, Inputs
<1>8. CASE TxDone
  <2>1. /\ vWorkQueue' = <<>> /\ nWorked' = 0 /\ pc' = "idle"
        /\ mapOrphanTransactions' = mapOrphanTransactions \ vEraseQueue
    BY <1>8 DEF TxDone, SetOrphans, EraseOrphanTx, EraseFrom
  <2> QED
    BY <1>0, <1>2, <2>1 DEF QueueType
<1>9. ASSUME pc # "tx", pc' # "tx", UNCHANGED <<vWorkQueue, nWorked, mapOrphanTransactions>>
      PROVE  QueueType' /\ WorkDone'
  BY <1>0, <1>2, <1>9 DEF QueueType
<1>10. ASSUME NEW b \in Block, SetBestChain(b) PROVE QueueType' /\ WorkDone'
  BY <1>9, <1>10 DEF SetBestChain, queues, orphans
<1>11. CASE Resurrect \/ DeleteTx \/ SetBestChainDone
  BY <1>9, <1>11 DEF Resurrect, DeleteTx, SetBestChainDone, queues, orphans
<1>12. ASSUME NEW t \in WalletTx, Reaccept(t) PROVE QueueType' /\ WorkDone'
  <2>1. ~Undisturbed'
    BY <1>12, DisturbedForGood
  <2>2. UNCHANGED <<pc, accepting, vWorkQueue, nWorked, mapOrphanTransactions>>
    BY <1>12 DEF Reaccept, queues, orphans
  <2> QED
    BY <1>0, <2>1, <2>2 DEF QueueType, WorkDone
<1>13. CASE UNCHANGED vars
  <2>1. UNCHANGED <<pindexBest, pruned, mapTx, mapNextTx, mapOrphanTransactions, pc, accepting,
                    vWorkQueue, nWorked, vTry, vEraseQueue, vWallet>>
    BY <1>13 DEF vars, pool, orphans, queues
  <2>2. QueueType'
    BY <1>0, <2>1 DEF QueueType
  <2>3. ASSUME NEW u, Seen(u) PROVE Seen(u)'
    BY <2>1, <2>3 DEF Seen, Unresolved, MissingInputs, Refused, HaveCoins, Prevs, Inputs
  <2>4. WorkDone'
    BY <1>0, <2>1, <2>3 DEF WorkDone, Undisturbed, Prevs, Inputs
  <2> QED
    BY <2>2, <2>4
<1>14. ASSUME NEW t \in Loose, RefuseTx(t) PROVE QueueType' /\ WorkDone'
  BY <1>13, <1>14 DEF RefuseTx
<1> QED
  BY <1>1, <1>3, <1>4, <1>5, <1>6, <1>7, <1>8, <1>10, <1>11, <1>12, <1>13, <1>14 DEF Next

\* When the handler of a "tx" message returns, each orphan that an accepted
\* transaction could have released is accepted, erased, or cannot be accepted:
\* vWorkQueue, which grows while it is worked on, misses none of them, for any
\* graph of transactions and any number of orphans.
THEOREM OrphansSettledCorrect == Spec => OrphansSettled
<1>1. Init => QueueType /\ WorkDone
  BY DEF Init, QueueType, WorkDone
<1>2. WorkInv /\ [Next]_vars =>
        [Undisturbed /\ pc = "tx" /\ pc' = "idle" =>
           \A t \in mapOrphanTransactions' :
             Prevs(t) \cap Range(vWorkQueue) # {} => Unresolved(t)]_vars
  <2> SUFFICES ASSUME WorkInv, Next, Undisturbed, pc = "tx", pc' = "idle",
                      NEW t \in mapOrphanTransactions', Prevs(t) \cap Range(vWorkQueue) # {}
               PROVE  Unresolved(t)
    OBVIOUS
  <2>1. TxDone
    BY DEF Next, ReceiveTx, ReceiveOrphan, RefuseTx, SubmitTx, TryOrphan, AcceptEnds,
           NextInWorkQueue, SetBestChain, Resurrect, DeleteTx, SetBestChainDone, Reaccept, vars
  <2>2. /\ accepting = NULL /\ vTry = {} /\ ~(nWorked < Len(vWorkQueue))
        /\ mapOrphanTransactions' = mapOrphanTransactions \ vEraseQueue
    BY <2>1 DEF TxDone, WorkLeft, SetOrphans, EraseOrphanTx, EraseFrom
  <2>3. vWorkQueue \in Seq(Loose) /\ nWorked \in 0 .. Len(vWorkQueue) /\ Len(vWorkQueue) \in Nat
    BY DEF WorkInv, QueueType
  <2>4. nWorked = Len(vWorkQueue)
    BY <2>2, <2>3
  <2>5. PICK i \in 1 .. nWorked : vWorkQueue[i] \in Prevs(t)
    BY <2>3, <2>4 DEF Range
  <2>6. t \in mapOrphanTransactions /\ t \notin vEraseQueue
    BY <2>2
  <2>7. Seen(t)
    BY <2>5, <2>6 DEF WorkInv, WorkDone
  <2>8. nWorked + 1 .. Len(vWorkQueue) = {}
    BY <2>3, <2>4
  <2> QED
    BY <2>2, <2>6, <2>7, <2>8 DEF Seen
<1> QED
  BY <1>1, <1>2, WorkStep, OrphanIndexCorrect, PTL DEF Spec, OrphansSettled, WorkInv

\* What CheckTransaction has found of a transaction.
LEMMA LooseFacts ==
  ASSUME NEW t \in Loose
  PROVE  /\ t \in TxId /\ t # NULL /\ Tx[t] \in Transactions /\ Tx[t].hash = t
         /\ Tx[t].vin \in Seq(OutPoints) /\ Tx[t].vin # <<>> /\ Tx[t].vout \in Seq(Nat)
         /\ Inputs(t) \in SUBSET OutPoints /\ Inputs(t) # {} /\ Inputs(t) \subseteq Outpoint
         /\ \A o : o \in Inputs(t) <=> \E i \in 1 .. Len(Tx[t].vin) : Tx[t].vin[i] = o
<1>1. CheckTransaction(Tx[t]) /\ Tx[t].hash = t /\ Tx[t].vin # <<>> /\ t # NULL
  BY TxAssumption DEF Loose, IsCoinBase
<1>2. Tx[t] \in [hash : TxId, vin : Seq(OutPoints), vout : Seq(Nat)]
  BY <1>1 DEF CheckTransaction, OutPoints, Place
<1>3. Tx[t] \in Transactions
  BY <1>1, <1>2 DEF Transactions
<1>4. Tx[t].vin \in Seq(OutPoints) /\ t \in TxId /\ Tx[t].vout \in Seq(Nat)
  BY <1>1, <1>2
<1>5. \A o : o \in Inputs(t) <=> \E i \in 1 .. Len(Tx[t].vin) : Tx[t].vin[i] = o
  BY <1>4 DEF Inputs, Range
<1>6. 1 \in 1 .. Len(Tx[t].vin)
  BY <1>1, <1>4
<1>7. Inputs(t) \in SUBSET OutPoints
  BY <1>4, <1>5
<1>8. Inputs(t) \subseteq Outpoint
  BY DEF Outpoint
<1> QED
  BY <1>1, <1>3, <1>4, <1>5, <1>6, <1>7, <1>8

-----------------------------------------------------------------------------
(***************************************************************************)
(* The transactions of a chain                                             *)
(***************************************************************************)

\* The transactions of the chain of b after the genesis block.
ChainTx(b) == {History[b][k].tx : k \in 1 .. Len(History[b])}

\* Every chain was connected block by block.
LEMMA AllBacked == \A b \in Block : Backed(b) /\ Covered(History[b]) /\ Distinct(History[b])
<1>1. ASSUME NEW a \in Block \ {Genesis} PROVE \E u : Honest(u, a)
  <2> DEFINE C == UnspentIn[Prev[a]]
  <2>1. Prev[a] \in Node
    BY BlockFacts DEF Node
  <2>2. C \in CoinMap
    BY <2>1, UnspentInFacts
  <2>3. Within(C, UnspentIn[Prev[a]])
    BY DEF Within
  <2>4. Connected(C, a).ok
    BY BlocksAssumption
  <2> HIDE DEF C
  <2>5. ConnectedOn(C, Connected(C, a).undo, a)
    BY <2>2, <2>3, <2>4 DEF ConnectedOn
  <2> QED
    BY <2>2, <2>5 DEF Honest
<1>2. ASSUME NEW b \in Block PROVE Backed(b)
  BY <1>1, ChainClosed DEF Backed
<1>3. ASSUME NEW b \in Block PROVE Covered(History[b])
  BY <1>2, ChainCovered DEF Node
<1>4. ASSUME NEW b \in Block PROVE Distinct(History[b])
  BY BlocksAssumption DEF Distinct
<1> QED
  BY <1>2, <1>3, <1>4

\* The transactions of a chain, each at one place of its history.
LEMMA HistoryTx ==
  ASSUME NEW b \in Block
  PROVE  /\ History[b] \in Seq(Event) /\ Covered(History[b]) /\ Distinct(History[b])
         /\ ChainTx(b) \in SUBSET Transactions
         /\ \A X \in ChainTx(b), Y \in ChainTx(b) : X.hash = Y.hash => X = Y
<1> DEFINE H == History[b]
<1>1. H \in Seq(Event) /\ Covered(H) /\ Distinct(H)
  BY HistoryFacts, AllBacked DEF Node
<1>2. ChainTx(b) = {H[k].tx : k \in 1 .. Len(H)}
  BY DEF ChainTx
<1> HIDE DEF H
<1>3. ASSUME NEW k \in 1 .. Len(H) PROVE H[k].tx \in Transactions
  <2>1. H[k] \in Event
    BY <1>1
  <2> QED
    BY <2>1 DEF Event
<1>4. ASSUME NEW X \in ChainTx(b), NEW Y \in ChainTx(b), X.hash = Y.hash PROVE X = Y
  <2>1. PICK j \in 1 .. Len(H), k \in 1 .. Len(H) : X = H[j].tx /\ Y = H[k].tx
    BY <1>2
  <2> QED
    BY <1>1, <1>4, <2>1 DEF Distinct
<1> QED
  BY <1>1, <1>2, <1>3, <1>4 DEF H

\* What a transaction of the chain spends was created in the chain and is not
\* unspent; what is unspent was created in the chain; and what was created and
\* is not unspent is spent by a transaction of the chain.
LEMMA ChainSpent ==
  ASSUME NEW b \in Block, NEW X \in ChainTx(b), NEW i \in 1 .. Len(X.vin)
  PROVE  /\ \E Y \in ChainTx(b) : Y.hash = X.vin[i].hash /\ X.vin[i].n \in 1 .. Len(Y.vout)
         /\ Val(UnspentIn[b][X.vin[i].hash].vout, X.vin[i].n) = Spent
<1> DEFINE H == History[b]
           o == X.vin[i]
<1>1. H \in Seq(Event) /\ Covered(H) /\ Distinct(H) /\ X \in Transactions
  BY HistoryTx
<1>2. ChainTx(b) = {H[k].tx : k \in 1 .. Len(H)} /\ UnspentIn[b] = Unspent(H)
  BY UnspentInFacts DEF ChainTx, Node
<1> HIDE DEF H
<1>3. PICK k \in 1 .. Len(H) : X = H[k].tx
  BY <1>2
<1>4. o \in OutPoints
  BY <1>1 DEF Transactions
<1>5. o.hash \in TxId /\ o.n \in Place /\ o = [hash |-> o.hash, n |-> o.n]
  <2> HIDE DEF o
  <2> QED
    BY <1>4 DEF OutPoints
<1>6. PICK c \in 1 .. k - 1 : H[c].tx.hash = o.hash /\ o.n \in 1 .. Len(H[c].tx.vout)
  BY <1>1, <1>3, CoveredCreated
<1>7. c \in 1 .. Len(H)
  BY <1>1
<1>8. Spends(H[k].tx, o.hash, o.n)
  BY <1>3, <1>5 DEF Spends
<1> HIDE DEF o
<1>9. Val(Unspent(H)[H[c].tx.hash].vout, o.n) = Spent
  BY <1>1, <1>5, <1>6, <1>7, <1>8, UnspentMeans
<1>10. H[c].tx \in ChainTx(b)
  BY <1>2, <1>7
<1> QED
  BY <1>2, <1>6, <1>9, <1>10 DEF o

\* What is unspent was created in the chain.
LEMMA ChainUnspent ==
  ASSUME NEW b \in Block, NEW t \in TxId
  PROVE  /\ UnspentIn[b][t] # NoCoins => \E Y \in ChainTx(b) : Y.hash = t
         /\ \A n \in Place : Val(UnspentIn[b][t].vout, n) # Spent =>
              \E Y \in ChainTx(b) : Y.hash = t /\ n \in 1 .. Len(Y.vout)
<1> DEFINE H == History[b]
<1>1. H \in Seq(Event) /\ Covered(H) /\ Distinct(H)
  BY HistoryTx
<1>2. ChainTx(b) = {H[k].tx : k \in 1 .. Len(H)} /\ UnspentIn[b] = Unspent(H)
  BY UnspentInFacts DEF ChainTx, Node
<1> HIDE DEF H
<1>3. ASSUME Creators(H, t) # {} PROVE \E Y \in ChainTx(b) : Y.hash = t
  <2>1. PICK c \in 1 .. Len(H) : H[c].tx.hash = t
    BY <1>3 DEF Creators
  <2> QED
    BY <1>2, <2>1
<1>4. UnspentIn[b][t] # NoCoins => \E Y \in ChainTx(b) : Y.hash = t
  BY <1>1, <1>2, <1>3, UnspentFacts
<1>5. ASSUME NEW n \in Place, Val(Unspent(H)[t].vout, n) # Spent
      PROVE  \E Y \in ChainTx(b) : Y.hash = t /\ n \in 1 .. Len(Y.vout)
  <2>1. Unspent(H)[t].vout # <<>>
    BY <1>5 DEF Val
  <2>2. PICK c \in 1 .. Len(H) : H[c].tx.hash = t
    BY <1>1, <2>1, UnspentFacts DEF Creators
  <2>3. Val(H[c].tx.vout, n) # Spent
    BY <1>1, <1>5, <2>2, UnspentMeans
  <2>4. n \in 1 .. Len(H[c].tx.vout)
    BY <2>3 DEF Val
  <2> QED
    BY <1>2, <2>2, <2>4
<1> QED
  BY <1>2, <1>4, <1>5

\* What was created is unspent, with its value, or spent by a transaction of
\* the chain.
LEMMA ChainCreated ==
  ASSUME NEW b \in Block, NEW Y \in ChainTx(b), NEW n \in 1 .. Len(Y.vout)
  PROVE  \/ Val(UnspentIn[b][Y.hash].vout, n) = Y.vout[n] /\ Y.vout[n] \in Nat
         \/ \E X \in ChainTx(b) : \E i \in 1 .. Len(X.vin) : X.vin[i] = [hash |-> Y.hash, n |-> n]
<1> DEFINE H == History[b]
<1>1. H \in Seq(Event) /\ Covered(H) /\ Distinct(H) /\ Y \in Transactions
  BY HistoryTx
<1>2. ChainTx(b) = {H[k].tx : k \in 1 .. Len(H)} /\ UnspentIn[b] = Unspent(H)
  BY UnspentInFacts DEF ChainTx, Node
<1> HIDE DEF H
<1>3. PICK c \in 1 .. Len(H) : Y = H[c].tx
  BY <1>2
<1>4. n \in Place /\ Y.vout[n] \in Nat /\ Val(Y.vout, n) = Y.vout[n]
  <2>1. Y.vout \in Seq(Nat)
    BY <1>1 DEF Transactions
  <2> QED
    BY <2>1 DEF Place, Val
<1>5. CASE \A j \in 1 .. Len(H) : ~Spends(H[j].tx, H[c].tx.hash, n)
  <2>1. Val(Unspent(H)[H[c].tx.hash].vout, n) = Val(H[c].tx.vout, n)
    BY <1>1, <1>4, <1>5, UnspentMeans
  <2> QED
    BY <1>2, <1>3, <1>4, <2>1
<1>6. CASE \E j \in 1 .. Len(H) : Spends(H[j].tx, H[c].tx.hash, n)
  <2>1. PICK j \in 1 .. Len(H) : Spends(H[j].tx, H[c].tx.hash, n)
    BY <1>6
  <2>2. PICK i \in 1 .. Len(H[j].tx.vin) : H[j].tx.vin[i] = [hash |-> Y.hash, n |-> n]
    BY <1>3, <2>1 DEF Spends
  <2> QED
    BY <1>2, <2>2
<1> QED
  BY <1>5, <1>6

\* A transaction of a chain is in one block of it.
LEMMA ChainTxBlocks ==
  ASSUME NEW b \in Block
  PROVE  /\ \A a \in Chain(b) \ {Genesis} : \A i \in 1 .. Len(Vtx[a]) : Vtx[a][i] \in ChainTx(b)
         /\ \A X \in ChainTx(b) : \E a \in Chain(b) \ {Genesis} : \E i \in 1 .. Len(Vtx[a]) : X = Vtx[a][i]
         /\ \A a \in Chain(b) \ {Genesis}, c \in Chain(b) \ {Genesis} :
              \A i \in 1 .. Len(Vtx[a]), j \in 1 .. Len(Vtx[c]) : Vtx[a][i].hash = Vtx[c][j].hash => a = c
<1> DEFINE In(d) == \A a \in Chain(d) \ {Genesis} : \A i \in 1 .. Len(Vtx[a]) : Vtx[a][i] \in ChainTx(d)
           Out(d) == \A X \in ChainTx(d) : \E a \in Chain(d) \ {Genesis} :
                       \E i \in 1 .. Len(Vtx[a]) : X = Vtx[a][i]
           One(d) == \A a \in Chain(d) \ {Genesis}, c \in Chain(d) \ {Genesis} :
                       \A i \in 1 .. Len(Vtx[a]), j \in 1 .. Len(Vtx[c]) :
                         Vtx[a][i].hash = Vtx[c][j].hash => a = c
           S == {d \in Node : In(d) /\ Out(d) /\ One(d)}
<1>1. NULL \in S
  <2>1. Chain(NULL) = {} /\ ChainTx(NULL) = {}
    BY ChainFacts, HistoryFacts DEF ChainTx
  <2> QED
    BY <2>1 DEF Node
<1>2. ASSUME NEW d \in Block, Prev[d] \in S PROVE d \in S
  <2>0. d \in Node /\ Chain(d) = Chain(Prev[d]) \cup {d}
    BY ChainFacts DEF Node
  <2>1. In(Prev[d]) /\ Out(Prev[d]) /\ One(Prev[d])
    BY <1>2
  <2>2. CASE d = Genesis
    <3>1. Chain(d) \ {Genesis} = {} /\ ChainTx(d) = {}
      BY <2>0, <2>2, ChainFacts, HistoryFacts, TreeAssumption DEF ChainTx
    <3> QED
      BY <2>0, <3>1
  <2>3. CASE d # Genesis
    <3> DEFINE P == Prev[d]
               H == History[P]
               G == History[d]
               vtx == Vtx[d]
    <3>1. CheckBlock(vtx) /\ Height[d] \in Nat \ {0} /\ P \in Block /\ P \in Node
      BY <2>3, BlockFacts DEF Node
    <3>2. H \in Seq(Event) /\ G \in Seq(Event) /\ Len(vtx) \in Nat
          /\ G = After(H, vtx, Height[d], Len(vtx))
      BY <2>0, <2>3, <3>1, HistoryFacts, VtxFacts
    <3>3. /\ Len(G) = Len(H) + Len(vtx)
          /\ \A k \in 1 .. Len(H) : G[k] = H[k]
          /\ \A k \in 1 .. Len(vtx) : Len(H) + k \in 1 .. Len(G) /\ G[Len(H) + k].tx = vtx[k]
          /\ \A k \in 1 .. Len(G) : k \in 1 .. Len(H) \/ \E j \in 1 .. Len(vtx) : k = Len(H) + j
      <4> HIDE DEF H, G, vtx, P
      <4>1. G = [i \in 1 .. Len(H) + Len(vtx) |->
                   IF i <= Len(H) THEN H[i] ELSE [tx |-> vtx[i - Len(H)], nHeight |-> Height[d]]]
        BY <3>2 DEF After
      <4>2. Len(H) \in Nat
        BY <3>2
      <4>3. Len(G) = Len(H) + Len(vtx)
        BY <3>2, <4>1, <4>2
      <4>4. \A k \in 1 .. Len(H) : G[k] = H[k]
        BY <3>2, <4>1, <4>2
      <4>5. ASSUME NEW k \in 1 .. Len(vtx) PROVE Len(H) + k \in 1 .. Len(G) /\ G[Len(H) + k].tx = vtx[k]
        <5>1. Len(H) + k \in 1 .. Len(H) + Len(vtx) /\ ~(Len(H) + k <= Len(H)) /\ Len(H) + k - Len(H) = k
          BY <3>2, <4>2
        <5> QED
          BY <4>1, <4>3, <5>1
      <4>6. ASSUME NEW k \in 1 .. Len(G), k \notin 1 .. Len(H)
            PROVE  \E j \in 1 .. Len(vtx) : k = Len(H) + j
        <5>1. k - Len(H) \in 1 .. Len(vtx) /\ k = Len(H) + (k - Len(H))
          BY <3>2, <4>2, <4>3, <4>6
        <5> QED
          BY <5>1
      <4> QED
        BY <4>3, <4>4, <4>5, <4>6
    <3>4. /\ ChainTx(d) = {G[k].tx : k \in 1 .. Len(G)}
          /\ ChainTx(P) = {H[k].tx : k \in 1 .. Len(H)}
      BY DEF ChainTx
    <3>5. Distinct(G)
      BY AllBacked
    <3>6. Len(H) \in Nat /\ 1 .. Len(H) \subseteq 1 .. Len(G)
      <4> HIDE DEF H, G, vtx, P
      <4>1. Len(H) \in Nat /\ Len(vtx) \in Nat /\ Len(G) = Len(H) + Len(vtx)
        BY <3>2, <3>3
      <4> QED
        BY <4>1
    <3>7. Chain(d) = Chain(P) \cup {d}
      BY <2>0
    <3>8. In(P) /\ Out(P) /\ One(P)
      BY <2>1
    <3> HIDE DEF H, G, P
    <3>9. ChainTx(P) \subseteq ChainTx(d)
      BY <3>3, <3>4, <3>6
    <3>10. In(d)
      <4> SUFFICES ASSUME NEW a \in Chain(d) \ {Genesis}, NEW i \in 1 .. Len(Vtx[a])
                   PROVE  Vtx[a][i] \in ChainTx(d)
        OBVIOUS
      <4>1. CASE a = d
        <5>1. Len(H) + i \in 1 .. Len(G) /\ G[Len(H) + i].tx = Vtx[a][i]
          BY <3>3, <4>1
        <5> QED
          BY <3>4, <5>1
      <4>2. CASE a # d
        BY <3>7, <3>8, <3>9, <4>2
      <4> QED
        BY <4>1, <4>2
    <3>11. Out(d)
      <4> SUFFICES ASSUME NEW X \in ChainTx(d)
                   PROVE  \E a \in Chain(d) \ {Genesis} : \E i \in 1 .. Len(Vtx[a]) : X = Vtx[a][i]
        OBVIOUS
      <4>1. PICK k \in 1 .. Len(G) : X = G[k].tx
        BY <3>4
      <4>2. CASE k \in 1 .. Len(H)
        <5>1. X \in ChainTx(P)
          BY <3>3, <3>4, <4>1, <4>2
        <5> QED
          BY <3>7, <3>8, <5>1
      <4>3. CASE \E j \in 1 .. Len(vtx) : k = Len(H) + j
        BY <2>3, <3>3, <3>7, <4>1, <4>3
      <4> QED
        BY <3>3, <4>2, <4>3
    <3>12. ASSUME NEW a \in Chain(P) \ {Genesis}, NEW i \in 1 .. Len(Vtx[a]), NEW j \in 1 .. Len(vtx)
           PROVE  Vtx[a][i].hash # vtx[j].hash
      <4>1. Vtx[a][i] \in ChainTx(P)
        BY <3>8
      <4>2. PICK k \in 1 .. Len(H) : Vtx[a][i] = H[k].tx
        BY <3>4, <4>1
      <4>3. /\ k \in 1 .. Len(G) /\ G[k].tx = Vtx[a][i]
            /\ Len(H) + j \in 1 .. Len(G) /\ G[Len(H) + j].tx = vtx[j] /\ k # Len(H) + j
        BY <3>3, <3>6, <4>2
      <4> QED
        BY <3>5, <4>3 DEF Distinct
    <3>13. One(d)
      <4> SUFFICES ASSUME NEW a \in Chain(d) \ {Genesis}, NEW c \in Chain(d) \ {Genesis},
                          NEW i \in 1 .. Len(Vtx[a]), NEW j \in 1 .. Len(Vtx[c]),
                          Vtx[a][i].hash = Vtx[c][j].hash, a # c
                   PROVE  FALSE
        OBVIOUS
      <4>1. CASE a = d
        <5>1. c \in Chain(P) \ {Genesis}
          BY <3>7, <4>1
        <5> QED
          BY <3>12, <4>1, <5>1
      <4>2. CASE c = d
        <5>1. a \in Chain(P) \ {Genesis}
          BY <3>7, <4>2
        <5> QED
          BY <3>12, <4>2, <5>1
      <4>3. CASE a # d /\ c # d
        <5>1. a \in Chain(P) \ {Genesis} /\ c \in Chain(P) \ {Genesis}
          BY <3>7, <4>3
        <5> QED
          BY <3>8, <5>1
      <4> QED
        BY <4>1, <4>2, <4>3
    <3> QED
      BY <2>0, <3>10, <3>11, <3>13
  <2> QED
    BY <2>2, <2>3
<1> HIDE DEF S
<1>3. \A d \in Node : d \in S
  BY <1>1, <1>2, TreeInduct
<1> QED
  BY <1>3 DEF S, Node

\* A transaction with inputs is one that peers may send.
LEMMA ChainLoose ==
  ASSUME NEW b \in Block, NEW X \in ChainTx(b)
  PROVE  /\ X.hash \in Loose => X = Tx[X.hash]
         /\ X.vin # <<>> => X.hash \in Loose
<1>0. PICK a \in Chain(b) \ {Genesis} : \E i \in 1 .. Len(Vtx[a]) : X = Vtx[a][i]
  BY ChainTxBlocks
<1>1. PICK i \in 1 .. Len(Vtx[a]) : X = Vtx[a][i]
  BY <1>0
<1>2. a \in Block \ {Genesis}
  BY ChainClosed
<1>3. IsCoinBase(X) <=> i = 1
  BY <1>1, <1>2, BlockFacts, VtxFacts
<1>4. IF i = 1 THEN X.hash \notin Loose ELSE X.hash \in Loose /\ X = Tx[X.hash]
  BY <1>1, <1>2, BlocksAssumption DEF Loose
<1> QED
  BY <1>3, <1>4 DEF IsCoinBase

-----------------------------------------------------------------------------
(***************************************************************************)
(* The transactions of the blocks that are disconnected and connected      *)
(***************************************************************************)

\* Gathering is defined for every number of blocks.
LEMMA GatheringDef ==
  ASSUME NEW blocks, NEW B, Len(blocks) \in Nat
  PROVE  Gathering(blocks, B) =
           [i \in 0 .. Len(blocks) |->
              IF i = 0 THEN <<>>
              ELSE Gathering(blocks, B)[i - 1] \o (IF blocks[i] \in B THEN <<>> ELSE TxsOf(blocks[i]))]
<1> DEFINE Base == <<>>
           Step(p, i) == p \o (IF blocks[i] \in B THEN <<>> ELSE TxsOf(blocks[i]))
           Fits(g, n) == g = [i \in 0 .. n |-> IF i = 0 THEN Base ELSE Step(g[i - 1], i)]
           S == {n \in Nat : \E g : Fits(g, n)}
<1> HIDE DEF Base, Step
<1>1. 0 \in S
  <2>1. Fits([i \in 0 .. 0 |-> Base], 0)
    OBVIOUS
  <2> QED
    BY <2>1
<1>2. ASSUME NEW n \in Nat, n \in S PROVE n + 1 \in S
  <2>1. PICK g : Fits(g, n)
    BY <1>2
  <2> DEFINE ext == [i \in 0 .. n + 1 |-> IF i = n + 1 THEN Step(g[n], n + 1) ELSE g[i]]
  <2>2. \A i \in 0 .. n : ext[i] = g[i]
    OBVIOUS
  <2>3. ASSUME NEW i \in 0 .. n + 1
        PROVE  ext[i] = IF i = 0 THEN Base ELSE Step(ext[i - 1], i)
    <3>1. CASE i = 0
      BY <3>1, <2>1
    <3>2. CASE i # 0 /\ i # n + 1
      <4>1. i \in 0 .. n /\ i - 1 \in 0 .. n
        BY <3>2
      <4>2. ext[i] = Step(g[i - 1], i)
        BY <4>1, <3>2, <2>1, <2>2
      <4> QED
        BY <4>1, <4>2, <3>2, <2>2
    <3>3. CASE i = n + 1
      <4>1. n \in 0 .. n /\ i - 1 = n /\ i # 0
        BY <3>3
      <4>2. ext[i] = Step(g[n], i)
        BY <3>3
      <4> QED
        BY <4>1, <4>2, <2>2
    <3> QED
      BY <3>1, <3>2, <3>3
  <2>a. ext = [i \in 0 .. n + 1 |-> ext[i]]
    OBVIOUS
  <2> HIDE DEF ext
  <2>4. Fits(ext, n + 1)
    BY <2>3, <2>a
  <2> QED
    BY <2>4
<1> HIDE DEF S
<1>3. \A n \in Nat : n \in S
  BY <1>1, <1>2, Induct
<1>4. Len(blocks) \in S
  BY <1>3
<1>5. PICK g : Fits(g, Len(blocks))
  BY <1>4 DEF S
<1>6. Gathering(blocks, B) = CHOOSE z : Fits(z, Len(blocks))
  BY DEF Gathering, Base, Step
<1>7. Fits(Gathering(blocks, B), Len(blocks))
  BY <1>5, <1>6, Zenon
<1> QED
  BY <1>7, Zenon DEF Base, Step

\* What is gathered from a block: the transactions after the coinbase.
LEMMA TxsOfFacts ==
  ASSUME NEW b \in Block
  PROVE  /\ TxsOf(b) \in Seq(Loose)
         /\ \A t : t \in Range(TxsOf(b)) <=> \E i \in 2 .. Len(Vtx[b]) : t = Vtx[b][i].hash
<1>1. Len(Vtx[b]) \in Nat \ {0}
  BY BlocksAssumption, BlockFacts, VtxFacts
<1>2. ASSUME NEW i \in 2 .. Len(Vtx[b]) PROVE Vtx[b][i].hash \in Loose
  <2>1. i \in 1 .. Len(Vtx[b]) /\ i # 1
    BY <1>1
  <2> QED
    BY <2>1, BlocksAssumption DEF Loose
<1>3. Len(Vtx[b]) - 1 \in Nat /\ \A i \in 1 .. Len(Vtx[b]) - 1 : i + 1 \in 2 .. Len(Vtx[b])
  BY <1>1
<1>4. \A i \in 2 .. Len(Vtx[b]) : i - 1 \in 1 .. Len(Vtx[b]) - 1 /\ i - 1 + 1 = i
  BY <1>1
<1>5. TxsOf(b) \in Seq(Loose)
  BY <1>2, <1>3 DEF TxsOf
<1>6. \A t : t \in Range(TxsOf(b)) <=> \E i \in 1 .. Len(Vtx[b]) - 1 : t = Vtx[b][i + 1].hash
  BY DEF TxsOf, Range
<1> QED
  BY <1>3, <1>4, <1>5, <1>6

\* Two lists one after the other.
LEMMA RangeConcat ==
  ASSUME NEW T, NEW u \in Seq(T), NEW v \in Seq(T)
  PROVE  u \o v \in Seq(T) /\ Range(u \o v) = Range(u) \cup Range(v)
<1>1. /\ u \o v \in Seq(T) /\ Len(u \o v) = Len(u) + Len(v) /\ Len(u) \in Nat /\ Len(v) \in Nat
      /\ DOMAIN u = 1 .. Len(u) /\ DOMAIN v = 1 .. Len(v) /\ DOMAIN (u \o v) = 1 .. Len(u) + Len(v)
      /\ \A i \in 1 .. Len(u) : (u \o v)[i] = u[i]
  OBVIOUS
<1>2. \A i \in 1 .. Len(v) : i + Len(u) \in 1 .. Len(u) + Len(v) /\ (u \o v)[i + Len(u)] = v[i]
  OBVIOUS
<1>3. ASSUME NEW i \in 1 .. Len(u) + Len(v), i \notin 1 .. Len(u)
      PROVE  i - Len(u) \in 1 .. Len(v) /\ (u \o v)[i] = v[i - Len(u)]
  BY <1>1, <1>3
<1>4. \A i \in 1 .. Len(u) : i \in 1 .. Len(u) + Len(v)
  BY <1>1
<1> DEFINE w == u \o v
<1> HIDE DEF w
<1>5. Range(w) \subseteq Range(u) \cup Range(v)
  BY <1>1, <1>3 DEF Range, w
<1>6. Range(u) \subseteq Range(w)
  BY <1>1, <1>4 DEF Range, w
<1>7. Range(v) \subseteq Range(w)
  BY <1>1, <1>2 DEF Range, w
<1> QED
  BY <1>1, <1>5, <1>6, <1>7 DEF w

\* The transactions that are gathered from a list of blocks.
LEMMA GatheredFacts ==
  ASSUME NEW blocks \in Seq(Block), NEW B
  PROVE  /\ Gathered(blocks, B) \in Seq(Loose)
         /\ \A t : t \in Range(Gathered(blocks, B)) <=>
              \E k \in 1 .. Len(blocks) : /\ blocks[k] \notin B
                                         /\ \E i \in 2 .. Len(Vtx[blocks[k]]) : t = Vtx[blocks[k]][i].hash
<1> DEFINE f == Gathering(blocks, B)
           m == Len(blocks)
           Of(k, t) == blocks[k] \notin B /\ \E i \in 2 .. Len(Vtx[blocks[k]]) : t = Vtx[blocks[k]][i].hash
           S == {n \in 0 .. m : /\ f[n] \in Seq(Loose)
                                /\ \A t : t \in Range(f[n]) <=> \E k \in 1 .. n : Of(k, t)}
<1>1. m \in Nat
  OBVIOUS
<1>2. f = [i \in 0 .. m |-> IF i = 0 THEN <<>>
                            ELSE f[i - 1] \o (IF blocks[i] \in B THEN <<>> ELSE TxsOf(blocks[i]))]
  BY <1>1, GatheringDef, Zenon
<1> HIDE DEF f, Of
<1>3. 0 \in S
  <2>1. f[0] = <<>>
    BY <1>1, <1>2
  <2>2. f[0] \in Seq(Loose) /\ Range(f[0]) = {} /\ 1 .. 0 = {} /\ 0 \in 0 .. m
    BY <1>1, <2>1 DEF Range
  <2> QED
    BY <2>2
<1>4. ASSUME NEW n \in Nat, n + 1 <= m, n \in S PROVE n + 1 \in S
  <2> DEFINE v == IF blocks[n + 1] \in B THEN <<>> ELSE TxsOf(blocks[n + 1])
  <2>1. n + 1 \in 1 .. m /\ n + 1 \in 0 .. m /\ n + 1 - 1 = n /\ n + 1 # 0
    BY <1>1, <1>4
  <2>2. f[n + 1] = f[n] \o v
    BY <1>2, <2>1
  <2>3. blocks[n + 1] \in Block
    BY <2>1
  <2>4. v \in Seq(Loose) /\ \A t : t \in Range(v) <=> Of(n + 1, t)
    <3>1. CASE blocks[n + 1] \in B
      BY <3>1 DEF Of, Range
    <3>2. CASE blocks[n + 1] \notin B
      BY <2>3, <3>2, TxsOfFacts DEF Of
    <3> QED
      BY <3>1, <3>2
  <2>5. f[n] \in Seq(Loose) /\ \A t : t \in Range(f[n]) <=> \E k \in 1 .. n : Of(k, t)
    BY <1>4
  <2> HIDE DEF v
  <2>6. f[n + 1] \in Seq(Loose) /\ Range(f[n + 1]) = Range(f[n]) \cup Range(v)
    BY <2>2, <2>4, <2>5, RangeConcat
  <2>7. 1 .. n + 1 = (1 .. n) \cup {n + 1}
    BY <1>4
  <2>8. \A t : t \in Range(f[n + 1]) <=> \E k \in 1 .. n + 1 : Of(k, t)
    BY <2>4, <2>5, <2>6, <2>7
  <2> QED
    BY <2>1, <2>6, <2>8
<1> HIDE DEF S, m
<1>5. m \in S
  <2>1. \A n \in 0 .. m : n \in S
    BY <1>1, <1>3, <1>4, InductTo
  <2> QED
    BY <1>1, <2>1
<1>6. Gathered(blocks, B) = f[m]
  BY DEF Gathered, f, m
<1> QED
  BY <1>5, <1>6 DEF S, Of, m

\* The lists of SetBestChain.
LEMMA ReorgLists ==
  ASSUME NEW p \in Block, NEW b \in Block
  PROVE  /\ Gathered(Reverse(ChainOf[p]), Chain(b)) \in Seq(Loose)
         /\ Gathered(ChainOf[b], Chain(p)) \in Seq(Loose)
         /\ \A t : t \in Range(Gathered(ChainOf[b], Chain(p))) <=>
              \E a \in Chain(b) \ Chain(p) : \E i \in 2 .. Len(Vtx[a]) : t = Vtx[a][i].hash
<1>1. ChainOf[p] \in Seq(Block) /\ ChainOf[b] \in Seq(Block)
  BY ChainFacts
<1>2. Reverse(ChainOf[p]) \in Seq(Block)
  <2> DEFINE s == ChainOf[p]
  <2>1. s \in Seq(Block) /\ Len(s) \in Nat
    BY <1>1
  <2> HIDE DEF s
  <2>2. \A i \in 1 .. Len(s) : Len(s) - i + 1 \in 1 .. Len(s)
    BY <2>1
  <2> QED
    BY <2>1, <2>2 DEF Reverse, s
<1>3. \A a : a \in Chain(b) <=> \E k \in 1 .. Len(ChainOf[b]) : a = ChainOf[b][k]
  BY <1>1 DEF Chain, Range
<1>4. \A t : t \in Range(Gathered(ChainOf[b], Chain(p))) <=>
        \E k \in 1 .. Len(ChainOf[b]) :
          /\ ChainOf[b][k] \notin Chain(p)
          /\ \E i \in 2 .. Len(Vtx[ChainOf[b][k]]) : t = Vtx[ChainOf[b][k]][i].hash
  BY <1>1, GatheredFacts
<1>5. \A t : t \in Range(Gathered(ChainOf[b], Chain(p))) <=>
        \E a \in Chain(b) \ Chain(p) : \E i \in 2 .. Len(Vtx[a]) : t = Vtx[a][i].hash
  <2> DEFINE Has(a, t) == \E i \in 2 .. Len(Vtx[a]) : t = Vtx[a][i].hash
  <2>1. \A t : t \in Range(Gathered(ChainOf[b], Chain(p))) <=>
          \E k \in 1 .. Len(ChainOf[b]) : ChainOf[b][k] \notin Chain(p) /\ Has(ChainOf[b][k], t)
    BY <1>4
  <2> HIDE DEF Has
  <2>2. \A t : t \in Range(Gathered(ChainOf[b], Chain(p))) <=> \E a \in Chain(b) \ Chain(p) : Has(a, t)
    BY <1>3, <2>1
  <2> QED
    BY <2>2 DEF Has
<1> QED
  BY <1>1, <1>2, <1>5, GatheredFacts

-----------------------------------------------------------------------------
(***************************************************************************)
(* Types, whatever the start-up thread does                                *)
(***************************************************************************)

\* A pool whose index points to pool transactions only.
Pool(txs, next) ==
    /\ txs \subseteq Loose /\ IsFiniteSet(txs) /\ next \in [Outpoint -> Loose \cup {NULL}]
    /\ \A o \in Outpoint : next[o] # NULL => next[o] \in txs /\ o \in Inputs(next[o])

\* accept without a check of the inputs.
LEMMA AcceptUncheckedType ==
  ASSUME NEW txs, NEW next, Pool(txs, next), NEW t \in Loose
  PROVE  LET q == AcceptUnchecked([txs |-> txs, next |-> next], t)
         IN  q = [txs |-> q.txs, next |-> q.next] /\ Pool(q.txs, q.next)
<1> DEFINE p == [txs |-> txs, next |-> next]
           new == [o \in Outpoint |-> IF o \in Inputs(t) THEN t ELSE next[o]]
<1>1. p.txs = txs /\ p.next = next
  OBVIOUS
<1>2. \/ AcceptUnchecked(p, t) = p
      \/ AcceptUnchecked(p, t) = [txs |-> txs \cup {t}, next |-> new]
  BY <1>1 DEF AcceptUnchecked
<1>3. Pool(txs \cup {t}, new)
  <2>1. IsFiniteSet(txs \cup {t})
    BY FS_AddElement DEF Pool
  <2> QED
    BY <2>1 DEF Pool
<1> DEFINE added == [txs |-> txs \cup {t}, next |-> new]
<1>4. added.txs = txs \cup {t} /\ added.next = new
  OBVIOUS
<1>5. added = [txs |-> added.txs, next |-> added.next] /\ Pool(added.txs, added.next)
  BY <1>3, <1>4
<1>6. p = [txs |-> p.txs, next |-> p.next] /\ Pool(p.txs, p.next)
  BY <1>1
<1>7. AcceptUnchecked(p, t) = p \/ AcceptUnchecked(p, t) = added
  BY <1>2
<1> HIDE DEF p, added
<1>8. CASE AcceptUnchecked(p, t) = p
  BY <1>6, <1>8 DEF p
<1>9. CASE AcceptUnchecked(p, t) = added
  BY <1>5, <1>9 DEF p
<1> QED
  BY <1>7, <1>8, <1>9

\* Supporting is defined for every list of transactions.
LEMMA SupportingDef ==
  ASSUME NEW prev, Len(prev) \in Nat
  PROVE  Supporting(prev) =
           [i \in 0 .. Len(prev) |->
              IF i = 0 THEN [txs |-> mapTx, next |-> mapNextTx]
              ELSE AcceptUnchecked(Supporting(prev)[i - 1], prev[i])]
<1> DEFINE Base == [txs |-> mapTx, next |-> mapNextTx]
           Step(p, i) == AcceptUnchecked(p, prev[i])
           Fits(g, n) == g = [i \in 0 .. n |-> IF i = 0 THEN Base ELSE Step(g[i - 1], i)]
           S == {n \in Nat : \E g : Fits(g, n)}
<1> HIDE DEF Base, Step
<1>1. 0 \in S
  <2>1. Fits([i \in 0 .. 0 |-> Base], 0)
    OBVIOUS
  <2> QED
    BY <2>1
<1>2. ASSUME NEW n \in Nat, n \in S PROVE n + 1 \in S
  <2>1. PICK g : Fits(g, n)
    BY <1>2
  <2> DEFINE ext == [i \in 0 .. n + 1 |-> IF i = n + 1 THEN Step(g[n], n + 1) ELSE g[i]]
  <2>2. \A i \in 0 .. n : ext[i] = g[i]
    OBVIOUS
  <2>3. ASSUME NEW i \in 0 .. n + 1
        PROVE  ext[i] = IF i = 0 THEN Base ELSE Step(ext[i - 1], i)
    <3>1. CASE i = 0
      BY <3>1, <2>1
    <3>2. CASE i # 0 /\ i # n + 1
      <4>1. i \in 0 .. n /\ i - 1 \in 0 .. n
        BY <3>2
      <4>2. ext[i] = Step(g[i - 1], i)
        BY <4>1, <3>2, <2>1, <2>2
      <4> QED
        BY <4>1, <4>2, <3>2, <2>2
    <3>3. CASE i = n + 1
      <4>1. n \in 0 .. n /\ i - 1 = n /\ i # 0
        BY <3>3
      <4>2. ext[i] = Step(g[n], i)
        BY <3>3
      <4> QED
        BY <4>1, <4>2, <2>2
    <3> QED
      BY <3>1, <3>2, <3>3
  <2>a. ext = [i \in 0 .. n + 1 |-> ext[i]]
    OBVIOUS
  <2> HIDE DEF ext
  <2>4. Fits(ext, n + 1)
    BY <2>3, <2>a
  <2> QED
    BY <2>4
<1> HIDE DEF S
<1>3. \A n \in Nat : n \in S
  BY <1>1, <1>2, Induct
<1>4. Len(prev) \in S
  BY <1>3
<1>5. PICK g : Fits(g, Len(prev))
  BY <1>4 DEF S
<1>6. Supporting(prev) = CHOOSE z : Fits(z, Len(prev))
  BY DEF Supporting, Base, Step
<1>7. Fits(Supporting(prev), Len(prev))
  BY <1>5, <1>6, Zenon
<1> QED
  BY <1>7, Zenon DEF Base, Step

\* A finite set as a list.
LEMMA SetToSeqType ==
  ASSUME NEW T, NEW S \in SUBSET T, IsFiniteSet(S)
  PROVE  SetToSeq(S) \in Seq(T)
<1>1. Cardinality(S) \in Nat /\ ExistsBijection(1 .. Cardinality(S), S)
  BY FS_CardinalityType
<1>2. \E f \in [1 .. Cardinality(S) -> S] : IsInjective(f)
  BY <1>1 DEF ExistsBijection, Bijection, Injection
<1>3. SetToSeq(S) \in [1 .. Cardinality(S) -> S]
  BY <1>2, Zenon DEF SetToSeq
<1> QED
  BY <1>1, <1>3

\* AcceptWalletTransaction leaves a pool.
LEMMA AcceptWalletType ==
  ASSUME Pool(mapTx, mapNextTx), NEW t \in WalletTx
  PROVE  Pool(AcceptWalletTransaction(t).txs, AcceptWalletTransaction(t).next)
<1> DEFINE S == {s \in VtxPrev[t] : s \notin mapTx /\ TipHaveCoins(s)}
           prev == SetToSeq(S)
           m == Len(prev)
           f == Supporting(prev)
           Good(q) == q = [txs |-> q.txs, next |-> q.next] /\ Pool(q.txs, q.next)
           D == {n \in 0 .. m : Good(f[n])}
<1>1. S \in SUBSET Loose /\ IsFiniteSet(S) /\ t \in Loose
  <2>1. S \in SUBSET VtxPrev[t] /\ VtxPrev[t] \subseteq Loose /\ IsFiniteSet(VtxPrev[t]) /\ t \in Loose
    BY TxAssumption DEF Loose
  <2> QED
    BY <2>1, FS_Subset
<1> HIDE DEF S
<1>2. prev \in Seq(Loose) /\ m \in Nat
  BY <1>1, SetToSeqType
<1>3. f = [i \in 0 .. m |-> IF i = 0 THEN [txs |-> mapTx, next |-> mapNextTx]
                            ELSE AcceptUnchecked(f[i - 1], prev[i])]
  BY <1>2, SupportingDef, Zenon
<1> HIDE DEF f, prev
<1>4. ASSUME NEW q, NEW u \in Loose, Good(q) PROVE Good(AcceptUnchecked(q, u))
  <2> DEFINE p == [txs |-> q.txs, next |-> q.next]
             w == AcceptUnchecked(p, u)
  <2>1. Pool(q.txs, q.next) /\ q = p
    BY <1>4
  <2>2. w = [txs |-> w.txs, next |-> w.next] /\ Pool(w.txs, w.next)
    BY <1>4, <2>1, AcceptUncheckedType, Zenon
  <2> HIDE DEF p
  <2> QED
    BY <2>1, <2>2
<1>5. 0 \in D
  <2>1. f[0] = [txs |-> mapTx, next |-> mapNextTx] /\ 0 \in 0 .. m
    BY <1>2, <1>3
  <2> QED
    BY <2>1
<1> HIDE DEF Good
<1>6. ASSUME NEW n \in Nat, n + 1 <= m, n \in D PROVE n + 1 \in D
  <2>1. n + 1 \in 1 .. m /\ n + 1 \in 0 .. m /\ n + 1 - 1 = n /\ n + 1 # 0
    BY <1>2, <1>6
  <2>2. f[n + 1] = AcceptUnchecked(f[n], prev[n + 1])
    BY <1>3, <2>1
  <2>3. prev[n + 1] \in Loose
    BY <1>2, <2>1
  <2> QED
    BY <1>4, <1>6, <2>1, <2>2, <2>3
<1> HIDE DEF D, m
<1>7. m \in D
  <2>1. \A n \in 0 .. m : n \in D
    BY <1>2, <1>5, <1>6, InductTo
  <2> QED
    BY <1>2, <2>1
<1>8. Good(AcceptUnchecked(f[m], t))
  BY <1>1, <1>4, <1>7 DEF D
<1>9. AcceptWalletTransaction(t) = AcceptUnchecked(f[m], t)
  BY DEF AcceptWalletTransaction, f, m, prev, S
<1> QED
  BY <1>8, <1>9 DEF Good

\* Types, the orphans within their bound, and no pointer to a transaction that
\* left the pool.
TypeInv == TypeOK /\ IsFiniteSet(mapTx) /\ IsFiniteSet(mapOrphanTransactions) /\ NoDanglingPtr

\* The first step.
LEMMA TypeInit == Init => TypeInv
<1> SUFFICES ASSUME Init PROVE TypeInv
  OBVIOUS
<1>1. IsFiniteSet({}) /\ Cardinality({}) = 0 /\ 0 <= MAX_ORPHAN_TRANSACTIONS
  BY FS_EmptySet, TxAssumption
<1>2. <<>> \in Seq(Loose) /\ Len(<<>>) = 0 /\ 0 \in 0 .. 0
  OBVIOUS
<1> QED
  BY <1>1, <1>2 DEF Init, TypeInv, TypeOK, NoDanglingPtr

\* An orphan goes in, and others may go out.
LEMMA AddOrphanType ==
  ASSUME TypeInv, NEW t \in Loose, t \notin mapOrphanTransactions, AddOrphanTx(t)
  PROVE  /\ mapOrphanTransactions' \subseteq Loose /\ IsFiniteSet(mapOrphanTransactions')
         /\ Cardinality(mapOrphanTransactions') <= MAX_ORPHAN_TRANSACTIONS
         /\ mapOrphanTransactionsByPrev' \in [TxId -> SUBSET Loose]
<1> DEFINE all == mapOrphanTransactions \cup {t}
           byPrev == [h \in TxId |-> IF h \in Prevs(t)
                                     THEN mapOrphanTransactionsByPrev[h] \cup {t}
                                     ELSE mapOrphanTransactionsByPrev[h]]
           over == Cardinality(all) - MAX_ORPHAN_TRANSACTIONS
<1>0. /\ mapOrphanTransactions \subseteq Loose /\ IsFiniteSet(mapOrphanTransactions)
      /\ mapOrphanTransactionsByPrev \in [TxId -> SUBSET Loose]
      /\ Cardinality(mapOrphanTransactions) <= MAX_ORPHAN_TRANSACTIONS
      /\ MAX_ORPHAN_TRANSACTIONS \in Nat
  BY TxAssumption DEF TypeInv, TypeOK
<1>1. PICK S \in LimitOrphanTxSize(all) : SetOrphans(EraseOrphanTx(S, all, byPrev))
  BY DEF AddOrphanTx
<1>2. S \in SUBSET all /\ Cardinality(S) = Max({0, over})
  BY <1>1 DEF LimitOrphanTxSize
<1>3. /\ mapOrphanTransactions' = all \ S
      /\ mapOrphanTransactionsByPrev' = [h \in TxId |-> byPrev[h] \ S]
  BY <1>1 DEF SetOrphans, EraseOrphanTx, EraseFrom
<1>4. IsFiniteSet(all) /\ Cardinality(all) = Cardinality(mapOrphanTransactions) + 1
  BY <1>0, FS_AddElement
<1>5. Cardinality(all) \in Nat /\ Cardinality(mapOrphanTransactions) \in Nat
  BY <1>0, <1>4, FS_CardinalityType
<1>6. byPrev \in [TxId -> SUBSET Loose]
  BY <1>0
<1> HIDE DEF all, byPrev
<1>7. IsFiniteSet(all \ S) /\ Cardinality(all \ S) = Cardinality(all) - Cardinality(all \cap S)
  BY <1>4, FS_Difference
<1>8. all \cap S = S
  BY <1>2
<1>9. Cardinality(all \ S) <= MAX_ORPHAN_TRANSACTIONS
  <2>1. over \in {0, 1} \/ over < 0
    BY <1>0, <1>4, <1>5
  <2>2. CASE over \in {0, 1}
    <3>1. {0, over} \in SUBSET Nat /\ {0, over} # {} /\ \A x \in {0, over} : x <= 1
      BY <2>2
    <3> HIDE DEF over
    <3>2. Max({0, over}) >= over /\ Max({0, over}) \in {0, over}
      BY <3>1, MaxNat
    <3>3. Cardinality(S) >= over /\ Cardinality(S) \in Int
      BY <1>2, <2>2, <3>2
    <3>4. Cardinality(all \ S) = Cardinality(all) - Cardinality(S)
      BY <1>7, <1>8
    <3>5. over = Cardinality(all) - MAX_ORPHAN_TRANSACTIONS
      BY DEF over
    <3> QED
      BY <1>0, <1>5, <3>3, <3>4, <3>5
  <2>3. CASE over < 0
    <3>1. all \ S \in SUBSET all
      OBVIOUS
    <3>2. Cardinality(all \ S) <= Cardinality(all)
      BY <1>4, <3>1, FS_Subset
    <3>3. Cardinality(all \ S) \in Nat
      BY <1>7, FS_CardinalityType
    <3> QED
      BY <1>0, <1>5, <2>3, <3>2, <3>3
  <2> QED
    BY <2>1, <2>2, <2>3
<1>10. all \subseteq Loose
  BY <1>0 DEF all
<1> QED
  BY <1>3, <1>6, <1>7, <1>9, <1>10

\* Every step.
LEMMA TypeStep == ASSUME TypeInv, [Next]_vars PROVE TypeInv'
<1>0. TypeOK /\ IsFiniteSet(mapTx) /\ IsFiniteSet(mapOrphanTransactions) /\ NoDanglingPtr
  BY DEF TypeInv
<1>a. <<>> \in Seq(Loose) /\ Len(<<>>) = 0 /\ 0 \in 0 .. 0
  OBVIOUS
<1>1. ASSUME NEW t \in Loose, ReceiveTx(t) \/ SubmitTx(t) PROVE TypeInv'
  BY <1>0, <1>1 DEF ReceiveTx, SubmitTx, pool, orphans, queues, reorg, TypeInv, TypeOK, NoDanglingPtr
<1>2. ASSUME NEW t \in Loose, ReceiveOrphan(t) PROVE TypeInv'
  <2>1. t \notin mapOrphanTransactions /\ AddOrphanTx(t)
    BY <1>2 DEF ReceiveOrphan
  <2>2. /\ mapOrphanTransactions' \subseteq Loose /\ IsFiniteSet(mapOrphanTransactions')
        /\ Cardinality(mapOrphanTransactions') <= MAX_ORPHAN_TRANSACTIONS
        /\ mapOrphanTransactionsByPrev' \in [TxId -> SUBSET Loose]
    BY <2>1, AddOrphanType
  <2> QED
    BY <1>0, <1>2, <2>2 DEF ReceiveOrphan, pool, queues, reorg, TypeInv, TypeOK, NoDanglingPtr
<1>3. ASSUME NEW t \in Loose, TryOrphan(t) PROVE TypeInv'
  BY <1>0, <1>3 DEF TryOrphan, pool, orphans, reorg, TypeInv, TypeOK, NoDanglingPtr
<1>4. CASE AcceptEnds
  <2>1. /\ accepting \in Loose /\ accepting' = NULL
        /\ mapTx' = mapTx \cup {accepting}
        /\ mapNextTx' = [o \in Outpoint |-> IF o \in Inputs(accepting) THEN accepting
                                            ELSE mapNextTx[o]]
    BY <1>0, <1>4 DEF AcceptEnds, AddUnchecked, TypeOK
  <2>2. mapTx' \subseteq Loose /\ mapNextTx' \in [Outpoint -> Loose \cup {NULL}] /\ IsFiniteSet(mapTx')
    BY <1>0, <2>1, FS_AddElement DEF TypeOK
  <2>3. NoDanglingPtr'
    BY <1>0, <2>1 DEF NoDanglingPtr, Inputs
  <2>4. /\ vWorkQueue' \in Seq(Loose) /\ nWorked' \in 0 .. Len(vWorkQueue')
        /\ vEraseQueue' \subseteq Loose /\ pc' \in {"idle", "tx", "submit", "reorg"}
    <3>1. /\ vWorkQueue \in Seq(Loose) /\ nWorked \in 0 .. Len(vWorkQueue) /\ Len(vWorkQueue) \in Nat
          /\ vEraseQueue \subseteq Loose /\ pc \in {"idle", "tx", "submit", "reorg"}
      BY <1>0 DEF TypeOK
    <3>2. nWorked' = nWorked /\ pc' \in {pc, "idle"}
      BY <1>4 DEF AcceptEnds
    <3>3. CASE pc = "tx"
      <4>1. vWorkQueue' = Append(vWorkQueue, accepting) /\ vEraseQueue' = vEraseQueue \cup {accepting}
        BY <1>4, <3>3 DEF AcceptEnds
      <4>2. vWorkQueue' \in Seq(Loose) /\ Len(vWorkQueue') = Len(vWorkQueue) + 1
        BY <2>1, <3>1, <4>1
      <4> QED
        BY <2>1, <3>1, <3>2, <4>1, <4>2
    <3>4. CASE pc # "tx"
      BY <1>4, <3>1, <3>2, <3>4 DEF AcceptEnds
    <3> QED
      BY <3>3, <3>4
  <2> QED
    BY <1>0, <1>4, <2>1, <2>2, <2>3, <2>4 DEF AcceptEnds, orphans, reorg, TypeInv, TypeOK
<1>5. CASE NextInWorkQueue
  <2>1. nWorked' = nWorked + 1 /\ nWorked < Len(vWorkQueue) /\ UNCHANGED vWorkQueue
        /\ vTry' = mapOrphanTransactionsByPrev[vWorkQueue[nWorked']]
    BY <1>5 DEF NextInWorkQueue, WorkLeft
  <2>2. nWorked \in 0 .. Len(vWorkQueue) /\ vWorkQueue \in Seq(Loose) /\ Len(vWorkQueue) \in Nat
    BY <1>0 DEF TypeOK
  <2>3. nWorked' \in 0 .. Len(vWorkQueue') /\ nWorked' \in 1 .. Len(vWorkQueue)
    BY <2>1, <2>2
  <2>4. vWorkQueue[nWorked'] \in TxId
    BY <2>2, <2>3, LooseFacts
  <2>5. vTry' \subseteq Loose
    BY <1>0, <2>1, <2>4 DEF TypeOK
  <2> QED
    BY <1>0, <1>5, <2>3, <2>5 DEF NextInWorkQueue, pool, orphans, reorg, TypeInv, TypeOK, NoDanglingPtr
<1>6. CASE TxDone
  <2>1. /\ mapOrphanTransactions' = mapOrphanTransactions \ vEraseQueue
        /\ mapOrphanTransactionsByPrev' =
             [h \in TxId |-> mapOrphanTransactionsByPrev[h] \ vEraseQueue]
    BY <1>6 DEF TxDone, SetOrphans, EraseOrphanTx, EraseFrom
  <2>2. mapOrphanTransactions' \in SUBSET mapOrphanTransactions
    BY <2>1
  <2>3. IsFiniteSet(mapOrphanTransactions')
        /\ Cardinality(mapOrphanTransactions') <= Cardinality(mapOrphanTransactions)
    BY <1>0, <2>2, FS_Subset
  <2>4. Cardinality(mapOrphanTransactions') \in Nat /\ Cardinality(mapOrphanTransactions) \in Nat
    BY <1>0, <2>3, FS_CardinalityType
  <2>5. Cardinality(mapOrphanTransactions') <= MAX_ORPHAN_TRANSACTIONS
    BY <1>0, <2>3, <2>4, TxAssumption DEF TypeOK
  <2>6. mapOrphanTransactions' \subseteq Loose /\ mapOrphanTransactionsByPrev' \in [TxId -> SUBSET Loose]
    BY <1>0, <2>1 DEF TypeOK
  <2> QED
    BY <1>0, <1>a, <1>6, <2>3, <2>5, <2>6 DEF TxDone, pool, reorg, TypeInv, TypeOK, NoDanglingPtr
<1>7. ASSUME NEW b \in Block, SetBestChain(b) PROVE TypeInv'
  <2>1. pindexBest \in Block
    BY <1>0 DEF TypeOK
  <2>2. vResurrect' \in Seq(Loose) /\ vDelete' \in Seq(Loose) /\ nResurrected' = 0
        /\ pindexBest' = b /\ pc' = "reorg"
    BY <1>7, <2>1, ReorgLists DEF SetBestChain
  <2>3. nResurrected' \in 0 .. Len(vResurrect')
    BY <2>2
  <2>4. pruned' \subseteq TxId
    BY <1>7 DEF SetBestChain
  <2>5. disconnected' \subseteq TxId
    BY <1>0, <1>7 DEF SetBestChain, TypeOK
  <2>6. UNCHANGED <<mapTx, mapNextTx, mapOrphanTransactions, mapOrphanTransactionsByPrev, accepting,
                    vWorkQueue, nWorked, vTry, vEraseQueue, vWallet>>
    BY <1>7 DEF SetBestChain, pool, orphans, queues
  <2> QED
    BY <1>0, <2>2, <2>3, <2>4, <2>5, <2>6 DEF TypeInv, TypeOK, NoDanglingPtr
<1>8. CASE Resurrect
  <2>1. nResurrected < Len(vResurrect) /\ nResurrected' = nResurrected + 1 /\ UNCHANGED vResurrect
        /\ accepting' \in {vResurrect[nResurrected + 1], NULL}
    BY <1>8 DEF Resurrect
  <2>2. nResurrected \in 0 .. Len(vResurrect) /\ vResurrect \in Seq(Loose) /\ Len(vResurrect) \in Nat
    BY <1>0 DEF TypeOK
  <2>3. nResurrected' \in 0 .. Len(vResurrect') /\ nResurrected + 1 \in 1 .. Len(vResurrect)
    BY <2>1, <2>2
  <2>4. accepting' \in Loose \cup {NULL}
    BY <2>1, <2>2, <2>3
  <2> QED
    BY <1>0, <1>8, <2>3, <2>4 DEF Resurrect, pool, orphans, queues, TypeInv, TypeOK, NoDanglingPtr
<1>9. CASE DeleteTx
  <2>1. PICK S : RemoveAll(S)
    BY <1>9 DEF DeleteTx
  <2>2. /\ mapTx' = mapTx \ S
        /\ mapNextTx' = [o \in Outpoint |->
                           IF \E t \in S : o \in Inputs(t) THEN NULL ELSE mapNextTx[o]]
    BY <2>1 DEF RemoveAll
  <2>a. mapTx' \in SUBSET mapTx
    BY <2>2
  <2>b. IsFiniteSet(mapTx')
    BY <1>0, <2>a, FS_Subset
  <2>3. mapTx' \subseteq Loose /\ mapNextTx' \in [Outpoint -> Loose \cup {NULL}] /\ IsFiniteSet(mapTx')
    BY <1>0, <2>2, <2>b DEF TypeOK
  <2>4. NoDanglingPtr'
    <3> SUFFICES ASSUME NEW o \in Outpoint, mapNextTx'[o] # NULL
                 PROVE  mapNextTx'[o] \in mapTx' /\ o \in Inputs(mapNextTx'[o])
      BY DEF NoDanglingPtr, Inputs, Outpoint, Loose
    <3>1. mapNextTx'[o] = mapNextTx[o] /\ ~ \E t \in S : o \in Inputs(t)
      BY <2>2
    <3> QED
      BY <1>0, <2>2, <3>1 DEF NoDanglingPtr
  <2>5. vDelete' \in Seq(Loose)
    BY <1>0, <1>9 DEF DeleteTx, TypeOK
  <2> QED
    BY <1>0, <1>9, <2>3, <2>4, <2>5 DEF DeleteTx, orphans, queues, TypeInv, TypeOK
<1>10. CASE SetBestChainDone
  BY <1>0, <1>a, <1>10 DEF SetBestChainDone, pool, orphans, queues, TypeInv, TypeOK, NoDanglingPtr
<1>11. ASSUME NEW t \in WalletTx, Reaccept(t) PROVE TypeInv'
  <2>1. Pool(mapTx, mapNextTx)
    BY <1>0 DEF Pool, TypeOK, NoDanglingPtr
  <2>2. Pool(mapTx', mapNextTx')
    <3>1. CASE UNCHANGED pool
      BY <2>1, <3>1 DEF pool
    <3>2. CASE mapTx' = AcceptWalletTransaction(t).txs /\ mapNextTx' = AcceptWalletTransaction(t).next
      BY <2>1, <3>2, AcceptWalletType
    <3> QED
      BY <1>11, <3>1, <3>2 DEF Reaccept
  <2>3. /\ vWallet' \subseteq vWallet
        /\ UNCHANGED <<pindexBest, pruned, mapOrphanTransactions, mapOrphanTransactionsByPrev, pc,
                       accepting, vWorkQueue, nWorked, vTry, vEraseQueue, vResurrect, nResurrected,
                       vDelete, disconnected>>
    BY <1>11 DEF Reaccept, orphans, queues, reorg
  <2>4. NoDanglingPtr'
    BY <2>2 DEF Pool, NoDanglingPtr, Inputs
  <2>5. mapTx' \subseteq Loose /\ mapNextTx' \in [Outpoint -> Loose \cup {NULL}] /\ IsFiniteSet(mapTx')
    BY <2>2 DEF Pool
  <2> QED
    BY <1>0, <2>3, <2>4, <2>5 DEF TypeInv, TypeOK
<1>12. CASE UNCHANGED vars
  BY <1>0, <1>12 DEF vars, pool, orphans, queues, reorg, TypeInv, TypeOK, NoDanglingPtr
<1>13. ASSUME NEW t \in Loose, RefuseTx(t) PROVE TypeInv'
  BY <1>12, <1>13 DEF RefuseTx
<1> QED
  BY <1>1, <1>2, <1>3, <1>4, <1>5, <1>6, <1>7, <1>8, <1>9, <1>10, <1>11, <1>12, <1>13 DEF Next

-----------------------------------------------------------------------------
(***************************************************************************)
(* The pool and the chain                                                  *)
(***************************************************************************)

\* Transactions in the pool, or on the way from accept's checks into it.
Held == mapTx \cup ({accepting} \ {NULL})

\* t is X, a transaction of a chain, or spends what X spends.
Clash(t, X) == t = X.hash \/ \E i \in 1 .. Len(X.vin) : X.vin[i] \in Inputs(t)

\* Only what is in del clashes with one of these transactions.
Clear(b, txs, del) == \A X \in ChainTx(b), t \in txs : Clash(t, X) => X.hash \in del

\* What spends an output of a transaction in del is in del.
Ahead(b, del) ==
    \A X \in ChainTx(b), Y \in ChainTx(b) :
        Y.hash \in del /\ (\E i \in 1 .. Len(X.vin) : X.vin[i].hash = Y.hash) => X.hash \in del

\* An output exists in the pool, is unspent in the chain, was disconnected, or
\* was spent by a transaction of the chain that the pool has yet to learn of.
Exists(b, txs, o) ==
    \/ o.hash \in txs /\ o.n <= Len(Tx[o.hash].vout)
    \/ IsAvailable(UnspentIn[b][o.hash], o.n)
Taken(b, del, o) == \E X \in ChainTx(b) : X.hash \in del /\ \E i \in 1 .. Len(X.vin) : X.vin[i] = o
Fed(b, txs, all, gone, del) ==
    \A t \in txs : \A o \in Inputs(t) : Exists(b, all, o) \/ o.hash \in gone \/ Taken(b, del, o)

\* The transactions of the blocks SetBestChain has connected wait in vDelete;
\* until they are deleted, and only for them, the pool may contradict the
\* chain, and what is resurrected meanwhile contradicts no other.
ReorgPhase ==
    /\ pc # "reorg" => vDelete = <<>>
    /\ pc = "idle" => accepting = NULL
    /\ \A t \in Range(vDelete) : \E X \in ChainTx(pindexBest) : X.hash = t
NoneConfirmed == Clear(pindexBest, Held, Range(vDelete))
Forward == accepting # NULL \/ nResurrected < Len(vResurrect) => Ahead(pindexBest, Range(vDelete))
Supplied == Fed(pindexBest, Held, mapTx, disconnected, Range(vDelete))

ChainInv == ReorgPhase /\ NoneConfirmed /\ Forward /\ Supplied

\* An output of well-formed coins is available or Spent.
LEMMA AvailableVal ==
  ASSUME NEW b \in Block, NEW t \in TxId, NEW n \in Place
  PROVE  IsAvailable(UnspentIn[b][t], n) <=> Val(UnspentIn[b][t].vout, n) # Spent
<1>1. UnspentIn[b][t].vout \in Seq(Value)
  BY UnspentInFacts DEF Node, CoinMap, Coin, CoinsSet, Value
<1> HIDE DEF Value
<1>2. n \in 1 .. Len(UnspentIn[b][t].vout) <=> n <= Len(UnspentIn[b][t].vout)
  BY <1>1 DEF Place
<1> QED
  BY <1>2 DEF IsAvailable, Val

\* A transaction of the chain that clashes with one of the pool has inputs, and
\* clashes by one of them.
LEMMA ClashInput ==
  ASSUME NEW b \in Block, NEW X \in ChainTx(b), NEW t \in Loose, Clash(t, X)
  PROVE  X.hash \in Loose /\ X = Tx[X.hash] /\ \E i \in 1 .. Len(X.vin) : X.vin[i] \in Inputs(t)
<1>1. X \in Transactions
  BY HistoryTx
<1>2. CASE t = X.hash
  <2>1. X = Tx[t]
    BY <1>2, ChainLoose
  <2>2. Tx[t].vin \in Seq(OutPoints) /\ Tx[t].vin # <<>>
        /\ \A o : o \in Inputs(t) <=> \E i \in 1 .. Len(Tx[t].vin) : Tx[t].vin[i] = o
    BY LooseFacts
  <2>3. 1 \in 1 .. Len(X.vin)
    BY <2>1, <2>2
  <2>4. X.vin[1] \in Inputs(t)
    BY <2>1, <2>2, <2>3
  <2> QED
    BY <1>2, <2>1, <2>3, <2>4
<1>3. CASE \E i \in 1 .. Len(X.vin) : X.vin[i] \in Inputs(t)
  <2>1. X.vin # <<>>
    <3>1. Len(X.vin) # 0
      BY <1>3
    <3> QED
      BY <3>1
  <2> QED
    BY <1>3, <2>1, ChainLoose
<1> QED
  BY <1>2, <1>3 DEF Clash

\* What passes the checks of accept spends what exists, and clashes only with
\* what is yet to be deleted.
LEMMA AcceptableClear ==
  ASSUME TypeOK, NEW t \in Loose, Acceptable(t),
         NEW del, Clear(pindexBest, mapTx, del), Ahead(pindexBest, del)
  PROVE  Clear(pindexBest, {t}, del) /\ \A o \in Inputs(t) : Exists(pindexBest, mapTx, o)
<1> DEFINE b == pindexBest
           C == UnspentIn[b]
<1>1. b \in Block /\ mapTx \subseteq Loose
  BY DEF TypeOK
<1>2. /\ Inputs(t) \in SUBSET OutPoints
      /\ \A o : o \in Inputs(t) <=> \E i \in 1 .. Len(Tx[t].vin) : Tx[t].vin[i] = o
  BY LooseFacts
<1>3. HaveInputs(CoinView, Tx[t])
  BY DEF Acceptable, CheckInputs
<1>4. ASSUME NEW o \in Inputs(t)
      PROVE  IsAvailable(C[o.hash], o.n) \/ (o.hash \in mapTx /\ o.n <= Len(Tx[o.hash].vout))
  <2>1. IsAvailable(CoinView[o.hash], o.n)
    BY <1>2, <1>3 DEF HaveInputs
  <2>2. o.hash \in TxId
    BY <1>2 DEF OutPoints
  <2>3. CoinView[o.hash] = IF o.hash \in mapTx /\ C[o.hash] = NoCoins /\ o.hash \notin pruned
                           THEN CoinsOf(Tx[o.hash], MEMPOOL_HEIGHT) ELSE C[o.hash]
    BY <2>2 DEF CoinView
  <2>4. CoinsOf(Tx[o.hash], MEMPOOL_HEIGHT).vout = Tx[o.hash].vout
    BY DEF CoinsOf
  <2>5. CASE CoinView[o.hash] = C[o.hash]
    BY <2>1, <2>5
  <2>6. CASE o.hash \in mapTx /\ CoinView[o.hash] = CoinsOf(Tx[o.hash], MEMPOOL_HEIGHT)
    <3>1. o.n <= Len(CoinsOf(Tx[o.hash], MEMPOOL_HEIGHT).vout)
      BY <2>1, <2>6 DEF IsAvailable
    <3> QED
      BY <2>4, <2>6, <3>1
  <2> QED
    BY <2>3, <2>5, <2>6
<1>5. ASSUME NEW X \in ChainTx(b), Clash(t, X) PROVE X.hash \in del
  <2>1. PICK i \in 1 .. Len(X.vin) : X.vin[i] \in Inputs(t)
    BY <1>1, <1>5, ClashInput
  <2> DEFINE o == X.vin[i]
  <2>2. o.hash \in TxId /\ o.n \in Place
    BY <1>2, <2>1 DEF OutPoints
  <2>3. /\ \E Y \in ChainTx(b) : Y.hash = o.hash
        /\ Val(C[o.hash].vout, o.n) = Spent
    BY <1>1, ChainSpent
  <2>4. PICK Y \in ChainTx(b) : Y.hash = o.hash
    BY <2>3
  <2>5. ~IsAvailable(C[o.hash], o.n)
    BY <1>1, <2>2, <2>3, AvailableVal
  <2>6. o.hash \in mapTx
    BY <1>4, <2>1, <2>5
  <2>7. Y.hash \in del
    BY <2>4, <2>6 DEF Clear, Clash
  <2> QED
    BY <2>4, <2>7 DEF Ahead
<1> QED
  BY <1>4, <1>5 DEF Clear, Exists

\* The head of a list and the rest of it.
LEMMA HeadTail ==
  ASSUME NEW T, NEW s \in Seq(T), s # <<>>
  PROVE  /\ Head(s) \in T /\ Head(s) \in Range(s) /\ Range(Tail(s)) \subseteq Range(s)
         /\ \A x \in Range(s) : x = Head(s) \/ x \in Range(Tail(s))
<1>1. Len(s) \in Nat \ {0} /\ Head(s) = s[1] /\ DOMAIN s = 1 .. Len(s)
  OBVIOUS
<1>2. Tail(s) \in Seq(T) /\ Len(Tail(s)) = Len(s) - 1 /\ DOMAIN Tail(s) = 1 .. Len(s) - 1
  BY <1>1
<1>3. \A i \in 1 .. Len(s) - 1 : Tail(s)[i] = s[i + 1] /\ i + 1 \in 1 .. Len(s)
  BY <1>1
<1>4. ASSUME NEW i \in 1 .. Len(s), i # 1 PROVE i - 1 \in 1 .. Len(s) - 1 /\ Tail(s)[i - 1] = s[i]
  BY <1>1, <1>3, <1>4
<1>5. 1 \in 1 .. Len(s)
  BY <1>1
<1> DEFINE r == Tail(s)
<1> HIDE DEF r
<1>6. Range(r) \subseteq Range(s)
  BY <1>1, <1>2, <1>3 DEF Range, r
<1>7. ASSUME NEW x \in Range(s) PROVE x = Head(s) \/ x \in Range(r)
  <2>1. PICK i \in 1 .. Len(s) : x = s[i]
    BY <1>1 DEF Range
  <2>2. CASE i # 1
    BY <1>2, <1>4, <2>1, <2>2 DEF Range, r
  <2> QED
    BY <1>1, <2>1, <2>2
<1>8. s[1] \in T /\ s[1] \in Range(s)
  BY <1>1, <1>5 DEF Range
<1> QED
  BY <1>1, <1>6, <1>7, <1>8 DEF r

\* What SetBestChain leaves in vDelete.
LEMMA ConnectedWait ==
  ASSUME NEW p \in Block, NEW b \in Block
  PROVE  LET del == Range(Gathered(ChainOf[b], Chain(p)))
         IN  /\ \A t \in del : \E X \in ChainTx(b) : X.hash = t
             /\ \A X \in ChainTx(b) : X \in ChainTx(p) \/ X.vin = <<>> \/ X.hash \in del
             /\ Ahead(b, del)
<1> DEFINE del == Range(Gathered(ChainOf[b], Chain(p)))
<1>1. \A t : t \in del <=> \E a \in Chain(b) \ Chain(p) : \E i \in 2 .. Len(Vtx[a]) : t = Vtx[a][i].hash
  BY ReorgLists
<1> HIDE DEF del
<1>2. Chain(b) \subseteq Block /\ Genesis \in Chain(p)
  BY ChainClosed
<1>3. \A a \in Chain(b) \ {Genesis} : \A i \in 1 .. Len(Vtx[a]) : Vtx[a][i] \in ChainTx(b)
  BY ChainTxBlocks
<1>4. \A a \in Block \ {Genesis} : /\ Len(Vtx[a]) \in Nat
                                  /\ \A i \in 1 .. Len(Vtx[a]) : IsCoinBase(Vtx[a][i]) <=> i = 1
  BY BlockFacts, VtxFacts
<1>5. ASSUME NEW t \in del PROVE \E X \in ChainTx(b) : X.hash = t
  <2>1. PICK a \in Chain(b) \ Chain(p) : \E i \in 2 .. Len(Vtx[a]) : t = Vtx[a][i].hash
    BY <1>1
  <2>2. PICK i \in 2 .. Len(Vtx[a]) : t = Vtx[a][i].hash
    BY <2>1
  <2>3. a \in Chain(b) \ {Genesis} /\ a \in Block \ {Genesis}
    BY <1>2
  <2>4. i \in 1 .. Len(Vtx[a])
    BY <1>4, <2>3
  <2> QED
    BY <1>3, <2>2, <2>3, <2>4
<1>6. ASSUME NEW a \in Chain(b) \ Chain(p), NEW i \in 1 .. Len(Vtx[a]), Vtx[a][i].vin # <<>>
      PROVE  Vtx[a][i].hash \in del
  <2>1. a \in Block \ {Genesis}
    BY <1>2
  <2>2. i # 1 /\ Len(Vtx[a]) \in Nat
    BY <1>4, <1>6, <2>1 DEF IsCoinBase
  <2>3. i \in 2 .. Len(Vtx[a])
    BY <2>2
  <2> QED
    BY <1>1, <2>3
<1>7. ASSUME NEW X \in ChainTx(b) PROVE X \in ChainTx(p) \/ X.vin = <<>> \/ X.hash \in del
  <2>1. PICK a \in Chain(b) \ {Genesis} : \E i \in 1 .. Len(Vtx[a]) : X = Vtx[a][i]
    BY ChainTxBlocks
  <2>2. PICK i \in 1 .. Len(Vtx[a]) : X = Vtx[a][i]
    BY <2>1
  <2>3. CASE a \in Chain(p)
    BY <2>2, <2>3, ChainTxBlocks
  <2>4. CASE a \notin Chain(p)
    BY <1>6, <2>2, <2>4
  <2> QED
    BY <2>3, <2>4
<1>8. ASSUME NEW X \in ChainTx(b), NEW Y \in ChainTx(b), Y.hash \in del,
             NEW j \in 1 .. Len(X.vin), X.vin[j].hash = Y.hash
      PROVE  X.hash \in del
  <2>1. PICK a \in Chain(b) \ {Genesis} : \E i \in 1 .. Len(Vtx[a]) : X = Vtx[a][i]
    BY ChainTxBlocks
  <2>2. PICK i \in 1 .. Len(Vtx[a]) : X = Vtx[a][i]
    BY <2>1
  <2>3. PICK d \in Chain(b) \ Chain(p) : \E k \in 2 .. Len(Vtx[d]) : Y.hash = Vtx[d][k].hash
    BY <1>1, <1>8
  <2>4. PICK k \in 2 .. Len(Vtx[d]) : Y.hash = Vtx[d][k].hash
    BY <2>3
  <2>5. a \in Block \ {Genesis} /\ d \in Chain(b) \ {Genesis} /\ d \in Block \ {Genesis}
    BY <1>2
  <2>6. k \in 1 .. Len(Vtx[d])
    BY <1>4, <2>5
  <2>7. CASE a \in Chain(p)
    <3>1. X \in ChainTx(a)
      BY <2>2, <2>5, ChainClosed, ChainTxBlocks
    <3>2. PICK Z \in ChainTx(a) : Z.hash = Y.hash
      BY <1>8, <2>5, <3>1, ChainSpent
    <3>3. PICK c \in Chain(a) \ {Genesis} : \E m \in 1 .. Len(Vtx[c]) : Z = Vtx[c][m]
      BY <2>5, ChainTxBlocks
    <3>4. PICK m \in 1 .. Len(Vtx[c]) : Z = Vtx[c][m]
      BY <3>3
    <3>5. c \in Chain(b) \ {Genesis} /\ c \in Chain(p)
      BY <2>1, <2>7, <3>3, ChainClosed
    <3>6. Vtx[c][m].hash = Vtx[d][k].hash
      BY <2>4, <3>2, <3>4
    <3>7. c = d
      BY <2>5, <2>6, <3>5, <3>6, ChainTxBlocks
    <3> QED
      BY <2>3, <3>5, <3>7
  <2>8. CASE a \notin Chain(p)
    <3>1. X.vin # <<>>
      BY <1>8
    <3> QED
      BY <1>6, <2>2, <2>8, <3>1
  <2> QED
    BY <2>7, <2>8
<1>9. Ahead(b, del)
  BY <1>8 DEF Ahead
<1> QED
  BY <1>5, <1>7, <1>9 DEF del

\* Another block becomes best.
LEMMA SetBestChainClear ==
  ASSUME NEW p \in Block, NEW b \in Block, NEW txs \in SUBSET Loose, NEW gone,
         Clear(p, txs, {}), Fed(p, txs, txs, gone, {})
  PROVE  LET del == Range(Gathered(ChainOf[b], Chain(p)))
             off == Chain(p) \ Chain(b)
         IN  /\ Clear(b, txs, del)
             /\ Fed(b, txs, txs,
                    gone \cup (TxId \cap UNION {{tx.hash : tx \in Range(Vtx[a])} : a \in off}), del)
<1> DEFINE del == Range(Gathered(ChainOf[b], Chain(p)))
           off == Chain(p) \ Chain(b)
           new == gone \cup (TxId \cap UNION {{tx.hash : tx \in Range(Vtx[a])} : a \in off})
<1>1. \A X \in ChainTx(b) : X \in ChainTx(p) \/ X.vin = <<>> \/ X.hash \in del
  BY ConnectedWait
<1> HIDE DEF del
<1>2. ASSUME NEW X \in ChainTx(b), NEW t \in txs, Clash(t, X) PROVE X.hash \in del
  <2>1. PICK i \in 1 .. Len(X.vin) : X.vin[i] \in Inputs(t)
    BY <1>2, ClashInput
  <2>2. X.vin # <<>>
    BY <2>1
  <2>3. X \notin ChainTx(p)
    BY <1>2 DEF Clear
  <2> QED
    BY <1>1, <2>2, <2>3
<1>3. ASSUME NEW t \in txs, NEW o \in Inputs(t)
      PROVE  Exists(b, txs, o) \/ o.hash \in new \/ Taken(b, del, o)
  <2>1. o \in OutPoints
    BY LooseFacts
  <2>2. o.hash \in TxId /\ o.n \in Place /\ o = [hash |-> o.hash, n |-> o.n]
    BY <2>1 DEF OutPoints
  <2>3. Exists(p, txs, o) \/ o.hash \in gone
    BY <1>3 DEF Fed, Taken
  <2>4. CASE o.hash \in gone
    BY <2>4
  <2>5. CASE o.hash \in txs /\ o.n <= Len(Tx[o.hash].vout)
    BY <2>5 DEF Exists
  <2>6. CASE IsAvailable(UnspentIn[p][o.hash], o.n)
    <3>1. Val(UnspentIn[p][o.hash].vout, o.n) # Spent
      BY <2>2, <2>6, AvailableVal
    <3>2. PICK Y \in ChainTx(p) : Y.hash = o.hash /\ o.n \in 1 .. Len(Y.vout)
      BY <2>2, <3>1, ChainUnspent
    <3>3. PICK a \in Chain(p) \ {Genesis} : \E i \in 1 .. Len(Vtx[a]) : Y = Vtx[a][i]
      BY ChainTxBlocks
    <3>4. PICK i \in 1 .. Len(Vtx[a]) : Y = Vtx[a][i]
      BY <3>3
    <3>5. CASE a \notin Chain(b)
      <4>1. a \in Block \ {Genesis}
        BY ChainClosed
      <4>2. DOMAIN Vtx[a] = 1 .. Len(Vtx[a])
        BY <4>1, BlockFacts DEF CheckBlock
      <4>3. Y \in Range(Vtx[a])
        BY <3>4, <4>2 DEF Range
      <4>4. a \in off
        BY <3>5
      <4> HIDE DEF off
      <4> QED
        BY <2>2, <3>2, <4>3, <4>4
    <3>6. CASE a \in Chain(b)
      <4>1. Y \in ChainTx(b)
        BY <3>3, <3>4, <3>6, ChainTxBlocks
      <4>2. CASE Val(UnspentIn[b][Y.hash].vout, o.n) = Y.vout[o.n] /\ Y.vout[o.n] \in Nat
        <5>1. Val(UnspentIn[b][o.hash].vout, o.n) # Spent
          BY <3>2, <4>2 DEF Spent
        <5> QED
          BY <2>2, <5>1, AvailableVal DEF Exists
      <4>3. ASSUME NEW X \in ChainTx(b), NEW j \in 1 .. Len(X.vin),
                   X.vin[j] = [hash |-> Y.hash, n |-> o.n]
            PROVE  Taken(b, del, o)
        <5>1. X.vin[j] = o
          BY <2>2, <3>2, <4>3
        <5>2. Clash(t, X)
          BY <5>1 DEF Clash
        <5> QED
          BY <1>2, <5>1, <5>2 DEF Taken
      <4> QED
        BY <3>2, <4>1, <4>2, <4>3, ChainCreated
    <3> QED
      BY <3>5, <3>6
  <2> QED
    BY <2>3, <2>4, <2>5, <2>6 DEF Exists
<1> HIDE DEF new
<1>4. Fed(b, txs, txs, new, del)
  BY <1>3 DEF Fed
<1>5. Clear(b, txs, del)
  BY <1>2 DEF Clear
<1> QED
  BY <1>4, <1>5 DEF del, new, off

\* remove(t, true) takes t and whatever spends what it takes.
LEMMA DescendantsFacts ==
  ASSUME NEW txs, NEW next, NEW v
  PROVE  /\ v \in txs => v \in Descendants(v, txs, next)
         /\ \A h \in Descendants(v, txs, next) : \A o \in Outpoint :
              o.hash = h /\ next[o] # NULL /\ next[o] \in txs => next[o] \in Descendants(v, txs, next)
  BY DEF Descendants

\* A transaction of a connected block is deleted, with its conflicts.
LEMMA DeleteClear ==
  ASSUME TypeOK, PoolInv, ReorgPhase, accepting = NULL, NoneConfirmed, Supplied, vDelete # <<>>
  PROVE  LET t == Head(vDelete)
             left == mapTx \ ((mapTx \cap {t}) \cup ConflictsOf(t))
             del == Range(Tail(vDelete))
         IN  Clear(pindexBest, left, del) /\ Fed(pindexBest, left, left, disconnected, del)
<1> DEFINE b == pindexBest
           t == Head(vDelete)
           S == (mapTx \cap {t}) \cup ConflictsOf(t)
           left == mapTx \ S
           del == Range(Tail(vDelete))
<1>0. b \in Block /\ mapTx \subseteq Loose /\ vDelete \in Seq(Loose) /\ Held = mapTx
  BY DEF TypeOK, Held
<1>1. /\ t \in Loose /\ t \in Range(vDelete) /\ del \subseteq Range(vDelete)
      /\ \A x \in Range(vDelete) : x = t \/ x \in del
  BY <1>0, HeadTail
<1>2. /\ \A X \in ChainTx(b), u \in mapTx : Clash(u, X) => X.hash \in Range(vDelete)
      /\ \E X \in ChainTx(b) : X.hash = t
  BY <1>0, <1>1 DEF NoneConfirmed, Clear, ReorgPhase
<1>3. \A u \in mapTx : \A o \in Inputs(u) : o \in Outpoint /\ mapNextTx[o] = u
  BY <1>0, LooseFacts DEF PoolInv, InputsIndexed
<1>4. NULL \notin mapTx
  BY DEF PoolInv
<1> HIDE DEF b, t, del
<1>5. ASSUME NEW u \in mapTx, NEW o \in Inputs(t), o \in Inputs(u) PROVE u \in S
  <2>1. mapNextTx[o] = u /\ u # NULL
    BY <1>3, <1>4, <1>5
  <2>2. CASE u = t
    BY <2>2
  <2>3. CASE u # t
    <3>1. u \in RemoveRecursive(mapNextTx[o], mapTx, mapNextTx)
      BY <2>1, DescendantsFacts DEF RemoveRecursive
    <3>2. o \in {i \in Inputs(t) : mapNextTx[i] \notin {NULL, t}}
      BY <2>1, <2>3
    <3>3. u \in ConflictsOf(t)
      BY <3>1, <3>2 DEF ConflictsOf
    <3> QED
      BY <3>3
  <2> QED
    BY <2>2, <2>3
<1>6. ASSUME NEW h \in S, h # t, NEW u \in mapTx, NEW o \in Inputs(u), o.hash = h PROVE u \in S
  <2>1. h \in ConflictsOf(t)
    BY <1>6
  <2>2. PICK i \in {j \in Inputs(t) : mapNextTx[j] \notin {NULL, t}} :
          h \in RemoveRecursive(mapNextTx[i], mapTx, mapNextTx)
    BY <2>1 DEF ConflictsOf
  <2>3. h \in Descendants(mapNextTx[i], mapTx, mapNextTx)
    BY <2>2 DEF RemoveRecursive
  <2>4. o \in Outpoint /\ mapNextTx[o] = u /\ u # NULL
    BY <1>3, <1>4
  <2>5. u \in Descendants(mapNextTx[i], mapTx, mapNextTx)
    BY <1>6, <2>3, <2>4, DescendantsFacts
  <2>6. u \in RemoveRecursive(mapNextTx[i], mapTx, mapNextTx)
    BY <2>5 DEF RemoveRecursive
  <2>7. u \in ConflictsOf(t)
    BY <2>2, <2>6 DEF ConflictsOf
  <2> QED
    BY <2>7
<1> HIDE DEF S
<1>7. ASSUME NEW X \in ChainTx(b), NEW u \in left, Clash(u, X) PROVE X.hash \in del
  <2>1. X.hash \in Range(vDelete) /\ u \in mapTx /\ u \notin S
    BY <1>2, <1>7
  <2>2. CASE X.hash = t
    <3>1. X = Tx[t]
      BY <1>0, <1>1, <2>2, ChainLoose
    <3>2. PICK i \in 1 .. Len(X.vin) : X.vin[i] \in Inputs(u)
      BY <1>0, <1>7, ClashInput
    <3>3. X.vin[i] \in Inputs(t)
      BY <1>1, <3>1, LooseFacts
    <3> QED
      BY <1>5, <2>1, <3>2, <3>3
  <2> QED
    BY <1>1, <2>1, <2>2
<1>8. ASSUME NEW u \in left, NEW o \in Inputs(u)
      PROVE  Exists(b, left, o) \/ o.hash \in disconnected \/ Taken(b, del, o)
  <2>1. u \in mapTx /\ u \notin S /\ u \in Loose
    BY <1>0
  <2>2. o \in OutPoints
    BY <2>1, LooseFacts
  <2>3. o.hash \in TxId /\ o.n \in Place /\ o = [hash |-> o.hash, n |-> o.n]
    BY <2>2 DEF OutPoints
  <2>4. Exists(b, mapTx, o) \/ o.hash \in disconnected \/ Taken(b, Range(vDelete), o)
    BY <1>0, <2>1 DEF Supplied, Fed, b
  <2>5. ASSUME NEW X \in ChainTx(b), NEW i \in 1 .. Len(X.vin), X.vin[i] = o PROVE Taken(b, del, o)
    <3>1. Clash(u, X)
      BY <2>5 DEF Clash
    <3> QED
      BY <1>7, <2>5, <3>1 DEF Taken
  <2>6. CASE o.hash \in mapTx /\ o.n <= Len(Tx[o.hash].vout) /\ o.hash \in S
    <3>1. o.hash = t
      BY <1>6, <2>1, <2>6
    <3>2. PICK Y \in ChainTx(b) : Y.hash = t
      BY <1>2
    <3>3. Y = Tx[t]
      BY <1>0, <1>1, <3>2, ChainLoose
    <3>4. Tx[t].vout \in Seq(Nat)
      BY <1>1, LooseFacts
    <3>5. o.n \in 1 .. Len(Y.vout)
      BY <2>3, <2>6, <3>1, <3>3, <3>4 DEF Place
    <3>6. CASE Val(UnspentIn[b][Y.hash].vout, o.n) = Y.vout[o.n] /\ Y.vout[o.n] \in Nat
      <4>1. Val(UnspentIn[b][o.hash].vout, o.n) # Spent
        BY <3>1, <3>2, <3>6 DEF Spent
      <4> QED
        BY <1>0, <2>3, <4>1, AvailableVal DEF Exists
    <3>7. ASSUME NEW X \in ChainTx(b), NEW j \in 1 .. Len(X.vin),
                 X.vin[j] = [hash |-> Y.hash, n |-> o.n]
          PROVE  Taken(b, del, o)
      <4>1. X.vin[j] = o
        BY <2>3, <3>1, <3>2, <3>7
      <4> QED
        BY <2>5, <4>1
    <3> QED
      BY <1>0, <3>5, <3>6, <3>7, ChainCreated
  <2>7. CASE o.hash \in mapTx /\ o.n <= Len(Tx[o.hash].vout) /\ o.hash \notin S
    BY <2>7 DEF Exists
  <2>8. CASE IsAvailable(UnspentIn[b][o.hash], o.n)
    BY <2>8 DEF Exists
  <2>9. CASE Taken(b, Range(vDelete), o)
    BY <2>5, <2>9 DEF Taken
  <2> QED
    BY <2>4, <2>6, <2>7, <2>8, <2>9 DEF Exists
<1> HIDE DEF left
<1>9. Clear(b, left, del) /\ Fed(b, left, left, disconnected, del)
  BY <1>7, <1>8 DEF Clear, Fed
<1> QED
  BY <1>9 DEF b, left, del, S, t

\* A transaction that passed the checks of accept, and nothing else, is new.
LEMMA AcceptedClear ==
  ASSUME TypeOK, ChainInv, accepting = NULL, NEW t \in Loose, Acceptable(t),
         Ahead(pindexBest, Range(vDelete))
  PROVE  /\ Clear(pindexBest, mapTx \cup {t}, Range(vDelete))
         /\ Fed(pindexBest, mapTx \cup {t}, mapTx, disconnected, Range(vDelete))
<1>1. Held = mapTx
  BY DEF Held
<1>2. Clear(pindexBest, mapTx, Range(vDelete))
      /\ Fed(pindexBest, mapTx, mapTx, disconnected, Range(vDelete))
  BY <1>1 DEF ChainInv, NoneConfirmed, Supplied
<1>3. Clear(pindexBest, {t}, Range(vDelete)) /\ \A o \in Inputs(t) : Exists(pindexBest, mapTx, o)
  BY <1>2, AcceptableClear
<1> QED
  BY <1>2, <1>3 DEF Clear, Fed

\* More in the pool makes no less exist.
LEMMA FedMore ==
  ASSUME NEW b, NEW txs, NEW all, NEW more, all \subseteq more, NEW gone, NEW del,
         Fed(b, txs, all, gone, del)
  PROVE  Fed(b, txs, more, gone, del)
  BY DEF Fed, Exists

\* The parts of the invariant in the next state.
LEMMA ChainInvNext ==
  ASSUME pc' # "reorg" => vDelete' = <<>>, pc' = "idle" => accepting' = NULL,
         \A t \in Range(vDelete') : \E X \in ChainTx(pindexBest') : X.hash = t,
         NEW held, held = mapTx' \cup ({accepting'} \ {NULL}),
         Clear(pindexBest', held, Range(vDelete')),
         accepting' # NULL \/ nResurrected' < Len(vResurrect') => Ahead(pindexBest', Range(vDelete')),
         Fed(pindexBest', held, mapTx', disconnected', Range(vDelete'))
  PROVE  ChainInv'
<1>1. Held' = held
  BY DEF Held
<1>2. ReorgPhase'
  BY DEF ReorgPhase
<1>3. NoneConfirmed'
  BY <1>1 DEF NoneConfirmed
<1>4. Forward'
  BY DEF Forward
<1>5. Supplied'
  BY <1>1 DEF Supplied
<1> QED
  BY <1>2, <1>3, <1>4, <1>5 DEF ChainInv

\* At the start the pool is empty.
LEMMA ChainInit == Init => ChainInv
<1> SUFFICES ASSUME Init PROVE ChainInv
  OBVIOUS
<1>1. /\ pc = "idle" /\ accepting = NULL /\ vDelete = <<>> /\ mapTx = {}
      /\ nResurrected = 0 /\ vResurrect = <<>>
  BY DEF Init
<1>2. Range(vDelete) = {} /\ Held = {} /\ ~(nResurrected < Len(vResurrect))
  BY <1>1 DEF Range, Held
<1> QED
  BY <1>1, <1>2 DEF ChainInv, ReorgPhase, NoneConfirmed, Forward, Supplied, Clear, Fed

\* Every step that leaves the pool undisturbed keeps what it says of the chain.
LEMMA ChainStep == ASSUME TypeOK, PoolInv, ChainInv, Undisturbed', [Next]_vars PROVE ChainInv'
<1> DEFINE b == pindexBest
           del == Range(vDelete)
<1>0. /\ b \in Block /\ mapTx \subseteq Loose /\ vDelete \in Seq(Loose) /\ accepting \in Loose \cup {NULL}
      /\ NULL \notin Loose
  BY TxAssumption DEF TypeOK, Loose
<1>1. /\ pc # "reorg" => vDelete = <<>>
      /\ pc = "idle" => accepting = NULL
      /\ \A t \in del : \E X \in ChainTx(b) : X.hash = t
      /\ Clear(b, Held, del)
      /\ accepting # NULL \/ nResurrected < Len(vResurrect) => Ahead(b, del)
      /\ Fed(b, Held, mapTx, disconnected, del)
  BY DEF ChainInv, ReorgPhase, NoneConfirmed, Forward, Supplied
<1>2. vDelete = <<>> => del = {} /\ Ahead(b, del)
  BY DEF Ahead, Range
<1> DEFINE same == UNCHANGED <<pindexBest, mapTx, vDelete, disconnected>>
\* accept's checks let a transaction through.
<1>3. ASSUME NEW t \in Loose, Acceptable(t), accepting = NULL, accepting' = t, same, Ahead(b, del),
             pc' # "idle", pc' # "reorg" => vDelete = <<>>
      PROVE  ChainInv'
  <2>1. /\ Clear(b, mapTx \cup {t}, del)
        /\ Fed(b, mapTx \cup {t}, mapTx, disconnected, del)
    BY <1>3, AcceptedClear
  <2>2. mapTx \cup {t} = mapTx' \cup ({accepting'} \ {NULL})
    BY <1>0, <1>3
  <2> QED
    BY <1>1, <1>3, <2>1, <2>2, ChainInvNext
\* Nothing happens to the pool and the chain.
<1>4. ASSUME same, UNCHANGED accepting, pc' # "reorg" => vDelete = <<>>, pc' = "idle" => accepting = NULL,
             nResurrected' < Len(vResurrect') => nResurrected < Len(vResurrect)
      PROVE  ChainInv'
  <2>1. Held = mapTx' \cup ({accepting'} \ {NULL})
    BY <1>4 DEF Held
  <2> QED
    BY <1>1, <1>4, <2>1, ChainInvNext
<1>5. ASSUME NEW t \in Loose, ReceiveTx(t) \/ SubmitTx(t) PROVE ChainInv'
  <2>1. Acceptable(t) /\ accepting' = t /\ same /\ pc = "idle" /\ pc' # "idle" /\ pc' # "reorg"
    BY <1>5 DEF ReceiveTx, SubmitTx, pool, reorg
  <2> QED
    BY <1>1, <1>2, <1>3, <2>1
<1>6. ASSUME NEW t \in Loose, TryOrphan(t) PROVE ChainInv'
  <2>1. /\ pc = "tx" /\ pc' = "tx" /\ accepting = NULL /\ same /\ UNCHANGED <<nResurrected, vResurrect>>
        /\ (Acceptable(t) /\ accepting' = t) \/ UNCHANGED accepting
    BY <1>6 DEF TryOrphan, pool, reorg
  <2> QED
    BY <1>1, <1>2, <1>3, <1>4, <2>1
<1>7. ASSUME NEW t \in Loose, ReceiveOrphan(t) PROVE ChainInv'
  BY <1>1, <1>4, <1>7 DEF ReceiveOrphan, pool, reorg
<1>8. CASE NextInWorkQueue \/ TxDone
  BY <1>1, <1>4, <1>8 DEF NextInWorkQueue, TxDone, pool, reorg
<1>9. CASE AcceptEnds
  <2>1. /\ accepting # NULL /\ accepting' = NULL /\ mapTx' = mapTx \cup {accepting}
        /\ UNCHANGED <<pindexBest, vDelete, disconnected, nResurrected, vResurrect>>
        /\ pc' = IF pc = "submit" THEN "idle" ELSE pc
    BY <1>9 DEF AcceptEnds, AddUnchecked, reorg
  <2>2. Held = mapTx' \cup ({accepting'} \ {NULL})
    BY <2>1 DEF Held
  <2>3. Fed(b, Held, mapTx', disconnected, del)
    BY <1>1, <2>1, FedMore
  <2> QED
    BY <1>1, <2>1, <2>2, <2>3, ChainInvNext
<1>10. ASSUME NEW a \in Block, SetBestChain(a) PROVE ChainInv'
  <2> DEFINE gone == disconnected \cup
               (TxId \cap UNION {{tx.hash : tx \in Range(Vtx[c])} : c \in Chain(b) \ Chain(a)})
             new == Range(Gathered(ChainOf[a], Chain(b)))
  <2>1. /\ pc = "idle" /\ pindexBest' = a /\ vDelete' = Gathered(ChainOf[a], Chain(b))
        /\ disconnected' = gone /\ pc' = "reorg" /\ UNCHANGED <<mapTx, accepting>>
    BY <1>10 DEF SetBestChain, pool
  <2>2. accepting = NULL /\ vDelete = <<>> /\ del = {} /\ Held = mapTx
    BY <1>1, <1>2, <2>1 DEF Held
  <2> HIDE DEF gone, new
  <2>3. Clear(a, mapTx, new) /\ Fed(a, mapTx, mapTx, gone, new)
    BY <1>0, <1>1, <2>2, SetBestChainClear DEF gone, new
  <2>4. (\A t \in new : \E X \in ChainTx(a) : X.hash = t) /\ Ahead(a, new)
    BY <1>0, ConnectedWait DEF new
  <2>5. Range(vDelete') = new
    BY <2>1 DEF new
  <2>6. mapTx = mapTx' \cup ({accepting'} \ {NULL})
    BY <2>1, <2>2
  <2> QED
    BY <2>1, <2>2, <2>3, <2>4, <2>5, <2>6, ChainInvNext
<1>11. CASE Resurrect
  <2> DEFINE t == vResurrect[nResurrected + 1]
  <2>1. /\ pc = "reorg" /\ pc' = "reorg" /\ accepting = NULL /\ same
        /\ nResurrected < Len(vResurrect) /\ nResurrected' = nResurrected + 1 /\ UNCHANGED vResurrect
        /\ (Acceptable(t) /\ accepting' = t) \/ UNCHANGED accepting
    BY <1>11 DEF Resurrect, pool
  <2>2. vResurrect \in Seq(Loose) /\ nResurrected \in 0 .. Len(vResurrect) /\ Len(vResurrect) \in Nat
    BY DEF TypeOK
  <2>3. t \in Loose
    BY <2>1, <2>2
  <2> HIDE DEF t
  <2> QED
    BY <1>1, <1>3, <1>4, <2>1, <2>3
<1>12. CASE DeleteTx
  <2> DEFINE t == Head(vDelete)
             left == mapTx \ ((mapTx \cap {t}) \cup ConflictsOf(t))
  <2>1. /\ pc = "reorg" /\ accepting = NULL /\ vDelete # <<>> /\ mapTx' = left
        /\ nResurrected = Len(vResurrect)
        /\ vDelete' = Tail(vDelete)
        /\ UNCHANGED <<pindexBest, pc, accepting, disconnected, nResurrected, vResurrect>>
    BY <1>12 DEF DeleteTx, RemoveAll
  <2>2. Clear(b, left, Range(Tail(vDelete))) /\ Fed(b, left, left, disconnected, Range(Tail(vDelete)))
    BY <2>1, DeleteClear DEF ChainInv
  <2> HIDE DEF left
  <2>3. Range(Tail(vDelete)) \subseteq del
    BY <1>0, <2>1, HeadTail
  <2>4. left = mapTx' \cup ({accepting'} \ {NULL})
    BY <2>1
  <2>5. ~(nResurrected' < Len(vResurrect'))
    BY <2>1 DEF TypeOK
  <2> QED
    BY <1>1, <2>1, <2>2, <2>3, <2>4, <2>5, ChainInvNext
<1>13. CASE SetBestChainDone
  <2>1. /\ accepting = NULL /\ vDelete = <<>> /\ same /\ UNCHANGED accepting /\ pc' = "idle"
        /\ ~(nResurrected' < Len(vResurrect'))
    BY <1>13 DEF SetBestChainDone, pool
  <2> QED
    BY <1>4, <2>1
<1>14. CASE UNCHANGED vars
  BY <1>1, <1>4, <1>14 DEF vars, pool, reorg
<1>15. ASSUME NEW t \in Loose, RefuseTx(t) PROVE ChainInv'
  BY <1>14, <1>15 DEF RefuseTx
<1> QED
  BY <1>5, <1>6, <1>7, <1>8, <1>9, <1>10, <1>11, <1>12, <1>13, <1>14, <1>15, DisturbedForGood DEF Next

\* Between two messages nothing is left in vDelete.
LEMMA ChainInvMeans ==
  ASSUME TypeOK, ChainInv, pc = "idle"
  PROVE  /\ \A b \in Chain(pindexBest) : \A tx \in Range(Vtx[b]) :
              tx.hash \notin mapTx /\ \A t \in mapTx : Inputs(t) \cap Range(tx.vin) = {}
         /\ \A t \in mapTx : \A o \in Inputs(t) : Available(o) \/ o.hash \in disconnected
<1>0. pindexBest \in Block /\ mapTx \subseteq Loose /\ Range(vDelete) = {} /\ Held = mapTx
  BY DEF TypeOK, ChainInv, ReorgPhase, Range, Held
<1>1. ASSUME NEW X \in ChainTx(pindexBest), NEW t \in mapTx PROVE ~Clash(t, X)
  BY <1>0 DEF ChainInv, NoneConfirmed, Clear
<1>2. ASSUME NEW b \in Chain(pindexBest), NEW tx \in Range(Vtx[b])
      PROVE  tx.hash \notin mapTx /\ \A t \in mapTx : Inputs(t) \cap Range(tx.vin) = {}
  <2>1. CASE b = Genesis
    <3>1. tx.vin = <<>> /\ tx.hash \notin Loose
      <4>1. DOMAIN Vtx[b] = {1} /\ Len(Vtx[b]) = 1 /\ IsCoinBase(Vtx[b][1])
        BY <2>1, BlocksAssumption
      <4>2. tx = Vtx[b][1]
        BY <4>1 DEF Range
      <4>3. 1 \in 1 .. Len(Vtx[b]) /\ b \in Block
        BY <1>0, <4>1, ChainClosed
      <4> QED
        BY <4>1, <4>2, <4>3, BlocksAssumption DEF IsCoinBase, Loose
    <3>2. Range(tx.vin) = {}
      BY <3>1 DEF Range
    <3> QED
      BY <1>0, <3>1, <3>2
  <2>2. CASE b # Genesis
    <3>1. b \in Block \ {Genesis}
      BY <1>0, <2>2, ChainClosed
    <3>2. DOMAIN Vtx[b] = 1 .. Len(Vtx[b])
      BY <3>1, BlockFacts DEF CheckBlock
    <3>3. tx \in ChainTx(pindexBest)
      BY <1>0, <2>2, <3>2, ChainTxBlocks DEF Range
    <3>4. tx.vin \in Seq(OutPoints)
      BY <1>0, <3>3, HistoryTx DEF Transactions
    <3>5. \A o \in Range(tx.vin) : \E i \in 1 .. Len(tx.vin) : tx.vin[i] = o
      BY <3>4 DEF Range
    <3> QED
      BY <1>1, <3>3, <3>5 DEF Clash
  <2> QED
    BY <2>1, <2>2
<1>3. ASSUME NEW t \in mapTx, NEW o \in Inputs(t) PROVE Available(o) \/ o.hash \in disconnected
  <2>1. Exists(pindexBest, mapTx, o) \/ o.hash \in disconnected
    BY <1>0 DEF ChainInv, Supplied, Fed, Taken
  <2> QED
    BY <2>1 DEF Exists, Available
<1> QED
  BY <1>2, <1>3

\* After every message, block and reorganisation the pool holds nothing of the
\* chain and nothing the chain contradicts, only a disconnected block strands
\* one of its transactions, no pointer of mapNextTx dangles and the orphans stay
\* within their bound, for any blocks that connect, any transactions and any
\* order of them.
THEOREM PoolSoundCorrect == Spec => []PoolSound
<1> DEFINE Inv == TypeInv /\ (Undisturbed => PoolInv /\ ChainInv)
<1>1. Init => Inv
  BY TypeInit, PoolInit, ChainInit
<1>2. Inv /\ [Next]_vars => Inv'
  <2> SUFFICES ASSUME TypeInv, Undisturbed => PoolInv /\ ChainInv, [Next]_vars, Undisturbed'
               PROVE  PoolInv' /\ ChainInv'
    BY TypeStep
  <2>1. Undisturbed
    BY UndisturbedBefore
  <2> QED
    BY <2>1, PoolStep, ChainStep DEF TypeInv
<1>3. Inv => PoolSound
  BY ChainInvMeans DEF TypeInv, PoolSound, PoolUnconfirmed, StrandedByReorgOnly
<1> QED
  BY <1>1, <1>2, <1>3, PTL DEF Spec

-----------------------------------------------------------------------------
(***************************************************************************)
(* CreateNewBlock                                                          *)
(***************************************************************************)

\* Filling is defined for every number of turns.
LEMMA FillingDef ==
  ASSUME NEW full, Cardinality(mapTx) \in Nat
  PROVE  Filling(full) =
           [i \in 0 .. Cardinality(mapTx) |->
              IF i = 0 THEN {Collected} ELSE UNION {Turn(s, full) : s \in Filling(full)[i - 1]}]
<1> DEFINE Base == {Collected}
           Step(p, i) == UNION {Turn(s, full) : s \in p}
           Fits(g, n) == g = [i \in 0 .. n |-> IF i = 0 THEN Base ELSE Step(g[i - 1], i)]
           S == {n \in Nat : \E g : Fits(g, n)}
<1> HIDE DEF Base, Step
<1>1. 0 \in S
  <2>1. Fits([i \in 0 .. 0 |-> Base], 0)
    OBVIOUS
  <2> QED
    BY <2>1
<1>2. ASSUME NEW n \in Nat, n \in S PROVE n + 1 \in S
  <2>1. PICK g : Fits(g, n)
    BY <1>2
  <2> DEFINE ext == [i \in 0 .. n + 1 |-> IF i = n + 1 THEN Step(g[n], n + 1) ELSE g[i]]
  <2>2. \A i \in 0 .. n : ext[i] = g[i]
    OBVIOUS
  <2>3. ASSUME NEW i \in 0 .. n + 1
        PROVE  ext[i] = IF i = 0 THEN Base ELSE Step(ext[i - 1], i)
    <3>1. CASE i = 0
      BY <3>1, <2>1
    <3>2. CASE i # 0 /\ i # n + 1
      <4>1. i \in 0 .. n /\ i - 1 \in 0 .. n
        BY <3>2
      <4>2. ext[i] = Step(g[i - 1], i)
        BY <4>1, <3>2, <2>1, <2>2
      <4> QED
        BY <4>1, <4>2, <3>2, <2>2
    <3>3. CASE i = n + 1
      <4>1. n \in 0 .. n /\ i - 1 = n /\ i # 0
        BY <3>3
      <4>2. ext[i] = Step(g[n], i)
        BY <3>3
      <4> QED
        BY <4>1, <4>2, <2>2
    <3> QED
      BY <3>1, <3>2, <3>3
  <2>a. ext = [i \in 0 .. n + 1 |-> ext[i]]
    OBVIOUS
  <2> HIDE DEF ext
  <2>4. Fits(ext, n + 1)
    BY <2>3, <2>a
  <2> QED
    BY <2>4
<1> HIDE DEF S
<1>3. \A n \in Nat : n \in S
  BY <1>1, <1>2, Induct
<1>4. Cardinality(mapTx) \in S
  BY <1>3
<1>5. PICK g : Fits(g, Cardinality(mapTx))
  BY <1>4 DEF S
<1>6. Filling(full) = CHOOSE z : Fits(z, Cardinality(mapTx))
  BY DEF Filling, Base, Step
<1>7. Fits(Filling(full), Cardinality(mapTx))
  BY <1>5, <1>6, Zenon
<1> QED
  BY <1>7, Zenon DEF Base, Step

\* ConnectBlock on a list with one transaction more.
LEMMA ConnectingMore ==
  ASSUME NEW C, NEW h, NEW u, NEW v, Len(u) \in Nat, Len(v) = Len(u) + 1,
         \A i \in 1 .. Len(u) : v[i] = u[i]
  PROVE  Connecting(C, v, h)[Len(v)] = ConnectTx(Connecting(C, u, h)[Len(u)], v[Len(v)], h)
<1> DEFINE f == Connecting(C, u, h)
           g == Connecting(C, v, h)
           m == Len(u)
           S == {k \in 0 .. m : g[k] = f[k]}
<1>1. Len(v) \in Nat
  OBVIOUS
<1>2. /\ f[0] = [ok |-> TRUE, coins |-> C, undo |-> <<>>, nFees |-> 0]
      /\ \A k \in 1 .. m : f[k] = ConnectTx(f[k - 1], u[k], h)
  BY ConnectingStep
<1>3. /\ g[0] = [ok |-> TRUE, coins |-> C, undo |-> <<>>, nFees |-> 0]
      /\ \A k \in 1 .. Len(v) : g[k] = ConnectTx(g[k - 1], v[k], h)
  BY <1>1, ConnectingStep
<1> HIDE DEF f, g
<1>4. 0 \in S
  BY <1>2, <1>3
<1>5. ASSUME NEW k \in Nat, k + 1 <= m, k \in S PROVE k + 1 \in S
  <2>1. k + 1 \in 1 .. m /\ k + 1 \in 1 .. Len(v) /\ k + 1 - 1 = k /\ k + 1 \in 0 .. m
    BY <1>5
  <2>2. g[k + 1] = ConnectTx(g[k], v[k + 1], h) /\ f[k + 1] = ConnectTx(f[k], u[k + 1], h)
    BY <1>2, <1>3, <2>1
  <2> QED
    BY <1>5, <2>1, <2>2
<1> HIDE DEF S
<1>6. m \in S
  <2>1. \A k \in 0 .. m : k \in S
    BY <1>4, <1>5, InductTo
  <2> QED
    BY <2>1
<1>7. Len(v) \in 1 .. Len(v) /\ Len(v) - 1 = m
  OBVIOUS
<1>8. g[Len(v)] = ConnectTx(g[m], v[Len(v)], h)
  BY <1>3, <1>7
<1> QED
  BY <1>6, <1>8 DEF S, f, g

\* The transactions of a block that is built.
Txs(vtx) == [i \in 1 .. Len(vtx) |-> Tx[vtx[i]]]

\* The loop of CreateNewBlock has done to its view what ConnectBlock will do,
\* and has chosen no transaction of the chain: an input of such a one is spent
\* in the chain and could only come from another such one.
Ledger(s) ==
    LET c == Connecting(UnspentIn[pindexBest], Txs(s.vtx), NewHeight)[Len(s.vtx)]
    IN  Shape(c) /\ c.ok = TRUE /\ c.coins = s.view /\ c.nFees = s.nFees
Fresh(s) ==
    /\ \A X \in ChainTx(pindexBest) : X.hash \notin Range(s.vtx)
    /\ \A t \in TxId, n \in Place :
         Val(s.view[t].vout, n) # Spent =>
           Val(UnspentIn[pindexBest][t].vout, n) # Spent \/ t \in Range(s.vtx)
Build(s) ==
    /\ s = [vecPriority |-> s.vecPriority, setDependsOn |-> s.setDependsOn, view |-> s.view,
            vtx |-> s.vtx, nFees |-> s.nFees]
    /\ s.vecPriority \subseteq mapTx /\ DOMAIN s.setDependsOn \subseteq mapTx
    /\ s.view \in CoinMap /\ s.vtx \in Seq(Loose) /\ s.nFees \in Int
    /\ Ledger(s) /\ Fresh(s)

\* Before the loop.
LEMMA BuildInit == ASSUME TypeOK PROVE Build(Collected)
<1> DEFINE s == Collected
           C == UnspentIn[pindexBest]
<1>0. pindexBest \in Block /\ C \in CoinMap
  BY UnspentInFacts DEF TypeOK, Node
<1>1. /\ s = [vecPriority |-> s.vecPriority, setDependsOn |-> s.setDependsOn, view |-> s.view,
              vtx |-> s.vtx, nFees |-> s.nFees]
      /\ s.view = C /\ s.vtx = <<>> /\ s.nFees = 0
  BY DEF Collected
<1>2. s.vecPriority \subseteq DOMAIN s.setDependsOn /\ DOMAIN s.setDependsOn \subseteq mapTx
  BY DEF Collected
<1> HIDE DEF s, C
<1>3. <<>> \in Seq(Loose) /\ Len(<<>>) = 0 /\ Range(<<>>) = {}
  BY DEF Range
<1>4. Ledger(s)
  <2>1. Len(Txs(s.vtx)) = 0
    BY <1>1 DEF Txs
  <2>2. Connecting(C, Txs(s.vtx), NewHeight)[0] = [ok |-> TRUE, coins |-> C, undo |-> <<>>, nFees |-> 0]
    BY <2>1, ConnectingStep
  <2>3. Len(s.vtx) = 0
    BY <1>1, <1>3
  <2> QED
    BY <1>1, <2>2, <2>3 DEF Ledger, Shape, C
<1>5. Fresh(s)
  BY <1>1, <1>3 DEF Fresh, C
<1> QED
  BY <1>0, <1>1, <1>2, <1>3, <1>4, <1>5 DEF Build, s

\* A transaction of the heap whose inputs pass is in no block of the chain.
LEMMA AddFresh ==
  ASSUME TypeOK, NEW s, Build(s), NEW t \in s.vecPriority, CheckInputs(s.view, Tx[t], NewHeight)
  PROVE  \A X \in ChainTx(pindexBest) : X.hash # t
<1> SUFFICES ASSUME NEW X \in ChainTx(pindexBest), X.hash = t PROVE FALSE
  OBVIOUS
<1> DEFINE b == pindexBest
<1>0. b \in Block /\ t \in Loose /\ s.view \in CoinMap /\ Fresh(s)
  BY DEF TypeOK, Build
<1>1. X = Tx[t]
  BY <1>0, ChainLoose
<1>2. Tx[t].vin \in Seq(OutPoints) /\ Tx[t].vin # <<>>
  BY <1>0, LooseFacts
<1>3. 1 \in 1 .. Len(X.vin)
  BY <1>1, <1>2
<1> DEFINE o == X.vin[1]
<1>a. o \in OutPoints
  BY <1>1, <1>2, <1>3
<1>4. o.hash \in TxId /\ o.n \in Place
  BY <1>a DEF OutPoints
<1>5. Ready(s.view, Tx[t].vin)
  BY <1>0, LooseFacts, CheckedReady
<1>6. Val(s.view[o.hash].vout, o.n) # Spent
  BY <1>1, <1>3, <1>5 DEF Ready
<1>7. /\ \E Y \in ChainTx(b) : Y.hash = o.hash
      /\ Val(UnspentIn[b][o.hash].vout, o.n) = Spent
  BY <1>0, <1>3, ChainSpent
<1>8. o.hash \in Range(s.vtx)
  BY <1>0, <1>4, <1>6, <1>7 DEF Fresh
<1> QED
  BY <1>0, <1>7, <1>8 DEF Fresh

\* A transaction is added.
LEMMA BuildAdd ==
  ASSUME TypeOK, NEW s, Build(s), NEW t \in s.vecPriority, CheckInputs(s.view, Tx[t], NewHeight)
  PROVE  Build(Add(s, t))
<1> DEFINE r == Add(s, t)
           C == UnspentIn[pindexBest]
           h == NewHeight
           c == Connecting(C, Txs(s.vtx), h)[Len(s.vtx)]
           d == Connecting(C, Txs(r.vtx), h)[Len(r.vtx)]
           ready == {e \in DOMAIN s.setDependsOn : t \in s.setDependsOn[e] /\ s.setDependsOn[e] \ {t} = {}}
<1>0. /\ pindexBest \in Block /\ t \in Loose /\ t \in mapTx /\ s.view \in CoinMap /\ s.vtx \in Seq(Loose)
      /\ s.nFees \in Int /\ Ledger(s) /\ Fresh(s)
      /\ s.vecPriority \subseteq mapTx /\ DOMAIN s.setDependsOn \subseteq mapTx
  BY DEF TypeOK, Build
<1>1. h \in Nat
  BY <1>0, HeightFacts DEF NewHeight
<1>2. Tx[t] \in Transactions /\ Tx[t].hash = t /\ t \in TxId /\ ~IsCoinBase(Tx[t])
  BY <1>0, LooseFacts DEF IsCoinBase
<1>3. /\ r = [vecPriority |-> r.vecPriority, setDependsOn |-> r.setDependsOn, view |-> r.view,
              vtx |-> r.vtx, nFees |-> r.nFees]
      /\ r.view = UpdateCoins(s.view, Tx[t], h).coins /\ r.vtx = Append(s.vtx, t)
      /\ r.nFees = s.nFees + GetValueIn(s.view, Tx[t]) - GetValueOut(Tx[t])
      /\ DOMAIN r.setDependsOn = DOMAIN s.setDependsOn
  BY DEF Add
<1>4. r.vecPriority \subseteq s.vecPriority \cup DOMAIN s.setDependsOn
  BY DEF Add
<1> HIDE DEF r, h
<1>5. r.view \in CoinMap
  BY <1>0, <1>1, <1>2, <1>3, UpdateCoinsFacts
<1>6. /\ r.vtx \in Seq(Loose) /\ Len(s.vtx) \in Nat /\ Len(r.vtx) = Len(s.vtx) + 1
      /\ r.vtx[Len(r.vtx)] = t /\ \A i \in 1 .. Len(s.vtx) : r.vtx[i] = s.vtx[i]
  BY <1>0, <1>3
<1>7. Range(r.vtx) = Range(s.vtx) \cup {t}
  <2>1. DOMAIN s.vtx = 1 .. Len(s.vtx) /\ DOMAIN r.vtx = 1 .. Len(r.vtx)
    BY <1>0, <1>6
  <2>2. 1 .. Len(r.vtx) = (1 .. Len(s.vtx)) \cup {Len(r.vtx)}
    BY <1>6
  <2> QED
    BY <1>6, <2>1, <2>2, SMTT(40) DEF Range
<1>8. GetValueIn(s.view, Tx[t]) \in Int /\ GetValueOut(Tx[t]) \in Int
  <2>1. GetValueIn(s.view, Tx[t]) \in 0 .. MAX_MONEY
    BY DEF CheckInputs, MoneyRange
  <2>2. GetValueOut(Tx[t]) \in 0 .. MAX_MONEY
    BY <1>2 DEF Transactions, CheckTransaction, MoneyRange
  <2> QED
    BY <2>1, <2>2, MoneyAssumption
<1>9. r.nFees \in Int
  BY <1>0, <1>3, <1>8
<1>10. d = ConnectTx(c, Tx[t], h)
  <2> DEFINE u == Txs(s.vtx)
             v == Txs(r.vtx)
  <2>1. Len(u) = Len(s.vtx) /\ Len(v) = Len(r.vtx)
    BY <1>6 DEF Txs
  <2>2. \A i \in 1 .. Len(s.vtx) : v[i] = u[i]
    BY <1>6 DEF Txs
  <2>3. v[Len(r.vtx)] = Tx[t]
    BY <1>6 DEF Txs
  <2> HIDE DEF u, v
  <2>4. Connecting(C, v, h)[Len(v)] = ConnectTx(Connecting(C, u, h)[Len(u)], v[Len(v)], h)
    BY <1>6, <2>1, <2>2, ConnectingMore
  <2> QED
    BY <2>1, <2>3, <2>4 DEF u, v
<1>11. Shape(c) /\ c.ok = TRUE /\ c.coins = s.view /\ c.nFees = s.nFees
  BY <1>0 DEF Ledger, h
<1> HIDE DEF c, d
<1>12. CheckInputs(c.coins, Tx[t], h)
  BY <1>11 DEF h
<1>13. /\ Shape(d) /\ d.ok \in BOOLEAN /\ d.ok
       /\ d.coins = UpdateCoins(c.coins, Tx[t], h).coins
       /\ d.nFees = c.nFees + GetValueIn(c.coins, Tx[t]) - GetValueOut(Tx[t])
  <2> DEFINE e == ConnectTx(c, Tx[t], h)
  <2>1. c.ok \in BOOLEAN /\ c.ok
    BY <1>11
  <2>2. /\ Shape(e) /\ e.ok \in BOOLEAN
        /\ e.ok <=> c.ok /\ (IsCoinBase(Tx[t]) \/ CheckInputs(c.coins, Tx[t], h))
        /\ e.coins = IF e.ok THEN UpdateCoins(c.coins, Tx[t], h).coins ELSE c.coins
        /\ e.nFees = IF e.ok /\ ~IsCoinBase(Tx[t])
                     THEN c.nFees + GetValueIn(c.coins, Tx[t]) - GetValueOut(Tx[t]) ELSE c.nFees
    BY <1>11, <2>1, ConnectTxFacts, Zenon
  <2> HIDE DEF e
  <2>3. e.ok
    BY <1>12, <2>1, <2>2
  <2>4. /\ e.coins = UpdateCoins(c.coins, Tx[t], h).coins
        /\ e.nFees = c.nFees + GetValueIn(c.coins, Tx[t]) - GetValueOut(Tx[t])
    BY <1>2, <2>2, <2>3
  <2> QED
    BY <1>10, <2>2, <2>3, <2>4 DEF e
<1>14. Shape(d) /\ d.ok = TRUE /\ d.coins = r.view /\ d.nFees = r.nFees
  BY <1>3, <1>11, <1>13
<1>15. Ledger(r)
  BY <1>14 DEF Ledger, d, h
<1>16. \A X \in ChainTx(pindexBest) : X.hash \notin Range(r.vtx)
  BY <1>0, <1>7, AddFresh DEF Fresh
<1>17. ASSUME NEW e \in TxId, NEW n \in Place, Val(r.view[e].vout, n) # Spent
       PROVE  Val(C[e].vout, n) # Spent \/ e \in Range(r.vtx)
  <2>1. Val(r.view[e].vout, n) =
          IF e = Tx[t].hash THEN Val(Tx[t].vout, n)
          ELSE IF Hit(Tx[t].vin, Len(Tx[t].vin), e, n) THEN Spent ELSE Val(s.view[e].vout, n)
    BY <1>0, <1>1, <1>2, <1>3, UpdateValues
  <2>2. CASE e = t
    BY <1>7, <2>2
  <2>3. CASE e # t
    <3>1. Val(s.view[e].vout, n) # Spent
      BY <1>2, <1>17, <2>1, <2>3
    <3> QED
      BY <1>0, <1>7, <3>1 DEF Fresh
  <2> QED
    BY <2>2, <2>3
<1>18. Fresh(r)
  BY <1>16, <1>17 DEF Fresh
<1> QED
  BY <1>0, <1>3, <1>4, <1>5, <1>6, <1>9, <1>15, <1>18 DEF Build, r

\* A transaction is dropped.
LEMMA BuildSkip == ASSUME NEW s, Build(s), NEW t PROVE Build(Skip(s, t))
<1> DEFINE r == Skip(s, t)
<1>0. s = [vecPriority |-> s.vecPriority, setDependsOn |-> s.setDependsOn, view |-> s.view,
           vtx |-> s.vtx, nFees |-> s.nFees]
  BY DEF Build
<1>1. r = [vecPriority |-> s.vecPriority \ {t}, setDependsOn |-> s.setDependsOn, view |-> s.view,
           vtx |-> s.vtx, nFees |-> s.nFees]
  BY <1>0 DEF Skip
<1>2. /\ r.vecPriority = s.vecPriority \ {t} /\ r.setDependsOn = s.setDependsOn /\ r.view = s.view
      /\ r.vtx = s.vtx /\ r.nFees = s.nFees
  BY <1>1
<1>3. r = [vecPriority |-> r.vecPriority, setDependsOn |-> r.setDependsOn, view |-> r.view,
           vtx |-> r.vtx, nFees |-> r.nFees]
  BY <1>1, <1>2
<1> HIDE DEF r
<1>4. Ledger(r) /\ Fresh(r)
  BY <1>2 DEF Build, Ledger, Fresh
<1> QED
  BY <1>2, <1>3, <1>4 DEF Build, r

\* Every turn of the loop.
LEMMA BuildAll ==
  ASSUME TypeInv, NEW full
  PROVE  \A s \in CreateNewBlock(full) : Build(s)
<1> DEFINE f == Filling(full)
           m == Cardinality(mapTx)
           S == {n \in 0 .. m : \A s \in f[n] : Build(s)}
<1>0. TypeOK /\ m \in Nat
  BY FS_CardinalityType DEF TypeInv
<1>1. f = [i \in 0 .. m |-> IF i = 0 THEN {Collected} ELSE UNION {Turn(s, full) : s \in f[i - 1]}]
  BY <1>0, FillingDef, Zenon
<1> HIDE DEF f
<1>2. 0 \in S
  <2>1. f[0] = {Collected} /\ 0 \in 0 .. m
    BY <1>0, <1>1
  <2> QED
    BY <1>0, <2>1, BuildInit
<1>3. ASSUME NEW n \in Nat, n + 1 <= m, n \in S PROVE n + 1 \in S
  <2>1. n + 1 \in 0 .. m /\ n + 1 - 1 = n /\ n + 1 # 0
    BY <1>0, <1>3
  <2>2. f[n + 1] = UNION {Turn(s, full) : s \in f[n]}
    <3> DEFINE All(i) == UNION {Turn(s, full) : s \in f[i - 1]}
    <3> HIDE DEF All, m
    <3>1. f = [i \in 0 .. m |-> IF i = 0 THEN {Collected} ELSE All(i)]
      BY <1>1, Zenon DEF All
    <3>2. f[n + 1] = All(n + 1)
      BY <2>1, <3>1
    <3>3. f[n + 1] = UNION {Turn(s, full) : s \in f[n + 1 - 1]}
      BY <3>2 DEF All
    <3> QED
      BY <2>1, <3>3, Zenon
  <2>3. ASSUME NEW s \in f[n], NEW r \in Turn(s, full) PROVE Build(r)
    <3>1. Build(s)
      BY <1>3
    <3>2. \/ r = s
          \/ \E t \in s.vecPriority : CheckInputs(s.view, Tx[t], NewHeight) /\ r = Add(s, t)
          \/ \E t : r = Skip(s, t)
      BY <2>3 DEF Turn
    <3> QED
      BY <1>0, <3>1, <3>2, BuildAdd, BuildSkip
  <2> QED
    BY <2>1, <2>2, <2>3
<1> HIDE DEF S, m
<1>4. m \in S
  <2>1. \A n \in 0 .. m : n \in S
    BY <1>0, <1>2, <1>3, InductTo
  <2> QED
    BY <1>0, <2>1
<1>5. CreateNewBlock(full) = f[m]
  BY DEF CreateNewBlock, f, m
<1> QED
  BY <1>4, <1>5 DEF S

\* ConnectBlock accepts what CreateNewBlock has built.
LEMMA BuildConnects == ASSUME TypeOK, NEW s, Build(s) PROVE ConnectBlock(s.vtx, s.nFees)
<1> DEFINE C == UnspentIn[pindexBest]
           c == Connecting(C, Txs(s.vtx), NewHeight)[Len(s.vtx)]
<1>0. pindexBest \in Block /\ s.vtx \in Seq(Loose) /\ s.nFees \in Int
  BY DEF TypeOK, Build
<1>1. ASSUME NEW t \in Range(s.vtx) PROVE IsPruned(C[t])
  <2>1. t \in Loose
    BY <1>0 DEF Range
  <2>2. t \in TxId
    BY <2>1, LooseFacts
  <2>3. \A X \in ChainTx(pindexBest) : X.hash # t
    BY DEF Build, Fresh
  <2>4. C[t] = NoCoins
    BY <1>0, <2>2, <2>3, ChainUnspent
  <2> QED
    BY <2>4 DEF NoCoins, IsPruned
<1>2. c.ok = TRUE /\ c.nFees = s.nFees
  BY DEF Build, Ledger
<1>3. Subsidy[NewHeight] \in Nat
  BY <1>0, MoneyAssumption DEF NewHeight
<1>4. GetBlockValue(NewHeight, s.nFees) \in Int
  BY <1>0, <1>3 DEF GetBlockValue
<1>5. GetBlockValue(NewHeight, s.nFees) <= GetBlockValue(NewHeight, c.nFees)
  BY <1>2, <1>4
<1> QED
  BY <1>1, <1>2, <1>5 DEF ConnectBlock, Txs

\* Every block CreateNewBlock can build is one ConnectBlock accepts, from any
\* pool: with conflicts, with what a reorganisation has stranded and with what
\* the start-up thread has never checked, for every order of the heap and
\* whatever does not fit.
THEOREM BlockConnectsCorrect == Spec => []BlockConnects
<1>1. TypeInv => BlockConnects
  BY BuildAll, BuildConnects DEF BlockConnects, TypeInv
<1> QED
  BY <1>1, TypeInit, TypeStep, PTL DEF Spec

-----------------------------------------------------------------------------
(***************************************************************************)
(* What CreateNewBlock leaves out                                          *)
(***************************************************************************)

\* The transactions of a chain with their heights.
ChainEvents(b) == {History[b][k] : k \in 1 .. Len(History[b])}

\* They are those of its blocks.
LEMMA ChainEventBlocks ==
  ASSUME NEW b \in Block
  PROVE  /\ \A a \in Chain(b) \ {Genesis} : \A i \in 1 .. Len(Vtx[a]) :
              [tx |-> Vtx[a][i], nHeight |-> Height[a]] \in ChainEvents(b)
         /\ \A e \in ChainEvents(b) : \E a \in Chain(b) \ {Genesis} : \E i \in 1 .. Len(Vtx[a]) :
              e = [tx |-> Vtx[a][i], nHeight |-> Height[a]]
<1> DEFINE Is(e, a) == \E i \in 1 .. Len(Vtx[a]) : e = [tx |-> Vtx[a][i], nHeight |-> Height[a]]
           Out(d) == \A e : e \in ChainEvents(d) <=> \E a \in Chain(d) \ {Genesis} : Is(e, a)
           S == {d \in Node : Out(d)}
<1>1. NULL \in S
  <2>1. Chain(NULL) = {} /\ ChainEvents(NULL) = {}
    BY ChainFacts, HistoryFacts DEF ChainEvents
  <2> QED
    BY <2>1 DEF Node
<1>2. ASSUME NEW d \in Block, Prev[d] \in S PROVE d \in S
  <2>0. d \in Node /\ Chain(d) = Chain(Prev[d]) \cup {d}
    BY ChainFacts DEF Node
  <2>1. Out(Prev[d])
    BY <1>2
  <2>2. CASE d = Genesis
    <3>1. Chain(d) \ {Genesis} = {} /\ ChainEvents(d) = {}
      BY <2>0, <2>2, ChainFacts, HistoryFacts, TreeAssumption DEF ChainEvents
    <3> QED
      BY <2>0, <3>1
  <2>3. CASE d # Genesis
    <3> DEFINE H == History[Prev[d]]
               G == History[d]
               vtx == Vtx[d]
               h == Height[d]
    <3>1. CheckBlock(vtx) /\ Prev[d] \in Node
      BY <2>3, BlockFacts DEF Node
    <3>2. H \in Seq(Event) /\ Len(vtx) \in Nat /\ G = After(H, vtx, h, Len(vtx))
      BY <2>3, <3>1, HistoryFacts, VtxFacts
    <3>3. ChainEvents(d) = {G[k] : k \in 1 .. Len(G)} /\ ChainEvents(Prev[d]) = {H[k] : k \in 1 .. Len(H)}
      BY DEF ChainEvents
    <3> HIDE DEF H, G, vtx, h
    <3>4. G = [i \in 1 .. Len(H) + Len(vtx) |->
                 IF i <= Len(H) THEN H[i] ELSE [tx |-> vtx[i - Len(H)], nHeight |-> h]]
      BY <3>2 DEF After
    <3>5. Len(H) \in Nat /\ Len(G) = Len(H) + Len(vtx)
      BY <3>2, <3>4
    <3>6. \A k \in 1 .. Len(H) : k \in 1 .. Len(G) /\ G[k] = H[k]
      BY <3>2, <3>4, <3>5
    <3>7. ASSUME NEW k \in 1 .. Len(vtx)
          PROVE  Len(H) + k \in 1 .. Len(G) /\ G[Len(H) + k] = [tx |-> vtx[k], nHeight |-> h]
      <4>1. Len(H) + k \in 1 .. Len(H) + Len(vtx) /\ ~(Len(H) + k <= Len(H)) /\ Len(H) + k - Len(H) = k
        BY <3>2, <3>5
      <4> QED
        BY <3>4, <3>5, <4>1
    <3>8. ASSUME NEW k \in 1 .. Len(G), k \notin 1 .. Len(H)
          PROVE  k - Len(H) \in 1 .. Len(vtx) /\ G[k] = [tx |-> vtx[k - Len(H)], nHeight |-> h]
      <4>1. k - Len(H) \in 1 .. Len(vtx) /\ k \in 1 .. Len(H) + Len(vtx) /\ ~(k <= Len(H))
        BY <3>2, <3>5, <3>8
      <4> QED
        BY <3>4, <4>1
    <3>9. \A e : e \in ChainEvents(d) <=>
                   e \in ChainEvents(Prev[d]) \/ \E k \in 1 .. Len(vtx) : e = [tx |-> vtx[k], nHeight |-> h]
      <4>1. ASSUME NEW e \in ChainEvents(d)
            PROVE  e \in ChainEvents(Prev[d]) \/ \E k \in 1 .. Len(vtx) : e = [tx |-> vtx[k], nHeight |-> h]
        <5>1. PICK k \in 1 .. Len(G) : e = G[k]
          BY <3>3
        <5>2. CASE k \in 1 .. Len(H)
          BY <3>3, <3>6, <5>1, <5>2
        <5>3. CASE k \notin 1 .. Len(H)
          BY <3>8, <5>1, <5>3
        <5> QED
          BY <5>2, <5>3
      <4>2. ASSUME NEW e \in ChainEvents(Prev[d]) PROVE e \in ChainEvents(d)
        BY <3>3, <3>6
      <4>3. ASSUME NEW k \in 1 .. Len(vtx) PROVE [tx |-> vtx[k], nHeight |-> h] \in ChainEvents(d)
        BY <3>3, <3>7
      <4> QED
        BY <4>1, <4>2, <4>3
    <3>10. \A e : Is(e, d) <=> \E k \in 1 .. Len(vtx) : e = [tx |-> vtx[k], nHeight |-> h]
      BY DEF vtx, h
    <3> HIDE DEF Is
    <3>11. Out(d)
      BY <2>0, <2>1, <2>3, <3>9, <3>10
    <3> QED
      BY <2>0, <3>11
  <2> QED
    BY <2>2, <2>3
<1> HIDE DEF S
<1>3. \A d \in Node : d \in S
  BY <1>1, <1>2, TreeInduct
<1>4. Out(b)
  BY <1>3 DEF S, Node
<1> QED
  BY <1>4

\* Each hash once, and transactions that peers may send are no coinbases.
LEMMA ChainEventFacts ==
  ASSUME NEW b \in Block
  PROVE  /\ \A e \in ChainEvents(b) : e.tx \in ChainTx(b) /\ e.nHeight \in Nat
         /\ \A Y \in ChainTx(b) : \E e \in ChainEvents(b) : e.tx = Y
         /\ \A e \in ChainEvents(b), d \in ChainEvents(b) : e.tx.hash = d.tx.hash => e = d
         /\ \A e \in ChainEvents(b) : IsCoinBase(e.tx) => e.tx.hash \notin Loose
<1> DEFINE H == History[b]
<1>1. H \in Seq(Event) /\ Distinct(H)
  BY HistoryTx
<1>2. ChainTx(b) = {H[k].tx : k \in 1 .. Len(H)} /\ ChainEvents(b) = {H[k] : k \in 1 .. Len(H)}
  BY DEF ChainTx, ChainEvents
<1> HIDE DEF H
<1>3. ASSUME NEW e \in ChainEvents(b) PROVE e.tx \in ChainTx(b) /\ e.nHeight \in Nat
  <2>1. PICK k \in 1 .. Len(H) : e = H[k]
    BY <1>2
  <2>2. H[k] \in Event
    BY <1>1
  <2> QED
    BY <1>2, <2>1, <2>2 DEF Event
<1>4. \A Y \in ChainTx(b) : \E e \in ChainEvents(b) : e.tx = Y
  BY <1>2
<1>5. \A e \in ChainEvents(b), d \in ChainEvents(b) : e.tx.hash = d.tx.hash => e = d
  BY <1>1, <1>2 DEF Distinct
<1>6. ASSUME NEW e \in ChainEvents(b), IsCoinBase(e.tx), e.tx.hash \in Loose PROVE FALSE
  <2>1. e.tx = Tx[e.tx.hash]
    BY <1>3, <1>6, ChainLoose
  <2>2. Tx[e.tx.hash].vin # <<>>
    BY <1>6, LooseFacts
  <2> QED
    BY <1>6, <2>1, <2>2 DEF IsCoinBase
<1> QED
  BY <1>3, <1>4, <1>5, <1>6

\* A longer chain keeps what a shorter one has.
LEMMA ChainGrows ==
  ASSUME NEW p \in Block, NEW b \in Block, Chain(p) \subseteq Chain(b)
  PROVE  ChainEvents(p) \subseteq ChainEvents(b) /\ ChainTx(p) \subseteq ChainTx(b)
<1>1. ASSUME NEW e \in ChainEvents(p) PROVE e \in ChainEvents(b)
  <2>1. PICK a \in Chain(p) \ {Genesis} : \E i \in 1 .. Len(Vtx[a]) :
          e = [tx |-> Vtx[a][i], nHeight |-> Height[a]]
    BY ChainEventBlocks
  <2>2. a \in Chain(b) \ {Genesis}
    OBVIOUS
  <2> QED
    BY <2>1, <2>2, ChainEventBlocks
<1>2. ASSUME NEW Y \in ChainTx(p) PROVE Y \in ChainTx(b)
  <2>1. PICK e \in ChainEvents(p) : e.tx = Y
    BY ChainEventFacts
  <2> QED
    BY <1>1, <2>1, ChainEventFacts
<1> QED
  BY <1>1, <1>2

\* The transaction of a hash, and whether there is one.
Source(b, h) == IF h \in Loose THEN Tx[h] ELSE CHOOSE Y \in ChainTx(b) : Y.hash = h
Known(b, h) == h \in Loose \/ \E Y \in ChainTx(b) : Y.hash = h

\* It is found by any of its names.
LEMMA SourceIs ==
  ASSUME NEW b \in Block, NEW Y \in ChainTx(b)
  PROVE  Source(b, Y.hash) = Y
<1>1. CASE Y.hash \in Loose
  BY <1>1, ChainLoose DEF Source
<1>2. CASE Y.hash \notin Loose
  <2>1. \A Z \in ChainTx(b) : Z.hash = Y.hash => Z = Y
    BY HistoryTx
  <2> QED
    BY <1>2, <2>1 DEF Source
<1> QED
  BY <1>1, <1>2

\* Coins that say of every unspent output what the transactions say.
Truthful(b, V) ==
    \A h \in TxId, n \in Place : Val(V[h].vout, n) # Spent =>
        /\ Known(b, h) /\ n \in 1 .. Len(Source(b, h).vout)
        /\ Val(V[h].vout, n) = Source(b, h).vout[n]
        /\ \A e \in ChainEvents(b) : e.tx.hash = h /\ IsCoinBase(e.tx) =>
             V[h].fCoinBase /\ V[h].nHeight = e.nHeight
        /\ V[h].fCoinBase => \E e \in ChainEvents(b) : e.tx.hash = h /\ IsCoinBase(e.tx)

\* A coinbase of height c may be spent at height h.
Mature(h, c) == h - c >= COINBASE_MATURITY

\* What t is worth, from what its inputs say, and that it passes CheckInputs
\* whenever these are unspent.
Paid(b, t) == SumFunction([i \in 1 .. Len(Tx[t].vin) |-> Source(b, Tx[t].vin[i].hash).vout[Tx[t].vin[i].n]])
Ripe(b, o) == \A e \in ChainEvents(b) : e.tx.hash = o.hash /\ IsCoinBase(e.tx) => Mature(Height[b] + 1, e.nHeight)
Valid(b, t) ==
    /\ \A o \in Inputs(t) : Known(b, o.hash) /\ MoneyRange(Source(b, o.hash).vout[o.n]) /\ Ripe(b, o)
    /\ MoneyRange(Paid(b, t)) /\ Paid(b, t) >= GetValueOut(Tx[t])
    /\ t \notin BadScript

\* The tests of CheckInputs.
LEMMA CheckInputsParts ==
  ASSUME NEW C, NEW tx, NEW h
  PROVE  CheckInputs(C, tx, h) <=>
           /\ HaveInputs(C, tx)
           /\ \A i \in 1 .. Len(tx.vin) :
                C[tx.vin[i].hash].fCoinBase => Mature(h, C[tx.vin[i].hash].nHeight)
           /\ \A i \in 1 .. Len(tx.vin) : MoneyRange(C[tx.vin[i].hash].vout[tx.vin[i].n])
           /\ MoneyRange(GetValueIn(C, tx)) /\ GetValueIn(C, tx) >= GetValueOut(tx)
           /\ tx.hash \notin BadScript
  BY DEF CheckInputs, Mature

\* CheckInputs on such coins.
LEMMA CheckedValid ==
  ASSUME NEW b \in Block, NEW V \in CoinMap, Truthful(b, V), NEW t \in Loose,
         \A o \in Inputs(t) : Val(V[o.hash].vout, o.n) # Spent
  PROVE  CheckInputs(V, Tx[t], Height[b] + 1) <=> Valid(b, t)
<1> DEFINE tx == Tx[t]
           N == 1 .. Len(tx.vin)
           val(i) == V[tx.vin[i].hash].vout[tx.vin[i].n]
<1>0. /\ tx \in Transactions /\ tx.hash = t /\ Inputs(t) \in SUBSET OutPoints
      /\ \A o : o \in Inputs(t) <=> \E i \in N : tx.vin[i] = o
  BY LooseFacts
<1>1. ASSUME NEW i \in N
      PROVE  /\ tx.vin[i] \in Inputs(t) /\ tx.vin[i].hash \in TxId /\ tx.vin[i].n \in Place
             /\ Val(V[tx.vin[i].hash].vout, tx.vin[i].n) # Spent
             /\ val(i) = Source(b, tx.vin[i].hash).vout[tx.vin[i].n]
             /\ IsAvailable(V[tx.vin[i].hash], tx.vin[i].n)
  <2> DEFINE o == tx.vin[i]
  <2>1. o \in Inputs(t)
    BY <1>0
  <2>2. o.hash \in TxId /\ o.n \in Place
    BY <1>0, <2>1 DEF OutPoints
  <2>3. Val(V[o.hash].vout, o.n) # Spent
    BY <2>1
  <2>4. Val(V[o.hash].vout, o.n) = Source(b, o.hash).vout[o.n]
    BY <2>2, <2>3 DEF Truthful
  <2> HIDE DEF o
  <2>5. o.n \in 1 .. Len(V[o.hash].vout) /\ Val(V[o.hash].vout, o.n) = V[o.hash].vout[o.n]
    BY <2>3 DEF Val
  <2>6. IsAvailable(V[o.hash], o.n)
    BY <2>3, <2>5 DEF IsAvailable
  <2> QED
    BY <2>1, <2>2, <2>3, <2>4, <2>5, <2>6 DEF o
<1>2. GetValueIn(V, tx) = Paid(b, t)
  <2>1. [i \in N |-> val(i)] = [i \in N |-> Source(b, tx.vin[i].hash).vout[tx.vin[i].n]]
    BY <1>1
  <2> QED
    BY <2>1 DEF GetValueIn, Paid
<1>3. HaveInputs(V, tx)
  BY <1>1 DEF HaveInputs
<1> DEFINE M(i) == V[tx.vin[i].hash].fCoinBase => Mature(Height[b] + 1, V[tx.vin[i].hash].nHeight)
<1>4. ASSUME NEW i \in N PROVE M(i) <=> Ripe(b, tx.vin[i])
  <2> DEFINE h == tx.vin[i].hash
  <2>1. /\ \A e \in ChainEvents(b) : e.tx.hash = h /\ IsCoinBase(e.tx) =>
             V[h].fCoinBase /\ V[h].nHeight = e.nHeight
        /\ V[h].fCoinBase => \E e \in ChainEvents(b) : e.tx.hash = h /\ IsCoinBase(e.tx)
    <3> DEFINE n == tx.vin[i].n
    <3>1. h \in TxId /\ n \in Place /\ Val(V[h].vout, n) # Spent
      BY <1>1
    <3> HIDE DEF h, n
    <3> QED
      BY <3>1 DEF Truthful
  <2> QED
    BY <2>1 DEF Ripe
<1>5. \A i \in N : Known(b, tx.vin[i].hash)
  BY <1>1 DEF Truthful
<1>6. CheckInputs(V, tx, Height[b] + 1) <=>
        /\ \A i \in N : M(i)
        /\ \A i \in N : MoneyRange(val(i))
        /\ MoneyRange(Paid(b, t)) /\ Paid(b, t) >= GetValueOut(tx) /\ t \notin BadScript
  <2>1. CheckInputs(V, tx, Height[b] + 1) <=>
          /\ HaveInputs(V, tx)
          /\ \A i \in N : M(i)
          /\ \A i \in N : MoneyRange(val(i))
          /\ MoneyRange(GetValueIn(V, tx)) /\ GetValueIn(V, tx) >= GetValueOut(tx)
          /\ tx.hash \notin BadScript
    BY CheckInputsParts
  <2> HIDE DEF M, val, N, tx
  <2> QED
    BY <1>0, <1>2, <1>3, <2>1
<1> HIDE DEF M
<1> DEFINE A(o) == MoneyRange(Source(b, o.hash).vout[o.n])
<1>7. Valid(b, t) <=>
        /\ \A o \in Inputs(t) : Known(b, o.hash) /\ A(o) /\ Ripe(b, o)
        /\ MoneyRange(Paid(b, t)) /\ Paid(b, t) >= GetValueOut(tx) /\ t \notin BadScript
  BY DEF Valid
<1>8. \A i \in N : A(tx.vin[i]) <=> MoneyRange(val(i))
  BY <1>1
<1> HIDE DEF A
<1>10. (\A o \in Inputs(t) : Known(b, o.hash) /\ A(o) /\ Ripe(b, o)) <=>
         \A i \in N : A(tx.vin[i]) /\ Ripe(b, tx.vin[i])
  BY <1>0, <1>5
<1> QED
  BY <1>4, <1>6, <1>7, <1>8, <1>10

\* The coins of a chain.
LEMMA TruthfulChain == ASSUME NEW b \in Block PROVE Truthful(b, UnspentIn[b])
<1> DEFINE C == UnspentIn[b]
           H == History[b]
<1> SUFFICES ASSUME NEW h \in TxId, NEW n \in Place, Val(C[h].vout, n) # Spent
             PROVE  /\ Known(b, h) /\ n \in 1 .. Len(Source(b, h).vout)
                    /\ Val(C[h].vout, n) = Source(b, h).vout[n]
                    /\ \A e \in ChainEvents(b) : e.tx.hash = h /\ IsCoinBase(e.tx) =>
                         C[h].fCoinBase /\ C[h].nHeight = e.nHeight
                    /\ C[h].fCoinBase => \E e \in ChainEvents(b) : e.tx.hash = h /\ IsCoinBase(e.tx)
  BY DEF Truthful
<1>1. PICK Y \in ChainTx(b) : Y.hash = h /\ n \in 1 .. Len(Y.vout)
  BY ChainUnspent
<1>2. Val(C[h].vout, n) = Y.vout[n]
  <2>1. ASSUME NEW X \in ChainTx(b), NEW i \in 1 .. Len(X.vin), X.vin[i] = [hash |-> Y.hash, n |-> n]
        PROVE  FALSE
    <3>1. X.vin[i].hash = h /\ X.vin[i].n = n
      BY <1>1, <2>1
    <3>2. Val(C[X.vin[i].hash].vout, X.vin[i].n) = Spent
      BY ChainSpent
    <3> QED
      BY <3>1, <3>2
  <2> QED
    BY <1>1, <2>1, ChainCreated
<1>3. Source(b, h) = Y /\ Known(b, h)
  BY <1>1, SourceIs DEF Known
<1>4. H \in Seq(Event) /\ Distinct(H) /\ ChainEvents(b) = {H[k] : k \in 1 .. Len(H)} /\ C = Unspent(H)
  BY HistoryTx DEF ChainEvents, UnspentIn
<1> HIDE DEF H, C
<1>5. C[h].vout # <<>>
  BY DEF Val
<1>6. ASSUME NEW e \in ChainEvents(b), e.tx.hash = h
      PROVE  C[h].nHeight = e.nHeight /\ C[h].fCoinBase = IsCoinBase(e.tx)
  <2>1. PICK k \in 1 .. Len(H) : e = H[k]
    BY <1>4
  <2>2. \A j \in Creators(H, h) : j = k
    BY <1>4, <1>6, <2>1 DEF Creators, Distinct
  <2>3. k \in Creators(H, h) /\ k \in Nat
    BY <1>6, <2>1 DEF Creators
  <2>4. LastWith(H, h, k)
    BY <2>2, <2>3 DEF LastWith
  <2> QED
    BY <1>4, <1>5, <2>1, <2>4, UnspentFacts
<1>7. \E e \in ChainEvents(b) : e.tx.hash = h
  BY <1>1, ChainEventFacts
<1> QED
  BY <1>1, <1>2, <1>3, <1>6, <1>7

\* A transaction outside blocks, with the coins it creates.
LEMMA TruthfulLoose ==
  ASSUME NEW b \in Block, NEW t \in Loose, NEW h \in Nat, NEW n \in Place,
         Val(CoinsOf(Tx[t], h).vout, n) # Spent
  PROVE  /\ Known(b, t) /\ n \in 1 .. Len(Source(b, t).vout)
         /\ Val(CoinsOf(Tx[t], h).vout, n) = Source(b, t).vout[n]
         /\ \A e \in ChainEvents(b) : e.tx.hash = t => ~IsCoinBase(e.tx)
         /\ ~CoinsOf(Tx[t], h).fCoinBase
<1>1. Tx[t] \in Transactions /\ Tx[t].vin # <<>> /\ Tx[t].vout \in Seq(Nat)
  BY LooseFacts
<1>2. CoinsOf(Tx[t], h).vout = Tx[t].vout /\ CoinsOf(Tx[t], h).fCoinBase = IsCoinBase(Tx[t])
  BY <1>1, TxFacts
<1>3. Source(b, t) = Tx[t] /\ Known(b, t)
  BY DEF Source, Known
<1>4. n \in 1 .. Len(Tx[t].vout) /\ Val(Tx[t].vout, n) = Tx[t].vout[n]
  BY <1>2 DEF Val
<1>5. \A e \in ChainEvents(b) : e.tx.hash = t => ~IsCoinBase(e.tx)
  BY ChainEventFacts
<1>6. ~IsCoinBase(Tx[t])
  BY <1>1 DEF IsCoinBase
<1> QED
  BY <1>2, <1>3, <1>4, <1>5, <1>6

\* The view of accept.
LEMMA TruthfulPool == ASSUME TypeOK PROVE CoinView \in CoinMap /\ Truthful(pindexBest, CoinView)
<1> DEFINE b == pindexBest
           C == UnspentIn[b]
           V == CoinView
           New(h) == h \in mapTx /\ C[h] = NoCoins /\ h \notin pruned
<1>0. b \in Block /\ C \in CoinMap /\ mapTx \subseteq Loose /\ MEMPOOL_HEIGHT \in Nat
  BY UnspentInFacts, TxAssumption DEF TypeOK, Node
<1>1. V = [h \in TxId |-> IF New(h) THEN CoinsOf(Tx[h], MEMPOOL_HEIGHT) ELSE C[h]]
  BY DEF CoinView
<1>2. ASSUME NEW h \in TxId PROVE V[h] \in Coin
  <2>1. New(h) => Tx[h] \in Transactions
    BY <1>0, LooseFacts
  <2>2. New(h) => CoinsOf(Tx[h], MEMPOOL_HEIGHT) \in Coin
    BY <1>0, <2>1, TxFacts
  <2>3. C[h] \in Coin
    BY <1>0 DEF CoinMap
  <2> HIDE DEF New, V
  <2> QED
    BY <1>1, <2>2, <2>3
<1>3. V \in CoinMap
  BY <1>1, <1>2 DEF CoinMap
<1>4. Truthful(b, C)
  BY <1>0, TruthfulChain
<1>5. ASSUME NEW h \in TxId, NEW n \in Place, Val(V[h].vout, n) # Spent
      PROVE  /\ Known(b, h) /\ n \in 1 .. Len(Source(b, h).vout)
             /\ Val(V[h].vout, n) = Source(b, h).vout[n]
             /\ \A e \in ChainEvents(b) : e.tx.hash = h /\ IsCoinBase(e.tx) =>
                  V[h].fCoinBase /\ V[h].nHeight = e.nHeight
             /\ V[h].fCoinBase => \E e \in ChainEvents(b) : e.tx.hash = h /\ IsCoinBase(e.tx)
  <2>1. CASE New(h)
    <3>1. V[h] = CoinsOf(Tx[h], MEMPOOL_HEIGHT) /\ h \in Loose
      BY <1>0, <1>1, <2>1
    <3> HIDE DEF V, C, New
    <3>2. Val(CoinsOf(Tx[h], MEMPOOL_HEIGHT).vout, n) # Spent
      BY <1>5, <3>1
    <3>3. /\ Known(b, h) /\ n \in 1 .. Len(Source(b, h).vout)
          /\ Val(CoinsOf(Tx[h], MEMPOOL_HEIGHT).vout, n) = Source(b, h).vout[n]
          /\ \A e \in ChainEvents(b) : e.tx.hash = h => ~IsCoinBase(e.tx)
          /\ ~CoinsOf(Tx[h], MEMPOOL_HEIGHT).fCoinBase
      BY <1>0, <3>1, <3>2, TruthfulLoose
    <3> QED
      BY <3>1, <3>3
  <2>2. CASE ~New(h)
    <3>1. V[h] = C[h]
      BY <1>1, <2>2
    <3> HIDE DEF V, C
    <3> QED
      BY <1>4, <1>5, <3>1 DEF Truthful
  <2> QED
    BY <2>1, <2>2
<1> QED
  BY <1>3, <1>5 DEF Truthful

\* A transaction is applied to a view.
LEMMA TruthfulUpdate ==
  ASSUME NEW b \in Block, NEW V \in CoinMap, Truthful(b, V), NEW t \in Loose, NEW h \in Nat
  PROVE  Truthful(b, UpdateCoins(V, Tx[t], h).coins)
<1> DEFINE tx == Tx[t]
           D == Spending(V, tx.vin)[Len(tx.vin)].coins
           W == UpdateCoins(V, tx, h).coins
           c == CoinsOf(tx, h)
<1>0. tx \in Transactions /\ tx.hash = t /\ t \in TxId /\ tx.vin \in Seq(OutPoints)
  BY LooseFacts
<1>1. /\ D \in CoinMap
      /\ \A g \in TxId :
           /\ D[g].nHeight = V[g].nHeight /\ D[g].fCoinBase = V[g].fCoinBase
           /\ \A n \in Place :
                Val(D[g].vout, n) = IF Hit(tx.vin, Len(tx.vin), g, n) THEN Spent ELSE Val(V[g].vout, n)
  <2>1. Len(tx.vin) \in 0 .. Len(tx.vin)
    BY <1>0
  <2> QED
    BY <1>0, <2>1, SpendingCoins
<1>2. W = [D EXCEPT ![t] = c]
  BY <1>0, UpdateCoinsFacts
<1> HIDE DEF W, D
<1>3. \A g \in TxId : W[g] = IF g = t THEN c ELSE D[g]
  BY <1>0, <1>1, <1>2 DEF CoinMap
<1>4. ASSUME NEW g \in TxId, NEW n \in Place, Val(W[g].vout, n) # Spent
      PROVE  /\ Known(b, g) /\ n \in 1 .. Len(Source(b, g).vout)
             /\ Val(W[g].vout, n) = Source(b, g).vout[n]
             /\ \A e \in ChainEvents(b) : e.tx.hash = g /\ IsCoinBase(e.tx) =>
                  W[g].fCoinBase /\ W[g].nHeight = e.nHeight
             /\ W[g].fCoinBase => \E e \in ChainEvents(b) : e.tx.hash = g /\ IsCoinBase(e.tx)
  <2>1. CASE g = t
    <3>1. W[t] = c
      BY <1>0, <1>3
    <3>2. Val(c.vout, n) # Spent
      BY <1>4, <2>1, <3>1
    <3>3. /\ Known(b, t) /\ n \in 1 .. Len(Source(b, t).vout)
          /\ Val(c.vout, n) = Source(b, t).vout[n]
          /\ \A e \in ChainEvents(b) : e.tx.hash = t => ~IsCoinBase(e.tx)
          /\ ~c.fCoinBase
      BY <3>2, TruthfulLoose
    <3> HIDE DEF c
    <3> QED
      BY <2>1, <3>1, <3>3
  <2>2. CASE g # t
    <3>1. W[g] = D[g]
      BY <1>3, <2>2
    <3>2. Val(V[g].vout, n) # Spent /\ Val(D[g].vout, n) = Val(V[g].vout, n)
      BY <1>1, <1>4, <3>1
    <3>3. D[g].nHeight = V[g].nHeight /\ D[g].fCoinBase = V[g].fCoinBase
      BY <1>1
    <3> QED
      BY <3>1, <3>2, <3>3 DEF Truthful
  <2> QED
    BY <2>1, <2>2
<1> QED
  BY <1>4 DEF Truthful, W

\* A transaction that is valid on a chain is valid on a longer one.
LEMMA ValidGrows ==
  ASSUME NEW p \in Block, NEW b \in Block, Chain(p) \subseteq Chain(b), Height[b] = Height[p] + 1,
         NEW t \in Loose, Valid(p, t)
  PROVE  Valid(b, t)
<1>0. ChainEvents(p) \subseteq ChainEvents(b) /\ ChainTx(p) \subseteq ChainTx(b)
  BY ChainGrows
<1>1. /\ Tx[t].vin \in Seq(OutPoints)
      /\ \A o : o \in Inputs(t) <=> \E i \in 1 .. Len(Tx[t].vin) : Tx[t].vin[i] = o
  BY LooseFacts
<1>2. ASSUME NEW o \in Inputs(t) PROVE Known(b, o.hash) /\ Source(b, o.hash) = Source(p, o.hash)
  <2>1. CASE o.hash \in Loose
    BY <2>1 DEF Known, Source
  <2>2. CASE o.hash \notin Loose
    <3>1. PICK Y \in ChainTx(p) : Y.hash = o.hash
      BY <2>2 DEF Valid, Known
    <3>2. Y \in ChainTx(b)
      BY <1>0
    <3>3. Source(p, Y.hash) = Y /\ Source(b, Y.hash) = Y
      BY <3>2, SourceIs
    <3> QED
      BY <3>1, <3>2, <3>3 DEF Known
  <2> QED
    BY <2>1, <2>2
<1>3. Paid(b, t) = Paid(p, t)
  <2> DEFINE f(c) == [i \in 1 .. Len(Tx[t].vin) |-> Source(c, Tx[t].vin[i].hash).vout[Tx[t].vin[i].n]]
  <2>1. \A i \in 1 .. Len(Tx[t].vin) : Source(b, Tx[t].vin[i].hash) = Source(p, Tx[t].vin[i].hash)
    BY <1>1, <1>2
  <2>2. f(b) = f(p)
    BY <2>1
  <2>3. Paid(b, t) = SumFunction(f(b)) /\ Paid(p, t) = SumFunction(f(p))
    BY DEF Paid
  <2> HIDE DEF f
  <2> QED
    BY <2>2, <2>3
<1>4. ASSUME NEW o \in Inputs(t) PROVE Ripe(b, o)
  <2> SUFFICES ASSUME NEW e \in ChainEvents(b), e.tx.hash = o.hash, IsCoinBase(e.tx)
               PROVE  Mature(Height[b] + 1, e.nHeight)
    BY DEF Ripe
  <2>1. o.hash \notin Loose
    BY ChainEventFacts
  <2>2. PICK Y \in ChainTx(p) : Y.hash = o.hash
    BY <2>1 DEF Valid, Known
  <2>3. PICK d \in ChainEvents(p) : d.tx = Y
    BY ChainEventFacts
  <2>4. d = e
    BY <1>0, <2>2, <2>3, ChainEventFacts
  <2>5. Mature(Height[p] + 1, e.nHeight)
    BY <2>2, <2>3, <2>4 DEF Valid, Ripe
  <2>6. e.nHeight \in Nat /\ Height[p] \in Nat /\ Height[b] \in Nat /\ COINBASE_MATURITY \in Nat
    BY ChainEventFacts, HeightFacts, MoneyAssumption
  <2> QED
    BY <2>5, <2>6 DEF Mature
<1> QED
  BY <1>2, <1>3, <1>4 DEF Valid

\* Nothing is gathered from blocks that stay.
LEMMA NothingOff ==
  ASSUME NEW p \in Block, NEW B, Chain(p) \subseteq B
  PROVE  Gathered(Reverse(ChainOf[p]), B) = <<>>
<1> DEFINE s == ChainOf[p]
           r == Reverse(s)
           g == Gathered(r, B)
<1>1. s \in Seq(Block) /\ Len(s) \in Nat
  BY ChainFacts
<1>2. \A i \in 1 .. Len(s) : s[i] \in B
  BY ChainLinks
<1> HIDE DEF s
<1>3. \A i \in 1 .. Len(s) : Len(s) - i + 1 \in 1 .. Len(s)
  BY <1>1
<1>4. r \in Seq(Block) /\ \A i \in 1 .. Len(r) : r[i] \in B
  BY <1>1, <1>2, <1>3 DEF Reverse
<1> HIDE DEF r
<1>5. g \in Seq(Loose) /\ Range(g) = {}
  BY <1>4, GatheredFacts
<1> HIDE DEF g
<1>6. Len(g) = 0
  <2>1. ASSUME Len(g) # 0 PROVE FALSE
    <3>1. 1 \in DOMAIN g
      BY <1>5, <2>1
    <3> QED
      BY <1>5, <3>1 DEF Range
  <2> QED
    BY <2>1
<1> QED
  BY <1>5, <1>6 DEF g, r, s

\* No circle: among any of these transactions is one that spends none of them.
Rooted(txs) == \A S \in SUBSET txs : S # {} => \E u \in S : Prevs(u) \cap S = {}

\* As long as no block was disconnected, nothing is resurrected, a pruned entry is
\* one of a transaction of the chain, and what the pool holds could be mined in
\* some order.
MineInv ==
    disconnected = {} =>
        /\ nResurrected = Len(vResurrect)
        /\ \A h \in pruned : \E X \in ChainTx(pindexBest) : X.hash = h
        /\ \A t \in Held : Valid(pindexBest, t)
        /\ Rooted(Held)

\* What accept lets through is valid.
LEMMA AcceptableValid ==
  ASSUME TypeOK, NEW t \in Loose, Acceptable(t)
  PROVE  Valid(pindexBest, t)
<1> DEFINE b == pindexBest
           V == CoinView
<1>0. b \in Block
  BY DEF TypeOK
<1>1. V \in CoinMap /\ Truthful(b, V)
  BY TruthfulPool
<1>2. CheckInputs(V, Tx[t], Height[b] + 1)
  BY DEF Acceptable
<1> HIDE DEF V
<1>3. Ready(V, Tx[t].vin)
  BY <1>1, <1>2, LooseFacts, CheckedReady
<1>4. \A o \in Inputs(t) : Val(V[o.hash].vout, o.n) # Spent
  BY <1>3, LooseFacts DEF Ready
<1> QED
  BY <1>0, <1>1, <1>2, <1>4, CheckedValid

\* Nothing in the pool spends what accept lets through.
LEMMA AcceptableRooted ==
  ASSUME TypeOK, ChainInv, accepting = NULL, vDelete = <<>>, disconnected = {},
         NEW t \in Loose, Acceptable(t), Rooted(mapTx)
  PROVE  Rooted(mapTx \cup {t})
<1> DEFINE b == pindexBest
           C == UnspentIn[b]
<1>0. b \in Block /\ mapTx \subseteq Loose /\ t \in TxId
  BY LooseFacts DEF TypeOK
<1>1. t \notin mapTx /\ C[t] = NoCoins /\ ~HaveCoins(t) /\ \A h \in Prevs(t) : HaveCoins(h)
  BY DEF Acceptable, Refused, HaveCoins
<1>2. t \notin Prevs(t)
  BY <1>1
<1>3. ASSUME NEW u \in mapTx PROVE t \notin Prevs(u)
  <2>1. SUFFICES ASSUME NEW o \in Inputs(u), o.hash = t PROVE FALSE
    BY DEF Prevs
  <2>2. Range(vDelete) = {} /\ Held = mapTx
    BY DEF Range, Held
  <2>3. Exists(b, mapTx, o)
    BY <2>2 DEF ChainInv, Supplied, Fed, Taken
  <2>4. IsAvailable(C[t], o.n)
    BY <1>1, <2>1, <2>3 DEF Exists
  <2>5. o.n \in Place
    BY <1>0, LooseFacts DEF OutPoints
  <2>6. Len(NoCoins.vout) = 0
    BY DEF NoCoins
  <2> QED
    BY <1>1, <2>4, <2>5, <2>6 DEF IsAvailable, Place
<1>4. ASSUME NEW S \in SUBSET (mapTx \cup {t}), S # {} PROVE \E u \in S : Prevs(u) \cap S = {}
  <2>1. CASE S \ {t} = {}
    <3>1. S = {t}
      BY <1>4, <2>1
    <3> QED
      BY <1>2, <3>1
  <2>2. CASE S \ {t} # {}
    <3>1. PICK u \in S \ {t} : Prevs(u) \cap (S \ {t}) = {}
      BY <2>2 DEF Rooted
    <3>2. t \notin Prevs(u)
      BY <1>3, <3>1
    <3> QED
      BY <3>1, <3>2
  <2> QED
    BY <2>1, <2>2
<1> QED
  BY <1>4 DEF Rooted

\* Another block becomes best.
LEMMA MineConnect ==
  ASSUME TypeOK, ReorgPhase, MineInv, NEW a \in Block, SetBestChain(a), disconnected' = {}
  PROVE  MineInv'
<1> DEFINE p == pindexBest
           off == Chain(p) \ Chain(a)
           on == Chain(a) \ Chain(p)
           written == UNION {Touched(c) : c \in off \cup on}
<1>0. p \in Block /\ mapTx \subseteq Loose
  BY DEF TypeOK
<1>1. /\ pc = "idle" /\ Height[a] = Height[p] + 1 /\ pindexBest' = a
      /\ pruned' \subseteq pruned \cup written
      /\ vResurrect' = Gathered(Reverse(ChainOf[p]), Chain(a)) /\ nResurrected' = 0
      /\ disconnected' = disconnected \cup (TxId \cap UNION {{tx.hash : tx \in Range(Vtx[c])} : c \in off})
      /\ UNCHANGED <<mapTx, accepting>>
  BY DEF SetBestChain, pool
<1>2. Held' = mapTx /\ Held = mapTx /\ disconnected = {}
  BY <1>1 DEF ReorgPhase, Held
<1>3. off = {}
  <2> SUFFICES ASSUME NEW c \in off PROVE FALSE
    OBVIOUS
  <2>1. c \in Block \ {Genesis}
    BY <1>0, ChainClosed
  <2>2. CheckBlock(Vtx[c])
    BY <2>1, BlockFacts
  <2>3. DOMAIN Vtx[c] = 1 .. Len(Vtx[c]) /\ Len(Vtx[c]) \in Nat \ {0}
    BY <2>2 DEF CheckBlock
  <2>4. Vtx[c][1] \in Transactions
    BY <2>2, <2>3, VtxFacts
  <2>5. Vtx[c][1].hash \in TxId /\ Vtx[c][1] \in Range(Vtx[c])
    BY <2>3, <2>4 DEF Transactions, Range
  <2>6. Vtx[c][1].hash \in disconnected'
    BY <1>1, <2>5
  <2> QED
    BY <2>6
<1>4. Chain(p) \subseteq Chain(a)
  BY <1>3
<1>5. nResurrected' = Len(vResurrect')
  BY <1>0, <1>1, <1>4, NothingOff
<1>6. ASSUME NEW h \in pruned' PROVE \E X \in ChainTx(a) : X.hash = h
  <2>1. CASE h \in pruned
    BY <1>0, <1>2, <1>4, <2>1, ChainGrows DEF MineInv
  <2>2. CASE h \in written
    <3>1. PICK c \in on : h \in Touched(c)
      BY <1>3, <2>2
    <3>2. c \in Chain(a) \ {Genesis} /\ c \in Block \ {Genesis}
      BY <1>0, ChainClosed
    <3>3. DOMAIN Vtx[c] = 1 .. Len(Vtx[c])
      BY <3>2, BlockFacts DEF CheckBlock
    <3>4. PICK tx \in Range(Vtx[c]) : h = tx.hash \/ \E o \in Range(tx.vin) : h = o.hash
      BY <3>1 DEF Touched
    <3>5. tx \in ChainTx(a)
      BY <3>2, <3>3, ChainTxBlocks DEF Range
    <3>6. tx.vin \in Seq(OutPoints)
      BY <3>5, HistoryTx DEF Transactions
    <3>7. \A o \in Range(tx.vin) : \E i \in 1 .. Len(tx.vin) : tx.vin[i] = o
      BY <3>6 DEF Range
    <3> QED
      BY <3>4, <3>5, <3>7, ChainSpent
  <2> QED
    BY <1>1, <2>1, <2>2
<1>7. \A t \in mapTx : Valid(a, t)
  BY <1>0, <1>1, <1>2, <1>4, ValidGrows DEF MineInv
<1>8. Rooted(mapTx)
  BY <1>2 DEF MineInv
<1>9. Rooted(Held')
  BY <1>2, <1>8
<1> QED
  BY <1>1, <1>2, <1>5, <1>6, <1>7, <1>9 DEF MineInv, Rooted

\* The parts of the invariant in the next state.
LEMMA MineInvNext ==
  ASSUME nResurrected' = Len(vResurrect'),
         \A h \in pruned' : \E X \in ChainTx(pindexBest') : X.hash = h,
         NEW held, held = mapTx' \cup ({accepting'} \ {NULL}),
         \A t \in held : Valid(pindexBest', t), Rooted(held)
  PROVE  MineInv'
<1>1. Held' = held
  BY DEF Held
<1> QED
  BY <1>1 DEF MineInv, Rooted

\* Every step that leaves the pool undisturbed keeps it.
LEMMA MineStep == ASSUME TypeOK, ChainInv, MineInv, Undisturbed', [Next]_vars PROVE MineInv'
<1> SUFFICES ASSUME disconnected' = {} PROVE MineInv'
  BY DEF MineInv
<1> DEFINE b == pindexBest
<1>0. /\ b \in Block /\ mapTx \subseteq Loose /\ accepting \in Loose \cup {NULL} /\ NULL \notin Loose
      /\ ReorgPhase
  BY TxAssumption DEF TypeOK, Loose, ChainInv
<1> DEFINE Sound == /\ nResurrected = Len(vResurrect)
                    /\ \A h \in pruned : \E X \in ChainTx(b) : X.hash = h
                    /\ \A t \in Held : Valid(b, t)
                    /\ Rooted(Held)
<1>1. disconnected = {} => Sound
  BY DEF MineInv
\* accept's checks let a transaction through.
<1>2. ASSUME NEW t \in Loose, Acceptable(t), accepting = NULL, accepting' = t, vDelete = <<>>,
             UNCHANGED <<pindexBest, pruned, mapTx, nResurrected, vResurrect, disconnected>>
      PROVE  MineInv'
  <2>1. disconnected = {} /\ Sound /\ Held = mapTx
    BY <1>1, <1>2 DEF Held
  <2>2. Valid(b, t)
    BY <1>2, AcceptableValid
  <2>3. Rooted(mapTx \cup {t})
    BY <1>2, <2>1, AcceptableRooted
  <2>4. mapTx \cup {t} = mapTx' \cup ({accepting'} \ {NULL})
    BY <1>0, <1>2
  <2>5. \A u \in mapTx \cup {t} : Valid(b, u)
    BY <2>1, <2>2
  <2> QED
    BY <1>2, <2>1, <2>3, <2>4, <2>5, MineInvNext
\* Nothing comes into the pool.
<1>3. ASSUME UNCHANGED <<pindexBest, pruned, disconnected>>, Held' \subseteq Held,
             nResurrected = Len(vResurrect) => nResurrected' = Len(vResurrect')
      PROVE  MineInv'
  <2>1. disconnected = {} /\ Sound
    BY <1>1, <1>3
  <2>2. Held' = mapTx' \cup ({accepting'} \ {NULL})
    BY DEF Held
  <2>3. Rooted(Held')
    BY <1>3, <2>1 DEF Rooted
  <2> QED
    BY <1>3, <2>1, <2>2, <2>3, MineInvNext
<1>4. ASSUME NEW t \in Loose, ReceiveTx(t) \/ SubmitTx(t) PROVE MineInv'
  <2>1. /\ Acceptable(t) /\ accepting' = t /\ pc = "idle"
        /\ UNCHANGED <<pindexBest, pruned, mapTx, nResurrected, vResurrect, disconnected>>
    BY <1>4 DEF ReceiveTx, SubmitTx, pool, reorg
  <2>2. accepting = NULL /\ vDelete = <<>>
    BY <1>0, <2>1 DEF ReorgPhase
  <2> QED
    BY <1>2, <2>1, <2>2
<1>5. ASSUME NEW t \in Loose, TryOrphan(t) PROVE MineInv'
  <2>1. /\ pc = "tx" /\ accepting = NULL
        /\ UNCHANGED <<pindexBest, pruned, mapTx, nResurrected, vResurrect, disconnected>>
        /\ (Acceptable(t) /\ accepting' = t) \/ UNCHANGED accepting
    BY <1>5 DEF TryOrphan, pool, reorg
  <2>2. vDelete = <<>>
    BY <1>0, <2>1 DEF ReorgPhase
  <2>3. CASE UNCHANGED accepting
    BY <1>3, <2>1, <2>3 DEF Held
  <2> QED
    BY <1>2, <2>1, <2>2, <2>3
<1>6. ASSUME NEW t \in Loose, ReceiveOrphan(t) PROVE MineInv'
  BY <1>3, <1>6 DEF ReceiveOrphan, pool, reorg, Held
<1>7. CASE NextInWorkQueue \/ TxDone
  BY <1>3, <1>7 DEF NextInWorkQueue, TxDone, pool, reorg, Held
<1>8. CASE AcceptEnds
  BY <1>3, <1>8 DEF AcceptEnds, AddUnchecked, reorg, Held
<1>9. ASSUME NEW a \in Block, SetBestChain(a) PROVE MineInv'
  BY <1>0, <1>9, MineConnect
<1>10. CASE Resurrect
  <2>1. nResurrected < Len(vResurrect) /\ disconnected = {}
    BY <1>10 DEF Resurrect
  <2>2. Len(vResurrect) \in Nat
    BY DEF TypeOK
  <2> QED
    BY <1>1, <2>1, <2>2
<1>11. CASE DeleteTx
  BY <1>3, <1>11 DEF DeleteTx, RemoveAll, Held
<1>12. CASE SetBestChainDone
  <2>1. nResurrected' = 0 /\ vResurrect' = <<>> /\ Len(<<>>) = 0
    BY <1>12 DEF SetBestChainDone
  <2> QED
    BY <1>3, <1>12, <2>1 DEF SetBestChainDone, pool, Held
<1>13. CASE UNCHANGED vars
  BY <1>3, <1>13 DEF vars, pool, reorg, Held
<1>14. ASSUME NEW t \in Loose, RefuseTx(t) PROVE MineInv'
  BY <1>13, <1>14 DEF RefuseTx
<1> QED
  BY <1>4, <1>5, <1>6, <1>7, <1>8, <1>9, <1>10, <1>11, <1>12, <1>13, <1>14, DisturbedForGood DEF Next

\* At the start.
LEMMA MineInit == Init => MineInv
<1> SUFFICES ASSUME Init PROVE MineInv
  OBVIOUS
<1>1. accepting = NULL /\ mapTx = {} /\ pruned = {} /\ nResurrected = 0 /\ vResurrect = <<>>
  BY DEF Init
<1>2. Held = {} /\ Len(vResurrect) = 0
  BY <1>1 DEF Held
<1> QED
  BY <1>1, <1>2 DEF MineInv, Rooted

\* With nothing disconnected, an input of a pool transaction is in the pool or
\* unspent in the chain, never both.
LEMMA MineFacts ==
  ASSUME TypeOK, ChainInv, MineInv, pc = "idle", disconnected = {}
  PROVE  /\ \A t \in mapTx : Valid(pindexBest, t)
         /\ Rooted(mapTx)
         /\ \A t \in mapTx : \A o \in Inputs(t) :
              /\ InPool(o) <=> o.hash \in mapTx
              /\ o.hash \in mapTx => o.n \in 1 .. Len(Tx[o.hash].vout)
              /\ o.hash \in mapTx \/ Val(UnspentIn[pindexBest][o.hash].vout, o.n) # Spent
<1> DEFINE b == pindexBest
           C == UnspentIn[b]
<1>0. b \in Block /\ mapTx \subseteq Loose /\ Held = mapTx /\ Range(vDelete) = {}
  BY DEF TypeOK, ChainInv, ReorgPhase, Held, Range
<1>1. /\ \A h \in pruned : \E X \in ChainTx(b) : X.hash = h
      /\ \A t \in mapTx : Valid(b, t)
      /\ Rooted(mapTx)
  BY <1>0 DEF MineInv
<1>2. ASSUME NEW t \in mapTx PROVE C[t] = NoCoins /\ t \notin pruned
  <2>1. \A X \in ChainTx(b) : X.hash # t
    BY <1>0 DEF ChainInv, NoneConfirmed, Clear, Clash
  <2>2. t \in TxId
    BY <1>0, LooseFacts
  <2> QED
    BY <1>0, <1>1, <2>1, <2>2, ChainUnspent
<1>3. ASSUME NEW t \in mapTx, NEW o \in Inputs(t)
      PROVE  /\ InPool(o) <=> o.hash \in mapTx
             /\ o.hash \in mapTx => o.n \in 1 .. Len(Tx[o.hash].vout)
             /\ o.hash \in mapTx \/ Val(C[o.hash].vout, o.n) # Spent
  <2>1. Exists(b, mapTx, o)
    BY <1>0 DEF ChainInv, Supplied, Fed, Taken
  <2>2. o.hash \in TxId /\ o.n \in Place
    BY <1>0, LooseFacts DEF OutPoints
  <2>3. C[o.hash] = NoCoins => ~IsAvailable(C[o.hash], o.n)
    <3>1. Len(NoCoins.vout) = 0
      BY DEF NoCoins
    <3> QED
      BY <2>2, <3>1 DEF IsAvailable, Place
  <2>4. InPool(o) <=> o.hash \in mapTx
    BY <1>2, <2>1, <2>3 DEF InPool, TipHaveCoins, Exists
  <2>5. ASSUME o.hash \in mapTx PROVE o.n \in 1 .. Len(Tx[o.hash].vout)
    <3>1. o.n <= Len(Tx[o.hash].vout)
      BY <1>2, <2>1, <2>3, <2>5 DEF Exists
    <3>2. Tx[o.hash].vout \in Seq(Nat)
      BY <1>0, <2>5, LooseFacts
    <3> QED
      BY <2>2, <3>1, <3>2 DEF Place
  <2>6. o.hash \in mapTx \/ Val(C[o.hash].vout, o.n) # Spent
    BY <1>0, <2>1, <2>2, AvailableVal DEF Exists
  <2> QED
    BY <2>4, <2>5, <2>6
<1> QED
  BY <1>1, <1>3

\* What the block does not hold yet, and what the loop knows of it: each such
\* transaction waits for those of its inputs' transactions that are not in the
\* block either, is in the heap once there is none, and finds all its other
\* inputs unspent.
Waiting(s) == mapTx \ Range(s.vtx)
Loop(s) ==
    /\ Build(s) /\ Range(s.vtx) \subseteq mapTx
    /\ DOMAIN s.setDependsOn = mapTx
    /\ \A d \in mapTx : s.setDependsOn[d] = Prevs(d) \cap Waiting(s)
    /\ \A d \in Range(s.vtx) : Prevs(d) \cap Waiting(s) = {}
    /\ s.vecPriority = {t \in Waiting(s) : Prevs(t) \cap Waiting(s) = {}}
    /\ Truthful(pindexBest, s.view)
    /\ \A t \in Waiting(s) : \A o \in Inputs(t) :
         o.hash \in Waiting(s) \/ Val(s.view[o.hash].vout, o.n) # Spent

\* Before the loop; no COrphan is dropped.
LEMMA LoopInit ==
  ASSUME TypeOK, ChainInv, MineInv, pc = "idle", disconnected = {}
  PROVE  Dangling = {} /\ Loop(Collected)
<1> DEFINE s == Collected
           C == UnspentIn[pindexBest]
<1>0. pindexBest \in Block /\ mapTx \subseteq Loose /\ Build(s) /\ Truthful(pindexBest, C)
  BY BuildInit, TruthfulChain DEF TypeOK
<1>1. \A t \in mapTx : \A o \in Inputs(t) :
        /\ InPool(o) <=> o.hash \in mapTx
        /\ o.hash \in mapTx \/ Val(C[o.hash].vout, o.n) # Spent
  BY MineFacts
<1>2. \A t \in mapTx : \A o \in Inputs(t) : ~Nowhere(o)
  BY <1>1 DEF Nowhere
<1>3. Dangling = {}
  <2>1. ASSUME NEW t \in mapTx, NEW j \in DOMAIN Tx[t].vin PROVE ~Nowhere(Tx[t].vin[j])
    BY <1>2, <2>1 DEF Inputs, Range
  <2> QED
    BY <2>1 DEF Dangling
<1>4. {t \in mapTx : ~fMissingInputs(t)} = mapTx
  BY <1>2 DEF fMissingInputs
<1>5. /\ s.setDependsOn = [t \in mapTx |-> DependsOn(t)]
      /\ s.vecPriority = {t \in mapTx : DependsOn(t) = {}}
      /\ s.view = C /\ s.vtx = <<>>
  <2> DEFINE f == [t \in {t \in mapTx : ~fMissingInputs(t)} |-> DependsOn(t)]
  <2>1. s = [vecPriority |-> {t \in DOMAIN f : f[t] = {}}, setDependsOn |-> f, view |-> C,
             vtx |-> <<>>, nFees |-> 0]
    BY DEF Collected
  <2>2. f = [t \in mapTx |-> DependsOn(t)]
    BY <1>4
  <2> HIDE DEF f
  <2>3. {t \in DOMAIN f : f[t] = {}} = {t \in mapTx : DependsOn(t) = {}}
    BY <2>2
  <2> QED
    BY <2>1, <2>2, <2>3
<1>6. Range(s.vtx) = {} /\ Waiting(s) = mapTx
  BY <1>5 DEF Range, Waiting
<1>7. ASSUME NEW t \in mapTx PROVE DependsOn(t) = Prevs(t) \cap mapTx
  BY <1>1 DEF DependsOn, Prevs
<1> HIDE DEF s, C
<1>8. \A d \in mapTx : s.setDependsOn[d] = Prevs(d) \cap Waiting(s)
  BY <1>5, <1>6, <1>7
<1>9. s.vecPriority = {t \in Waiting(s) : Prevs(t) \cap Waiting(s) = {}}
  BY <1>5, <1>6, <1>7
<1>10. \A t \in Waiting(s) : \A o \in Inputs(t) :
         o.hash \in Waiting(s) \/ Val(s.view[o.hash].vout, o.n) # Spent
  BY <1>1, <1>5, <1>6
<1>11. DOMAIN s.setDependsOn = mapTx
  BY <1>5
<1>12. Loop(s)
  BY <1>0, <1>5, <1>6, <1>8, <1>9, <1>10, <1>11 DEF Loop
<1> QED
  BY <1>3, <1>12 DEF s

\* A transaction of the heap passes CheckInputs, and as long as one waits, one
\* is in the heap.
LEMMA LoopHeap ==
  ASSUME TypeOK, ChainInv, MineInv, pc = "idle", disconnected = {}, NEW s, Loop(s)
  PROVE  /\ \A t \in s.vecPriority : CheckInputs(s.view, Tx[t], NewHeight)
         /\ s.vecPriority = {} <=> Waiting(s) = {}
<1>0. /\ pindexBest \in Block /\ mapTx \subseteq Loose /\ s.view \in CoinMap
      /\ Truthful(pindexBest, s.view)
      /\ s.vecPriority = {t \in Waiting(s) : Prevs(t) \cap Waiting(s) = {}}
      /\ \A t \in Waiting(s) : \A o \in Inputs(t) :
           o.hash \in Waiting(s) \/ Val(s.view[o.hash].vout, o.n) # Spent
  BY DEF TypeOK, Loop, Build
<1>1. Waiting(s) \in SUBSET mapTx
  BY DEF Waiting
<1>2. ASSUME NEW t \in s.vecPriority PROVE CheckInputs(s.view, Tx[t], NewHeight)
  <2>1. t \in Waiting(s) /\ t \in mapTx /\ t \in Loose /\ Prevs(t) \cap Waiting(s) = {}
    BY <1>0, <1>1
  <2>2. \A o \in Inputs(t) : o.hash \in Prevs(t)
    BY DEF Prevs
  <2>3. \A o \in Inputs(t) : Val(s.view[o.hash].vout, o.n) # Spent
    BY <1>0, <2>1, <2>2
  <2>4. Valid(pindexBest, t)
    BY <2>1, MineFacts
  <2> QED
    BY <1>0, <2>1, <2>3, <2>4, CheckedValid DEF NewHeight
<1>3. Waiting(s) # {} => s.vecPriority # {}
  <2>1. Rooted(mapTx)
    BY MineFacts
  <2> QED
    BY <1>0, <1>1, <2>1 DEF Rooted
<1> QED
  BY <1>0, <1>2, <1>3

\* A transaction is added.
LEMMA LoopAdd ==
  ASSUME TypeOK, PoolInv, ChainInv, MineInv, pc = "idle", disconnected = {},
         NEW s, Loop(s), NEW t \in s.vecPriority
  PROVE  Loop(Add(s, t)) /\ t \in Waiting(s) /\ Waiting(Add(s, t)) = Waiting(s) \ {t}
<1> DEFINE r == Add(s, t)
           W == Waiting(s)
           ready == {d \in DOMAIN s.setDependsOn : t \in s.setDependsOn[d] /\ s.setDependsOn[d] \ {t} = {}}
<1>0. /\ pindexBest \in Block /\ mapTx \subseteq Loose /\ s.view \in CoinMap /\ s.vtx \in Seq(Loose)
      /\ Build(s) /\ Truthful(pindexBest, s.view) /\ Range(s.vtx) \subseteq mapTx
      /\ DOMAIN s.setDependsOn = mapTx
      /\ s.vecPriority = {d \in W : Prevs(d) \cap W = {}}
  BY DEF TypeOK, Loop, Build
<1>1. /\ \A d \in mapTx : s.setDependsOn[d] = Prevs(d) \cap W
      /\ \A d \in Range(s.vtx) : Prevs(d) \cap W = {}
      /\ \A d \in W : \A o \in Inputs(d) : o.hash \in W \/ Val(s.view[o.hash].vout, o.n) # Spent
  BY DEF Loop
<1>2. CheckInputs(s.view, Tx[t], NewHeight)
  BY LoopHeap
<1>3. t \in W /\ t \in mapTx /\ t \in Loose /\ Prevs(t) \cap W = {}
  BY <1>0 DEF Waiting
<1>4. Tx[t] \in Transactions /\ Tx[t].hash = t /\ t \in TxId /\ Tx[t].vout \in Seq(Nat)
  BY <1>3, LooseFacts
<1>5. NewHeight \in Nat
  BY <1>0, HeightFacts DEF NewHeight
<1>6. Build(r)
  BY <1>0, <1>2, BuildAdd
<1>7. /\ r.view = UpdateCoins(s.view, Tx[t], NewHeight).coins /\ r.vtx = Append(s.vtx, t)
      /\ r.setDependsOn = [d \in mapTx |-> s.setDependsOn[d] \ {t}]
  BY <1>0 DEF Add
<1>8. r.vecPriority = (s.vecPriority \ {t}) \cup ready
  <2> DEFINE f == [d \in DOMAIN s.setDependsOn |-> s.setDependsOn[d] \ {t}]
  <2>1. r.vecPriority = (s.vecPriority \ {t}) \cup {d \in DOMAIN f : t \in s.setDependsOn[d] /\ f[d] = {}}
    BY DEF Add
  <2> QED
    BY <2>1
<1> HIDE DEF r
<1>9. Range(r.vtx) = Range(s.vtx) \cup {t}
  <2>1. /\ Len(s.vtx) \in Nat /\ Len(r.vtx) = Len(s.vtx) + 1 /\ r.vtx[Len(r.vtx)] = t
        /\ \A i \in 1 .. Len(s.vtx) : r.vtx[i] = s.vtx[i]
        /\ DOMAIN s.vtx = 1 .. Len(s.vtx) /\ DOMAIN r.vtx = 1 .. Len(r.vtx)
    BY <1>0, <1>3, <1>7
  <2>2. 1 .. Len(r.vtx) = (1 .. Len(s.vtx)) \cup {Len(r.vtx)}
    BY <2>1
  <2> QED
    BY <2>1, <2>2, SMTT(40) DEF Range
<1>10. Waiting(r) = W \ {t}
  BY <1>9 DEF Waiting
<1>11. \A d \in mapTx : r.setDependsOn[d] = Prevs(d) \cap Waiting(r)
  BY <1>1, <1>7, <1>10
<1>12. \A d \in Range(r.vtx) : Prevs(d) \cap Waiting(r) = {}
  BY <1>1, <1>3, <1>9, <1>10
<1>13. r.vecPriority = {d \in Waiting(r) : Prevs(d) \cap Waiting(r) = {}}
  <2>1. \A d \in ready : d \in mapTx /\ t \in Prevs(d) \cap W /\ (Prevs(d) \cap W) \ {t} = {}
    BY <1>0, <1>1
  <2>2. \A d \in mapTx : d \in W \/ d \in Range(s.vtx)
    BY DEF Waiting
  <2>3. \A d \in ready : d \in W /\ d # t
    BY <1>1, <1>3, <2>1, <2>2
  <2>4. ASSUME NEW d \in Waiting(r), Prevs(d) \cap Waiting(r) = {} PROVE d \in r.vecPriority
    <3>1. d \in W /\ d # t /\ d \in mapTx
      BY <1>10 DEF Waiting
    <3>2. CASE t \in Prevs(d)
      BY <1>0, <1>1, <1>3, <1>8, <1>10, <2>4, <3>1, <3>2
    <3>3. CASE t \notin Prevs(d)
      BY <1>0, <1>8, <1>10, <2>4, <3>1, <3>3
    <3> QED
      BY <3>2, <3>3
  <2>5. ASSUME NEW d \in r.vecPriority PROVE d \in Waiting(r) /\ Prevs(d) \cap Waiting(r) = {}
    BY <1>0, <1>8, <1>10, <2>1, <2>3
  <2> QED
    BY <2>4, <2>5
<1>14. Truthful(pindexBest, r.view)
  BY <1>0, <1>3, <1>5, <1>7, TruthfulUpdate
<1>15. ASSUME NEW d \in Waiting(r), NEW o \in Inputs(d)
       PROVE  o.hash \in Waiting(r) \/ Val(r.view[o.hash].vout, o.n) # Spent
  <2>1. d \in W /\ d # t /\ d \in mapTx /\ d \in Loose
    BY <1>0, <1>10 DEF Waiting
  <2>2. o.hash \in TxId /\ o.n \in Place /\ o = [hash |-> o.hash, n |-> o.n] /\ o \in Outpoint
    BY <2>1, LooseFacts DEF OutPoints
  <2>3. Val(r.view[o.hash].vout, o.n) =
          IF o.hash = t THEN Val(Tx[t].vout, o.n)
          ELSE IF Hit(Tx[t].vin, Len(Tx[t].vin), o.hash, o.n) THEN Spent
          ELSE Val(s.view[o.hash].vout, o.n)
    BY <1>0, <1>4, <1>5, <1>7, <2>2, UpdateValues
  <2>4. CASE o.hash = t
    <3>1. o.n \in 1 .. Len(Tx[t].vout)
      BY <1>3, <2>1, <2>4, MineFacts
    <3>2. Val(Tx[t].vout, o.n) \in Nat
      BY <1>4, <3>1 DEF Val
    <3> QED
      BY <2>3, <2>4, <3>2 DEF Spent
  <2>5. CASE o.hash # t
    <3>1. ~Hit(Tx[t].vin, Len(Tx[t].vin), o.hash, o.n)
      <4>1. o \notin Inputs(t)
        BY <1>3, <2>1, <2>2 DEF PoolInv, InputsIndexed
      <4> QED
        BY <1>3, <2>2, <4>1, LooseFacts DEF Hit
    <3> QED
      BY <1>1, <1>10, <2>1, <2>3, <2>5, <3>1
  <2> QED
    BY <2>4, <2>5
<1>16. DOMAIN r.setDependsOn = mapTx /\ Range(r.vtx) \subseteq mapTx
  BY <1>0, <1>3, <1>7, <1>9
<1>17. Loop(r)
  BY <1>6, <1>11, <1>12, <1>13, <1>14, <1>15, <1>16 DEF Loop
<1> QED
  BY <1>3, <1>10, <1>17 DEF r

\* After as many turns as the pool has transactions none waits.
LEMMA LoopAll ==
  ASSUME TypeInv, PoolInv, ChainInv, MineInv, pc = "idle", disconnected = {}
  PROVE  \A s \in CreateNewBlock(FALSE) : Range(s.vtx) = mapTx
<1> DEFINE f == Filling(FALSE)
           m == Cardinality(mapTx)
           ToGo(s, n) == IsFiniteSet(Waiting(s)) /\ Cardinality(Waiting(s)) = m - n
           S == {n \in 0 .. m : \A s \in f[n] : Loop(s) /\ ToGo(s, n)}
<1>0. TypeOK /\ m \in Nat /\ IsFiniteSet(mapTx)
  BY FS_CardinalityType DEF TypeInv
<1>1. f = [i \in 0 .. m |-> IF i = 0 THEN {Collected} ELSE UNION {Turn(s, FALSE) : s \in f[i - 1]}]
  BY <1>0, FillingDef, Zenon
<1> HIDE DEF f
<1>2. 0 \in S
  <2>1. f[0] = {Collected} /\ 0 \in 0 .. m
    BY <1>0, <1>1
  <2>2. Loop(Collected)
    BY <1>0, LoopInit
  <2>3. Waiting(Collected) = mapTx
    BY DEF Waiting, Collected, Range
  <2> QED
    BY <1>0, <2>1, <2>2, <2>3
<1>3. ASSUME NEW n \in Nat, n + 1 <= m, n \in S PROVE n + 1 \in S
  <2>1. n + 1 \in 0 .. m /\ n + 1 - 1 = n /\ n + 1 # 0
    BY <1>0, <1>3
  <2>2. f[n + 1] = UNION {Turn(s, FALSE) : s \in f[n]}
    <3> DEFINE All(i) == UNION {Turn(s, FALSE) : s \in f[i - 1]}
    <3> HIDE DEF All, m
    <3>1. f = [i \in 0 .. m |-> IF i = 0 THEN {Collected} ELSE All(i)]
      BY <1>1, Zenon DEF All
    <3>2. f[n + 1] = All(n + 1)
      BY <2>1, <3>1
    <3>3. f[n + 1] = UNION {Turn(s, FALSE) : s \in f[n + 1 - 1]}
      BY <3>2 DEF All
    <3> QED
      BY <2>1, <3>3, Zenon
  <2>3. ASSUME NEW s \in f[n], NEW r \in Turn(s, FALSE) PROVE Loop(r) /\ ToGo(r, n + 1)
    <3>1. Loop(s) /\ IsFiniteSet(Waiting(s)) /\ Cardinality(Waiting(s)) = m - n
      BY <1>3
    <3>2. Waiting(s) # {}
      BY <1>0, <1>3, <3>1, FS_EmptySet
    <3>3. s.vecPriority # {} /\ \A t \in s.vecPriority : CheckInputs(s.view, Tx[t], NewHeight)
      BY <1>0, <3>1, <3>2, LoopHeap
    <3>4. PICK t \in s.vecPriority : r = Add(s, t)
      BY <2>3, <3>3 DEF Turn
    <3>5. Loop(r) /\ t \in Waiting(s) /\ Waiting(r) = Waiting(s) \ {t}
      BY <1>0, <3>1, <3>4, LoopAdd
    <3>6. IsFiniteSet(Waiting(s) \ {t}) /\ Cardinality(Waiting(s) \ {t}) = m - n - 1
      BY <3>1, <3>5, FS_RemoveElement
    <3> QED
      BY <1>0, <3>5, <3>6
  <2> QED
    BY <2>1, <2>2, <2>3
<1> HIDE DEF S, m
<1>4. m \in S
  <2>1. \A n \in 0 .. m : n \in S
    BY <1>0, <1>2, <1>3, InductTo
  <2> QED
    BY <1>0, <2>1
<1>5. CreateNewBlock(FALSE) = f[m]
  BY DEF CreateNewBlock, f, m
<1>6. ASSUME NEW s \in f[m] PROVE Range(s.vtx) = mapTx
  <2>1. Loop(s) /\ IsFiniteSet(Waiting(s)) /\ Cardinality(Waiting(s)) = m - m
    BY <1>4 DEF S
  <2>2. Waiting(s) = {}
    BY <1>0, <2>1, FS_EmptySet
  <2> QED
    BY <2>1, <2>2 DEF Waiting, Loop
<1> QED
  BY <1>5, <1>6

\* As long as the start-up thread has put nothing back and no block was
\* disconnected, CreateNewBlock with room for all leaves no transaction of the
\* pool out, whichever the heap gives first: what accept has let in keeps passing
\* CheckInputs as the chain grows and the block fills, there is no circle of
\* transactions that wait for each other, and mapDependers points to no COrphan
\* that was dropped.
THEOREM NothingHeldBackCorrect == Spec => []NothingHeldBack
<1> DEFINE Inv == TypeInv /\ (Undisturbed => PoolInv /\ ChainInv /\ MineInv)
<1>1. Init => Inv
  BY TypeInit, PoolInit, ChainInit, MineInit
<1>2. Inv /\ [Next]_vars => Inv'
  <2> SUFFICES ASSUME TypeInv, Undisturbed => PoolInv /\ ChainInv /\ MineInv, [Next]_vars, Undisturbed'
               PROVE  PoolInv' /\ ChainInv' /\ MineInv'
    BY TypeStep
  <2>1. Undisturbed
    BY UndisturbedBefore
  <2> QED
    BY <2>1, PoolStep, ChainStep, MineStep DEF TypeInv
<1>3. Inv => NothingHeldBack
  BY LoopInit, LoopAll DEF TypeInv, NothingHeldBack
<1> QED
  BY <1>1, <1>2, <1>3, PTL DEF Spec

=============================================================================

---------------------------- MODULE ConnectProofs ----------------------------
(***************************************************************************)
(* Proofs about the two structures ConnectBlock works with.                *)
(*                                                                         *)
(* The stack of coin views, for any transactions, coins and blocks: type   *)
(* correctness, that a flush never loses the best block, and that the      *)
(* stack implements CoinsStore.                                            *)
(*                                                                         *)
(* The script check queue, for any number of script-check threads, any     *)
(* batch size and any checks: the books of the queue are right under every *)
(* interleaving and interruption, and what Wait returns is the conjunction *)
(* of the checks of the block.                                             *)
(***************************************************************************)
EXTENDS CoinsCache, CheckQueue, FiniteSetTheorems, TLAPS

\* The inductive invariant of the refinement.
CacheInv == ViewsTypeOK /\ BestBlockKnown

\* The database holds no pruned entry, every cache holds entries for
\* transactions only, and best blocks are blocks, initially.
LEMMA CacheInit == ViewsInit => CacheInv
  BY CoinsAssumption DEF ViewsInit, CacheInv, ViewsTypeOK, BestBlockKnown, Empty, Cache, MaybeBlock

\* Every operation of the three views keeps the types and the knowledge of
\* the best block.
LEMMA CacheStep == CacheInv /\ [ViewsNext]_views => CacheInv'
<1> SUFFICES ASSUME CacheInv, [ViewsNext]_views PROVE CacheInv'
  OBVIOUS
<1> USE CoinsAssumption DEF CacheInv, ViewsTypeOK, Cache, MaybeBlock
<1>1. CASE NewView
  BY <1>1 DEF NewView, BestBlockKnown, Empty, TipBestBlock, GetBestBlock
<1>2. ASSUME NEW t \in TxId, FetchCoins(t) PROVE CacheInv'
  BY <1>2 DEF FetchCoins, BestBlockKnown, ViewCoins, TipCoins, GetCoins
<1>3. ASSUME NEW t \in TxId, NEW c \in CCoins, SetCoins(t, c) PROVE CacheInv'
  BY <1>3 DEF SetCoins, BestBlockKnown, base
<1>4. ASSUME NEW b \in Block, SetBestBlock(b) PROVE CacheInv'
  BY <1>4 DEF SetBestBlock, BestBlockKnown, base
<1>5. CASE FlushView
  BY <1>5 DEF FlushView, BestBlockKnown, Empty, BatchWrite
<1>6. CASE DropView
  BY <1>6 DEF DropView, BestBlockKnown, Empty, base
<1>7. CASE FlushTip
  BY <1>7 DEF FlushTip, BestBlockKnown, Empty, BatchWriteCoins
<1>8. CASE Crash
  BY <1>8 DEF Crash, BestBlockKnown, Empty
<1>9. CASE UNCHANGED views
  BY <1>9 DEF views, base, BestBlockKnown
<1> QED
  BY <1>1, <1>2, <1>3, <1>4, <1>5, <1>6, <1>7, <1>8, <1>9 DEF ViewsNext

\* The variables always have their types; in particular no operation writes a
\* pruned entry to the coin database, which could not serialize it.
THEOREM CacheTypeCorrect == ViewsSpec => []ViewsTypeOK
<1>1. CacheInv => ViewsTypeOK
  BY DEF CacheInv
<1> QED
  BY <1>1, CacheInit, CacheStep, PTL DEF ViewsSpec

\* A view that is flushed with pindexTip = NULL never takes the best block
\* away from pcoinsTip.
THEOREM BestBlockCorrect == ViewsSpec => []BestBlockKnown
<1>1. CacheInv => BestBlockKnown
  BY DEF CacheInv
<1> QED
  BY <1>1, CacheInit, CacheStep, PTL DEF ViewsSpec

-----------------------------------------------------------------------------
(***************************************************************************)
(* The refinement: one abstract step, or a stutter, per operation.         *)
(***************************************************************************)

\* Coins as a user sees them.
Seen == [TxId -> (CCoins \ Pruned) \cup {Absent}]

\* Each of the three sets of coins is a complete one.
LEMMA SeenType ==
    ASSUME ViewsTypeOK
    PROVE  Unspent(db) \in Seen /\ Unspent(TipCoins) \in Seen /\ Unspent(ViewCoins) \in Seen
  BY CoinsAssumption DEF ViewsTypeOK, Cache, Seen, Unspent, TipCoins, ViewCoins, GetCoins

\* An empty cache shows its base.
LEMMA EmptyShows ==
    ASSUME NEW c \in Cache PROVE GetCoins(Empty, c) = c
  BY DEF GetCoins, Empty, Cache

\* Flushing a cache into another one leaves what both together show.
LEMMA BatchShows ==
    ASSUME NEW u \in Cache, NEW v \in Cache, NEW c \in Cache
    PROVE  GetCoins(BatchWrite(u, v), c) = GetCoins(v, GetCoins(u, c))
  BY CoinsAssumption DEF GetCoins, BatchWrite, Cache

\* Flushing a cache into the database leaves what both together show, though
\* pruned entries are erased instead of written.
LEMMA DatabaseShows ==
    ASSUME NEW e \in Cache, NEW v \in Cache
    PROVE  Unspent(BatchWriteCoins(e, v)) = Unspent(GetCoins(v, e))
  BY CoinsAssumption DEF GetCoins, BatchWriteCoins, Unspent, Cache

\* Reading through an empty view, with its best block not yet known.
LEMMA ClosedShows ==
    ASSUME ViewsTypeOK, view = Empty, viewBest = NULL
    PROVE  ViewCoins = TipCoins /\ ViewBestBlock = TipBestBlock
  BY DEF ViewCoins, TipCoins, GetCoins, Empty, ViewBestBlock, GetBestBlock, ViewsTypeOK

\* Initially all three sets of coins are that of the database.
LEMMA StoreInit == ViewsInit => Store!Init
<1> SUFFICES ASSUME ViewsInit PROVE Store!Init
  OBVIOUS
<1>1. ViewsTypeOK
  BY CacheInit DEF CacheInv
<1>2. TipCoins = db /\ TipBestBlock = dbBest
  BY EmptyShows, <1>1 DEF ViewsInit, TipCoins, TipBestBlock, GetBestBlock, ViewsTypeOK, Cache, GetCoins, Empty
<1>3. ViewCoins = TipCoins /\ ViewBestBlock = TipBestBlock
  BY <1>1, ClosedShows DEF ViewsInit
<1>4. Unspent(db) \in Seen
  BY <1>1, SeenType
<1> QED
  BY <1>1, <1>2, <1>3, <1>4 DEF Store!Init, Store!AllCoins, Store!MaybeBlock, Seen, ViewsTypeOK, MaybeBlock

\* Every operation is a step of the store, or changes nothing that its users
\* can see.
LEMMA StoreStep == CacheInv /\ CacheInv' /\ [ViewsNext]_views => [Store!Next]_(Store!vars)
<1> SUFFICES ASSUME CacheInv, CacheInv', [ViewsNext]_views
             PROVE  [Store!Next]_(Store!vars)
  OBVIOUS
<1> USE DEF CacheInv
<1>a. /\ tip \in Cache /\ view \in Cache /\ db \in Cache
      /\ tip' \in Cache /\ view' \in Cache /\ db' \in Cache
  BY DEF ViewsTypeOK, Cache
<1>b. /\ TipCoins \in Cache /\ ViewCoins \in Cache
  BY <1>a DEF TipCoins, ViewCoins, GetCoins, Cache
<1>c. /\ Unspent(ViewCoins)' \in Store!AllCoins
      /\ ViewBestBlock' \in Store!MaybeBlock
  <2>1. ViewsTypeOK'
    OBVIOUS
  <2>2. Unspent(ViewCoins)' \in Seen
    BY <2>1, CoinsAssumption DEF ViewsTypeOK, Cache, Seen, Unspent, TipCoins, ViewCoins, GetCoins
  <2>3. ViewBestBlock' \in MaybeBlock
    BY <2>1 DEF ViewsTypeOK, ViewBestBlock, TipBestBlock, GetBestBlock
  <2> QED
    BY <2>2, <2>3 DEF Store!AllCoins, Store!MaybeBlock, Seen, MaybeBlock
<1>1. CASE NewView
  <2>1. view = Empty /\ viewBest = NULL /\ view' = Empty
    BY <1>1 DEF NewView, BestBlockKnown
  <2>2. TipBestBlock' = TipBestBlock /\ ViewBestBlock' = TipBestBlock /\ ViewBestBlock = TipBestBlock
    BY <1>1, <2>1 DEF NewView, ViewBestBlock, TipBestBlock, GetBestBlock
  <2>3. TipCoins' = TipCoins /\ ViewCoins' = ViewCoins
    BY <1>1, <2>1 DEF NewView, ViewCoins, TipCoins
  <2> QED
    BY <1>1, <2>2, <2>3 DEF NewView, Store!vars, Unspent
<1>2. ASSUME NEW t \in TxId, FetchCoins(t) PROVE [Store!Next]_(Store!vars)
  <2>1. TipCoins' = TipCoins
    BY <1>2, <1>a DEF FetchCoins, TipCoins, GetCoins, Cache
  <2>2. ViewCoins' = ViewCoins
    BY <1>2, <1>a, <1>b, <2>1 DEF FetchCoins, ViewCoins, GetCoins, Cache
  <2>3. TipBestBlock' = TipBestBlock /\ ViewBestBlock' = ViewBestBlock
    BY <1>2 DEF FetchCoins, TipBestBlock, ViewBestBlock
  <2> QED
    BY <1>2, <2>1, <2>2, <2>3 DEF FetchCoins, Store!vars, Unspent
<1>3. ASSUME NEW t \in TxId, NEW c \in CCoins, SetCoins(t, c) PROVE Store!Modify
  BY <1>3, <1>c DEF SetCoins, base, Store!Modify, Unspent, TipCoins, TipBestBlock
<1>4. ASSUME NEW b \in Block, SetBestBlock(b) PROVE Store!Modify
  BY <1>4, <1>c DEF SetBestBlock, base, Store!Modify, Unspent, TipCoins, TipBestBlock
<1>5. CASE FlushView
  <2>1. TipCoins' = ViewCoins
    BY <1>5, <1>a, BatchShows DEF FlushView, TipCoins, ViewCoins
  <2>2. TipBestBlock' = ViewBestBlock
    BY <1>5 DEF FlushView, BestBlockKnown, TipBestBlock, ViewBestBlock, GetBestBlock
  <2>3. ViewCoins' = TipCoins' /\ ViewBestBlock' = TipBestBlock'
    BY <1>5, <1>a, <2>1, <1>b, EmptyShows DEF FlushView, ViewCoins, ViewBestBlock, GetBestBlock
  <2>4. Store!Push
    BY <1>5, <2>1, <2>2, <2>3 DEF FlushView, Store!Push, Unspent
  <2> QED
    BY <2>4 DEF Store!Next
<1>6. CASE DropView
  <2>1. TipCoins' = TipCoins /\ TipBestBlock' = TipBestBlock
    BY <1>6 DEF DropView, base, TipCoins, TipBestBlock
  <2>2. ViewCoins' = TipCoins /\ ViewBestBlock' = TipBestBlock
    BY <1>6, <1>b, <2>1, EmptyShows DEF DropView, ViewCoins, ViewBestBlock, GetBestBlock
  <2>3. Store!Drop
    BY <1>6, <2>1, <2>2 DEF DropView, base, Store!Drop, Unspent
  <2> QED
    BY <2>3 DEF Store!Next
<1>7. CASE FlushTip
  <2>1. view = Empty /\ viewBest = NULL
    BY <1>7 DEF FlushTip, BestBlockKnown
  <2>2. ViewCoins = TipCoins /\ ViewBestBlock = TipBestBlock
    BY <2>1, ClosedShows
  <2>3. TipCoins' = db'
    BY <1>7, <1>a, EmptyShows DEF FlushTip, TipCoins
  <2>4. ViewCoins' = TipCoins'
    BY <1>7, <1>a, <2>1, <2>3, EmptyShows DEF FlushTip, ViewCoins
  <2>5. Unspent(db)' = Unspent(TipCoins)
    BY <1>7, <1>a, DatabaseShows DEF FlushTip, TipCoins, Unspent
  <2>6. dbBest' = TipBestBlock /\ TipBestBlock' = TipBestBlock /\ ViewBestBlock' = TipBestBlock
    BY <1>7, <2>1 DEF FlushTip, TipBestBlock, ViewBestBlock, GetBestBlock
  <2>7. Unspent(TipCoins)' = Unspent(TipCoins) /\ Unspent(ViewCoins)' = Unspent(ViewCoins)
    BY <2>2, <2>3, <2>4, <2>5 DEF Unspent
  <2>8. Store!Write
    BY <2>2, <2>5, <2>6, <2>7 DEF Store!Write
  <2> QED
    BY <2>8 DEF Store!Next
<1>8. CASE Crash
  <2>1. TipCoins' = db /\ TipBestBlock' = dbBest
    BY <1>8, <1>a, EmptyShows DEF Crash, TipCoins, TipBestBlock, GetBestBlock
  <2>2. ViewCoins' = db /\ ViewBestBlock' = dbBest
    BY <1>8, <1>a, <2>1, EmptyShows DEF Crash, ViewCoins, ViewBestBlock, GetBestBlock
  <2>3. Store!Crash
    BY <1>8, <2>1, <2>2 DEF Crash, Store!Crash, Unspent
  <2> QED
    BY <2>3 DEF Store!Next
<1>9. CASE UNCHANGED views
  BY <1>9 DEF views, base, Store!vars, Unspent, TipCoins, ViewCoins, TipBestBlock, ViewBestBlock
<1> QED
  BY <1>1, <1>2, <1>3, <1>4, <1>5, <1>6, <1>7, <1>8, <1>9 DEF ViewsNext, Store!Next

\* The database, pcoinsTip and the view on top implement three complete sets
\* of coins: caching and flushing are invisible.
THEOREM StoreCorrect == ViewsSpec => StoreSpec
<1>1. CacheInv /\ CacheInv' /\ [ViewsNext]_views => [Store!Next]_(Store!vars)
  BY StoreStep
<1> QED
  BY <1>1, CacheInit, CacheStep, StoreInit, PTL DEF ViewsSpec, StoreSpec, Store!Spec

-----------------------------------------------------------------------------
(***************************************************************************)
(* The script check queue                                                  *)
(***************************************************************************)

(***************************************************************************)
(* The inductive invariant                                                 *)
(***************************************************************************)

\* The threads that count in nTotal and not in nIdle.
Active == {t \in Thread : pc[t] \in {"test", "work"} \/ (pc[t] = "enter" /\ nNow[t] > 0)}

\* The threads in cond.wait.
Asleep == {t \in Thread : pc[t] \in {"waiting", "woken"}}

\* Where a thread is, and what it has then: the mutex, a batch, nothing.
LocalInv ==
    /\ \A t \in Thread :
        /\ pc[t] = "test" => mutex = t
        /\ pc[t] = "work" => nNow[t] > 0
        /\ pc[t] # "work" => vChecks[t] = <<>>
    /\ pc[Master] \in {"out", "construct", "add"} => nNow[Master] = 0
    /\ interrupted # {} => stopping

\* The counters.  A thread that was interrupted stays in both.
CountInv ==
    /\ IsFiniteSet(Active) /\ nTotal = nIdle + Cardinality(Active)
    /\ IsFiniteSet(Asleep) /\ Cardinality(Asleep) <= nIdle
    /\ IsFiniteSet(Taken)

\* Between two blocks nothing is left.
BlockInv ==
    pc[Master] \in {"out", "construct"} => queue = <<>> /\ nTodo = 0 /\ fAllOk

\* No failure comes from nowhere.
NoFalseAlarm ==
    allGood =>
        /\ fAllOk
        /\ \A i \in 1 .. Len(queue) : queue[i]
        /\ \A t \in Busy : fOk[t] /\ AllGood(vChecks[t])

QueueInv ==
    TypeOK /\ LocalInv /\ CountInv /\ TodoExact /\ BlockInv /\ FailureKept /\ NoFalseAlarm

(***************************************************************************)
(* The program counters                                                    *)
(***************************************************************************)

Labels == {"out", "construct", "add", "enter", "test", "waiting", "woken", "work", "dead"}

\* Thread t goes to l; of the others, some in cond.wait may be notified.
Moves(t, l) ==
    /\ pc' \in [Thread -> Labels] /\ pc'[t] = l
    /\ \A u \in Thread \ {t} : pc'[u] = pc[u] \/ (pc[u] = "waiting" /\ pc'[u] = "woken")

\* Without a notification.
LEMMA GotoMoves ==
  ASSUME TypeOK, NEW t \in Thread, NEW l \in Labels, Goto(t, l)
  PROVE  Moves(t, l)
<1>1. pc \in [Thread -> Labels]
  BY DEF TypeOK, Labels
<1> QED
  BY <1>1 DEF Goto, Moves

\* With one.
LEMMA NotifyMoves ==
  ASSUME TypeOK, NEW t \in Thread, NEW l \in Labels, NEW T, NEW X, T \subseteq Waiting(X),
         GotoAndNotify(t, l, T)
  PROVE  Moves(t, l)
<1>1. pc \in [Thread -> Labels] /\ "woken" \in Labels
  BY DEF TypeOK, Labels
<1>2. pc' = [u \in Thread |-> IF u = t THEN l ELSE IF u \in T THEN "woken" ELSE pc[u]]
  BY DEF GotoAndNotify
<1>3. \A u \in T : pc[u] = "waiting"
  BY DEF Waiting
<1>4. pc' \in [Thread -> Labels]
  BY <1>1, <1>2
<1>5. pc'[t] = l
  BY <1>2
<1>6. ASSUME NEW u \in Thread \ {t}
      PROVE  pc'[u] = pc[u] \/ (pc[u] = "waiting" /\ pc'[u] = "woken")
  BY <1>2, <1>3
<1> QED
  BY <1>4, <1>5, <1>6 DEF Moves

\* The master is a thread, and none of the workers.
LEMMA MasterIs == Master \in Thread /\ Worker \subseteq Thread /\ None \notin Thread
BY CheckQueueAssumption DEF Thread

\* Add notifies workers, and the master stays where it is.
LEMMA AddMoves ==
  ASSUME TypeOK, NEW s, Add(s)
  PROVE  Moves(Master, "add")
<1>1. "add" \in Labels /\ Master \in Thread
  BY MasterIs DEF Labels
<1>2. CASE UNCHANGED pc
  <2>1. Goto(Master, "add")
    BY <1>2 DEF Add, Goto, TypeOK
  <2> QED
    BY <1>1, <2>1, GotoMoves
<1>3. ASSUME NEW T \in OneOf(Worker), GotoAndNotify(Master, "add", T) PROVE Moves(Master, "add")
  <2>1. T \subseteq Waiting(Worker)
    BY DEF OneOf
  <2> QED
    BY <1>1, <1>3, <2>1, NotifyMoves
<1>4. CASE GotoAndNotify(Master, "add", Waiting(Worker))
  BY <1>1, <1>4, NotifyMoves
<1> QED
  BY <1>2, <1>3, <1>4 DEF Add

\* The last batch notifies the master.
LEMMA FinishMoves ==
  ASSUME TypeOK, NEW t \in Thread, FinishBatch(t)
  PROVE  Moves(t, "test")
<1>1. "test" \in Labels
  BY DEF Labels
<1>2. CASE GotoAndNotify(t, "test", Waiting({Master}))
  BY <1>1, <1>2, NotifyMoves
<1>3. CASE Goto(t, "test")
  BY <1>1, <1>3, GotoMoves
<1> QED
  BY <1>2, <1>3 DEF FinishBatch

(***************************************************************************)
(* The size of a batch                                                     *)
(***************************************************************************)

\* A quotient is not more than what is divided.
LEMMA DivIs ==
  ASSUME NEW a \in Nat, NEW b \in Nat, b > 0
  PROVE  a \div b \in Nat /\ a \div b <= a
OBVIOUS

\* A batch has at least one check, and there are that many.
LEMMA BatchNowIs ==
  ASSUME TypeOK, queue # <<>>
  PROVE  BatchNow \in Nat /\ BatchNow >= 1 /\ BatchNow <= Len(queue)
<1>1. queue \in Seq(BOOLEAN) /\ nTotal \in Nat /\ nIdle \in Nat
  BY DEF TypeOK
<1>2. Len(queue) \in Nat /\ Len(queue) >= 1
  BY <1>1
<1>3. nTotal + nIdle + 1 \in Nat /\ nTotal + nIdle + 1 > 0 /\ nBatchSize \in Nat
  BY <1>1, CheckQueueAssumption
<1>4. PICK share : share = Len(queue) \div (nTotal + nIdle + 1)
  OBVIOUS
<1>5. share \in Nat /\ share <= Len(queue)
  BY <1>2, <1>3, <1>4, DivIs
<1>6. BatchNow = LET most == IF nBatchSize < share THEN nBatchSize ELSE share
                 IN  IF most < 1 THEN 1 ELSE most
  BY <1>4 DEF BatchNow
<1> QED
  BY <1>2, <1>3, <1>5, <1>6

\* TakeBatch splits the queue.
LEMMA TakeSplits ==
  ASSUME TypeOK, NEW t \in Thread, TakeBatch(t)
  PROVE  \E n \in Nat :
           /\ n >= 1 /\ n <= Len(queue)
           /\ nNow' = [nNow EXCEPT ![t] = n]
           /\ queue' \in Seq(BOOLEAN) /\ Len(queue') = Len(queue) - n
           /\ vChecks'[t] \in Seq(BOOLEAN) /\ Len(vChecks'[t]) = n
           /\ \A i \in 1 .. Len(queue) - n : queue'[i] = queue[i]
           /\ \A i \in 1 .. n : vChecks'[t][i] = queue[Len(queue) - n + i]
<1>1. queue \in Seq(BOOLEAN) /\ queue # <<>> /\ vChecks \in [Thread -> Seq(BOOLEAN)]
  BY DEF TypeOK, TakeBatch
<1>2. PICK n \in Nat : n = BatchNow /\ n >= 1 /\ n <= Len(queue)
  BY <1>1, BatchNowIs
<1>3. /\ nNow' = [nNow EXCEPT ![t] = n]
      /\ vChecks' = [vChecks EXCEPT ![t] = SubSeq(queue, Len(queue) - n + 1, Len(queue))]
      /\ queue' = SubSeq(queue, 1, Len(queue) - n)
  BY <1>2 DEF TakeBatch
<1>4. PICK q : q = queue
  OBVIOUS
<1>5. q \in Seq(BOOLEAN) /\ Len(q) \in Nat /\ n <= Len(q)
  BY <1>1, <1>2, <1>4
<1>6. /\ SubSeq(q, 1, Len(q) - n) \in Seq(BOOLEAN)
      /\ Len(SubSeq(q, 1, Len(q) - n)) = Len(q) - n
      /\ \A i \in 1 .. Len(q) - n : SubSeq(q, 1, Len(q) - n)[i] = q[i]
  BY <1>5
<1>7. /\ SubSeq(q, Len(q) - n + 1, Len(q)) \in Seq(BOOLEAN)
      /\ Len(SubSeq(q, Len(q) - n + 1, Len(q))) = n
      /\ \A i \in 1 .. n : SubSeq(q, Len(q) - n + 1, Len(q))[i] = q[Len(q) - n + i]
  BY <1>5
<1>8. vChecks'[t] = SubSeq(q, Len(q) - n + 1, Len(q))
  BY <1>1, <1>3, <1>4
<1>9. queue' = SubSeq(q, 1, Len(q) - n)
  BY <1>3, <1>4, Zenon
<1>10. /\ queue' \in Seq(BOOLEAN) /\ Len(queue') = Len(queue) - n
       /\ \A i \in 1 .. Len(queue) - n : queue'[i] = queue[i]
  BY <1>4, <1>6, <1>9, Zenon
<1>11. /\ vChecks'[t] \in Seq(BOOLEAN) /\ Len(vChecks'[t]) = n
       /\ \A i \in 1 .. n : vChecks'[t][i] = queue[Len(queue) - n + i]
  BY <1>4, <1>7, <1>8, Zenon
<1> QED
  BY <1>2, <1>3, <1>10, <1>11, Zenon

(***************************************************************************)
(* Sets of threads and of checks                                           *)
(***************************************************************************)

\* A set that differs from another in t at most.
LEMMA CardMove ==
  ASSUME NEW S, IsFiniteSet(S), NEW R, NEW t, R \ {t} = S \ {t}
  PROVE  /\ IsFiniteSet(R) /\ Cardinality(S) \in Nat /\ Cardinality(R) \in Nat
         /\ t \in S /\ t \in R => Cardinality(R) = Cardinality(S)
         /\ t \notin S /\ t \notin R => Cardinality(R) = Cardinality(S)
         /\ t \in R /\ t \notin S => Cardinality(R) = Cardinality(S) + 1
         /\ t \in S /\ t \notin R => Cardinality(R) = Cardinality(S) - 1
<1>1. Cardinality(S) \in Nat
  BY FS_CardinalityType
<1>2. ASSUME t \in S, t \in R PROVE R = S
  BY <1>2
<1>3. ASSUME t \notin S, t \notin R PROVE R = S
  BY <1>3
<1>4. ASSUME t \in R, t \notin S PROVE IsFiniteSet(R) /\ Cardinality(R) = Cardinality(S) + 1
  <2>1. R = S \cup {t}
    BY <1>4
  <2>2. IsFiniteSet(S \cup {t}) /\ Cardinality(S \cup {t}) = Cardinality(S) + 1
    BY <1>4, FS_AddElement
  <2> QED
    BY <2>1, <2>2, Zenon
<1>5. ASSUME t \in S, t \notin R PROVE IsFiniteSet(R) /\ Cardinality(R) = Cardinality(S) - 1
  <2>1. R = S \ {t}
    BY <1>5
  <2>2. IsFiniteSet(S \ {t}) /\ Cardinality(S \ {t}) = Cardinality(S) - 1
    BY <1>5, FS_RemoveElement
  <2> QED
    BY <2>1, <2>2, Zenon
<1>6. IsFiniteSet(R)
  BY <1>2, <1>3, <1>4, <1>5, Zenon
<1>7. Cardinality(R) \in Nat
  BY <1>6, FS_CardinalityType
<1>8. (t \in S /\ t \in R) \/ (t \notin S /\ t \notin R) => Cardinality(R) = Cardinality(S)
  BY <1>2, <1>3, Zenon
<1> QED
  BY <1>1, <1>4, <1>5, <1>6, <1>7, <1>8

\* The checks in the batches of the threads of B, f[u] of them with u.
Batches(B, f) == UNION {{u} \X (1 .. f[u]) : u \in B}

\* f and g are the same on B.
SameOn(B, f, g) == \A u \in B : g[u] = f[u]

\* The checks in the batch of one thread are as many as it says.
LEMMA OneBatch ==
  ASSUME NEW t, NEW n \in Nat
  PROVE  IsFiniteSet({t} \X (1 .. n)) /\ Cardinality({t} \X (1 .. n)) = n
<1>1. IsFiniteSet({t}) /\ Cardinality({t}) = 1
  BY FS_Singleton
<1>2. IsFiniteSet(1 .. n) /\ Cardinality(1 .. n) = n
  <2>1. 1 \in Int /\ n \in Int
    OBVIOUS
  <2>2. IsFiniteSet(1 .. n) /\ Cardinality(1 .. n) = IF 1 > n THEN 0 ELSE n - 1 + 1
    BY <2>1, FS_Interval, Zenon
  <2>3. (IF 1 > n THEN 0 ELSE n - 1 + 1) = n
    OBVIOUS
  <2>4. Cardinality(1 .. n) = n
    BY <2>2, <2>3
  <2> QED
    BY <2>2, <2>4
<1>3. IsFiniteSet({t} \X (1 .. n))
        /\ Cardinality({t} \X (1 .. n)) = Cardinality({t}) * Cardinality(1 .. n)
  BY <1>1, <1>2, FS_Product
<1>4. 1 * n = n
  OBVIOUS
<1>5. Cardinality({t}) * Cardinality(1 .. n) = n
  BY <1>1, <1>2, <1>4, Zenon
<1> QED
  BY <1>3, <1>5, Zenon

\* The batches of B and that of t.
Adds(B, f, g, t) ==
  /\ IsFiniteSet(Batches(B \cup {t}, g))
  /\ Cardinality(Batches(B \cup {t}, g)) = Cardinality(Batches(B, f)) + g[t]

\* One more batch.
LEMMA BatchesGain ==
  ASSUME NEW B, NEW f, NEW g, NEW t, t \notin B,
         SameOn(B, f, g), g[t] \in Nat, IsFiniteSet(Batches(B, f))
  PROVE  Adds(B, f, g, t)
<1> DEFINE S == Batches(B, f)
           N == {t} \X (1 .. g[t])
<1>1. Batches(B \cup {t}, g) = S \cup N
  BY DEF Batches, SameOn
<1>2. S \cap N = {}
  BY DEF Batches
<1>3. IsFiniteSet(N) /\ Cardinality(N) = g[t]
  BY OneBatch
<1>4. IsFiniteSet(S) /\ Cardinality(S) \in Nat
  BY FS_CardinalityType
<1> HIDE DEF S, N
<1>5. /\ IsFiniteSet(S \cup N)
      /\ Cardinality(S \cup N) = Cardinality(S) + Cardinality(N) - Cardinality(S \cap N)
  BY <1>3, <1>4, FS_Union
<1>6. Cardinality(S \cap N) = 0
  BY <1>2, FS_EmptySet
<1>7. Cardinality(S \cup N) = Cardinality(S) + g[t]
  BY <1>3, <1>4, <1>5, <1>6
<1> QED
  BY <1>1, <1>5, <1>7 DEF S, Adds

\* One batch less.
LEMMA BatchesLose ==
  ASSUME NEW B, NEW f, NEW g, NEW t \in B,
         SameOn(B \ {t}, f, g), f[t] \in Nat, IsFiniteSet(Batches(B, f))
  PROVE  /\ IsFiniteSet(Batches(B \ {t}, g)) /\ Cardinality(Batches(B \ {t}, g)) \in Nat
         /\ Cardinality(Batches(B \ {t}, g)) = Cardinality(Batches(B, f)) - f[t]
<1>1. Batches(B \ {t}, g) \subseteq Batches(B, f)
  BY DEF Batches, SameOn
<1>2. IsFiniteSet(Batches(B \ {t}, g))
  BY <1>1, FS_Subset
<1>3. Cardinality(Batches(B \ {t}, g)) \in Nat
  BY <1>2, FS_CardinalityType
<1>6. PICK C : C = B \ {t}
  OBVIOUS
<1>4. t \notin C /\ SameOn(C, g, f) /\ IsFiniteSet(Batches(C, g)) /\ f[t] \in Nat
  BY <1>2, <1>6 DEF SameOn
<1>7. C \cup {t} = B
  BY <1>6
<1>5. Cardinality(Batches(B, f)) = Cardinality(Batches(B \ {t}, g)) + f[t]
  <2>1. Cardinality(Batches(C \cup {t}, f)) = Cardinality(Batches(C, g)) + f[t]
    <3>1. Adds(C, g, f, t)
      BY <1>4, BatchesGain, Zenon
    <3> QED
      BY <3>1 DEF Adds
  <2> QED
    BY <1>6, <1>7, <2>1, Zenon
<1> QED
  BY <1>2, <1>3, <1>5

\* The same batches.
LEMMA BatchesSame ==
  ASSUME NEW B, NEW f, NEW g, \A u \in B : g[u] = f[u]
  PROVE  Batches(B, g) = Batches(B, f)
BY DEF Batches

\* Taken is made of the batches of the busy threads.
LEMMA TakenIs == Taken = Batches(Busy, nNow) /\ Taken' = Batches(Busy', nNow')
BY DEF Taken, Batches

\* What a step of t leaves alone of the threads' state: the others' batches.
LEMMA OthersStay ==
  ASSUME NEW t \in Thread, NEW l, Moves(t, l),
         \A u \in Thread \ {t} : nNow'[u] = nNow[u]
  PROVE  /\ Active' \ {t} = Active \ {t}
         /\ Asleep' \ {t} = Asleep \ {t}
         /\ Busy' \ {t} = Busy \ {t}
<1>1. \A u \in Thread \ {t} : pc'[u] = pc[u] \/ (pc[u] = "waiting" /\ pc'[u] = "woken")
  BY DEF Moves
<1>2. ASSUME NEW u \in Thread \ {t} PROVE u \in Active' <=> u \in Active
  BY <1>1, <1>2 DEF Active
<1>3. ASSUME NEW u \in Thread \ {t} PROVE u \in Asleep' <=> u \in Asleep
  BY <1>1, <1>3 DEF Asleep
<1>4. ASSUME NEW u \in Thread \ {t} PROVE u \in Busy' <=> u \in Busy
  BY <1>1, <1>4 DEF Busy
<1>5. Active \subseteq Thread /\ Active' \subseteq Thread
  BY DEF Active
<1>6. Asleep \subseteq Thread /\ Asleep' \subseteq Thread
  BY DEF Asleep
<1>7. Busy \subseteq Thread /\ Busy' \subseteq Thread
  BY DEF Busy
<1> QED
  BY <1>2, <1>3, <1>4, <1>5, <1>6, <1>7

\* How the counted sets change with the step of one thread.
LEMMA MoveCounts ==
  ASSUME CountInv, NEW t \in Thread, NEW l, Moves(t, l),
         \A u \in Thread \ {t} : nNow'[u] = nNow[u]
  PROVE  /\ IsFiniteSet(Active') /\ IsFiniteSet(Asleep')
         /\ Cardinality(Active) \in Nat /\ Cardinality(Active') \in Nat
         /\ Cardinality(Asleep) \in Nat /\ Cardinality(Asleep') \in Nat
         /\ t \in Active /\ t \in Active' => Cardinality(Active') = Cardinality(Active)
         /\ t \notin Active /\ t \notin Active' => Cardinality(Active') = Cardinality(Active)
         /\ t \in Active' /\ t \notin Active => Cardinality(Active') = Cardinality(Active) + 1
         /\ t \in Active /\ t \notin Active' => Cardinality(Active') = Cardinality(Active) - 1
         /\ t \in Asleep /\ t \in Asleep' => Cardinality(Asleep') = Cardinality(Asleep)
         /\ t \notin Asleep /\ t \notin Asleep' => Cardinality(Asleep') = Cardinality(Asleep)
         /\ t \in Asleep' /\ t \notin Asleep => Cardinality(Asleep') = Cardinality(Asleep) + 1
         /\ t \in Asleep /\ t \notin Asleep' => Cardinality(Asleep') = Cardinality(Asleep) - 1
<1>1. PICK A, B : A = Active /\ B = Active'
  OBVIOUS
<1>2. PICK C, D : C = Asleep /\ D = Asleep'
  OBVIOUS
<1>3. IsFiniteSet(A) /\ B \ {t} = A \ {t} /\ IsFiniteSet(C) /\ D \ {t} = C \ {t}
  BY <1>1, <1>2, OthersStay DEF CountInv
<1>4. /\ IsFiniteSet(B) /\ Cardinality(A) \in Nat /\ Cardinality(B) \in Nat
      /\ t \in A /\ t \in B => Cardinality(B) = Cardinality(A)
      /\ t \notin A /\ t \notin B => Cardinality(B) = Cardinality(A)
      /\ t \in B /\ t \notin A => Cardinality(B) = Cardinality(A) + 1
      /\ t \in A /\ t \notin B => Cardinality(B) = Cardinality(A) - 1
  BY <1>3, CardMove
<1>5. /\ IsFiniteSet(D) /\ Cardinality(C) \in Nat /\ Cardinality(D) \in Nat
      /\ t \in C /\ t \in D => Cardinality(D) = Cardinality(C)
      /\ t \notin C /\ t \notin D => Cardinality(D) = Cardinality(C)
      /\ t \in D /\ t \notin C => Cardinality(D) = Cardinality(C) + 1
      /\ t \in C /\ t \notin D => Cardinality(D) = Cardinality(C) - 1
  BY <1>3, CardMove
<1> QED
  BY <1>1, <1>2, <1>4, <1>5, Zenon

\* How the checks that are taken change with it.
LEMMA MoveTaken ==
  ASSUME CountInv, nNow \in [Thread -> Nat], nNow' \in [Thread -> Nat],
         NEW t \in Thread, NEW l, Moves(t, l), \A u \in Thread \ {t} : nNow'[u] = nNow[u],
         t \in Busy /\ t \in Busy' => nNow'[t] = nNow[t]
  PROVE  /\ IsFiniteSet(Taken') /\ Cardinality(Taken) \in Nat /\ Cardinality(Taken') \in Nat
         /\ (t \in Busy <=> t \in Busy') => Taken' = Taken
         /\ t \in Busy' /\ t \notin Busy =>
              Cardinality(Taken') = Cardinality(Taken) + nNow'[t]
         /\ t \in Busy /\ t \notin Busy' =>
              Cardinality(Taken') = Cardinality(Taken) - nNow[t]
<1>1. PICK B, C, f, g : B = Busy /\ C = Busy' /\ f = nNow /\ g = nNow'
  OBVIOUS
<1>2. C \ {t} = B \ {t} /\ B \subseteq Thread /\ C \subseteq Thread
  BY <1>1, OthersStay DEF Busy
<1>3. IsFiniteSet(Batches(B, f)) /\ f[t] \in Nat /\ g[t] \in Nat /\ \A u \in B \ {t} : g[u] = f[u]
  BY <1>1, <1>2, TakenIs DEF CountInv
<1>7. t \in B /\ t \in C => g[t] = f[t]
  BY <1>1
<1>4. ASSUME t \in B <=> t \in C
      PROVE  Batches(C, g) = Batches(B, f)
  <2>1. C = B /\ \A u \in B : g[u] = f[u]
    BY <1>2, <1>3, <1>4, <1>7
  <2> QED
    BY <2>1, BatchesSame
<1>5. ASSUME t \in C, t \notin B
      PROVE  /\ IsFiniteSet(Batches(C, g))
             /\ Cardinality(Batches(C, g)) = Cardinality(Batches(B, f)) + g[t]
  <2>1. C = B \cup {t} /\ SameOn(B, f, g)
    BY <1>2, <1>3, <1>5 DEF SameOn
  <2> QED
    <3>1. /\ IsFiniteSet(Batches(B \cup {t}, g))
          /\ Cardinality(Batches(B \cup {t}, g)) = Cardinality(Batches(B, f)) + g[t]
      <4>1. SameOn(B, f, g)
        BY <2>1
      <4>2. Adds(B, f, g, t)
        BY <1>3, <1>5, <4>1, BatchesGain, Zenon
      <4> QED
        BY <4>2 DEF Adds
    <3> QED
      BY <2>1, <3>1, Zenon
<1>6. ASSUME t \in B, t \notin C
      PROVE  /\ IsFiniteSet(Batches(C, g))
             /\ Cardinality(Batches(C, g)) = Cardinality(Batches(B, f)) - f[t]
  <2>1. C = B \ {t} /\ SameOn(C, f, g)
    BY <1>2, <1>3, <1>6 DEF SameOn
  <2> QED
    <3>1. SameOn(B \ {t}, f, g)
      BY <2>1, Zenon
    <3>2. /\ IsFiniteSet(Batches(B \ {t}, g))
          /\ Cardinality(Batches(B \ {t}, g)) = Cardinality(Batches(B, f)) - f[t]
      BY <1>3, <1>6, <3>1, BatchesLose
    <3> QED
      BY <2>1, <3>2, Zenon
<1>8. IsFiniteSet(Batches(C, g))
  BY <1>3, <1>4, <1>5, <1>6, Zenon
<1>9. Cardinality(Batches(B, f)) \in Nat /\ Cardinality(Batches(C, g)) \in Nat
  BY <1>3, <1>8, FS_CardinalityType
<1>10. Taken = Batches(B, f) /\ Taken' = Batches(C, g)
  BY <1>1, TakenIs
<1> QED
  BY <1>1, <1>4, <1>5, <1>6, <1>8, <1>9, <1>10, Zenon

(***************************************************************************)
(* The books                                                               *)
(***************************************************************************)

\* The counters, and what they count.
Books ==
    /\ CountInv /\ TodoExact
    /\ nIdle \in Nat /\ nTotal \in Nat /\ nTodo \in Nat

\* Only t may forget its nNow, and not while it has a batch.
KeepsNow(t) ==
    /\ nNow' \in [Thread -> Nat]
    /\ \A u \in Thread \ {t} : nNow'[u] = nNow[u]
    /\ t \in Busy => nNow'[t] = nNow[t]

\* A step of t that changes no batch: the counters follow its move.
LEMMA BooksMove ==
  ASSUME QueueInv, queue' = queue, nTodo' = nTodo, NEW t \in Thread, NEW l,
         Moves(t, l), KeepsNow(t), t \in Busy <=> t \in Busy',
         nIdle' \in Nat, nTotal' \in Nat,
         \/ (t \in Active <=> t \in Active') /\ nTotal' - nIdle' = nTotal - nIdle
         \/ t \notin Active /\ t \in Active' /\ nTotal' - nIdle' = nTotal - nIdle + 1
         \/ t \in Active /\ t \notin Active' /\ nTotal' - nIdle' = nTotal - nIdle - 1,
         \/ (t \in Asleep <=> t \in Asleep') /\ nIdle' = nIdle
         \/ t \notin Asleep /\ t \in Asleep' /\ nIdle' = nIdle + 1
         \/ t \in Asleep /\ t \notin Asleep' /\ nIdle' >= nIdle - 1
  PROVE  Books'
<1>1. /\ CountInv /\ TodoExact /\ nNow \in [Thread -> Nat] /\ nNow' \in [Thread -> Nat]
      /\ nIdle \in Nat /\ nTotal \in Nat /\ nTodo \in Nat
  BY DEF QueueInv, TypeOK, KeepsNow
<1>2. /\ IsFiniteSet(Active') /\ IsFiniteSet(Asleep')
      /\ Cardinality(Active) \in Nat /\ Cardinality(Active') \in Nat
      /\ Cardinality(Asleep) \in Nat /\ Cardinality(Asleep') \in Nat
      /\ t \in Active /\ t \in Active' => Cardinality(Active') = Cardinality(Active)
      /\ t \notin Active /\ t \notin Active' => Cardinality(Active') = Cardinality(Active)
      /\ t \in Active' /\ t \notin Active => Cardinality(Active') = Cardinality(Active) + 1
      /\ t \in Active /\ t \notin Active' => Cardinality(Active') = Cardinality(Active) - 1
      /\ t \in Asleep /\ t \in Asleep' => Cardinality(Asleep') = Cardinality(Asleep)
      /\ t \notin Asleep /\ t \notin Asleep' => Cardinality(Asleep') = Cardinality(Asleep)
      /\ t \in Asleep' /\ t \notin Asleep => Cardinality(Asleep') = Cardinality(Asleep) + 1
      /\ t \in Asleep /\ t \notin Asleep' => Cardinality(Asleep') = Cardinality(Asleep) - 1
  BY <1>1, MoveCounts DEF KeepsNow
<1>3. Taken' = Taken /\ IsFiniteSet(Taken')
  BY <1>1, MoveTaken DEF KeepsNow
<1>4. nTotal = nIdle + Cardinality(Active) /\ Cardinality(Asleep) <= nIdle
  BY <1>1 DEF CountInv
<1>5. nTotal' = nIdle' + Cardinality(Active')
  BY <1>1, <1>2, <1>4
<1>6. Cardinality(Asleep') <= nIdle'
  BY <1>1, <1>2, <1>4
<1>7. TodoExact'
  BY <1>1, <1>3 DEF TodoExact
<1> QED
  BY <1>1, <1>2, <1>3, <1>5, <1>6, <1>7 DEF Books, CountInv

\* FinishBatch takes its batch off nTodo.
LEMMA BooksFinish ==
  ASSUME QueueInv, NEW t \in Thread, FinishBatch(t)
  PROVE  Books'
<1>1. /\ CountInv /\ TodoExact /\ nNow \in [Thread -> Nat] /\ nNow' = nNow
      /\ nIdle \in Nat /\ nTotal \in Nat /\ nTodo \in Nat
      /\ nIdle' = nIdle /\ nTotal' = nTotal /\ nTodo' = nTodo - nNow[t] /\ queue' = queue
      /\ queue \in Seq(BOOLEAN)
  BY DEF QueueInv, TypeOK, FinishBatch, local
<1>2. Moves(t, "test")
  BY FinishMoves DEF QueueInv
<1>3. pc[t] = "enter" /\ pc'[t] = "test" /\ nNow[t] > 0
  BY <1>2 DEF FinishBatch, Moves
<1>4. /\ t \in Active /\ t \in Active' /\ t \notin Asleep /\ t \notin Asleep'
      /\ t \in Busy /\ t \notin Busy'
  BY <1>1, <1>3 DEF Active, Asleep, Busy
<1>5. /\ IsFiniteSet(Active') /\ IsFiniteSet(Asleep')
      /\ Cardinality(Active') = Cardinality(Active) /\ Cardinality(Asleep') = Cardinality(Asleep)
  BY <1>1, <1>2, <1>4, MoveCounts
<1>6. /\ IsFiniteSet(Taken') /\ Cardinality(Taken) \in Nat /\ Cardinality(Taken') \in Nat
      /\ Cardinality(Taken') = Cardinality(Taken) - nNow[t]
  BY <1>1, <1>2, <1>4, MoveTaken
<1>7. CountInv'
  BY <1>1, <1>5, <1>6 DEF CountInv
<1>8. nTodo = Len(queue) + Cardinality(Taken) /\ Len(queue) \in Nat /\ nNow[t] \in Nat
  BY <1>1 DEF TodoExact
<1>9. nTodo' = Len(queue') + Cardinality(Taken')
  BY <1>1, <1>6, <1>8
<1>10. nTodo' \in Nat
  BY <1>1, <1>6, <1>8, <1>9
<1> QED
  BY <1>1, <1>7, <1>9, <1>10 DEF Books, TodoExact

\* TakeBatch moves checks from the queue to a batch.
LEMMA BooksTake ==
  ASSUME QueueInv, NEW t \in Thread, TakeBatch(t)
  PROVE  Books'
<1>1. /\ CountInv /\ TodoExact /\ nNow \in [Thread -> Nat]
      /\ nIdle \in Nat /\ nTotal \in Nat /\ nTodo \in Nat
      /\ nIdle' = nIdle /\ nTotal' = nTotal /\ nTodo' = nTodo /\ queue \in Seq(BOOLEAN)
  BY DEF QueueInv, TypeOK, TakeBatch, counters
<1>2. PICK n \in Nat : n >= 1 /\ nNow' = [nNow EXCEPT ![t] = n] /\ Len(queue') = Len(queue) - n
  BY TakeSplits DEF QueueInv
<1>3. Moves(t, "work")
  <2>1. "work" \in Labels
    BY DEF Labels
  <2> QED
    BY <2>1, GotoMoves DEF QueueInv, TakeBatch
<1>4. pc[t] = "test" /\ pc'[t] = "work"
  BY <1>3 DEF TakeBatch, Moves
<1>5. /\ nNow' \in [Thread -> Nat] /\ nNow'[t] = n
      /\ \A u \in Thread \ {t} : nNow'[u] = nNow[u]
  BY <1>1, <1>2
<1>6. /\ t \in Active /\ t \in Active' /\ t \notin Asleep /\ t \notin Asleep'
      /\ t \notin Busy /\ t \in Busy'
  BY <1>2, <1>4, <1>5 DEF Active, Asleep, Busy
<1>7. /\ IsFiniteSet(Active') /\ IsFiniteSet(Asleep')
      /\ Cardinality(Active') = Cardinality(Active) /\ Cardinality(Asleep') = Cardinality(Asleep)
  BY <1>1, <1>3, <1>5, <1>6, MoveCounts
<1>8. /\ IsFiniteSet(Taken') /\ Cardinality(Taken) \in Nat /\ Cardinality(Taken') \in Nat
      /\ Cardinality(Taken') = Cardinality(Taken) + n
  BY <1>1, <1>3, <1>5, <1>6, MoveTaken
<1>9. CountInv'
  BY <1>1, <1>7, <1>8 DEF CountInv
<1>10. nTodo = Len(queue) + Cardinality(Taken) /\ Len(queue) \in Nat
  BY <1>1 DEF TodoExact
<1>11. nTodo' = Len(queue') + Cardinality(Taken')
  BY <1>1, <1>2, <1>8, <1>10
<1> QED
  BY <1>1, <1>9, <1>11 DEF Books, TodoExact

\* Add counts its checks.
LEMMA BooksAdd ==
  ASSUME QueueInv, NEW s \in Seq(BOOLEAN), Add(s)
  PROVE  Books'
<1>1. /\ CountInv /\ TodoExact /\ nNow \in [Thread -> Nat] /\ nNow' = nNow
      /\ nIdle \in Nat /\ nTotal \in Nat /\ nTodo \in Nat /\ queue \in Seq(BOOLEAN)
      /\ nIdle' = nIdle /\ nTotal' = nTotal /\ nTodo' = nTodo + Len(s) /\ queue' = queue \o s
  BY DEF QueueInv, TypeOK, Add, local
<1>2. Moves(Master, "add") /\ Master \in Thread
  BY AddMoves, MasterIs DEF QueueInv
<1>3. pc[Master] = "add" /\ pc'[Master] = "add"
  BY <1>2 DEF Add, Moves
<1>4. /\ Master \notin Active /\ Master \notin Active' /\ Master \notin Asleep
      /\ Master \notin Asleep' /\ Master \notin Busy /\ Master \notin Busy'
  BY <1>3 DEF Active, Asleep, Busy
<1>5. /\ IsFiniteSet(Active') /\ IsFiniteSet(Asleep')
      /\ Cardinality(Active') = Cardinality(Active) /\ Cardinality(Asleep') = Cardinality(Asleep)
  BY <1>1, <1>2, <1>4, MoveCounts
<1>6. Taken' = Taken /\ IsFiniteSet(Taken') /\ Cardinality(Taken) \in Nat
  BY <1>1, <1>2, <1>4, MoveTaken
<1>7. CountInv'
  BY <1>1, <1>5, <1>6 DEF CountInv
<1>8. nTodo = Len(queue) + Cardinality(Taken) /\ Len(queue) \in Nat /\ Len(s) \in Nat
  BY <1>1 DEF TodoExact
<1>9. Len(queue') = Len(queue) + Len(s)
  BY <1>1
<1>10. nTodo' = Len(queue') + Cardinality(Taken') /\ nTodo' \in Nat
  BY <1>1, <1>6, <1>8, <1>9
<1> QED
  BY <1>1, <1>7, <1>10 DEF Books, TodoExact

\* The counters are right after every step.
LEMMA BooksStep == QueueInv /\ [Next]_vars => Books'
<1> SUFFICES ASSUME QueueInv, [Next]_vars PROVE Books'
  OBVIOUS
<1> USE MasterIs
<1>0. /\ TypeOK /\ LocalInv /\ nNow \in [Thread -> Nat]
      /\ nIdle \in Nat /\ nTotal \in Nat /\ nTodo \in Nat
  BY DEF QueueInv, TypeOK
<1>l. \A l \in {"out", "construct", "add", "enter", "test", "waiting", "woken", "work", "dead"} :
        l \in Labels
  BY DEF Labels
<1>n. \A t \in Thread : nNow' = nNow => KeepsNow(t)
  BY <1>0 DEF KeepsNow
<1>a. Cardinality(Active) \in Nat /\ Cardinality(Asleep) \in Nat
      /\ IsFiniteSet(Active) /\ IsFiniteSet(Asleep)
      /\ nTotal = nIdle + Cardinality(Active) /\ Cardinality(Asleep) <= nIdle
  BY FS_CardinalityType DEF QueueInv, CountInv
<1>1. ASSUME NEW t \in Thread, FirstIteration(t) PROVE Books'
  <2>1. Moves(t, "test")
    BY <1>0, <1>1, <1>l, GotoMoves DEF FirstIteration
  <2>2. /\ pc[t] = "enter" /\ pc'[t] = "test" /\ nNow[t] = 0 /\ nNow' = nNow /\ queue' = queue
        /\ nIdle' = nIdle /\ nTotal' = nTotal + 1 /\ nTodo' = nTodo
    BY <1>1, <2>1 DEF FirstIteration, Moves, local
  <2>3. /\ t \notin Active /\ t \in Active' /\ t \notin Asleep /\ t \notin Asleep'
        /\ t \notin Busy /\ t \notin Busy'
    BY <2>2 DEF Active, Asleep, Busy
  <2> QED
    BY <1>0, <1>n, <2>1, <2>2, <2>3, BooksMove
<1>2. ASSUME MasterReturns PROVE Books'
  <2>1. Moves(Master, "out")
    BY <1>0, <1>2, <1>l, GotoMoves DEF MasterReturns
  <2>2. /\ pc[Master] = "test" /\ pc'[Master] = "out" /\ queue' = queue
        /\ nNow' = [nNow EXCEPT ![Master] = 0]
        /\ nIdle' = nIdle /\ nTotal' = nTotal - 1 /\ nTodo' = nTodo
    BY <1>2, <2>1 DEF MasterReturns, Moves
  <2>3. /\ Master \in Active /\ Master \notin Active' /\ Master \notin Asleep
        /\ Master \notin Asleep' /\ Master \notin Busy /\ Master \notin Busy'
    BY <2>2 DEF Active, Asleep, Busy
  <2>4. KeepsNow(Master)
    BY <1>0, <2>2, <2>3 DEF KeepsNow
  <2>5. Cardinality(Active) > 0
    <3>1. Cardinality(Active) # 0
      BY <1>a, <2>3, FS_EmptySet
    <3> QED
      BY <1>a, <3>1
  <2>6. nTotal' \in Nat
    BY <1>0, <1>a, <2>2, <2>5
  <2> QED
    BY <1>0, <2>1, <2>2, <2>3, <2>4, <2>6, BooksMove
<1>3. ASSUME NEW t \in Thread, Sleep(t) PROVE Books'
  <2>1. Moves(t, "waiting")
    BY <1>0, <1>3, <1>l, GotoMoves DEF Sleep
  <2>2. /\ pc[t] = "test" /\ pc'[t] = "waiting" /\ nNow' = nNow /\ queue' = queue
        /\ nIdle' = nIdle + 1 /\ nTotal' = nTotal /\ nTodo' = nTodo
    BY <1>3, <2>1 DEF Sleep, Moves, local
  <2>3. /\ t \in Active /\ t \notin Active' /\ t \notin Asleep /\ t \in Asleep'
        /\ t \notin Busy /\ t \notin Busy'
    BY <2>2 DEF Active, Asleep, Busy
  <2> QED
    BY <1>0, <1>n, <2>1, <2>2, <2>3, BooksMove
<1>4. ASSUME NEW t \in Thread, Wake(t) PROVE Books'
  <2>1. Moves(t, "test")
    BY <1>0, <1>4, <1>l, GotoMoves DEF Wake
  <2>2. /\ pc[t] = "woken" /\ pc'[t] = "test" /\ nNow' = nNow /\ queue' = queue
        /\ nIdle' = nIdle - 1 /\ nTotal' = nTotal /\ nTodo' = nTodo
    BY <1>4, <2>1 DEF Wake, Moves, local
  <2>3. /\ t \notin Active /\ t \in Active' /\ t \in Asleep /\ t \notin Asleep'
        /\ t \notin Busy /\ t \notin Busy'
    BY <2>2 DEF Active, Asleep, Busy
  <2>4. Cardinality(Asleep) > 0
    <3>1. Cardinality(Asleep) # 0
      BY <1>a, <2>3, FS_EmptySet
    <3> QED
      BY <1>a, <3>1
  <2>5. nIdle' \in Nat
    BY <1>0, <1>a, <2>2, <2>4
  <2> QED
    BY <1>0, <1>n, <2>1, <2>2, <2>3, <2>5, BooksMove
<1>5. ASSUME NEW t \in Thread, SpuriousWakeup(t) PROVE Books'
  <2>1. Moves(t, "woken")
    BY <1>0, <1>5, <1>l, GotoMoves DEF SpuriousWakeup
  <2>2. /\ pc[t] = "waiting" /\ pc'[t] = "woken" /\ nNow' = nNow /\ queue' = queue
        /\ nIdle' = nIdle /\ nTotal' = nTotal /\ nTodo' = nTodo
    BY <1>5, <2>1 DEF SpuriousWakeup, Moves, local, counters
  <2>3. /\ t \notin Active /\ t \notin Active' /\ t \in Asleep /\ t \in Asleep'
        /\ t \notin Busy /\ t \notin Busy'
    BY <2>2 DEF Active, Asleep, Busy
  <2> QED
    BY <1>0, <1>n, <2>1, <2>2, <2>3, BooksMove
<1>6. ASSUME NEW t \in Thread, RunChecks(t) PROVE Books'
  <2>1. Moves(t, "enter")
    BY <1>0, <1>6, <1>l, GotoMoves DEF RunChecks
  <2>2. /\ pc[t] = "work" /\ pc'[t] = "enter" /\ nNow' = nNow /\ queue' = queue
        /\ nIdle' = nIdle /\ nTotal' = nTotal /\ nTodo' = nTodo /\ nNow[t] > 0
    BY <1>0, <1>6, <2>1 DEF RunChecks, Moves, counters, LocalInv
  <2>3. /\ t \in Active /\ t \in Active' /\ t \notin Asleep /\ t \notin Asleep'
        /\ t \in Busy /\ t \in Busy'
    BY <2>2 DEF Active, Asleep, Busy
  <2> QED
    BY <1>0, <1>n, <2>1, <2>2, <2>3, BooksMove
<1>7. ASSUME NEW l, Moves(Master, l), pc[Master] \in {"out", "construct", "add"},
             \/ l \in {"construct", "add"}
             \/ l = "enter" /\ nNow[Master] = 0,
             nNow' = nNow, queue' = queue, UNCHANGED counters
      PROVE  Books'
  <2>1. pc'[Master] = l /\ nIdle' = nIdle /\ nTotal' = nTotal /\ nTodo' = nTodo
    BY <1>7 DEF Moves, counters
  <2>2. /\ Master \notin Active /\ Master \notin Active' /\ Master \notin Asleep
        /\ Master \notin Asleep' /\ Master \notin Busy /\ Master \notin Busy'
    BY <1>7, <2>1 DEF Active, Asleep, Busy
  <2> QED
    BY <1>0, <1>7, <1>n, <2>1, <2>2, BooksMove
<1>8. ASSUME ConnectBlock PROVE Books'
  <2>1. Moves(Master, "construct")
    BY <1>0, <1>8, <1>l, GotoMoves DEF ConnectBlock
  <2> QED
    BY <1>7, <1>8, <2>1 DEF ConnectBlock, local
<1>9. ASSUME Construct PROVE Books'
  <2>1. Moves(Master, "add")
    BY <1>0, <1>9, <1>l, GotoMoves DEF Construct
  <2> QED
    BY <1>7, <1>9, <2>1 DEF Construct, local
<1>10. ASSUME Wait PROVE Books'
  <2>1. Moves(Master, "enter")
    BY <1>0, <1>10, <1>l, GotoMoves DEF Wait
  <2>2. nNow[Master] = 0
    BY <1>0, <1>10 DEF Wait, LocalInv
  <2> QED
    BY <1>7, <1>10, <2>1, <2>2 DEF Wait, local
<1>11. ASSUME NEW t \in Worker, WorkerInterrupted(t) PROVE Books'
  <2>1. Moves(t, "dead")
    BY <1>0, <1>11, <1>l, GotoMoves DEF WorkerInterrupted
  <2>2. /\ pc[t] \in {"waiting", "woken"} /\ pc'[t] = "dead" /\ nNow' = nNow /\ queue' = queue
        /\ nIdle' = nIdle /\ nTotal' = nTotal /\ nTodo' = nTodo
    BY <1>11, <2>1 DEF WorkerInterrupted, Moves, local, counters
  <2>3. /\ t \notin Active /\ t \notin Active' /\ t \in Asleep /\ t \notin Asleep'
        /\ t \notin Busy /\ t \notin Busy'
    BY <2>2 DEF Active, Asleep, Busy
  <2> QED
    BY <1>0, <1>n, <2>1, <2>2, <2>3, BooksMove
<1>12. ASSUME MasterInterrupted PROVE Books'
  <2>1. PICK l \in {"dead", "enter"} : Moves(Master, l)
    <3>1. PICK l \in {"dead", "enter"} : Goto(Master, l)
      BY <1>12 DEF MasterInterrupted
    <3> QED
      BY <1>0, <1>l, <3>1, GotoMoves
  <2>2. /\ pc[Master] \in {"waiting", "woken"} /\ pc'[Master] = l /\ queue' = queue
        /\ nNow' = [nNow EXCEPT ![Master] = 0]
        /\ nIdle' = nIdle /\ nTotal' = nTotal /\ nTodo' = nTodo
    BY <1>12, <2>1 DEF MasterInterrupted, Moves, counters
  <2>4. nNow'[Master] = 0
    BY <1>0, <2>2
  <2>3. /\ Master \notin Active /\ Master \notin Active' /\ Master \in Asleep
        /\ Master \notin Asleep' /\ Master \notin Busy /\ Master \notin Busy'
    BY <2>1, <2>2, <2>4 DEF Active, Asleep, Busy
  <2>5. KeepsNow(Master)
    BY <1>0, <2>2, <2>3 DEF KeepsNow
  <2> QED
    BY <1>0, <2>1, <2>2, <2>3, <2>5, BooksMove
<1>13. ASSUME UNCHANGED <<queue, counters, pc, nNow>> PROVE Books'
  <2>1. Active' = Active /\ Asleep' = Asleep /\ Taken' = Taken
    BY <1>13 DEF Active, Asleep, Taken, Busy
  <2> QED
    BY <1>13, <2>1 DEF QueueInv, Books, CountInv, TodoExact, TypeOK, counters
<1>14. ASSUME NEW s \in Batch(MaxChecks), Add(s) PROVE Books'
  <2>1. s \in Seq(BOOLEAN)
    BY DEF Batch
  <2> QED
    BY <1>14, <2>1, BooksAdd
<1>15. ASSUME NEW t \in Thread, LoopStep(t) PROVE Books'
  BY <1>15, <1>1, <1>3, <1>4, <1>6, BooksFinish, BooksTake DEF LoopStep
<1>16. CASE InterruptAll \/ UNCHANGED vars
  BY <1>13, <1>16 DEF InterruptAll, vars, local
<1> QED
  BY <1>2, <1>5, <1>8, <1>9, <1>10, <1>11, <1>12, <1>14, <1>15, <1>16 DEF Next, MasterStep

(***************************************************************************)
(* Types and places                                                        *)
(***************************************************************************)

\* A step of t to l that keeps what LocalInv says.
LEMMA LocalMove ==
  ASSUME LocalInv, NEW t \in Thread, NEW l, Moves(t, l),
         \/ mutex' = mutex /\ l # "test"
         \/ mutex = None /\ mutex' = t
         \/ pc[t] = "test" /\ l # "test",
         \A u \in Thread \ {t} : nNow'[u] = nNow[u] /\ vChecks'[u] = vChecks[u],
         l = "work" => nNow'[t] > 0,
         l # "work" => vChecks'[t] = <<>>,
         t = Master /\ l \in {"out", "construct", "add"} => nNow'[t] = 0,
         interrupted' # {} => stopping'
  PROVE  LocalInv'
<1>1. pc'[t] = l /\ \A u \in Thread \ {t} : pc'[u] = pc[u] \/ (pc[u] = "waiting" /\ pc'[u] = "woken")
  BY DEF Moves
<1>2. ASSUME NEW u \in Thread, pc'[u] = "test" PROVE mutex' = u
  <2>1. CASE u = t
    BY <1>1, <1>2, <2>1
  <2>2. CASE u # t
    <3>1. mutex = u
      BY <1>1, <1>2, <2>2 DEF LocalInv
    <3>2. mutex # None
      BY <3>1, MasterIs
    <3>3. ~ (pc[t] = "test")
      BY <2>2, <3>1 DEF LocalInv
    <3> QED
      BY <3>1, <3>2, <3>3
  <2> QED
    BY <2>1, <2>2
<1>3. ASSUME NEW u \in Thread PROVE /\ pc'[u] = "work" => nNow'[u] > 0
                                    /\ pc'[u] # "work" => vChecks'[u] = <<>>
  BY <1>1, <1>3 DEF LocalInv
<1>4. pc'[Master] \in {"out", "construct", "add"} => nNow'[Master] = 0
  BY <1>1, MasterIs DEF LocalInv
<1> QED
  BY <1>2, <1>3, <1>4 DEF LocalInv

\* Types and places after every step.
LEMMA LocalStep == QueueInv /\ [Next]_vars => TypeOK' /\ LocalInv'
<1> SUFFICES ASSUME QueueInv, [Next]_vars PROVE TypeOK' /\ LocalInv'
  OBVIOUS
<1> USE MasterIs
<1>0. /\ TypeOK /\ LocalInv /\ nNow \in [Thread -> Nat] /\ fOk \in [Thread -> BOOLEAN]
      /\ vChecks \in [Thread -> Seq(BOOLEAN)] /\ queue \in Seq(BOOLEAN)
      /\ mutex \in Thread \cup {None} /\ fAllOk \in BOOLEAN /\ interrupted \subseteq Thread
      /\ interrupted # {} => stopping
  BY DEF QueueInv, TypeOK, LocalInv
<1>b. nIdle' \in Nat /\ nTotal' \in Nat /\ nTodo' \in Nat
  BY BooksStep DEF Books
<1>l. \A l \in {"out", "construct", "add", "enter", "test", "waiting", "woken", "work", "dead"} :
        l \in Labels
  BY DEF Labels
<1>t. ASSUME NEW t \in Thread, NEW l, Moves(t, l),
             queue' \in Seq(BOOLEAN), fAllOk' \in BOOLEAN, mutex' \in Thread \cup {None},
             nNow' \in [Thread -> Nat], fOk' \in [Thread -> BOOLEAN],
             vChecks' \in [Thread -> Seq(BOOLEAN)], inDestructor' \in BOOLEAN,
             stopping' \in BOOLEAN, interrupted' \subseteq Thread, allGood' \in BOOLEAN,
             verdict' \in BOOLEAN
      PROVE  TypeOK'
  BY <1>b, <1>t DEF TypeOK, Moves, Labels
<1>1. ASSUME NEW t \in Thread, FinishBatch(t) PROVE TypeOK' /\ LocalInv'
  <2>1. Moves(t, "test")
    BY <1>0, <1>1, FinishMoves
  <2>2. /\ pc[t] = "enter" /\ mutex = None /\ mutex' = t /\ fAllOk' = (fAllOk /\ fOk[t])
        /\ UNCHANGED <<queue, nNow, fOk, vChecks, inDestructor, stopping, interrupted, allGood, verdict>>
    BY <1>1 DEF FinishBatch, local, shutdown, ghost
  <2>3. fAllOk' \in BOOLEAN
    BY <2>2
  <2>4. TypeOK'
    BY <1>0, <1>t, <2>1, <2>2, <2>3 DEF TypeOK
  <2>5. LocalInv'
    BY <1>0, <2>1, <2>2, LocalMove DEF LocalInv
  <2> QED
    BY <2>4, <2>5
<1>2. ASSUME NEW t \in Thread, FirstIteration(t) \/ Wake(t) PROVE TypeOK' /\ LocalInv'
  <2>1. Moves(t, "test")
    BY <1>0, <1>2, <1>l, GotoMoves DEF FirstIteration, Wake
  <2>2. /\ pc[t] \in {"enter", "woken"} /\ mutex = None /\ mutex' = t
        /\ UNCHANGED <<queue, fAllOk, nNow, fOk, vChecks, inDestructor, stopping, interrupted, allGood, verdict>>
    BY <1>2 DEF FirstIteration, Wake, local, shutdown, ghost
  <2>4. TypeOK'
    BY <1>0, <1>t, <2>1, <2>2 DEF TypeOK
  <2>5. LocalInv'
    BY <1>0, <2>1, <2>2, LocalMove DEF LocalInv
  <2> QED
    BY <2>4, <2>5
<1>3. ASSUME MasterReturns PROVE TypeOK' /\ LocalInv'
  <2>1. Moves(Master, "out")
    BY <1>0, <1>3, <1>l, GotoMoves DEF MasterReturns
  <2>2. /\ pc[Master] = "test" /\ mutex' = None /\ verdict' = fAllOk /\ fAllOk' = TRUE
        /\ nNow' = [nNow EXCEPT ![Master] = 0]
        /\ UNCHANGED <<queue, fOk, vChecks, inDestructor, stopping, interrupted, allGood>>
    BY <1>3 DEF MasterReturns, shutdown
  <2>3. /\ nNow' \in [Thread -> Nat] /\ nNow'[Master] = 0
        /\ \A u \in Thread \ {Master} : nNow'[u] = nNow[u]
    BY <1>0, <2>2
  <2>4. TypeOK'
    BY <1>0, <1>t, <2>1, <2>2, <2>3 DEF TypeOK
  <2>5. LocalInv'
    BY <1>0, <2>1, <2>2, <2>3, LocalMove DEF LocalInv
  <2> QED
    BY <2>4, <2>5
<1>4. ASSUME NEW t \in Thread, Sleep(t) PROVE TypeOK' /\ LocalInv'
  <2>1. Moves(t, "waiting")
    BY <1>0, <1>4, <1>l, GotoMoves DEF Sleep
  <2>2. /\ pc[t] = "test" /\ mutex' = None
        /\ UNCHANGED <<queue, fAllOk, nNow, fOk, vChecks, inDestructor, stopping, interrupted, allGood, verdict>>
    BY <1>4 DEF Sleep, local, shutdown, ghost
  <2>4. TypeOK'
    BY <1>0, <1>t, <2>1, <2>2 DEF TypeOK
  <2>5. LocalInv'
    BY <1>0, <2>1, <2>2, LocalMove DEF LocalInv
  <2> QED
    BY <2>4, <2>5
<1>5. ASSUME NEW t \in Thread, TakeBatch(t) PROVE TypeOK' /\ LocalInv'
  <2>1. Moves(t, "work")
    BY <1>0, <1>5, <1>l, GotoMoves DEF TakeBatch
  <2>2. /\ pc[t] = "test" /\ mutex' = None /\ fOk' = [fOk EXCEPT ![t] = fAllOk]
        /\ UNCHANGED <<fAllOk, inDestructor, stopping, interrupted, allGood, verdict>>
        /\ vChecks' = [vChecks EXCEPT ![t] = vChecks'[t]]
    BY <1>0, <1>5 DEF TakeBatch, counters, shutdown, ghost
  <2>3. PICK n \in Nat : /\ n >= 1 /\ nNow' = [nNow EXCEPT ![t] = n]
                         /\ queue' \in Seq(BOOLEAN) /\ vChecks'[t] \in Seq(BOOLEAN)
    BY <1>0, <1>5, TakeSplits
  <2>6. /\ nNow' \in [Thread -> Nat] /\ nNow'[t] > 0
        /\ \A u \in Thread \ {t} : nNow'[u] = nNow[u]
    BY <1>0, <2>3
  <2>7. /\ vChecks' \in [Thread -> Seq(BOOLEAN)]
        /\ \A u \in Thread \ {t} : vChecks'[u] = vChecks[u]
    BY <1>0, <2>2, <2>3
  <2>8. fOk' \in [Thread -> BOOLEAN]
    BY <1>0, <2>2
  <2>4. TypeOK'
    BY <1>0, <1>t, <2>1, <2>2, <2>3, <2>6, <2>7, <2>8 DEF TypeOK
  <2>5. LocalInv'
    BY <1>0, <2>1, <2>2, <2>6, <2>7, LocalMove DEF LocalInv
  <2> QED
    BY <2>4, <2>5
<1>6. ASSUME NEW t \in Thread, RunChecks(t) PROVE TypeOK' /\ LocalInv'
  <2>1. Moves(t, "enter")
    BY <1>0, <1>6, <1>l, GotoMoves DEF RunChecks
  <2>2. /\ fOk' = [fOk EXCEPT ![t] = fOk[t] /\ AllGood(vChecks[t])]
        /\ vChecks' = [vChecks EXCEPT ![t] = <<>>]
        /\ UNCHANGED <<queue, fAllOk, mutex, nNow, inDestructor, stopping, interrupted, allGood, verdict>>
    BY <1>6 DEF RunChecks, counters, shutdown, ghost
  <2>3. /\ vChecks' \in [Thread -> Seq(BOOLEAN)] /\ vChecks'[t] = <<>>
        /\ \A u \in Thread \ {t} : vChecks'[u] = vChecks[u]
    <3>1. <<>> \in Seq(BOOLEAN)
      OBVIOUS
    <3> QED
      BY <1>0, <2>2, <3>1
  <2>6. fOk' \in [Thread -> BOOLEAN]
    <3>1. (fOk[t] /\ AllGood(vChecks[t])) \in BOOLEAN
      OBVIOUS
    <3> QED
      BY <1>0, <2>2, <3>1
  <2>4. TypeOK'
    BY <1>0, <1>t, <2>1, <2>2, <2>3, <2>6 DEF TypeOK
  <2>5. LocalInv'
    BY <1>0, <2>1, <2>2, <2>3, LocalMove DEF LocalInv
  <2> QED
    BY <2>4, <2>5
<1>7. ASSUME NEW t \in Thread, NEW l \in {"construct", "add", "enter", "woken"}, Moves(t, l),
             pc[t] \in {"out", "construct", "add", "waiting"}, l = "construct" => pc[t] = "out",
             l = "add" => pc[t] = "construct",
             UNCHANGED <<queue, fAllOk, mutex, nNow, fOk, vChecks, stopping, interrupted, verdict>>,
             allGood' \in BOOLEAN, inDestructor' \in BOOLEAN
      PROVE  TypeOK' /\ LocalInv'
  <2>1. TypeOK'
    BY <1>0, <1>7, <1>t DEF TypeOK
  <2>2. /\ l # "test" /\ l # "work" /\ vChecks'[t] = <<>>
        /\ t = Master /\ l \in {"construct", "add"} => nNow'[t] = 0 /\ l # "out"
    BY <1>0, <1>7 DEF LocalInv
  <2>3. LocalInv'
    BY <1>0, <1>7, <2>2, LocalMove
  <2> QED
    BY <2>1, <2>3
<1>8. ASSUME ConnectBlock PROVE TypeOK' /\ LocalInv'
  <2>1. Moves(Master, "construct")
    BY <1>0, <1>8, <1>l, GotoMoves DEF ConnectBlock
  <2> QED
    BY <1>0, <1>7, <1>8, <2>1 DEF ConnectBlock, counters, local, shutdown, TypeOK
<1>9. ASSUME Construct PROVE TypeOK' /\ LocalInv'
  <2>1. Moves(Master, "add")
    BY <1>0, <1>9, <1>l, GotoMoves DEF Construct
  <2> QED
    BY <1>0, <1>7, <1>9, <2>1 DEF Construct, counters, local, shutdown, TypeOK
<1>10. ASSUME Wait PROVE TypeOK' /\ LocalInv'
  <2>1. Moves(Master, "enter")
    BY <1>0, <1>10, <1>l, GotoMoves DEF Wait
  <2> QED
    BY <1>0, <1>7, <1>10, <2>1 DEF Wait, counters, local, shutdown, ghost, TypeOK
<1>11. ASSUME NEW t \in Thread, SpuriousWakeup(t) PROVE TypeOK' /\ LocalInv'
  <2>1. Moves(t, "woken")
    BY <1>0, <1>11, <1>l, GotoMoves DEF SpuriousWakeup
  <2> QED
    BY <1>0, <1>7, <1>11, <2>1 DEF SpuriousWakeup, counters, local, shutdown, TypeOK
<1>12. ASSUME NEW s \in Batch(MaxChecks), Add(s) PROVE TypeOK' /\ LocalInv'
  <2>1. Moves(Master, "add")
    BY <1>0, <1>12, AddMoves
  <2>2. /\ pc[Master] = "add" /\ queue' = queue \o s /\ allGood' = (allGood /\ AllGood(s))
        /\ UNCHANGED <<fAllOk, mutex, nNow, fOk, vChecks, inDestructor, stopping, interrupted, verdict>>
    BY <1>12 DEF Add, local, shutdown
  <2>3. queue' \in Seq(BOOLEAN)
    <3>1. s \in Seq(BOOLEAN)
      BY DEF Batch
    <3> QED
      BY <1>0, <2>2, <3>1
  <2>6. allGood' \in BOOLEAN
    BY <2>2
  <2>4. TypeOK'
    BY <1>0, <1>t, <2>1, <2>2, <2>3, <2>6 DEF TypeOK
  <2>5. LocalInv'
    BY <1>0, <2>1, <2>2, LocalMove DEF LocalInv
  <2> QED
    BY <2>4, <2>5
<1>13. ASSUME NEW t \in Worker, WorkerInterrupted(t) PROVE TypeOK' /\ LocalInv'
  <2>1. Moves(t, "dead")
    BY <1>0, <1>13, <1>l, GotoMoves DEF WorkerInterrupted
  <2>2. /\ pc[t] \in {"waiting", "woken"} /\ interrupted' = interrupted \ {t}
        /\ UNCHANGED <<queue, fAllOk, mutex, nNow, fOk, vChecks, inDestructor, stopping, allGood, verdict>>
    BY <1>13 DEF WorkerInterrupted, counters, local, ghost
  <2>4. TypeOK'
    BY <1>0, <1>t, <2>1, <2>2 DEF TypeOK
  <2>5. LocalInv'
    BY <1>0, <2>1, <2>2, LocalMove DEF LocalInv
  <2> QED
    BY <2>4, <2>5
<1>14. ASSUME MasterInterrupted PROVE TypeOK' /\ LocalInv'
  <2>1. PICK l \in {"dead", "enter"} : Moves(Master, l)
    <3>1. PICK l \in {"dead", "enter"} : Goto(Master, l)
      BY <1>14 DEF MasterInterrupted
    <3> QED
      BY <1>0, <1>l, <3>1, GotoMoves
  <2>2. /\ pc[Master] \in {"waiting", "woken"} /\ interrupted' = interrupted \ {Master}
        /\ nNow' = [nNow EXCEPT ![Master] = 0] /\ inDestructor' = TRUE
        /\ UNCHANGED <<queue, fAllOk, mutex, fOk, vChecks, stopping, allGood, verdict>>
    BY <1>14 DEF MasterInterrupted, counters, ghost
  <2>3. nNow' \in [Thread -> Nat] /\ \A u \in Thread \ {Master} : nNow'[u] = nNow[u]
    BY <1>0, <2>2
  <2>4. TypeOK'
    BY <1>0, <1>t, <2>1, <2>2, <2>3 DEF TypeOK
  <2>5. LocalInv'
    BY <1>0, <2>1, <2>2, <2>3, LocalMove DEF LocalInv
  <2> QED
    BY <2>4, <2>5
<1>15. CASE InterruptAll
  <2>1. /\ stopping' = TRUE /\ interrupted' = Thread
        /\ UNCHANGED <<queue, counters, mutex, pc, nNow, fOk, vChecks, inDestructor, allGood, verdict>>
    BY <1>15 DEF InterruptAll, local, ghost
  <2> QED
    BY <1>0, <2>1 DEF TypeOK, LocalInv, counters
<1>16. CASE UNCHANGED vars
  BY <1>0, <1>16 DEF TypeOK, LocalInv, vars, counters, local, shutdown, ghost
<1>17. ASSUME NEW t \in Thread, LoopStep(t) PROVE TypeOK' /\ LocalInv'
  BY <1>17, <1>1, <1>2, <1>4, <1>5, <1>6 DEF LoopStep
<1> QED
  BY <1>3, <1>8, <1>9, <1>10, <1>11, <1>12, <1>13, <1>14, <1>15, <1>16, <1>17 DEF Next, MasterStep

(***************************************************************************)
(* Failures                                                                *)
(***************************************************************************)

\* A failure is recorded, or still to be executed.
Bad ==
    \/ ~fAllOk
    \/ \E i \in 1 .. Len(queue) : ~queue[i]
    \/ \E t \in Busy : ~fOk[t] \/ ~AllGood(vChecks[t])

\* FailureKept and NoFalseAlarm say when.
LEMMA BadIs ==
  /\ FailureKept <=> (pc[Master] \notin {"out", "construct", "dead"} /\ ~allGood => Bad)
  /\ NoFalseAlarm <=> (allGood => ~Bad)
  /\ FailureKept' <=> (pc'[Master] \notin {"out", "construct", "dead"} /\ ~allGood' => Bad')
  /\ NoFalseAlarm' <=> (allGood' => ~Bad')
BY DEF FailureKept, NoFalseAlarm, Bad

\* When nothing is to do, nobody has a batch.
LEMMA NothingTaken ==
  ASSUME QueueInv, nTodo = 0
  PROVE  Busy = {} /\ queue = <<>>
<1>1. /\ nTodo = Len(queue) + Cardinality(Taken) /\ queue \in Seq(BOOLEAN)
      /\ IsFiniteSet(Taken) /\ nNow \in [Thread -> Nat]
  BY DEF QueueInv, TodoExact, CountInv, TypeOK
<1>2. Cardinality(Taken) \in Nat /\ Len(queue) \in Nat
  BY <1>1, FS_CardinalityType
<1>3. Len(queue) = 0 /\ Cardinality(Taken) = 0
  BY <1>1, <1>2
<1>4. Taken = {}
  BY <1>1, <1>3, FS_EmptySet
<1>5. ASSUME NEW t \in Busy PROVE FALSE
  <2>1. nNow[t] \in Nat /\ nNow[t] > 0
    BY <1>1 DEF Busy
  <2>2. <<t, 1>> \in {t} \X (1 .. nNow[t])
    BY <2>1
  <2>3. <<t, 1>> \in Taken
    BY <2>2 DEF Taken
  <2> QED
    BY <1>4, <2>3
<1> QED
  BY <1>1, <1>3, <1>5

\* A step that keeps the batches and the results keeps the failures.
LEMMA BadSame ==
  ASSUME queue' = queue, fAllOk' = fAllOk, Busy' = Busy, fOk' = fOk, vChecks' = vChecks
  PROVE  Bad' <=> Bad
BY DEF Bad, AllGood

\* So does the step of a thread without a batch.
LEMMA BadMove ==
  ASSUME NEW t \in Thread, NEW l, Moves(t, l), \A u \in Thread \ {t} : nNow'[u] = nNow[u],
         t \notin Busy, t \notin Busy',
         queue' = queue, fAllOk' = fAllOk, fOk' = fOk, vChecks' = vChecks
  PROVE  Bad' <=> Bad
<1>1. Busy' \ {t} = Busy \ {t}
  BY OthersStay
<1>2. Busy' = Busy
  BY <1>1
<1> QED
  BY <1>2, BadSame

\* FinishBatch records the result of its batch.
LEMMA BadFinish ==
  ASSUME QueueInv, NEW t \in Thread, FinishBatch(t)
  PROVE  Bad' <=> Bad
<1>1. /\ pc[t] = "enter" /\ nNow[t] > 0 /\ fAllOk' = (fAllOk /\ fOk[t])
      /\ UNCHANGED <<queue, nNow, fOk, vChecks>>
  BY DEF FinishBatch, local
<1>2. Moves(t, "test")
  BY FinishMoves DEF QueueInv
<1>3. t \in Busy /\ t \notin Busy' /\ Busy' \ {t} = Busy \ {t}
  <2>1. Busy' \ {t} = Busy \ {t}
    BY <1>1, <1>2, OthersStay
  <2>2. t \in Busy /\ t \notin Busy'
    BY <1>1, <1>2 DEF Busy, Moves
  <2> QED
    BY <2>1, <2>2
<1>4. vChecks[t] = <<>>
  BY <1>1 DEF QueueInv, LocalInv
<1>5. AllGood(vChecks[t])
  BY <1>4 DEF AllGood
<1>6. \A u \in Busy' : u \in Busy /\ u # t
  BY <1>3
<1>7. \A u \in Busy : u # t => u \in Busy'
  BY <1>3
<1> QED
  BY <1>1, <1>3, <1>5, <1>6, <1>7 DEF Bad, AllGood

\* TakeBatch takes them along, in the batch or in fOk.
LEMMA BadTake ==
  ASSUME QueueInv, NEW t \in Thread, TakeBatch(t)
  PROVE  Bad' <=> Bad
<1>1. /\ pc[t] = "test" /\ fAllOk' = fAllOk /\ fOk' = [fOk EXCEPT ![t] = fAllOk]
      /\ fOk \in [Thread -> BOOLEAN] /\ vChecks \in [Thread -> Seq(BOOLEAN)]
      /\ queue \in Seq(BOOLEAN) /\ nNow \in [Thread -> Nat]
      /\ \A u \in Thread \ {t} : vChecks'[u] = vChecks[u] /\ fOk'[u] = fOk[u]
      /\ fOk'[t] = fAllOk
  BY DEF TakeBatch, counters, QueueInv, TypeOK
<1>2. PICK n \in Nat :
        /\ n >= 1 /\ n <= Len(queue) /\ nNow' = [nNow EXCEPT ![t] = n]
        /\ Len(queue') = Len(queue) - n /\ Len(vChecks'[t]) = n
        /\ \A i \in 1 .. Len(queue) - n : queue'[i] = queue[i]
        /\ \A i \in 1 .. n : vChecks'[t][i] = queue[Len(queue) - n + i]
  BY TakeSplits DEF QueueInv
<1>3. Moves(t, "work")
  <2>1. "work" \in Labels
    BY DEF Labels
  <2> QED
    BY <2>1, GotoMoves DEF QueueInv, TakeBatch
<1>4. \A u \in Thread \ {t} : nNow'[u] = nNow[u]
  BY <1>1, <1>2
<1>5. Busy' \ {t} = Busy \ {t}
  BY <1>3, <1>4, OthersStay
<1>6. t \notin Busy /\ t \in Busy' /\ Busy \subseteq Thread
  BY <1>1, <1>2, <1>3 DEF Busy, Moves
<1>7. Len(queue) \in Nat
  BY <1>1
<1>8. ASSUME NEW i \in 1 .. Len(queue), ~queue[i]
      PROVE  (\E j \in 1 .. Len(queue') : ~queue'[j]) \/ ~AllGood(vChecks'[t])
  <2>1. CASE i <= Len(queue) - n
    <3>1. i \in 1 .. Len(queue')
      BY <1>2, <1>7, <2>1
    <3>2. i \in 1 .. Len(queue) - n
      BY <1>7, <2>1
    <3>3. ~queue'[i]
      BY <1>2, <1>8, <3>2
    <3> QED
      BY <3>1, <3>3
  <2>2. CASE ~(i <= Len(queue) - n)
    <3> DEFINE j == i - (Len(queue) - n)
    <3>1. j \in 1 .. n /\ Len(queue) - n + j = i
      BY <1>7, <2>2
    <3> HIDE DEF j
    <3>2. vChecks'[t][j] = queue[Len(queue) - n + j]
      BY <1>2, <3>1
    <3>3. ~vChecks'[t][j]
      BY <1>8, <3>1, <3>2
    <3>4. j \in 1 .. Len(vChecks'[t])
      BY <1>2, <3>1
    <3> QED
      BY <3>3, <3>4 DEF AllGood
  <2> QED
    BY <2>1, <2>2
<1>9. ASSUME NEW j \in 1 .. Len(queue'), ~queue'[j] PROVE \E i \in 1 .. Len(queue) : ~queue[i]
  <2>1. j \in 1 .. Len(queue) /\ j \in 1 .. Len(queue) - n
    BY <1>2, <1>7
  <2>2. ~queue[j]
    BY <1>2, <1>9, <2>1
  <2> QED
    BY <2>1, <2>2
<1>10. ASSUME ~AllGood(vChecks'[t]) PROVE \E i \in 1 .. Len(queue) : ~queue[i]
  <2>1. PICK j \in 1 .. n : ~vChecks'[t][j]
    BY <1>2, <1>10 DEF AllGood
  <2>2. Len(queue) - n + j \in 1 .. Len(queue)
    BY <1>2, <1>7
  <2>3. ~queue[Len(queue) - n + j]
    BY <1>2, <2>1
  <2> QED
    BY <2>2, <2>3
<1>11. ASSUME NEW u \in Busy, ~fOk[u] \/ ~AllGood(vChecks[u])
       PROVE  u \in Busy' /\ (~fOk'[u] \/ ~AllGood(vChecks'[u]))
  <2>1. u \in Thread \ {t} /\ u \in Busy'
    BY <1>5, <1>6
  <2>2. fOk'[u] = fOk[u] /\ vChecks'[u] = vChecks[u]
    BY <1>1, <2>1
  <2> QED
    BY <1>11, <2>1, <2>2
<1>12. ASSUME NEW u \in Busy', ~fOk'[u] \/ ~AllGood(vChecks'[u]), u # t
       PROVE  u \in Busy /\ (~fOk[u] \/ ~AllGood(vChecks[u]))
  <2>1. u \in Thread \ {t} /\ u \in Busy
    BY <1>5, <1>6, <1>12
  <2>2. fOk'[u] = fOk[u] /\ vChecks'[u] = vChecks[u]
    BY <1>1, <2>1
  <2> QED
    BY <1>12, <2>1, <2>2
<1>13. ASSUME Bad PROVE Bad'
  <2>1. CASE ~fAllOk
    BY <1>1, <2>1 DEF Bad
  <2>2. CASE \E i \in 1 .. Len(queue) : ~queue[i]
    BY <1>6, <1>8, <2>2 DEF Bad, AllGood
  <2>3. CASE \E u \in Busy : ~fOk[u] \/ ~AllGood(vChecks[u])
    BY <1>11, <2>3 DEF Bad, AllGood
  <2> QED
    BY <1>13, <2>1, <2>2, <2>3 DEF Bad
<1>14. ASSUME Bad' PROVE Bad
  <2>1. CASE ~fAllOk'
    BY <1>1, <2>1 DEF Bad
  <2>2. CASE \E i \in 1 .. Len(queue') : ~queue'[i]
    BY <1>9, <2>2 DEF Bad
  <2>3. ASSUME NEW u \in Busy', ~fOk'[u] \/ ~AllGood(vChecks'[u]) PROVE Bad
    <3>1. CASE u = t
      BY <1>1, <1>10, <2>3, <3>1 DEF Bad
    <3>2. CASE u # t
      BY <1>12, <2>3, <3>2 DEF Bad
    <3> QED
      BY <3>1, <3>2
  <2> QED
    BY <1>14, <2>1, <2>2, <2>3 DEF Bad, AllGood
<1> QED
  BY <1>13, <1>14

\* RunChecks moves the outcome of a batch to fOk.
LEMMA BadRun ==
  ASSUME QueueInv, NEW t \in Thread, RunChecks(t)
  PROVE  Bad' <=> Bad
<1>1. /\ pc[t] = "work" /\ UNCHANGED <<queue, fAllOk, nNow>>
      /\ fOk' = [fOk EXCEPT ![t] = fOk[t] /\ AllGood(vChecks[t])]
      /\ vChecks' = [vChecks EXCEPT ![t] = <<>>]
      /\ fOk \in [Thread -> BOOLEAN] /\ vChecks \in [Thread -> Seq(BOOLEAN)]
  BY DEF RunChecks, counters, QueueInv, TypeOK
<1>2. /\ \A u \in Thread \ {t} : vChecks'[u] = vChecks[u] /\ fOk'[u] = fOk[u]
      /\ (fOk'[t] <=> fOk[t] /\ AllGood(vChecks[t])) /\ vChecks'[t] = <<>>
  BY <1>1
<1>3. AllGood(vChecks'[t])
  BY <1>2 DEF AllGood
<1>4. Moves(t, "enter")
  <2>1. "enter" \in Labels
    BY DEF Labels
  <2> QED
    BY <2>1, GotoMoves DEF QueueInv, RunChecks
<1>5. nNow[t] > 0
  BY <1>1 DEF QueueInv, LocalInv
<1>6. t \in Busy /\ t \in Busy' /\ Busy' \ {t} = Busy \ {t}
  <2>1. Busy' \ {t} = Busy \ {t}
    BY <1>1, <1>4, OthersStay
  <2>2. t \in Busy /\ t \in Busy'
    BY <1>1, <1>4, <1>5 DEF Busy, Moves
  <2> QED
    BY <2>1, <2>2
<1>7. Busy' = Busy /\ Busy \subseteq Thread
  BY <1>6 DEF Busy
<1>8. ASSUME NEW u \in Busy
      PROVE  (~fOk'[u] \/ ~AllGood(vChecks'[u])) <=> (~fOk[u] \/ ~AllGood(vChecks[u]))
  <2>1. CASE u = t
    BY <1>2, <1>3, <2>1
  <2>2. CASE u # t
    <3>1. u \in Thread \ {t}
      BY <1>7, <2>2
    <3>2. fOk'[u] = fOk[u] /\ vChecks'[u] = vChecks[u]
      BY <1>2, <3>1
    <3> QED
      BY <3>2
  <2> QED
    BY <2>1, <2>2
<1>9. (\E u \in Busy' : ~fOk'[u] \/ ~AllGood(vChecks'[u]))
        <=> (\E u \in Busy : ~fOk[u] \/ ~AllGood(vChecks[u]))
  BY <1>7, <1>8
<1> QED
  BY <1>1, <1>9 DEF Bad, AllGood

\* Add brings new ones.
LEMMA BadAdd ==
  ASSUME QueueInv, NEW s \in Batch(MaxChecks), Add(s)
  PROVE  Bad' <=> Bad \/ ~AllGood(s)
<1>1. /\ pc[Master] = "add" /\ queue' = queue \o s /\ queue \in Seq(BOOLEAN)
      /\ UNCHANGED <<fAllOk, nNow, fOk, vChecks>>
  BY DEF Add, local, QueueInv, TypeOK
<1>2. s \in Seq(BOOLEAN)
  BY DEF Batch
<1>3. /\ Len(queue) \in Nat /\ Len(s) \in Nat /\ Len(queue') = Len(queue) + Len(s)
      /\ \A i \in 1 .. Len(queue) : queue'[i] = queue[i]
      /\ \A i \in 1 .. Len(s) : queue'[Len(queue) + i] = s[i]
  BY <1>1, <1>2
<1>4. Busy' = Busy
  <2>1. Moves(Master, "add")
    BY AddMoves DEF QueueInv
  <2>2. Busy' \ {Master} = Busy \ {Master}
    BY <1>1, <2>1, MasterIs, OthersStay
  <2>3. Master \notin Busy /\ Master \notin Busy'
    BY <1>1, <2>1 DEF Busy, Moves
  <2> QED
    BY <2>2, <2>3
<1>5. ASSUME NEW i \in 1 .. Len(queue), ~queue[i] PROVE i \in 1 .. Len(queue') /\ ~queue'[i]
  BY <1>3, <1>5
<1>6. ASSUME NEW i \in 1 .. Len(s), ~s[i]
      PROVE  Len(queue) + i \in 1 .. Len(queue') /\ ~queue'[Len(queue) + i]
  <2>1. Len(queue) + i \in 1 .. Len(queue')
    BY <1>3
  <2>2. queue'[Len(queue) + i] = s[i]
    BY <1>3
  <2> QED
    BY <1>6, <2>1, <2>2
<1>7. ASSUME NEW j \in 1 .. Len(queue'), ~queue'[j]
      PROVE  (\E i \in 1 .. Len(queue) : ~queue[i]) \/ (\E i \in 1 .. Len(s) : ~s[i])
  <2>1. CASE j <= Len(queue)
    <3>1. j \in 1 .. Len(queue)
      BY <1>3, <2>1
    <3> QED
      BY <1>3, <1>7, <3>1
  <2>2. CASE ~(j <= Len(queue))
    <3> DEFINE i == j - Len(queue)
    <3>1. i \in 1 .. Len(s) /\ Len(queue) + i = j
      BY <1>3, <2>2
    <3> HIDE DEF i
    <3>2. queue'[Len(queue) + i] = s[i]
      BY <1>3, <3>1
    <3> QED
      BY <1>7, <3>1, <3>2
  <2> QED
    BY <2>1, <2>2
<1>8. (\E j \in 1 .. Len(queue') : ~queue'[j])
        <=> (\E i \in 1 .. Len(queue) : ~queue[i]) \/ (\E i \in 1 .. Len(s) : ~s[i])
  BY <1>5, <1>6, <1>7, Zenon
<1> HIDE DEF AllGood
<1>9. Bad' <=> ~fAllOk \/ (\E j \in 1 .. Len(queue') : ~queue'[j])
                 \/ (\E u \in Busy : ~fOk[u] \/ ~AllGood(vChecks[u]))
  BY <1>1, <1>4 DEF Bad, AllGood
<1>10. ~AllGood(s) <=> \E i \in 1 .. Len(s) : ~s[i]
  BY DEF AllGood
<1> QED
  BY <1>8, <1>9, <1>10 DEF Bad

\* A step that keeps the failures and allGood keeps FailureKept and NoFalseAlarm.
LEMMA KeptSame ==
  ASSUME QueueInv, Bad' <=> Bad, allGood' = allGood,
         pc'[Master] \notin {"out", "construct", "dead"}
            => pc[Master] \notin {"out", "construct", "dead"}
  PROVE  FailureKept' /\ NoFalseAlarm'
<1>1. FailureKept /\ NoFalseAlarm
  BY DEF QueueInv
<1> HIDE DEF Bad, FailureKept, NoFalseAlarm
<1> QED
  BY <1>1, BadIs

\* So does the step of a thread that neither has a batch nor gets one.
LEMMA KeptMove ==
  ASSUME QueueInv, NEW t \in Thread, NEW l, Moves(t, l),
         \A u \in Thread \ {t} : nNow'[u] = nNow[u],
         pc[t] \notin {"work", "enter"} \/ nNow[t] = 0, l \notin {"work", "enter"} \/ nNow'[t] = 0,
         t = Master /\ pc[t] \in {"out", "construct", "dead"} => l \in {"out", "construct", "dead"},
         queue' = queue, fAllOk' = fAllOk, fOk' = fOk, vChecks' = vChecks, allGood' = allGood
  PROVE  FailureKept' /\ NoFalseAlarm'
<1>1. t \notin Busy /\ t \notin Busy'
  BY DEF Busy, Moves
<1>2. Bad' <=> Bad
  BY <1>1, BadMove
<1>3. pc'[Master] \notin {"out", "construct", "dead"} => pc[Master] \notin {"out", "construct", "dead"}
  BY MasterIs DEF Moves
<1> QED
  BY <1>2, <1>3, KeptSame

\* No step forgets a failure or makes one up.
LEMMA KeptStep == QueueInv /\ [Next]_vars => FailureKept' /\ NoFalseAlarm'
<1> SUFFICES ASSUME QueueInv, [Next]_vars PROVE FailureKept' /\ NoFalseAlarm'
  OBVIOUS
<1>0. /\ TypeOK /\ LocalInv /\ BlockInv /\ Master \in Thread /\ Worker \subseteq Thread
      /\ Master \notin Worker
  BY MasterIs, CheckQueueAssumption DEF QueueInv
<1>l. \A l \in {"out", "construct", "add", "enter", "test", "waiting", "woken", "work", "dead"} :
        l \in Labels
  BY DEF Labels
<1>1. ASSUME NEW t \in Thread, FinishBatch(t) PROVE FailureKept' /\ NoFalseAlarm'
  <2>1. Bad' <=> Bad
    BY <1>1, BadFinish
  <2>2. Moves(t, "test") /\ pc[t] = "enter" /\ allGood' = allGood
    BY <1>0, <1>1, FinishMoves DEF FinishBatch, ghost
  <2>3. pc'[Master] \notin {"out", "construct", "dead"} => pc[Master] \notin {"out", "construct", "dead"}
    BY <1>0, <2>2 DEF Moves
  <2> QED
    BY <2>1, <2>2, <2>3, KeptSame
<1>2. ASSUME NEW t \in Thread, FirstIteration(t) \/ Wake(t) PROVE FailureKept' /\ NoFalseAlarm'
  <2>1. Moves(t, "test")
    BY <1>0, <1>2, <1>l, GotoMoves DEF FirstIteration, Wake
  <2>2. /\ pc[t] = "woken" \/ (pc[t] = "enter" /\ nNow[t] = 0)
        /\ UNCHANGED <<queue, fAllOk, nNow, fOk, vChecks, allGood>>
    BY <1>2 DEF FirstIteration, Wake, local, ghost
  <2> QED
    BY <2>1, <2>2, KeptMove
<1>3. ASSUME MasterReturns PROVE FailureKept' /\ NoFalseAlarm'
  <2>1. Moves(Master, "out")
    BY <1>0, <1>3, <1>l, GotoMoves DEF MasterReturns
  <2>2. /\ pc[Master] = "test" /\ queue = <<>> /\ queue' = queue /\ nTodo = 0 /\ fAllOk' = TRUE
        /\ nNow' = [nNow EXCEPT ![Master] = 0] /\ nNow \in [Thread -> Nat]
    BY <1>0, <1>3 DEF MasterReturns, TypeOK
  <2>3. Busy = {}
    BY <2>2, NothingTaken
  <2>4. \A u \in Thread \ {Master} : nNow'[u] = nNow[u]
    BY <2>2
  <2>5. Busy' \ {Master} = Busy \ {Master}
    BY <1>0, <2>1, <2>4, OthersStay
  <2>6. Master \notin Busy' /\ pc'[Master] = "out"
    BY <2>1 DEF Busy, Moves
  <2>7. Busy' = {}
    BY <2>3, <2>5, <2>6
  <2>8. Len(queue') = 0
    BY <2>2
  <2>9. ~Bad'
    BY <2>2, <2>7, <2>8 DEF Bad
  <2> QED
    BY <2>6, <2>9, BadIs
<1>4. ASSUME NEW t \in Thread, Sleep(t) PROVE FailureKept' /\ NoFalseAlarm'
  <2>1. Moves(t, "waiting")
    BY <1>0, <1>4, <1>l, GotoMoves DEF Sleep
  <2>2. pc[t] = "test" /\ UNCHANGED <<queue, fAllOk, nNow, fOk, vChecks, allGood>>
    BY <1>4 DEF Sleep, local, ghost
  <2> QED
    BY <2>1, <2>2, KeptMove
<1>5. ASSUME NEW t \in Thread, TakeBatch(t) PROVE FailureKept' /\ NoFalseAlarm'
  <2>1. Bad' <=> Bad
    BY <1>5, BadTake
  <2>2. Moves(t, "work") /\ pc[t] = "test" /\ allGood' = allGood
    BY <1>0, <1>5, <1>l, GotoMoves DEF TakeBatch, ghost
  <2>3. pc'[Master] \notin {"out", "construct", "dead"} => pc[Master] \notin {"out", "construct", "dead"}
    BY <1>0, <2>2 DEF Moves
  <2> QED
    BY <2>1, <2>2, <2>3, KeptSame
<1>6. ASSUME NEW t \in Thread, RunChecks(t) PROVE FailureKept' /\ NoFalseAlarm'
  <2>1. Bad' <=> Bad
    BY <1>6, BadRun
  <2>2. Moves(t, "enter") /\ pc[t] = "work" /\ allGood' = allGood
    BY <1>0, <1>6, <1>l, GotoMoves DEF RunChecks, ghost
  <2>3. pc'[Master] \notin {"out", "construct", "dead"} => pc[Master] \notin {"out", "construct", "dead"}
    BY <1>0, <2>2 DEF Moves
  <2> QED
    BY <2>1, <2>2, <2>3, KeptSame
<1>7. ASSUME ConnectBlock PROVE FailureKept' /\ NoFalseAlarm'
  <2>1. Moves(Master, "construct")
    BY <1>0, <1>7, <1>l, GotoMoves DEF ConnectBlock
  <2>2. pc[Master] = "out" /\ UNCHANGED <<queue, fAllOk, nNow, fOk, vChecks, allGood>>
    BY <1>7 DEF ConnectBlock, counters, local
  <2> QED
    BY <1>0, <2>1, <2>2, KeptMove
<1>8. ASSUME Construct PROVE FailureKept' /\ NoFalseAlarm'
  <2>1. Moves(Master, "add")
    BY <1>0, <1>8, <1>l, GotoMoves DEF Construct
  <2>2. /\ pc[Master] = "construct" /\ allGood' = TRUE
        /\ UNCHANGED <<queue, nTodo, fAllOk, nNow, fOk, vChecks>>
    BY <1>8 DEF Construct, counters, local
  <2>3. fAllOk /\ queue = <<>> /\ nTodo = 0
    BY <1>0, <2>2 DEF BlockInv
  <2>4. Busy = {}
    BY <2>3, NothingTaken
  <2>5. Len(queue) = 0
    BY <2>3
  <2>6. ~Bad
    BY <2>3, <2>4, <2>5 DEF Bad
  <2>7. Master \notin Busy /\ Master \notin Busy'
    BY <2>1, <2>2 DEF Busy, Moves
  <2>8. Bad' <=> Bad
    BY <1>0, <2>1, <2>2, <2>7, BadMove
  <2> QED
    BY <2>2, <2>6, <2>8, BadIs
<1>9. ASSUME Wait PROVE FailureKept' /\ NoFalseAlarm'
  <2>1. Moves(Master, "enter")
    BY <1>0, <1>9, <1>l, GotoMoves DEF Wait
  <2>2. pc[Master] = "add" /\ UNCHANGED <<queue, fAllOk, nNow, fOk, vChecks, allGood>>
    BY <1>9 DEF Wait, counters, local, ghost
  <2>3. nNow'[Master] = 0
    BY <1>0, <2>2 DEF LocalInv
  <2> QED
    BY <1>0, <2>1, <2>2, <2>3, KeptMove
<1>10. ASSUME NEW t \in Thread, SpuriousWakeup(t) PROVE FailureKept' /\ NoFalseAlarm'
  <2>1. Moves(t, "woken")
    BY <1>0, <1>10, <1>l, GotoMoves DEF SpuriousWakeup
  <2>2. pc[t] = "waiting" /\ UNCHANGED <<queue, fAllOk, nNow, fOk, vChecks, allGood>>
    BY <1>10 DEF SpuriousWakeup, counters, local
  <2> QED
    BY <2>1, <2>2, KeptMove
<1>11. ASSUME NEW s \in Batch(MaxChecks), Add(s) PROVE FailureKept' /\ NoFalseAlarm'
  <2>1. pc[Master] = "add" /\ (allGood' <=> allGood /\ AllGood(s))
    BY <1>11 DEF Add
  <2>2. Bad' <=> Bad \/ ~AllGood(s)
    BY <1>11, BadAdd
  <2>3. FailureKept /\ NoFalseAlarm
    BY DEF QueueInv
  <2>4. (~allGood => Bad) /\ (allGood => ~Bad)
    BY <2>1, <2>3, BadIs
  <2>5. (~allGood' => Bad') /\ (allGood' => ~Bad')
    BY <2>1, <2>2, <2>4
  <2> QED
    BY <2>5, BadIs
<1>12. ASSUME NEW t \in Worker, WorkerInterrupted(t) PROVE FailureKept' /\ NoFalseAlarm'
  <2>1. Moves(t, "dead")
    BY <1>0, <1>12, <1>l, GotoMoves DEF WorkerInterrupted
  <2>2. pc[t] \in {"waiting", "woken"} /\ UNCHANGED <<queue, fAllOk, nNow, fOk, vChecks, allGood>>
    BY <1>12 DEF WorkerInterrupted, counters, local, ghost
  <2> QED
    BY <1>0, <2>1, <2>2, KeptMove
<1>13. ASSUME MasterInterrupted PROVE FailureKept' /\ NoFalseAlarm'
  <2>1. PICK l \in {"dead", "enter"} : Moves(Master, l)
    <3>1. PICK l \in {"dead", "enter"} : Goto(Master, l)
      BY <1>13 DEF MasterInterrupted
    <3> QED
      BY <1>0, <1>l, <3>1, GotoMoves
  <2>2. /\ pc[Master] \in {"waiting", "woken"} /\ nNow' = [nNow EXCEPT ![Master] = 0]
        /\ UNCHANGED <<queue, fAllOk, fOk, vChecks, allGood>>
    BY <1>13 DEF MasterInterrupted, counters, ghost
  <2>3. nNow'[Master] = 0 /\ \A u \in Thread \ {Master} : nNow'[u] = nNow[u]
    BY <1>0, <2>2 DEF TypeOK
  <2> QED
    BY <1>0, <2>1, <2>2, <2>3, KeptMove
<1>14. CASE InterruptAll
  <2>1. UNCHANGED <<queue, fAllOk, pc, nNow, fOk, vChecks, allGood>>
    BY <1>14 DEF InterruptAll, counters, local, ghost
  <2> QED
    BY <2>1, BadSame, KeptSame DEF Busy
<1>15. CASE UNCHANGED vars
  <2>1. UNCHANGED <<queue, fAllOk, pc, nNow, fOk, vChecks, allGood>>
    BY <1>15 DEF vars, counters, local, ghost
  <2> QED
    BY <2>1, BadSame, KeptSame DEF Busy
<1>16. ASSUME NEW t \in Thread, LoopStep(t) PROVE FailureKept' /\ NoFalseAlarm'
  BY <1>16, <1>1, <1>2, <1>4, <1>5, <1>6 DEF LoopStep
<1> QED
  BY <1>0, <1>3, <1>7, <1>8, <1>9, <1>10, <1>11, <1>12, <1>13, <1>14, <1>15, <1>16
     DEF Next, MasterStep

(***************************************************************************)
(* Between two blocks                                                      *)
(***************************************************************************)

\* A step that leaves the queue and the result alone, and does not end a block.
LEMMA BlockMove ==
  ASSUME BlockInv, queue' = queue, nTodo' = nTodo, fAllOk' = fAllOk,
         pc'[Master] \in {"out", "construct"} => pc[Master] \in {"out", "construct"}
  PROVE  BlockInv'
BY DEF BlockInv

\* No worker disturbs the queue between two blocks, since none has a batch then.
LEMMA BlockStep == QueueInv /\ [Next]_vars => BlockInv'
<1> SUFFICES ASSUME QueueInv, [Next]_vars PROVE BlockInv'
  OBVIOUS
<1>0. /\ TypeOK /\ LocalInv /\ BlockInv /\ Master \in Thread /\ Worker \subseteq Thread
      /\ Master \notin Worker /\ pc \in [Thread -> Labels]
  BY MasterIs, CheckQueueAssumption DEF QueueInv, TypeOK, Labels
<1>l. \A l \in {"out", "construct", "add", "enter", "test", "waiting", "woken", "work", "dead"} :
        l \in Labels
  BY DEF Labels
<1>m. ASSUME NEW t \in Thread, NEW l \in Labels, Moves(t, l),
             pc'[Master] \in {"out", "construct"},
             t = Master => l \notin {"out", "construct"}
      PROVE  t # Master /\ pc[Master] \in {"out", "construct"}
  BY <1>0, <1>m DEF Moves
<1>1. ASSUME NEW t \in Thread, FinishBatch(t) PROVE BlockInv'
  <2>1. Moves(t, "test") /\ pc[t] = "enter" /\ nNow[t] > 0
    BY <1>0, <1>1, FinishMoves DEF FinishBatch
  <2>2. ASSUME pc'[Master] \in {"out", "construct"} PROVE FALSE
    <3>1. pc[Master] \in {"out", "construct"}
      BY <1>l, <1>m, <2>1, <2>2
    <3>2. nTodo = 0
      BY <1>0, <3>1 DEF BlockInv
    <3>3. Busy = {}
      BY <3>2, NothingTaken
    <3> QED
      BY <2>1, <3>3 DEF Busy
  <2> QED
    BY <2>2 DEF BlockInv
<1>2. ASSUME NEW t \in Thread, TakeBatch(t) PROVE BlockInv'
  <2>1. Moves(t, "work") /\ queue # <<>>
    BY <1>0, <1>2, <1>l, GotoMoves DEF TakeBatch
  <2>2. ASSUME pc'[Master] \in {"out", "construct"} PROVE FALSE
    <3>1. pc[Master] \in {"out", "construct"}
      BY <1>l, <1>m, <2>1, <2>2
    <3> QED
      BY <1>0, <2>1, <3>1 DEF BlockInv
  <2> QED
    BY <2>2 DEF BlockInv
<1>3. CASE MasterReturns
  BY <1>3 DEF MasterReturns, BlockInv
<1>4. ASSUME NEW s \in Batch(MaxChecks), Add(s) PROVE BlockInv'
  <2>1. pc'[Master] = "add"
    BY <1>0, <1>4, AddMoves DEF Moves
  <2> QED
    BY <2>1 DEF BlockInv
<1>5. ASSUME NEW t \in Thread, FirstIteration(t) \/ Sleep(t) \/ Wake(t) \/ SpuriousWakeup(t)
      PROVE  BlockInv'
  <2>1. PICK l \in Labels : Goto(t, l) /\ l \notin {"out", "construct"}
    BY <1>5, <1>l DEF FirstIteration, Sleep, Wake, SpuriousWakeup
  <2>2. Moves(t, l)
    BY <1>0, <2>1, GotoMoves
  <2>3. UNCHANGED <<queue, nTodo, fAllOk>>
    BY <1>5 DEF FirstIteration, Sleep, Wake, SpuriousWakeup, counters
  <2> QED
    BY <1>0, <1>m, <2>1, <2>2, <2>3, BlockMove
<1>6. ASSUME NEW t \in Thread, RunChecks(t) \/ (t \in Worker /\ WorkerInterrupted(t))
      PROVE  BlockInv'
  <2>1. PICK l \in Labels : Goto(t, l) /\ l \notin {"out", "construct"}
    BY <1>6, <1>l DEF RunChecks, WorkerInterrupted
  <2>2. Moves(t, l)
    BY <1>0, <2>1, GotoMoves
  <2>3. UNCHANGED <<queue, nTodo, fAllOk>>
    BY <1>6 DEF RunChecks, WorkerInterrupted, counters
  <2> QED
    BY <1>0, <1>m, <2>1, <2>2, <2>3, BlockMove
<1>7. CASE ConnectBlock
  <2>1. pc[Master] = "out" /\ UNCHANGED <<queue, nTodo, fAllOk>>
    BY <1>7 DEF ConnectBlock, counters
  <2> QED
    BY <1>0, <2>1, BlockMove
<1>8. CASE Construct \/ Wait \/ MasterInterrupted
  <2>1. PICK l \in Labels : Goto(Master, l) /\ l \notin {"out", "construct"}
    BY <1>8, <1>l DEF Construct, Wait, MasterInterrupted
  <2>2. Moves(Master, l)
    BY <1>0, <2>1, GotoMoves
  <2>3. UNCHANGED <<queue, nTodo, fAllOk>>
    BY <1>8 DEF Construct, Wait, MasterInterrupted, counters
  <2> QED
    BY <1>0, <1>m, <2>1, <2>2, <2>3, BlockMove
<1>9. CASE InterruptAll \/ UNCHANGED vars
  <2>1. UNCHANGED <<pc, queue, nTodo, fAllOk>>
    BY <1>9 DEF InterruptAll, vars, counters
  <2> QED
    BY <1>0, <2>1, BlockMove
<1>10. ASSUME NEW t \in Thread, LoopStep(t) PROVE BlockInv'
  BY <1>10, <1>1, <1>2, <1>5, <1>6 DEF LoopStep
<1> QED
  BY <1>0, <1>3, <1>4, <1>5, <1>6, <1>7, <1>8, <1>9, <1>10 DEF Next, MasterStep

(***************************************************************************)
(* The theorems                                                            *)
(***************************************************************************)

\* At the start no thread counts and there is no check.
LEMMA QueueInit == Init => QueueInv
<1> SUFFICES ASSUME Init PROVE QueueInv
  OBVIOUS
<1>1. Master \in Thread
  BY MasterIs
<1>2. /\ pc[Master] = "out" /\ \A t \in Thread : pc[t] \in {"out", "enter"}
      /\ \A t \in Thread : nNow[t] = 0 /\ vChecks[t] = <<>> /\ fOk[t] = TRUE
  BY <1>1 DEF Init
<1>3. Active = {} /\ Asleep = {} /\ Busy = {}
  BY <1>2 DEF Active, Asleep, Busy
<1>4. Taken = {}
  BY <1>3 DEF Taken
<1>5. IsFiniteSet({}) /\ Cardinality({}) = 0
  BY FS_EmptySet
<1>6. /\ queue = <<>> /\ nIdle = 0 /\ nTotal = 0 /\ nTodo = 0 /\ fAllOk = TRUE
      /\ mutex = None /\ interrupted = {} /\ allGood = TRUE
  BY DEF Init
<1>7. TypeOK
  <2>1. <<>> \in Seq(BOOLEAN)
    OBVIOUS
  <2>2. /\ nNow \in [Thread -> Nat] /\ fOk \in [Thread -> BOOLEAN]
        /\ vChecks \in [Thread -> Seq(BOOLEAN)]
    BY <2>1 DEF Init
  <2>3. pc \in [Thread -> Labels]
    BY DEF Init, Labels
  <2> QED
    BY <2>1, <2>2, <2>3 DEF Init, TypeOK, Labels
<1>8. LocalInv
  <2>1. \A t \in Thread : pc[t] # "test" /\ pc[t] # "work" /\ vChecks[t] = <<>>
    BY <1>2
  <2>2. nNow[Master] = 0
    BY <1>1, <1>2
  <2>3. ~(interrupted # {})
    BY <1>6
  <2> QED
    BY <2>1, <2>2, <2>3 DEF LocalInv
<1>9. CountInv
  BY <1>3, <1>4, <1>5, <1>6 DEF CountInv
<1>10. TodoExact
  BY <1>4, <1>5, <1>6 DEF TodoExact
<1>11. BlockInv
  BY <1>6 DEF BlockInv
<1>12. FailureKept /\ NoFalseAlarm
  <2>1. Len(queue) = 0
    BY <1>6
  <2>2. ~Bad
    BY <1>3, <1>6, <2>1 DEF Bad
  <2> QED
    BY <1>6, <2>2, BadIs
<1> QED
  BY <1>7, <1>8, <1>9, <1>10, <1>11, <1>12 DEF QueueInv

\* The books of the queue stay right in every step of every thread
\* (CCheckQueue::Loop, Add, Wait and the interruptions).
THEOREM QueueInvariant == Spec => []QueueInv
<1>1. QueueInv /\ [Next]_vars => QueueInv'
  BY BooksStep, LocalStep, BlockStep, KeptStep DEF QueueInv, Books
<1> QED
  BY <1>1, QueueInit, PTL DEF Spec

\* Between two blocks, when nobody is in the critical section, no thread counts
\* as busy: the condition that the constructor of CCheckQueueControl asserts.
LEMMA UnusedThen == QueueInv => UnusedBetweenBlocks
<1> SUFFICES ASSUME QueueInv, pc[Master] \in {"out", "construct"}, mutex = None
             PROVE  nTotal = nIdle /\ nTodo = 0 /\ fAllOk /\ queue = <<>>
  BY DEF UnusedBetweenBlocks
<1>1. queue = <<>> /\ nTodo = 0 /\ fAllOk
  BY DEF QueueInv, BlockInv
<1>2. Busy = {}
  BY <1>1, NothingTaken
<1>3. \A t \in Thread : pc[t] # "test" /\ (pc[t] = "work" => nNow[t] > 0)
  BY MasterIs DEF QueueInv, LocalInv
<1>4. Active = {}
  BY <1>2, <1>3 DEF Active, Busy
<1>5. nTotal = nIdle + 0 /\ nIdle \in Nat
  BY <1>4, FS_EmptySet DEF QueueInv, CountInv, TypeOK
<1> QED
  BY <1>1, <1>5

\* For any number of script-check threads: nTodo counts exactly the checks in
\* the queue and in the batches, no failure is forgotten while ConnectBlock
\* waits, and one block leaves nothing behind for the next.
THEOREM AccountingCorrect == Spec => []Accounting
<1>1. QueueInv => Accounting
  BY UnusedThen DEF QueueInv, Accounting
<1> QED
  BY <1>1, QueueInvariant, PTL

(***************************************************************************)
(* The refinement                                                          *)
(***************************************************************************)

\* The promise is made with no control object in use.
LEMMA PromiseInit == Init => Promise!Init
<1> SUFFICES ASSUME Init PROVE Promise!Init
  OBVIOUS
<1>1. pc[Master] = "out"
  BY MasterIs DEF Init
<1> QED
  BY <1>1 DEF Init, Promise!Init

\* A step in which the master neither opens nor closes a control object, and
\* that leaves allGood, the verdict and stopping alone, keeps the promise.
LEMMA PromiseStutters ==
  ASSUME UNCHANGED <<allGood, verdict, stopping>>,
         pc'[Master] \in {"out", "construct", "dead"} <=> pc[Master] \in {"out", "construct", "dead"}
  PROVE  UNCHANGED Promise!vars
BY DEF Promise!vars

\* Every step of the queue is a step of the promise, or changes nothing of it.
LEMMA PromiseStep == QueueInv /\ [Next]_vars => [Promise!Next]_(Promise!vars)
<1> SUFFICES ASSUME QueueInv, [Next]_vars PROVE Promise!Next \/ UNCHANGED Promise!vars
  OBVIOUS
<1> DEFINE Closed == {"out", "construct", "dead"}
<1>0. /\ TypeOK /\ LocalInv /\ BlockInv /\ Master \in Thread /\ Worker \subseteq Thread
      /\ Master \notin Worker /\ pc \in [Thread -> Labels]
  BY MasterIs, CheckQueueAssumption DEF QueueInv, TypeOK, Labels
<1>l. \A l \in {"out", "construct", "add", "enter", "test", "waiting", "woken", "work", "dead"} :
        l \in Labels
  BY DEF Labels
<1>m. ASSUME NEW t \in Thread, NEW l \in Labels, Moves(t, l),
             UNCHANGED <<allGood, verdict, stopping>>,
             t = Master => (pc[t] \in Closed <=> l \in Closed)
      PROVE  UNCHANGED Promise!vars
  <2>1. pc'[Master] \in Closed <=> pc[Master] \in Closed
    BY <1>0, <1>m DEF Moves
  <2> QED
    BY <1>m, <2>1, PromiseStutters
<1>1. ASSUME NEW t \in Thread, LoopStep(t) PROVE UNCHANGED Promise!vars
  <2>1. UNCHANGED <<allGood, verdict, stopping>>
    BY <1>1 DEF LoopStep, FinishBatch, FirstIteration, Sleep, Wake, TakeBatch, RunChecks,
                shutdown, ghost
  <2>2. pc[t] \notin Closed
    BY <1>1 DEF LoopStep, FinishBatch, FirstIteration, Sleep, Wake, TakeBatch, RunChecks
  <2>3. PICK l \in Labels \ Closed : Moves(t, l)
    <3>1. CASE FinishBatch(t)
      BY <1>0, <1>l, <3>1, FinishMoves
    <3>2. CASE ~FinishBatch(t)
      <4>1. PICK l \in {"test", "waiting", "work", "enter"} : Goto(t, l)
        BY <1>1, <3>2 DEF LoopStep, FirstIteration, Sleep, Wake, TakeBatch, RunChecks
      <4>2. l \in Labels \ Closed
        BY <1>l
      <4> QED
        BY <1>0, <4>1, <4>2, GotoMoves
    <3> QED
      BY <3>1, <3>2
  <2> QED
    BY <1>m, <2>1, <2>2, <2>3
<1>2. ASSUME MasterReturns PROVE Promise!Next
  <2>1. /\ pc[Master] = "test" /\ queue = <<>> /\ nTodo = 0 /\ verdict' = fAllOk
        /\ UNCHANGED <<allGood, stopping>>
    BY <1>2 DEF MasterReturns, shutdown
  <2>2. pc'[Master] = "out"
    BY <1>0, <1>2 DEF MasterReturns, Goto
  <2>3. Busy = {}
    BY <2>1, NothingTaken
  <2>4. Len(queue) = 0
    BY <2>1
  <2>5. Bad <=> ~fAllOk
    BY <2>3, <2>4 DEF Bad
  <2>6. (~allGood => Bad) /\ (allGood => ~Bad)
    BY <2>1, BadIs DEF QueueInv
  <2>7. fAllOk = allGood
    BY <1>0, <2>5, <2>6 DEF TypeOK
  <2>8. Promise!Return
    BY <2>1, <2>2, <2>7 DEF Promise!Return
  <2> QED
    BY <2>8 DEF Promise!Next
<1>3. ASSUME Construct PROVE Promise!Next
  <2>1. /\ pc[Master] = "construct" /\ allGood' = TRUE /\ UNCHANGED <<verdict, stopping>>
    BY <1>3 DEF Construct, shutdown
  <2>2. pc'[Master] = "add"
    BY <1>0, <1>3 DEF Construct, Goto
  <2>3. Promise!Construct
    BY <2>1, <2>2 DEF Promise!Construct
  <2> QED
    BY <2>3 DEF Promise!Next
<1>4. ASSUME NEW s \in Batch(MaxChecks), Add(s) PROVE Promise!Next
  <2>1. /\ pc[Master] = "add" /\ allGood' = (allGood /\ AllGood(s))
        /\ UNCHANGED <<verdict, stopping>>
    BY <1>4 DEF Add, shutdown
  <2>2. pc'[Master] = "add"
    BY <1>0, <1>4, AddMoves DEF Moves
  <2>3. allGood' \in {allGood, FALSE}
    BY <1>0, <2>1 DEF TypeOK
  <2>4. Promise!Add
    BY <2>1, <2>2, <2>3 DEF Promise!Add
  <2> QED
    BY <2>4 DEF Promise!Next
<1>5. ASSUME InterruptAll PROVE Promise!Next
  <2>1. ~stopping /\ stopping' = TRUE /\ UNCHANGED <<pc, allGood, verdict>>
    BY <1>5 DEF InterruptAll, ghost
  <2>2. Promise!Stop
    BY <2>1 DEF Promise!Stop
  <2> QED
    BY <2>2 DEF Promise!Next
<1>6. ASSUME MasterInterrupted PROVE Promise!Next \/ UNCHANGED Promise!vars
  <2>1. /\ Master \in interrupted /\ pc[Master] \in {"waiting", "woken"}
        /\ UNCHANGED <<allGood, verdict, stopping>>
    BY <1>6 DEF MasterInterrupted, ghost
  <2>2. stopping
    BY <1>0, <2>1 DEF LocalInv
  <2>3. pc'[Master] \in {"dead", "enter"}
    BY <1>0, <1>6 DEF MasterInterrupted, Goto
  <2>4. CASE pc'[Master] = "dead"
    <3>1. Promise!Abandon
      BY <2>1, <2>2, <2>4 DEF Promise!Abandon
    <3> QED
      BY <3>1 DEF Promise!Next
  <2>5. CASE pc'[Master] = "enter"
    BY <2>1, <2>5, PromiseStutters
  <2> QED
    BY <2>3, <2>4, <2>5
<1>7. ASSUME ConnectBlock PROVE UNCHANGED Promise!vars
  <2>1. pc[Master] = "out" /\ UNCHANGED <<allGood, verdict, stopping>>
    BY <1>7 DEF ConnectBlock, shutdown
  <2>2. pc'[Master] = "construct"
    BY <1>0, <1>7 DEF ConnectBlock, Goto
  <2> QED
    BY <2>1, <2>2, PromiseStutters
<1>8. ASSUME Wait PROVE UNCHANGED Promise!vars
  <2>1. pc[Master] = "add" /\ UNCHANGED <<allGood, verdict, stopping>>
    BY <1>8 DEF Wait, shutdown, ghost
  <2>2. pc'[Master] = "enter"
    BY <1>0, <1>8 DEF Wait, Goto
  <2> QED
    BY <2>1, <2>2, PromiseStutters
<1>9. ASSUME NEW t \in Thread, SpuriousWakeup(t) PROVE UNCHANGED Promise!vars
  <2>1. pc[t] = "waiting" /\ Moves(t, "woken") /\ UNCHANGED <<allGood, verdict, stopping>>
    BY <1>0, <1>9, <1>l, GotoMoves DEF SpuriousWakeup, shutdown
  <2> QED
    BY <1>l, <1>m, <2>1
<1>10. ASSUME NEW t \in Worker, WorkerInterrupted(t) PROVE UNCHANGED Promise!vars
  <2>1. Moves(t, "dead") /\ t # Master /\ UNCHANGED <<allGood, verdict, stopping>>
    BY <1>0, <1>10, <1>l, GotoMoves DEF WorkerInterrupted, ghost
  <2> QED
    BY <1>0, <1>l, <1>m, <2>1
<1>11. CASE UNCHANGED vars
  <2>1. UNCHANGED <<pc, allGood, verdict, stopping>>
    BY <1>11 DEF vars, shutdown, ghost
  <2> QED
    BY <2>1, PromiseStutters
<1> QED
  BY <1>0, <1>1, <1>2, <1>3, <1>4, <1>5, <1>6, <1>7, <1>8, <1>9, <1>10, <1>11 DEF Next, MasterStep

\* CCheckQueue keeps the safety half of what it promises ConnectBlock, for any
\* number of threads and under every interruption: Wait returns the
\* conjunction of all the checks that were added, and ends without a verdict
\* only while the node is shut down.
THEOREM VerdictIsRight == Spec => Promise!Safety
<1> QED
  BY PromiseInit, PromiseStep, QueueInvariant, PTL DEF Spec, Promise!Safety

=============================================================================

------------------------------ MODULE CheckQueue ------------------------------
(***************************************************************************)
(* CCheckQueue and CCheckQueueControl (checkqueue.h): the pool of threads  *)
(* that ConnectBlock uses to verify scripts in parallel.                   *)
(*                                                                         *)
(* The master is the thread in ConnectBlock, the others run                *)
(* ThreadScriptCheck.  A critical section is one step where nobody can see *)
(* inside; the constructor of CCheckQueueControl reads without the mutex,  *)
(* so the section of Loop is split between its changes of nTotal and nIdle *)
(* and the mutex is explicit.  A check is represented by its outcome.      *)
(***************************************************************************)
EXTENDS Integers, Sequences, FiniteSets

CONSTANTS
    Worker,        \* the threads in ThreadScriptCheck
    Master,        \* the thread in ConnectBlock
    nBatchSize,    \* most checks in one batch of a worker
    MaxBlocks,     \* bound on the blocks connected
    MaxChecks,     \* bound on the checks of one block
    MaxFailing,    \* bound on the failing checks of one block
    MaxSpurious,   \* bound on spurious wake-ups
    Interruptible  \* whether the node may be shut down meanwhile

Thread == Worker \cup {Master}
None == "none"

ASSUME CheckQueueAssumption ==
    /\ Master \notin Worker /\ None \notin Thread
    /\ nBatchSize \in Nat \ {0}
    /\ MaxBlocks \in Nat /\ MaxChecks \in Nat /\ MaxSpurious \in Nat /\ MaxFailing \in Nat
    /\ Interruptible \in BOOLEAN

VARIABLES
    queue,          \* outcomes of the checks not yet taken, used as a stack
    nIdle, nTotal, fAllOk, nTodo,
    mutex,          \* the thread in the critical section, or None
    pc,             \* where each thread is
    nNow, fOk,      \* local variables of Loop
    vChecks,        \* the batch of each thread
    inDestructor,   \* Wait was called by ~CCheckQueueControl
    stopping,       \* the thread group was interrupted
    interrupted,    \* threads with a pending interruption
    allGood,        \* every check added for this block succeeds
    verdict,        \* what the last Wait returned
    nBlocks, nAdded, nFailing, nSpurious   \* for the bounds

counters == <<nIdle, nTotal, fAllOk, nTodo>>
local    == <<nNow, fOk, vChecks>>
shutdown == <<stopping, interrupted>>
ghost    == <<allGood, verdict, nBlocks, nAdded, nFailing, nSpurious>>
vars     == <<queue, counters, mutex, pc, local, inDestructor, shutdown, ghost>>

\* Outcomes of a batch of at most n checks.
Batch(n) == UNION {[1 .. k -> BOOLEAN] : k \in 0 .. n}
Failing(s) == Cardinality({i \in DOMAIN s : ~s[i]})
AllGood(s) == \A i \in 1 .. Len(s) : s[i]

Init ==
    /\ queue = <<>>
    /\ nIdle = 0 /\ nTotal = 0 /\ fAllOk = TRUE /\ nTodo = 0
    /\ mutex = None
    /\ pc = [t \in Thread |-> IF t = Master THEN "out" ELSE "enter"]
    /\ nNow = [t \in Thread |-> 0]
    /\ fOk = [t \in Thread |-> TRUE]
    /\ vChecks = [t \in Thread |-> <<>>]
    /\ inDestructor = FALSE /\ stopping = FALSE /\ interrupted = {}
    /\ allGood = TRUE /\ verdict = TRUE
    /\ nBlocks = 0 /\ nAdded = 0 /\ nFailing = 0 /\ nSpurious = 0

Goto(t, l) == pc' = [pc EXCEPT ![t] = l]

-----------------------------------------------------------------------------
(***************************************************************************)
(* The condition variables.  A thread in cond.wait is at "waiting"; a      *)
(* notified one is at "woken" until it has the mutex again.                *)
(***************************************************************************)

Waiting(T) == {t \in T : pc[t] = "waiting"}

\* The threads that notify_one may wake, as sets.
OneOf(T) == IF Waiting(T) = {} THEN {{}} ELSE {{t} : t \in Waiting(T)}

\* pc after thread t goes to l and the threads of T are notified.
GotoAndNotify(t, l, T) ==
    pc' = [u \in Thread |-> IF u = t THEN l ELSE IF u \in T THEN "woken" ELSE pc[u]]

-----------------------------------------------------------------------------
(***************************************************************************)
(* Loop                                                                    *)
(***************************************************************************)

\* Fault: the master is not told that the last check is done.
FinishWithoutNotify(t) ==
    /\ pc[t] = "enter" /\ mutex = None /\ nNow[t] > 0
    /\ mutex' = t
    /\ fAllOk' = (fAllOk /\ fOk[t])
    /\ nTodo' = nTodo - nNow[t]
    /\ Goto(t, "test")
    /\ UNCHANGED <<queue, nIdle, nTotal, local, inDestructor, shutdown, ghost>>

\* Fault: the result of a batch replaces that of the others.
FinishOverwrites(t) ==
    /\ pc[t] = "enter" /\ mutex = None /\ nNow[t] > 0
    /\ mutex' = t
    /\ fAllOk' = fOk[t]
    /\ nTodo' = nTodo - nNow[t]
    /\ GotoAndNotify(t, "test", IF nTodo' = 0 THEN Waiting({Master}) ELSE {})
    /\ UNCHANGED <<queue, nIdle, nTotal, local, inDestructor, shutdown, ghost>>

\* The clean-up of the previous batch, under the mutex.
FinishBatch(t) ==
    /\ pc[t] = "enter" /\ mutex = None /\ nNow[t] > 0
    /\ mutex' = t
    /\ fAllOk' = (fAllOk /\ fOk[t])
    /\ nTodo' = nTodo - nNow[t]
    /\ IF nTodo' = 0 /\ t # Master
       THEN GotoAndNotify(t, "test", Waiting({Master}))
       ELSE Goto(t, "test")
    /\ UNCHANGED <<queue, nIdle, nTotal, local, inDestructor, shutdown, ghost>>

\* The first iteration.
FirstIteration(t) ==
    /\ pc[t] = "enter" /\ mutex = None /\ nNow[t] = 0
    /\ mutex' = t
    /\ nTotal' = nTotal + 1
    /\ Goto(t, "test")
    /\ UNCHANGED <<queue, nIdle, fAllOk, nTodo, local, inDestructor, shutdown, ghost>>

\* Nothing is left to do: the master returns from Wait.
MasterReturns ==
    /\ pc[Master] = "test" /\ queue = <<>> /\ nTodo = 0
    /\ nTotal' = nTotal - 1
    /\ verdict' = fAllOk /\ fAllOk' = TRUE
    /\ nNow' = [nNow EXCEPT ![Master] = 0]
    /\ mutex' = None /\ Goto(Master, "out")
    /\ UNCHANGED <<queue, nIdle, nTodo, fOk, vChecks, inDestructor, shutdown,
                   allGood, nBlocks, nAdded, nFailing, nSpurious>>

\* The queue is empty: cond.wait.
Sleep(t) ==
    /\ pc[t] = "test" /\ queue = <<>>
    /\ ~(t = Master /\ nTodo = 0)
    /\ nIdle' = nIdle + 1
    /\ mutex' = None /\ Goto(t, "waiting")
    /\ UNCHANGED <<queue, nTotal, fAllOk, nTodo, local, inDestructor, shutdown, ghost>>

\* cond.wait returns, with the mutex.
Wake(t) ==
    /\ pc[t] = "woken" /\ mutex = None
    /\ mutex' = t /\ nIdle' = nIdle - 1
    /\ Goto(t, "test")
    /\ UNCHANGED <<queue, nTotal, fAllOk, nTodo, local, inDestructor, shutdown, ghost>>

\* A condition variable may wake up for no reason.
SpuriousWakeup(t) ==
    /\ pc[t] = "waiting" /\ nSpurious < MaxSpurious
    /\ nSpurious' = nSpurious + 1
    /\ Goto(t, "woken")
    /\ UNCHANGED <<queue, counters, mutex, local, inDestructor, shutdown,
                   allGood, verdict, nBlocks, nAdded, nFailing>>

\* How many checks to take now.
BatchNow ==
    LET share == Len(queue) \div (nTotal + nIdle + 1)
        most  == IF nBatchSize < share THEN nBatchSize ELSE share
    IN  IF most < 1 THEN 1 ELSE most

\* Take a batch from the back of the queue and leave the critical section.
TakeBatch(t) ==
    /\ pc[t] = "test" /\ queue # <<>>
    /\ nNow' = [nNow EXCEPT ![t] = BatchNow]
    /\ vChecks' = [vChecks EXCEPT ![t] = SubSeq(queue, Len(queue) - BatchNow + 1, Len(queue))]
    /\ queue' = SubSeq(queue, 1, Len(queue) - BatchNow)
    /\ fOk' = [fOk EXCEPT ![t] = fAllOk]
    /\ mutex' = None /\ Goto(t, "work")
    /\ UNCHANGED <<counters, inDestructor, shutdown, ghost>>

\* Execute the batch: the checks after a failed one are skipped.
RunChecks(t) ==
    /\ pc[t] = "work"
    /\ fOk' = [fOk EXCEPT ![t] = fOk[t] /\ AllGood(vChecks[t])]
    /\ vChecks' = [vChecks EXCEPT ![t] = <<>>]
    /\ Goto(t, "enter")
    /\ UNCHANGED <<queue, counters, mutex, nNow, inDestructor, shutdown, ghost>>

-----------------------------------------------------------------------------
(***************************************************************************)
(* CCheckQueueControl and ConnectBlock                                     *)
(***************************************************************************)

\* ConnectBlock is about to construct the control object.  A pending
\* interruption does not keep SetBestChain from the next block of its list,
\* one that was thrown does.
ConnectBlock ==
    /\ pc[Master] = "out" /\ nBlocks < MaxBlocks
    /\ stopping => Master \in interrupted
    /\ nBlocks' = nBlocks + 1 /\ nAdded' = 0 /\ nFailing' = 0
    /\ Goto(Master, "construct")
    /\ UNCHANGED <<queue, counters, mutex, local, inDestructor, shutdown,
                   allGood, verdict, nSpurious>>

\* The constructor, which asserts without the mutex that the queue is unused.
Construct ==
    /\ pc[Master] = "construct"
    /\ allGood' = TRUE /\ inDestructor' = FALSE
    /\ Goto(Master, "add")
    /\ UNCHANGED <<queue, counters, mutex, local, shutdown, verdict, nBlocks,
                   nAdded, nFailing, nSpurious>>

\* Add: one worker is notified for one check, all of them for more.
Add(s) ==
    /\ pc[Master] = "add" /\ mutex = None
    /\ nAdded + Len(s) <= MaxChecks
    /\ nFailing + Failing(s) <= MaxFailing
    /\ nAdded' = nAdded + Len(s) /\ nFailing' = nFailing + Failing(s)
    /\ queue' = queue \o s
    /\ nTodo' = nTodo + Len(s)
    /\ allGood' = (allGood /\ AllGood(s))
    /\ \/ Len(s) = 0 /\ UNCHANGED pc
       \/ Len(s) = 1 /\ \E T \in OneOf(Worker) : GotoAndNotify(Master, "add", T)
       \/ Len(s) > 1 /\ GotoAndNotify(Master, "add", Waiting(Worker))
    /\ UNCHANGED <<nIdle, nTotal, fAllOk, mutex, local, inDestructor, shutdown,
                   verdict, nBlocks, nSpurious>>

\* control.Wait(), or the end of the control object after an early return.
Wait ==
    /\ pc[Master] = "add"
    /\ inDestructor' \in BOOLEAN
    /\ Goto(Master, "enter")
    /\ UNCHANGED <<queue, counters, mutex, local, shutdown, ghost>>

-----------------------------------------------------------------------------
(***************************************************************************)
(* Shutdown: DetectShutdownThread interrupts every thread of the group,    *)
(* and cond.wait is an interruption point.                                 *)
(***************************************************************************)

InterruptAll ==
    /\ Interruptible /\ ~stopping
    /\ stopping' = TRUE /\ interrupted' = Thread
    /\ UNCHANGED <<queue, counters, mutex, pc, local, inDestructor, ghost>>

\* cond.wait throws thread_interrupted: a worker ends.
WorkerInterrupted(t) ==
    /\ t \in interrupted \cap Worker /\ pc[t] \in {"waiting", "woken"} /\ mutex = None
    /\ interrupted' = interrupted \ {t}
    /\ Goto(t, "dead")
    /\ UNCHANGED <<queue, counters, mutex, local, inDestructor, stopping, ghost>>

\* The same in Wait.  The destructor of the control object waits again, unless
\* it was the one that waited: then the exception leaves it, and ConnectBlock.
MasterInterrupted ==
    /\ Master \in interrupted /\ pc[Master] \in {"waiting", "woken"} /\ mutex = None
    /\ interrupted' = interrupted \ {Master}
    /\ nNow' = [nNow EXCEPT ![Master] = 0]
    /\ inDestructor' = TRUE
    /\ Goto(Master, IF inDestructor THEN "dead" ELSE "enter")
    /\ UNCHANGED <<queue, counters, mutex, fOk, vChecks, stopping, ghost>>

-----------------------------------------------------------------------------

LoopStep(t) ==
    \/ FinishBatch(t) \/ FirstIteration(t) \/ Sleep(t) \/ Wake(t)
    \/ TakeBatch(t) \/ RunChecks(t)

MasterStep == LoopStep(Master) \/ MasterReturns \/ Construct \/ Wait

Next ==
    \/ \E t \in Worker : LoopStep(t)
    \/ MasterStep
    \/ \E t \in Thread : SpuriousWakeup(t)
    \/ ConnectBlock
    \/ \E s \in Batch(MaxChecks) : Add(s)
    \/ InterruptAll \/ MasterInterrupted
    \/ \E t \in Worker : WorkerInterrupted(t)

Spec == Init /\ [][Next]_vars

\* A thread that can go on does; ConnectBlock comes to the end of the block.
Fairness == WF_vars(MasterStep) /\ \A t \in Worker : WF_vars(LoopStep(t))
FairSpec == Spec /\ Fairness

-----------------------------------------------------------------------------
(***************************************************************************)
(* Properties                                                              *)
(***************************************************************************)

\* The values the variables range over: nTodo, an unsigned, never wraps.
TypeOK ==
    /\ queue \in Seq(BOOLEAN)
    /\ nIdle \in Nat /\ nTotal \in Nat /\ nTodo \in Nat /\ fAllOk \in BOOLEAN
    /\ mutex \in Thread \cup {None}
    /\ pc \in [Thread -> {"out", "construct", "add", "enter", "test", "waiting",
                          "woken", "work", "dead"}]
    /\ nNow \in [Thread -> Nat] /\ fOk \in [Thread -> BOOLEAN]
    /\ vChecks \in [Thread -> Seq(BOOLEAN)]
    /\ inDestructor \in BOOLEAN /\ stopping \in BOOLEAN /\ interrupted \subseteq Thread
    /\ allGood \in BOOLEAN /\ verdict \in BOOLEAN

\* Threads with a batch that is not yet accounted for.
Busy == {t \in Thread : nNow[t] > 0 /\ pc[t] \in {"work", "enter"}}

\* The checks in these batches, each as a thread and a number.
Taken == UNION {{t} \X (1 .. nNow[t]) : t \in Busy}

\* Every check is in the queue or in the batch of one busy thread: the number
\* of verifications that have not completed is exact, so the master can
\* neither return too early nor wait for checks that nobody has.
TodoExact == nTodo = Len(queue) + Cardinality(Taken)

\* Under the mutex the queue is unused between two blocks, as the constructor
\* of the next control object expects: no worker still holds a batch, a
\* result, or counts as busy.
UnusedBetweenBlocks ==
    pc[Master] \in {"out", "construct"} /\ mutex = None =>
        nTotal = nIdle /\ nTodo = 0 /\ fAllOk /\ queue = <<>>

\* A failed check is never forgotten while the master waits: it is recorded,
\* or still to be executed.
FailureKept ==
    pc[Master] \notin {"out", "construct", "dead"} /\ ~allGood =>
        \/ ~fAllOk
        \/ \E i \in 1 .. Len(queue) : ~queue[i]
        \/ \E t \in Busy : ~fOk[t] \/ ~AllGood(vChecks[t])

\* The books of the queue are right in every state, under every interleaving
\* and interruption: the count of pending checks is exact, no failure is
\* forgotten, and one block leaves nothing behind for the next.
Accounting == TypeOK /\ TodoExact /\ UnusedBetweenBlocks /\ FailureKept

\* Wait returns, and with the right verdict, however the batches were spread
\* over the threads; and a shutdown does not hang ConnectBlock: with workers
\* gone, and notifications lost with them, the master still gets out of Wait.
Promise == INSTANCE CheckQueuePromise
             WITH open <- pc[Master] \notin {"out", "construct", "dead"}
KeepsPromise == Promise!Spec

=============================================================================

-------------------------------- MODULE AskFor --------------------------------
(***************************************************************************)
(* Fetching announced objects (main.cpp "inv", "tx", "block", the end of   *)
(* SendMessages; CNode::AskFor in net.h).  A peer announces an object; if  *)
(* it is not there, AskFor schedules a request to that peer: at once, or   *)
(* two minutes after the last one scheduled with any peer, which           *)
(* mapAlreadyAskedFor remembers.  SendMessages sends the requests that are *)
(* due and are still needed.  Peers may be silent, answer with something   *)
(* else, or go away.  All of it runs in the message thread under cs_main,  *)
(* so a handler is one action.                                             *)
(*                                                                         *)
(* Time is counted in minutes.  Base is now: Tick moves every stored time  *)
(* back by one instead of advancing a clock, and forgets how long ago a    *)
(* time is once it is too long ago to matter.                              *)
(***************************************************************************)
EXTENDS Integers, FiniteSets, LimitedMap

CONSTANTS
  Peers,      \* other nodes
  Answering,  \* the peers that answer a request for what they announced
  Invs,       \* objects: transactions and blocks
  Retry,      \* minutes between two requests for an object
  MaxAsked,   \* the limit of mapAlreadyAskedFor, MAX_INV_SZ
  MaxAhead,   \* bound: how far ahead peers push the schedule of an object
  MaxPending  \* bound: requests scheduled with a peer

ASSUME AskForAssumption ==
  /\ Answering \subseteq Peers
  /\ Retry \in Nat \ {0} /\ MaxAsked \in Nat \ {0, 1} /\ MaxAhead \in Nat
  /\ MaxPending \in Nat \ {0}

Base == Retry + 1
Times == 0 .. Base + MaxAhead + Retry

VARIABLES
  alreadyAskedFor,  \* mapAlreadyAskedFor
  askFor,           \* mapAskFor of each peer: pairs of a time and an object
  requested,        \* what each peer was asked for and has not sent
  connected,
  have,             \* what AlreadyHave finds
  evicted,          \* missing objects mapAlreadyAskedFor dropped for its limit
  announced         \* missing objects each peer announced

vars == <<alreadyAskedFor, askFor, requested, connected, have, evicted, announced>>

Init ==
  /\ alreadyAskedFor = EmptyMap
  /\ askFor = [p \in Peers |-> {}]
  /\ requested = [p \in Peers |-> {}]
  /\ connected = [p \in Peers |-> TRUE]
  /\ have = {}
  /\ evicted = {}
  /\ announced = [p \in Peers |-> {}]

Later(a, b) == IF a > b THEN a ELSE b

\* Fault: the last time is not looked at.
AskAgainAtOnce(i) == Base

\* nRequestTime: two minutes after the last time, and not in the past.
RequestTime(i) ==
  IF Has(alreadyAskedFor, i) THEN Later(alreadyAskedFor.map[i] + Retry, Base) ELSE Base

\* Fault: an object that was asked for is not scheduled again.
AskForOnce(p, i) ==
  IF Has(alreadyAskedFor, i)
  THEN UNCHANGED <<alreadyAskedFor, askFor>>
  ELSE /\ alreadyAskedFor' = Insert(alreadyAskedFor, i, Base, MaxAsked)
       /\ askFor' = [askFor EXCEPT ![p] = @ \cup {<<Base, i>>}]

\* CNode::AskFor
DoAskFor(p, i) ==
  /\ alreadyAskedFor' =
       IF Has(alreadyAskedFor, i) THEN Update(alreadyAskedFor, i, RequestTime(i))
                                  ELSE Insert(alreadyAskedFor, i, RequestTime(i), MaxAsked)
  /\ askFor' = [askFor EXCEPT ![p] = @ \cup {<<RequestTime(i), i>>}]

\* "inv": an object that is not there is asked for.
Inv(p, i) ==
  /\ connected[p]
  /\ i \notin have
  /\ RequestTime(i) <= Base + MaxAhead /\ Cardinality(askFor[p]) < MaxPending
  /\ DoAskFor(p, i)
  /\ evicted' = evicted \cup (DOMAIN alreadyAskedFor.map \ DOMAIN alreadyAskedFor'.map)
  /\ announced' = [announced EXCEPT ![p] = @ \cup {i}]
  /\ UNCHANGED <<requested, connected, have>>

Due(p) == {e \in askFor[p] : e[1] <= Base}

\* "getdata" in SendMessages: all that is due, less what has come since.
SendGetData(p) ==
  /\ connected[p]
  /\ Due(p) # {}
  /\ askFor' = [askFor EXCEPT ![p] = @ \ Due(p)]
  /\ requested' = [requested EXCEPT ![p] = @ \cup ({e[2] : e \in Due(p)} \ have)]
  /\ UNCHANGED <<alreadyAskedFor, connected, have, evicted, announced>>

Arrived(p, i) ==
  /\ have' = have \cup {i}
  /\ requested' = [requested EXCEPT ![p] = @ \ {i}]
  /\ evicted' = evicted \ {i}
  /\ announced' = [r \in Peers |-> announced[r] \ {i}]

\* "tx" or "block", asked for or not: the object is accepted.
Accept(p, i) ==
  /\ connected[p] /\ i \notin have
  /\ alreadyAskedFor' = Erase(alreadyAskedFor, i)
  /\ Arrived(p, i)
  /\ UNCHANGED <<askFor, connected>>

\* It is kept as an orphan: found by AlreadyHave, and not erased.
KeepOrphan(p, i) ==
  /\ connected[p] /\ i \notin have
  /\ Arrived(p, i)
  /\ UNCHANGED <<alreadyAskedFor, askFor, connected>>

\* The answer changes nothing: the object is there already, or the peer sends
\* "notfound", nothing at all, or what is invalid.
Refuse(p, i) ==
  /\ p \notin Answering \/ i \in have
  /\ connected[p] /\ i \in requested[p]
  /\ requested' = [requested EXCEPT ![p] = @ \ {i}]
  /\ UNCHANGED <<alreadyAskedFor, askFor, connected, have, evicted, announced>>

\* A connection ends, and with it what was scheduled on it; another begins.
Disconnect(p) ==
  /\ connected[p]
  /\ connected' = [connected EXCEPT ![p] = FALSE]
  /\ askFor' = [askFor EXCEPT ![p] = {}]
  /\ requested' = [requested EXCEPT ![p] = {}]
  /\ announced' = [announced EXCEPT ![p] = {}]
  /\ UNCHANGED <<alreadyAskedFor, have, evicted>>

Connect(p) ==
  /\ ~connected[p]
  /\ connected' = [connected EXCEPT ![p] = TRUE]
  /\ UNCHANGED <<alreadyAskedFor, askFor, requested, have, evicted, announced>>

Before(t) == IF t = 0 THEN 0 ELSE t - 1

\* A minute passes; the message thread is never later than Base minutes.
Tick ==
  /\ \A p \in Peers : \A e \in askFor[p] : e[1] > 0
  /\ alreadyAskedFor' =
       [map |-> [i \in DOMAIN alreadyAskedFor.map |-> Before(alreadyAskedFor.map[i])],
        rmap |-> [j \in DOMAIN alreadyAskedFor.rmap |->
                    <<Before(alreadyAskedFor.rmap[j][1]), alreadyAskedFor.rmap[j][2]>>]]
  /\ askFor' = [p \in Peers |-> {<<Before(e[1]), e[2]>> : e \in askFor[p]}]
  /\ UNCHANGED <<requested, connected, have, evicted, announced>>

Next ==
  \/ \E p \in Peers, i \in Invs :
       Inv(p, i) \/ Accept(p, i) \/ KeepOrphan(p, i) \/ Refuse(p, i)
  \/ \E p \in Peers : SendGetData(p) \/ Disconnect(p) \/ Connect(p)
  \/ Tick

Spec == Init /\ [][Next]_vars

\* The message thread runs, time passes, and an answering peer answers.
FairSpec ==
  /\ Spec
  /\ WF_vars(Tick)
  /\ \A p \in Peers : WF_vars(SendGetData(p))
  /\ \A p \in Answering, i \in Invs :
       WF_vars(i \in requested[p] /\ (Accept(p, i) \/ KeepOrphan(p, i)))

-----------------------------------------------------------------------------
\* The type of the state; only a connected peer has requests.
TypeOK ==
  /\ DOMAIN alreadyAskedFor.map \subseteq Invs
  /\ \A i \in DOMAIN alreadyAskedFor.map : alreadyAskedFor.map[i] \in Times
  /\ askFor \in [Peers -> SUBSET (Times \X Invs)]
  /\ requested \in [Peers -> SUBSET Invs]
  /\ connected \in [Peers -> BOOLEAN]
  /\ \A p \in Peers : connected[p] \/ askFor[p] \cup requested[p] = {}
  /\ have \subseteq Invs /\ evicted \subseteq Invs
  /\ announced \in [Peers -> SUBSET Invs]

\* The two indexes of mapAlreadyAskedFor agree through every insert, update
\* and erase, and it stays below its limit; a peer that is gone leaves no
\* request behind.
AskedIndexed ==
  /\ TypeOK
  /\ Agree(alreadyAskedFor)
  /\ Cardinality(DOMAIN alreadyAskedFor.map) < MaxAsked

\* "Each retry is 2 minutes after the last" (net.h:370): as long as
\* mapAlreadyAskedFor did not have to drop an object, it knows the latest time
\* scheduled for it, and the times scheduled with different peers, the
\* requests of this moment included, are Retry apart.
RetriesSpaced ==
  \A i \in Invs \ (evicted \cup have) :
    \A p, q \in Peers : \A e \in askFor[p], f \in askFor[q] :
      e[2] = i /\ f[2] = i =>
        /\ Has(alreadyAskedFor, i) /\ e[1] <= alreadyAskedFor.map[i]
        /\ p # q \/ e # f => e[1] >= f[1] + Retry \/ f[1] >= e[1] + Retry

\* A peer that answers and stays is asked in the end: what it announced
\* arrives, however many others announced it before and were silent, took a
\* request with them when they went, or pushed the schedule ahead.
AnnouncedArrives ==
  \A p \in Answering, i \in Invs :
    (i \in announced[p]) ~> (i \in have \/ ~connected[p])
=============================================================================

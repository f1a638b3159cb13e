-------------------------------- MODULE Nodes --------------------------------
(***************************************************************************)
(* The life of a connection (net.cpp).  A CNode is created by the socket   *)
(* thread (accept), by a thread that opens connections, or by the RPC      *)
(* addnode ... onetry.  The socket thread and the message thread work on a *)
(* copy of vNodes, holding a reference to each of its nodes; the socket    *)
(* thread takes disconnected nodes off vNodes and deletes them when no     *)
(* reference is left.  Memory is reused: a slot is an address that holds   *)
(* one CNode after another.  A critical section of cs_vNodes is an action, *)
(* what a thread does to one node between them is another.                 *)
(*                                                                         *)
(* What is read and sent is left out; a TRY_LOCK that fails, a peer that   *)
(* stays silent, one that breaks the protocol, one that hangs up and a     *)
(* time-out are choices of TLC.  Nobody holds a lock of a node without     *)
(* references, so deleting it never fails.  No two threads dial one peer   *)
(* (NodesAssumption), so ConnectNode does not meet a connection made since *)
(* OpenNetworkConnection looked for one: its branch for that case, which   *)
(* takes a reference outside cs_vNodes, is not modelled.                   *)
(***************************************************************************)
EXTENDS Integers, FiniteSets

CONSTANTS
  Slots,          \* places in memory for CNode objects
  Peers,          \* addresses of other nodes
  Openers,        \* threads that call OpenNetworkConnection
  Targets,        \* the peers each of them, and the RPC, connects to
  Rpc,            \* the thread of the RPC addnode ... onetry
  MaxOutbound,    \* semOutbound starts with this many grants
  MaxInbound,     \* nMaxConnections - MAX_OUTBOUND_CONNECTIONS
  Null

ASSUME NodesAssumption ==
  /\ IsFiniteSet(Slots)
  /\ Rpc \notin Openers
  /\ Targets \in [Openers \cup {Rpc} -> SUBSET Peers]
  /\ \A s, t \in Openers \cup {Rpc} : s # t => Targets[s] \cap Targets[t] = {}
  /\ Null \notin Slots
  /\ MaxOutbound \in Nat /\ MaxInbound \in Nat

VARIABLES
  node,                \* what each slot holds
  live,                \* the slots that hold a CNode that is not deleted
  vNodes,
  vNodesDisconnected,
  semOutbound,         \* grants left
  pnodeSync,
  sock,                \* ThreadSocketHandler: pc, its vNodesCopy, what is left of it
  msg,                 \* ThreadMessageHandler: likewise, and the node StartSync chose
  opener               \* each opener: pc, peer, its grant and its node

vars == <<node, live, vNodes, vNodesDisconnected, semOutbound, pnodeSync, sock, msg, opener>>
lists == <<vNodes, vNodesDisconnected>>

CNode(p, inbound) ==
  [peer |-> p, fInbound |-> inbound, fNetworkNode |-> FALSE, fDisconnect |-> FALSE,
   socket |-> TRUE, nRefCount |-> 1, grant |-> FALSE, ready |-> FALSE]

Idle == [pc |-> "idle", peer |-> Null, grant |-> FALSE, node |-> Null]

Init ==
  /\ node = [n \in Slots |-> Null]
  /\ live = {}
  /\ vNodes = {} /\ vNodesDisconnected = {}
  /\ semOutbound = MaxOutbound
  /\ pnodeSync = Null
  /\ sock = [pc |-> "disconnect", copy |-> {}, todo |-> {}]
  /\ msg = [pc |-> "copy", copy |-> {}, todo |-> {}, cand |-> Null]
  /\ opener = [o \in Openers |-> Idle]

AddRef(S)  == [n \in Slots |-> IF n \in S THEN [node[n] EXCEPT !.nRefCount = @ + 1] ELSE node[n]]
Release(S) == [n \in Slots |-> IF n \in S THEN [node[n] EXCEPT !.nRefCount = @ - 1] ELSE node[n]]

\* A new CNode in a free slot, already on vNodes.
NewNode(n, p, inbound) ==
  /\ n \notin live
  /\ node' = [node EXCEPT ![n] = CNode(p, inbound)]
  /\ live' = live \cup {n}
  /\ vNodes' = vNodes \cup {n}
  /\ UNCHANGED vNodesDisconnected

CloseSocketDisconnect(n) ==
  /\ node' = [node EXCEPT ![n].fDisconnect = TRUE, ![n].socket = FALSE]
  /\ pnodeSync' = IF pnodeSync = n THEN Null ELSE pnodeSync

-----------------------------------------------------------------------------
\* ThreadSocketHandler

\* Fault: the references are waited for before the node leaves vNodes.
WhenUnreferenced(n) == node[n].fDisconnect /\ node[n].nRefCount <= 1

\* The nodes a pass takes off vNodes: also one without references and with
\* empty buffers.
Unused(n) == node[n].fDisconnect \/ node[n].nRefCount <= 0

\* A node taken off vNodes: its grant given back, its socket closed and the
\* reference of vNodes released, if the node is marked as having one.
Removed(n) ==
  [node[n] EXCEPT !.grant = FALSE, !.fDisconnect = TRUE, !.socket = FALSE,
                  !.nRefCount = IF node[n].fNetworkNode \/ node[n].fInbound THEN @ - 1 ELSE @]

\* Fault: one reference is taken for that of vNodes.
DeleteWhenRemoved(after, pool) == {n \in pool : after[n].nRefCount <= 1}

\* "wait until threads are done using it"
Deletable(after, pool) == {n \in pool : after[n].nRefCount <= 0}

\* Disconnect unused nodes and delete disconnected ones, under cs_vNodes.
SockDisconnect ==
  /\ sock.pc = "disconnect"
  /\ LET gone  == {n \in vNodes : Unused(n)}
         after == [n \in Slots |-> IF n \in gone THEN Removed(n) ELSE node[n]]
         pool  == vNodesDisconnected \cup gone
         dead  == Deletable(after, pool)
     IN /\ vNodes' = vNodes \ gone
        /\ vNodesDisconnected' = pool \ dead
        /\ node' = [n \in Slots |-> IF n \in dead THEN Null ELSE after[n]]
        /\ live' = live \ dead
        /\ semOutbound' = semOutbound
             + Cardinality({n \in gone : node[n].grant /\ ~after[n].grant})
             + Cardinality({n \in dead : after[n].grant})
        /\ pnodeSync' = IF pnodeSync \in gone THEN Null ELSE pnodeSync
  /\ sock' = [sock EXCEPT !.pc = "accept"]
  /\ UNCHANGED <<msg, opener>>

\* Accept a connection, unless there are too many inbound ones.
Accept(n, p) ==
  /\ sock.pc = "accept"
  /\ Cardinality({k \in vNodes : node[k].fInbound}) < MaxInbound
  /\ NewNode(n, p, TRUE)
  /\ sock' = [sock EXCEPT !.pc = "copy"]
  /\ UNCHANGED <<semOutbound, pnodeSync, msg, opener>>

SockCopy ==
  /\ sock.pc \in {"accept", "copy"}
  /\ sock' = [pc |-> "service", copy |-> vNodes, todo |-> vNodes]
  /\ node' = AddRef(vNodes)
  /\ UNCHANGED <<live, lists, semOutbound, pnodeSync, msg, opener>>

\* Receive from, send to and time one node.  With a closed socket it is
\* skipped; otherwise nothing may come of it, or the end of the connection: an
\* error or the peer hanging up closes the socket, a time-out marks the node.
Service(n) ==
  /\ sock.pc = "service" /\ n \in sock.todo
  /\ sock' = [sock EXCEPT !.todo = @ \ {n}]
  /\ \/ UNCHANGED <<node, pnodeSync>>
     \/ node[n].socket /\ CloseSocketDisconnect(n)
     \/ /\ node[n].socket
        /\ node' = [node EXCEPT ![n].fDisconnect = TRUE]
        /\ UNCHANGED pnodeSync
  /\ UNCHANGED <<live, lists, semOutbound, msg, opener>>

SockRelease ==
  /\ sock.pc = "service" /\ sock.todo = {}
  /\ node' = Release(sock.copy)
  /\ sock' = [pc |-> "disconnect", copy |-> {}, todo |-> {}]
  /\ UNCHANGED <<live, lists, semOutbound, pnodeSync, msg, opener>>

-----------------------------------------------------------------------------
\* ThreadMessageHandler

\* Fault: a pointer to a node that is gone is enough.
HaveSyncPointer == pnodeSync # Null

\* fHaveSyncNode: the sync node is one of the connected ones.
HaveSyncNode == pnodeSync \in vNodes

MsgCopy ==
  /\ msg.pc = "copy"
  /\ node' = AddRef(vNodes)
  /\ msg' = [pc |-> IF HaveSyncNode THEN "poll" ELSE "pick",
             copy |-> vNodes, todo |-> vNodes, cand |-> Null]
  /\ UNCHANGED <<live, lists, semOutbound, pnodeSync, sock, opener>>

\* StartSync looks for a node to sync with ...
MsgPick ==
  /\ msg.pc = "pick"
  /\ LET fit == {n \in msg.copy : ~node[n].fDisconnect /\ node[n].ready}
     IN \/ fit = {} /\ msg' = [msg EXCEPT !.pc = "poll"]
        \/ \E n \in fit : msg' = [msg EXCEPT !.pc = "sync", !.cand = n]
  /\ UNCHANGED <<node, live, lists, semOutbound, pnodeSync, sock, opener>>

\* ... and makes it the sync node, without a lock.
MsgSync ==
  /\ msg.pc = "sync"
  /\ pnodeSync' = msg.cand
  /\ msg' = [msg EXCEPT !.pc = "poll", !.cand = Null]
  /\ UNCHANGED <<node, live, lists, semOutbound, sock, opener>>

\* Process the messages of one node and send it others, unless it is marked:
\* a version message makes the node ready, a handler may mark it, and a
\* message that breaks the protocol closes the socket.
Poll(n) ==
  /\ msg.pc = "poll" /\ n \in msg.todo
  /\ msg' = [msg EXCEPT !.todo = @ \ {n}]
  /\ \/ UNCHANGED <<node, pnodeSync>>
     \/ /\ ~node[n].fDisconnect
        /\ \/ node' = [node EXCEPT ![n].ready = TRUE] /\ UNCHANGED pnodeSync
           \/ node' = [node EXCEPT ![n].fDisconnect = TRUE] /\ UNCHANGED pnodeSync
           \/ CloseSocketDisconnect(n)
  /\ UNCHANGED <<live, lists, semOutbound, sock, opener>>

MsgRelease ==
  /\ msg.pc = "poll" /\ msg.todo = {}
  /\ node' = Release(msg.copy)
  /\ msg' = [pc |-> "copy", copy |-> {}, todo |-> {}, cand |-> Null]
  /\ UNCHANGED <<live, lists, semOutbound, pnodeSync, sock, opener>>

-----------------------------------------------------------------------------
\* OpenNetworkConnection and ConnectNode

FindNode(p) == {n \in vNodes : node[n].peer = p}

\* Wait for a grant and check that the peer is not connected already; if it
\* is, the grant goes back when it leaves its scope.
OpenBegin(o, p) ==
  /\ opener[o].pc = "idle"
  /\ semOutbound > 0
  /\ FindNode(p) = {}
  /\ semOutbound' = semOutbound - 1
  /\ opener' = [opener EXCEPT ![o] = [pc |-> "connect", peer |-> p, grant |-> TRUE, node |-> Null]]
  /\ UNCHANGED <<node, live, lists, pnodeSync, sock, msg>>

\* The connection is made.
OpenConnect(o, n) ==
  /\ opener[o].pc = "connect"
  /\ NewNode(n, opener[o].peer, FALSE)
  /\ opener' = [opener EXCEPT ![o].pc = "move", ![o].node = n]
  /\ UNCHANGED <<semOutbound, pnodeSync, sock, msg>>

\* It cannot be made.
OpenFail(o) ==
  /\ opener[o].pc = "connect"
  /\ semOutbound' = semOutbound + 1
  /\ opener' = [opener EXCEPT ![o] = Idle]
  /\ UNCHANGED <<node, live, lists, pnodeSync, sock, msg>>

\* Fault: the grant is copied, and given back by the opener too.
OpenMoveCopies(o) ==
  /\ opener[o].pc = "move"
  /\ opener[o].node \in live
  /\ semOutbound' = semOutbound + (IF node[opener[o].node].grant THEN 0 ELSE 1)
  /\ node' = [node EXCEPT ![opener[o].node].grant = TRUE]
  /\ opener' = [opener EXCEPT ![o].pc = "flag", ![o].grant = FALSE]
  /\ UNCHANGED <<live, lists, pnodeSync, sock, msg>>

\* The grant moves to the node, which gives back one it already had.
OpenMove(o) ==
  /\ opener[o].pc = "move"
  /\ opener[o].node \in live
  /\ semOutbound' = semOutbound + (IF node[opener[o].node].grant THEN 1 ELSE 0)
  /\ node' = [node EXCEPT ![opener[o].node].grant = TRUE]
  /\ opener' = [opener EXCEPT ![o].pc = "flag", ![o].grant = FALSE]
  /\ UNCHANGED <<live, lists, pnodeSync, sock, msg>>

OpenFlag(o) ==
  /\ opener[o].pc = "flag"
  /\ opener[o].node \in live
  /\ node' = [node EXCEPT ![opener[o].node].fNetworkNode = TRUE]
  /\ opener' = [opener EXCEPT ![o] = Idle]
  /\ UNCHANGED <<live, lists, semOutbound, pnodeSync, sock, msg>>

\* The RPC addnode <node> onetry: ConnectNode alone.
OneTry(n, p) ==
  /\ NewNode(n, p, FALSE)
  /\ UNCHANGED <<semOutbound, pnodeSync, sock, msg, opener>>

-----------------------------------------------------------------------------
SockStep ==
  \/ SockDisconnect
  \/ \E n \in Slots, p \in Peers : Accept(n, p)
  \/ SockCopy
  \/ \E n \in Slots : Service(n)
  \/ SockRelease

MsgStep ==
  \/ MsgCopy \/ MsgPick \/ MsgSync
  \/ \E n \in Slots : Poll(n)
  \/ MsgRelease

OpenStep(o) ==
  \/ \E p \in Targets[o] : OpenBegin(o, p)
  \/ \E n \in Slots : OpenConnect(o, n)
  \/ OpenFail(o) \/ OpenMove(o) \/ OpenFlag(o)

Next ==
  \/ SockStep
  \/ MsgStep
  \/ \E o \in Openers : OpenStep(o)
  \/ \E n \in Slots, p \in Targets[Rpc] : OneTry(n, p)

Spec == Init /\ [][Next]_vars

\* The two threads run for ever.  Nothing obliges a peer to connect, to hang up
\* or to stay, nor an opener to open.
FairSpec == Spec /\ WF_vars(SockStep) /\ WF_vars(MsgStep)

-----------------------------------------------------------------------------
Copies(n) == (IF n \in sock.copy THEN 1 ELSE 0) + (IF n \in msg.copy THEN 1 ELSE 0)

\* Slots, lists and threads have their types.
TypeOK ==
  /\ live = vNodes \cup vNodesDisconnected
  /\ vNodes \cap vNodesDisconnected = {}
  /\ \A n \in Slots :
       IF n \in live
       THEN node[n] \in [peer : Peers, fInbound : BOOLEAN, fNetworkNode : BOOLEAN,
                         fDisconnect : BOOLEAN, socket : BOOLEAN, nRefCount : Int,
                         grant : BOOLEAN, ready : BOOLEAN]
       ELSE node[n] = Null
  /\ semOutbound \in 0 .. MaxOutbound
  /\ pnodeSync \in Slots \cup {Null}
  /\ sock \in [pc : {"disconnect", "accept", "copy", "service"}, copy : SUBSET Slots,
               todo : SUBSET Slots]
  /\ msg \in [pc : {"copy", "pick", "sync", "poll"}, copy : SUBSET Slots,
              todo : SUBSET Slots, cand : Slots \cup {Null}]
  /\ opener \in [Openers -> [pc : {"idle", "connect", "move", "flag"}, peer : Peers \cup {Null}, grant : BOOLEAN,
                             node : Slots \cup {Null}]]

\* A node is deleted only when "threads are done using it" (net.cpp:791): what
\* a thread's copy or an opener's pointer names is not deleted.
UsedAlive ==
  /\ sock.copy \cup msg.copy \subseteq live
  /\ \A o \in Openers : opener[o].node # Null => opener[o].node \in live

\* The reference count is exact: one for each copy of vNodes the node is in
\* and one for vNodes itself.  A node that was taken off vNodes before it was
\* marked as a network node keeps the latter for ever; an inbound one never.
RefsExact ==
  /\ \A n \in vNodes : node[n].nRefCount = Copies(n) + 1
  /\ \A n \in vNodesDisconnected :
       \/ node[n].nRefCount = Copies(n)
       \/ ~node[n].fInbound /\ node[n].nRefCount = Copies(n) + 1

\* Reference counting is sound: no thread can reach a deleted node, and every
\* reference is accounted for.
RefsSound == TypeOK /\ UsedAlive /\ RefsExact

\* Every grant of semOutbound is free, with an opener or with one node; so no
\* more than MaxOutbound opened connections are up at a time.
GrantsConserved ==
  /\ MaxOutbound = semOutbound
                     + Cardinality({o \in Openers : opener[o].grant})
                     + Cardinality({n \in live : node[n].grant})
  /\ Cardinality({n \in vNodes : node[n].fNetworkNode}) <= MaxOutbound

\* A node that is marked for disconnection leaves vNodes.
MarkedLeaves ==
  \A n \in Slots : (n \in vNodes /\ node[n].fDisconnect) ~> (n \notin vNodes)

\* A disconnected node that only the two threads still refer to is deleted, and
\* its memory can hold another: the passes over vNodes never keep it for good.
UnusedDeleted ==
  \A n \in Slots :
    (n \in vNodesDisconnected /\ node[n].nRefCount = Copies(n)) ~> (n \notin vNodesDisconnected)

\* A node that is disconnected does not stay: not on vNodes, nor in memory.
DisconnectedGoes == MarkedLeaves /\ UnusedDeleted

\* "if this was the sync node, we'll need a new one" (net.cpp:533): once the
\* connections are stable and one of them is ready, there is a sync node.
SyncNodeFound ==
  \A S \in SUBSET Slots :
    <>[](vNodes = S /\ \E n \in S : node[n].ready) => []<>(pnodeSync \in vNodes)
=============================================================================

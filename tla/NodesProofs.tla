----------------------------- MODULE NodesProofs -----------------------------
(***************************************************************************)
(* Theorems about the life of connections, for any number of nodes, peers  *)
(* and threads that open connections: reference counts are exact and no    *)
(* thread reaches a deleted node, and no grant of semOutbound is lost or   *)
(* given back twice.                                                       *)
(***************************************************************************)
EXTENDS Nodes, FiniteSetTheorems, TLAPS

(***************************************************************************)
(* The inductive invariant                                                 *)
(***************************************************************************)

NodeRecord ==
  [peer : Peers, fInbound : BOOLEAN, fNetworkNode : BOOLEAN, fDisconnect : BOOLEAN,
   socket : BOOLEAN, nRefCount : Int, grant : BOOLEAN, ready : BOOLEAN]

TypeInv ==
  /\ live = vNodes \cup vNodesDisconnected /\ vNodes \cap vNodesDisconnected = {}
  /\ live \subseteq Slots
  /\ node \in [Slots -> NodeRecord \cup {Null}]
  /\ \A n \in Slots : IF n \in live THEN node[n] \in NodeRecord ELSE node[n] = Null
  /\ semOutbound \in Nat /\ pnodeSync \in Slots \cup {Null}
  /\ sock \in [pc : {"disconnect", "accept", "copy", "service"}, copy : SUBSET Slots,
               todo : SUBSET Slots]
  /\ msg \in [pc : {"copy", "pick", "sync", "poll"}, copy : SUBSET Slots,
              todo : SUBSET Slots, cand : Slots \cup {Null}]
  /\ opener \in [Openers -> [pc : {"idle", "connect", "move", "flag"}, peer : Peers \cup {Null},
                             grant : BOOLEAN, node : Slots \cup {Null}]]

\* A thread has a copy of vNodes only while it works on it.
CopyInv ==
  /\ sock.pc # "service" => sock.copy = {}
  /\ msg.pc = "copy" => msg.copy = {}
  /\ sock.todo \subseteq sock.copy /\ msg.todo \subseteq msg.copy
  /\ sock.copy \cup msg.copy \subseteq live

\* The references to a node beyond those of the copies it is in.
Spare(n) == node[n].nRefCount - Copies(n)

\* The reference of vNodes is there as long as the node is on vNodes, and
\* longer if nothing says that the node had one.
SpareInv ==
  /\ \A n \in vNodes : Spare(n) = 1 /\ (node[n].fNetworkNode => node[n].grant)
  /\ \A n \in vNodesDisconnected : Spare(n) = 0 \/ (~node[n].fInbound /\ Spare(n) = 1)

\* A node that an opener is about to mark as a network node is its own, and
\* keeps the reference of vNodes until then.
OpenInv ==
  /\ \A o \in Openers :
       /\ opener[o].grant <=> opener[o].pc \in {"connect", "move"}
       /\ opener[o].pc = "connect" => opener[o].peer \in Peers
       /\ opener[o].pc \in {"idle", "connect"} => opener[o].node = Null
       /\ opener[o].pc \in {"move", "flag"} =>
            LET n == opener[o].node
            IN /\ n \in live /\ Spare(n) = 1 /\ ~node[n].fInbound /\ ~node[n].fNetworkNode
               /\ opener[o].pc = "flag" /\ n \in vNodes => node[n].grant
  /\ \A o, d \in Openers : o # d /\ opener[o].node # Null => opener[o].node # opener[d].node

Granted     == {n \in live : node[n].grant}
WithOpeners == {o \in Openers : opener[o].grant}

GrantInv ==
  /\ IsFiniteSet(WithOpeners)
  /\ MaxOutbound = semOutbound + Cardinality(WithOpeners) + Cardinality(Granted)

NodesInv == TypeInv /\ CopyInv /\ SpareInv /\ OpenInv /\ GrantInv

(***************************************************************************)
(* Steps that leave the lists and the openers alone                        *)
(***************************************************************************)

\* What such a step may change in a node.
Quiet ==
  /\ UNCHANGED <<live, vNodes, vNodesDisconnected, opener, semOutbound>>
  /\ node' \in [Slots -> NodeRecord \cup {Null}]
  /\ \A m \in Slots \ live : node'[m] = Null
  /\ \A m \in live :
       /\ node'[m] \in NodeRecord /\ Spare(m)' = Spare(m)
       /\ node'[m].fInbound = node[m].fInbound /\ node'[m].grant = node[m].grant
       /\ node'[m].fNetworkNode = node[m].fNetworkNode

\* It keeps what is said of nodes, openers and grants.
LEMMA QuietKeeps ==
  ASSUME TypeInv, SpareInv, OpenInv, GrantInv, Quiet
  PROVE  SpareInv' /\ OpenInv' /\ GrantInv'
<1>1. live = vNodes \cup vNodesDisconnected
  BY DEF TypeInv
<1>2. SpareInv'
  BY <1>1 DEF Quiet, SpareInv
<1>3. OpenInv'
  <2>1. opener' = opener /\ live' = live /\ vNodes' = vNodes
    BY DEF Quiet
  <2>2. ASSUME NEW o \in Openers, opener[o].pc \in {"move", "flag"}
        PROVE  LET n == opener[o].node
               IN /\ n \in live' /\ Spare(n)' = 1 /\ ~node'[n].fInbound /\ ~node'[n].fNetworkNode
                  /\ opener[o].pc = "flag" /\ n \in vNodes' => node'[n].grant
    <3>1. opener[o].node \in live
      BY <2>2 DEF OpenInv
    <3> QED
      BY <2>1, <2>2, <3>1 DEF OpenInv, Quiet
  <2> QED
    BY <2>1, <2>2 DEF OpenInv
<1>4. Granted' = Granted /\ WithOpeners' = WithOpeners /\ semOutbound' = semOutbound
  BY DEF Quiet, Granted, WithOpeners
<1>5. GrantInv'
  BY <1>4 DEF GrantInv
<1> QED
  BY <1>2, <1>3, <1>5

\* Marking a node.
LEMMA MarkQuiet ==
  ASSUME TypeInv, NEW n \in live,
         \/ node' = node
         \/ node' = [node EXCEPT ![n].fDisconnect = TRUE, ![n].socket = FALSE]
         \/ node' = [node EXCEPT ![n].fDisconnect = TRUE]
         \/ node' = [node EXCEPT ![n].ready = TRUE],
         UNCHANGED <<live, vNodes, vNodesDisconnected, opener, semOutbound>>,
         sock'.copy = sock.copy, msg'.copy = msg.copy
  PROVE  Quiet
<1>1. node \in [Slots -> NodeRecord \cup {Null}] /\ n \in Slots /\ node[n] \in NodeRecord
  BY DEF TypeInv
<1>2. PICK r \in NodeRecord :
        /\ node' = [node EXCEPT ![n] = r]
        /\ r.fInbound = node[n].fInbound /\ r.grant = node[n].grant
        /\ r.fNetworkNode = node[n].fNetworkNode /\ r.nRefCount = node[n].nRefCount
  <2>1. CASE node' = node
    <3>1. node' = [node EXCEPT ![n] = node[n]]
      BY <1>1, <2>1
    <3> QED
      BY <1>1, <3>1
  <2>2. CASE node' = [node EXCEPT ![n].fDisconnect = TRUE, ![n].socket = FALSE]
    <3> DEFINE r == [node[n] EXCEPT !.fDisconnect = TRUE, !.socket = FALSE]
    <3>1. node' = [node EXCEPT ![n] = r]
      BY <1>1, <2>2
    <3>2. /\ r \in NodeRecord /\ r.fInbound = node[n].fInbound /\ r.grant = node[n].grant
          /\ r.fNetworkNode = node[n].fNetworkNode /\ r.nRefCount = node[n].nRefCount
      BY <1>1 DEF NodeRecord
    <3> QED
      BY <3>1, <3>2
  <2>3. CASE node' = [node EXCEPT ![n].fDisconnect = TRUE]
    <3> DEFINE r == [node[n] EXCEPT !.fDisconnect = TRUE]
    <3>1. node' = [node EXCEPT ![n] = r]
      BY <1>1, <2>3
    <3>2. /\ r \in NodeRecord /\ r.fInbound = node[n].fInbound /\ r.grant = node[n].grant
          /\ r.fNetworkNode = node[n].fNetworkNode /\ r.nRefCount = node[n].nRefCount
      BY <1>1 DEF NodeRecord
    <3> QED
      BY <3>1, <3>2
  <2>4. CASE node' = [node EXCEPT ![n].ready = TRUE]
    <3> DEFINE r == [node[n] EXCEPT !.ready = TRUE]
    <3>1. node' = [node EXCEPT ![n] = r]
      BY <1>1, <2>4
    <3>2. /\ r \in NodeRecord /\ r.fInbound = node[n].fInbound /\ r.grant = node[n].grant
          /\ r.fNetworkNode = node[n].fNetworkNode /\ r.nRefCount = node[n].nRefCount
      BY <1>1 DEF NodeRecord
    <3> QED
      BY <3>1, <3>2
  <2> QED
    BY <2>1, <2>2, <2>3, <2>4
<1>3. node'[n] = r /\ \A m \in Slots : m # n => node'[m] = node[m]
  BY <1>1, <1>2
<1>4. node' \in [Slots -> NodeRecord \cup {Null}]
  BY <1>1, <1>2
<1>5. \A m \in Slots \ live : node'[m] = Null
  BY <1>3 DEF TypeInv
<1>6. ASSUME NEW m \in live
      PROVE  /\ node'[m] \in NodeRecord /\ Spare(m)' = Spare(m)
             /\ node'[m].fInbound = node[m].fInbound /\ node'[m].grant = node[m].grant
             /\ node'[m].fNetworkNode = node[m].fNetworkNode
  <2>1. m \in Slots /\ node[m] \in NodeRecord
    BY DEF TypeInv
  <2>2. Copies(m)' = Copies(m)
    BY DEF Copies
  <2>3. CASE m = n
    BY <1>2, <1>3, <2>2, <2>3 DEF Spare
  <2>4. CASE m # n
    BY <1>3, <2>1, <2>2, <2>4 DEF Spare
  <2> QED
    BY <2>3, <2>4
<1> QED
  BY <1>4, <1>5, <1>6 DEF Quiet

\* Taking or leaving references, by one thread, for the copy it has.
LEMMA CountQuiet ==
  ASSUME TypeInv, CopyInv, NEW S \in SUBSET live,
         \/ /\ node' = AddRef(S)
            /\ \/ sock.copy = {} /\ sock'.copy = S /\ msg'.copy = msg.copy
               \/ msg.copy = {} /\ msg'.copy = S /\ sock'.copy = sock.copy
         \/ /\ node' = Release(S)
            /\ \/ sock.copy = S /\ sock'.copy = {} /\ msg'.copy = msg.copy
               \/ msg.copy = S /\ msg'.copy = {} /\ sock'.copy = sock.copy,
         UNCHANGED <<live, vNodes, vNodesDisconnected, opener, semOutbound>>
  PROVE  Quiet
<1>1. node \in [Slots -> NodeRecord \cup {Null}] /\ live \subseteq Slots
  BY DEF TypeInv
<1>2. ASSUME NEW m \in Slots \ live PROVE node'[m] = Null
  BY DEF TypeInv, AddRef, Release
<1>3. ASSUME NEW m \in live
      PROVE  /\ node'[m] \in NodeRecord /\ Spare(m)' = Spare(m)
             /\ node'[m].fInbound = node[m].fInbound /\ node'[m].grant = node[m].grant
             /\ node'[m].fNetworkNode = node[m].fNetworkNode
  <2>1. m \in Slots /\ node[m] \in NodeRecord
    BY DEF TypeInv
  <2>2. Copies(m) \in Nat /\ Copies(m)' \in Nat /\ node[m].nRefCount \in Int
    BY <2>1 DEF Copies, NodeRecord
  <2>3. ASSUME NEW i \in Int, node'[m] = [node[m] EXCEPT !.nRefCount = i],
               i - Copies(m)' = node[m].nRefCount - Copies(m)
        PROVE  /\ node'[m] \in NodeRecord /\ Spare(m)' = Spare(m)
               /\ node'[m].fInbound = node[m].fInbound /\ node'[m].grant = node[m].grant
               /\ node'[m].fNetworkNode = node[m].fNetworkNode
    <3>1. /\ node'[m] \in NodeRecord /\ node'[m].nRefCount = i
          /\ node'[m].fInbound = node[m].fInbound /\ node'[m].grant = node[m].grant
          /\ node'[m].fNetworkNode = node[m].fNetworkNode
      BY <2>1, <2>3 DEF NodeRecord
    <3> QED
      BY <2>3, <3>1 DEF Spare
  <2>4. CASE m \in S /\ node' = AddRef(S)
    <3>1. node'[m] = [node[m] EXCEPT !.nRefCount = node[m].nRefCount + 1]
      BY <2>1, <2>4 DEF AddRef
    <3>2. node' # Release(S)
      <4> SUFFICES ASSUME node' = Release(S) PROVE FALSE
        OBVIOUS
      <4>1. node'[m] = [node[m] EXCEPT !.nRefCount = node[m].nRefCount - 1]
        BY <2>1, <2>4 DEF Release
      <4>2. node'[m].nRefCount = node[m].nRefCount - 1
        BY <2>1, <4>1 DEF NodeRecord
      <4>3. node'[m].nRefCount = node[m].nRefCount + 1
        BY <2>1, <3>1 DEF NodeRecord
      <4> QED
        BY <2>2, <4>2, <4>3
    <3>3. Copies(m)' = Copies(m) + 1
      BY <2>4, <3>2 DEF Copies
    <3> DEFINE i == node[m].nRefCount + 1
    <3>4. i \in Int /\ i - Copies(m)' = node[m].nRefCount - Copies(m)
      BY <2>2, <3>3
    <3>5. node'[m] = [node[m] EXCEPT !.nRefCount = i]
      BY <3>1
    <3> HIDE DEF i
    <3> QED
      BY <2>3, <3>4, <3>5
  <2>5. CASE m \in S /\ node' # AddRef(S)
    <3>1. node'[m] = [node[m] EXCEPT !.nRefCount = node[m].nRefCount - 1]
      BY <2>1, <2>5 DEF Release
    <3>2. Copies(m)' = Copies(m) - 1
      BY <2>5 DEF Copies
    <3> DEFINE i == node[m].nRefCount - 1
    <3>3. i \in Int /\ i - Copies(m)' = node[m].nRefCount - Copies(m)
      BY <2>2, <3>2
    <3>4. node'[m] = [node[m] EXCEPT !.nRefCount = i]
      BY <3>1
    <3> HIDE DEF i
    <3> QED
      BY <2>3, <3>3, <3>4
  <2>6. CASE m \notin S
    <3>1. node'[m] = node[m]
      BY <2>1, <2>6 DEF AddRef, Release
    <3>2. Copies(m)' = Copies(m)
      BY <2>6 DEF Copies
    <3> QED
      BY <2>1, <3>1, <3>2 DEF Spare
  <2> QED
    BY <2>4, <2>5, <2>6
<1>4. node' = [m \in Slots |-> node'[m]]
  <2>1. CASE node' = AddRef(S)
    BY <2>1 DEF AddRef
  <2>2. CASE node' = Release(S)
    BY <2>2 DEF Release
  <2> QED
    BY <2>1, <2>2
<1>5. node' \in [Slots -> NodeRecord \cup {Null}]
  BY <1>2, <1>3, <1>4
<1> QED
  BY <1>2, <1>3, <1>5 DEF Quiet

(***************************************************************************)
(* A new node                                                              *)
(***************************************************************************)

\* What NewNode does.
LEMMA NewNodeIs ==
  ASSUME TypeInv, CopyInv, NEW n \in Slots, NEW p \in Peers, NEW inbound \in BOOLEAN,
         NewNode(n, p, inbound), sock'.copy = sock.copy, msg'.copy = msg.copy
  PROVE  /\ n \notin live /\ live' = live \cup {n} /\ vNodes' = vNodes \cup {n}
         /\ vNodesDisconnected' = vNodesDisconnected
         /\ node' \in [Slots -> NodeRecord \cup {Null}]
         /\ \A m \in Slots : m # n => node'[m] = node[m] /\ Spare(m)' = Spare(m)
         /\ node'[n] \in NodeRecord /\ node'[n].fInbound = inbound
         /\ ~node'[n].fNetworkNode /\ ~node'[n].grant /\ Spare(n)' = 1
<1>1. node \in [Slots -> NodeRecord \cup {Null}] /\ n \notin live
  BY DEF TypeInv, NewNode
<1>2. /\ CNode(p, inbound) \in NodeRecord /\ CNode(p, inbound).fInbound = inbound
      /\ CNode(p, inbound).fNetworkNode = FALSE /\ CNode(p, inbound).grant = FALSE
      /\ CNode(p, inbound).nRefCount = 1
  BY DEF CNode, NodeRecord
<1>3. node' = [node EXCEPT ![n] = CNode(p, inbound)]
  BY DEF NewNode
<1>4. /\ node' \in [Slots -> NodeRecord \cup {Null}] /\ node'[n] = CNode(p, inbound)
      /\ \A m \in Slots : m # n => node'[m] = node[m]
  BY <1>1, <1>2, <1>3
<1>5. \A m \in Slots : m # n => Spare(m)' = Spare(m)
  BY <1>4 DEF Spare, Copies
<1>6. Copies(n)' = 0
  BY <1>1 DEF Copies, CopyInv
<1>7. Spare(n)' = 1
  BY <1>2, <1>4, <1>6 DEF Spare
<1> QED
  BY <1>1, <1>2, <1>4, <1>5, <1>7 DEF NewNode

\* It keeps the types and the references.
LEMMA NewNodeKeeps ==
  ASSUME TypeInv, CopyInv, SpareInv, GrantInv, NEW n \in Slots, NEW p \in Peers,
         NEW inbound \in BOOLEAN, NewNode(n, p, inbound), sock'.copy = sock.copy,
         msg'.copy = msg.copy
  PROVE  /\ (live = vNodes \cup vNodesDisconnected /\ vNodes \cap vNodesDisconnected = {})'
         /\ live' \subseteq Slots
         /\ \A m \in Slots : IF m \in live' THEN node'[m] \in NodeRecord ELSE node'[m] = Null
         /\ SpareInv' /\ Granted' = Granted
<1>1. /\ n \notin live /\ live' = live \cup {n} /\ vNodes' = vNodes \cup {n}
      /\ vNodesDisconnected' = vNodesDisconnected
      /\ \A m \in Slots : m # n => node'[m] = node[m] /\ Spare(m)' = Spare(m)
      /\ node'[n] \in NodeRecord /\ ~node'[n].fNetworkNode /\ ~node'[n].grant /\ Spare(n)' = 1
  BY NewNodeIs
<1>2. live = vNodes \cup vNodesDisconnected /\ vNodes \cap vNodesDisconnected = {} /\ live \subseteq Slots
  BY DEF TypeInv
<1>3. SpareInv'
  BY <1>1, <1>2 DEF SpareInv
<1>4. Granted' = Granted
  BY <1>1, <1>2 DEF Granted
<1>5. \A m \in Slots : IF m \in live' THEN node'[m] \in NodeRecord ELSE node'[m] = Null
  BY <1>1 DEF TypeInv
<1> QED
  BY <1>1, <1>2, <1>3, <1>4, <1>5

\* What is said of an opener holds on when its own node does not change.
LEMMA OpenKeeps ==
  ASSUME OpenInv, NEW o \in Openers, opener'[o] = opener[o],
         opener[o].pc \in {"move", "flag"} =>
           LET n == opener[o].node
           IN /\ n \in live' /\ Spare(n)' = Spare(n) /\ node'[n].fInbound = node[n].fInbound
              /\ node'[n].fNetworkNode = node[n].fNetworkNode
              /\ n \in vNodes' => n \in vNodes /\ node'[n].grant = node[n].grant
  PROVE  (/\ opener[o].grant <=> opener[o].pc \in {"connect", "move"}
          /\ opener[o].pc = "connect" => opener[o].peer \in Peers
          /\ opener[o].pc \in {"idle", "connect"} => opener[o].node = Null
          /\ opener[o].pc \in {"move", "flag"} =>
               LET n == opener[o].node
               IN /\ n \in live /\ Spare(n) = 1 /\ ~node[n].fInbound /\ ~node[n].fNetworkNode
                  /\ opener[o].pc = "flag" /\ n \in vNodes => node[n].grant)'
  BY DEF OpenInv

(***************************************************************************)
(* Disconnecting and deleting                                              *)
(***************************************************************************)

\* The parts of SockDisconnect.
Gone  == {n \in vNodes : Unused(n)}
After == [n \in Slots |-> IF n \in Gone THEN Removed(n) ELSE node[n]]
Pool  == vNodesDisconnected \cup Gone
Dead  == Deletable(After, Pool)

\* What becomes of the nodes before any is deleted.
LEMMA AfterIs ==
  ASSUME TypeInv, NEW n \in live
  PROVE  /\ After[n] \in NodeRecord
         /\ After[n].fInbound = node[n].fInbound /\ After[n].fNetworkNode = node[n].fNetworkNode
         /\ n \in Gone => After[n].grant = FALSE
         /\ n \notin Gone => After[n] = node[n]
         /\ After[n].nRefCount = IF n \in Gone /\ (node[n].fNetworkNode \/ node[n].fInbound)
                                 THEN node[n].nRefCount - 1 ELSE node[n].nRefCount
<1>1. n \in Slots /\ node[n] \in NodeRecord
  BY DEF TypeInv
<1>2. CASE n \in Gone
  <2> DEFINE i == IF node[n].fNetworkNode \/ node[n].fInbound THEN node[n].nRefCount - 1
                  ELSE node[n].nRefCount
  <2>1. i \in Int
    BY <1>1 DEF NodeRecord
  <2>2. After[n] = [node[n] EXCEPT !.grant = FALSE, !.fDisconnect = TRUE, !.socket = FALSE,
                                   !.nRefCount = i]
    BY <1>1, <1>2 DEF After, Removed
  <2> HIDE DEF i
  <2>3. /\ After[n] \in NodeRecord /\ After[n].fInbound = node[n].fInbound
        /\ After[n].fNetworkNode = node[n].fNetworkNode /\ After[n].grant = FALSE
        /\ After[n].nRefCount = i
    BY <1>1, <2>1, <2>2 DEF NodeRecord
  <2> QED
    BY <1>2, <2>3 DEF i
<1>3. CASE n \notin Gone
  BY <1>1, <1>3 DEF After
<1> QED
  BY <1>2, <1>3

\* A node that is deleted is in no copy, and is no opener's.
LEMMA DeadUnused ==
  ASSUME TypeInv, CopyInv, SpareInv, OpenInv, NEW n \in Dead
  PROVE  /\ n \in live /\ n \notin sock.copy \cup msg.copy
         /\ \A o \in Openers : opener[o].node # n
<1>1. n \in live /\ n \in Pool /\ After[n].nRefCount <= 0
  BY DEF Dead, Deletable, Pool, Gone, TypeInv
<1>2. node[n].nRefCount \in Int /\ Copies(n) \in Nat
  BY <1>1 DEF TypeInv, NodeRecord, Copies
<1>3. Spare(n) \in Int /\ node[n].nRefCount = Spare(n) + Copies(n)
  BY <1>2 DEF Spare
<1>4. After[n].nRefCount >= Copies(n)
  <2>1. CASE n \in Gone
    <3>1. Spare(n) = 1
      BY <2>1 DEF Gone, SpareInv
    <3>2. After[n].nRefCount = node[n].nRefCount - 1 \/ After[n].nRefCount = node[n].nRefCount
      BY <1>1, AfterIs
    <3> QED
      BY <1>2, <1>3, <3>1, <3>2
  <2>2. CASE n \notin Gone
    <3>1. Spare(n) = 0 \/ Spare(n) = 1
      BY <1>1, <2>2 DEF Pool, SpareInv
    <3>2. After[n].nRefCount = node[n].nRefCount
      BY <1>1, <2>2, AfterIs
    <3> QED
      BY <1>2, <1>3, <3>1, <3>2
  <2> QED
    BY <2>1, <2>2
<1>5. Copies(n) = 0
  <2>1. After[n].nRefCount \in Int
    BY <1>1, AfterIs DEF NodeRecord
  <2> QED
    BY <1>1, <1>2, <1>4, <2>1
<1>6. n \notin sock.copy \cup msg.copy
  BY <1>5 DEF Copies
<1>7. ASSUME NEW o \in Openers, opener[o].node = n PROVE FALSE
  <2>1. n # Null
    BY <1>1, NodesAssumption DEF TypeInv
  <2>2. opener[o].pc \in {"move", "flag"}
    BY <1>7, <2>1 DEF OpenInv, TypeInv
  <2>3. Spare(n) = 1 /\ ~node[n].fInbound /\ ~node[n].fNetworkNode
    BY <1>7, <2>2 DEF OpenInv
  <2>4. After[n].nRefCount = node[n].nRefCount
    BY <1>1, <2>3, AfterIs
  <2> QED
    BY <1>1, <1>2, <1>3, <1>5, <2>3, <2>4
<1> QED
  BY <1>1, <1>6, <1>7

\* What SockDisconnect does.
LEMMA DisconnectIs ==
  ASSUME TypeInv, CopyInv, SpareInv, OpenInv, SockDisconnect
  PROVE  /\ vNodes' = vNodes \ Gone /\ vNodesDisconnected' = Pool \ Dead /\ live' = live \ Dead
         /\ \A m \in Slots : node'[m] = IF m \in Dead THEN Null ELSE After[m]
         /\ node' \in [Slots -> NodeRecord \cup {Null}]
         /\ sock'.copy = sock.copy /\ UNCHANGED <<msg, opener>>
         /\ semOutbound' = semOutbound + Cardinality({n \in Gone : node[n].grant})
                                       + Cardinality({n \in Dead : After[n].grant})
         /\ \A m \in live : Copies(m)' = Copies(m)
<1>1. /\ vNodes' = vNodes \ Gone /\ vNodesDisconnected' = Pool \ Dead /\ live' = live \ Dead
      /\ node' = [m \in Slots |-> IF m \in Dead THEN Null ELSE After[m]]
      /\ semOutbound' = semOutbound + Cardinality({n \in Gone : node[n].grant /\ ~After[n].grant})
                                    + Cardinality({n \in Dead : After[n].grant})
      /\ sock' = [sock EXCEPT !.pc = "accept"] /\ UNCHANGED <<msg, opener>>
  BY DEF SockDisconnect, Gone, After, Pool, Dead
<1>2. {n \in Gone : node[n].grant /\ ~After[n].grant} = {n \in Gone : node[n].grant}
  <2>1. \A n \in Gone : After[n].grant = FALSE
    BY AfterIs DEF Gone, TypeInv
  <2> QED
    BY <2>1
<1>3. sock'.copy = sock.copy
  BY <1>1 DEF TypeInv
<1>4. \A m \in Slots : m \notin Dead => After[m] \in NodeRecord \cup {Null}
  <2> SUFFICES ASSUME NEW m \in Slots PROVE After[m] \in NodeRecord \cup {Null}
    OBVIOUS
  <2>1. CASE m \in live
    BY <2>1, AfterIs
  <2>2. CASE m \notin live
    BY <2>2 DEF After, Gone, TypeInv
  <2> QED
    BY <2>1, <2>2
<1>5. node' \in [Slots -> NodeRecord \cup {Null}]
  BY <1>1, <1>4
<1> QED
  BY <1>1, <1>2, <1>3, <1>5 DEF Copies

\* It keeps the counts of references.
LEMMA DisconnectSpare ==
  ASSUME TypeInv, CopyInv, SpareInv, OpenInv, SockDisconnect
  PROVE  SpareInv'
<1>1. /\ vNodes' = vNodes \ Gone /\ vNodesDisconnected' = Pool \ Dead /\ live' = live \ Dead
      /\ \A m \in Slots : node'[m] = IF m \in Dead THEN Null ELSE After[m]
      /\ \A m \in live : Copies(m)' = Copies(m)
  BY DisconnectIs
<1>2. live = vNodes \cup vNodesDisconnected /\ vNodes \cap vNodesDisconnected = {} /\ live \subseteq Slots
  BY DEF TypeInv
<1>3. ASSUME NEW n \in vNodes' PROVE Spare(n)' = 1 /\ (node'[n].fNetworkNode => node'[n].grant)
  <2>1. n \in vNodes /\ n \notin Gone /\ n \notin Dead /\ n \in live
    BY <1>1, <1>2 DEF Dead, Deletable, Pool
  <2>2. node'[n] = node[n] /\ Copies(n)' = Copies(n)
    BY <1>1, <1>2, <2>1, AfterIs
  <2> QED
    BY <2>1, <2>2 DEF SpareInv, Spare
<1>4. ASSUME NEW n \in vNodesDisconnected'
      PROVE  Spare(n)' = 0 \/ (~node'[n].fInbound /\ Spare(n)' = 1)
  <2>1. n \in Pool /\ n \notin Dead /\ n \in live
    BY <1>1, <1>2 DEF Pool, Gone
  <2>2. node'[n] = After[n] /\ Copies(n)' = Copies(n)
    BY <1>1, <1>2, <2>1
  <2>3. CASE n \in Gone
    <3>1. node[n].nRefCount - Copies(n) = 1
      BY <2>3 DEF Gone, SpareInv, Spare
    <3>2. node[n].nRefCount \in Int /\ Copies(n) \in Nat
      BY <1>2, <2>1 DEF TypeInv, NodeRecord, Copies
    <3>3. CASE node[n].fNetworkNode \/ node[n].fInbound
      <4>1. node'[n].nRefCount = node[n].nRefCount - 1
        BY <2>1, <2>2, <2>3, <3>3, AfterIs
      <4> QED
        BY <2>2, <3>1, <3>2, <4>1 DEF Spare
    <3>4. CASE ~(node[n].fNetworkNode \/ node[n].fInbound)
      <4>1. node'[n].nRefCount = node[n].nRefCount /\ node'[n].fInbound = node[n].fInbound
        BY <2>1, <2>2, <3>4, AfterIs
      <4> QED
        BY <2>2, <3>1, <3>4, <4>1 DEF Spare
    <3> QED
      BY <3>3, <3>4
  <2>4. CASE n \notin Gone
    <3>1. node'[n] = node[n] /\ n \in vNodesDisconnected
      BY <2>1, <2>2, <2>4, AfterIs DEF Pool
    <3> QED
      BY <2>2, <3>1 DEF SpareInv, Spare
  <2> QED
    BY <2>3, <2>4
<1> QED
  BY <1>3, <1>4 DEF SpareInv

\* It keeps what is said of the openers.
LEMMA DisconnectOpen ==
  ASSUME TypeInv, CopyInv, SpareInv, OpenInv, SockDisconnect
  PROVE  OpenInv'
<1>1. /\ vNodes' = vNodes \ Gone /\ live' = live \ Dead /\ opener' = opener
      /\ \A m \in Slots : node'[m] = IF m \in Dead THEN Null ELSE After[m]
      /\ \A m \in live : Copies(m)' = Copies(m)
  BY DisconnectIs
<1>2. ASSUME NEW o \in Openers, opener[o].pc \in {"move", "flag"}
      PROVE  LET n == opener[o].node
             IN /\ n \in live' /\ Spare(n)' = Spare(n) /\ node'[n].fInbound = node[n].fInbound
                /\ node'[n].fNetworkNode = node[n].fNetworkNode
                /\ n \in vNodes' => n \in vNodes /\ node'[n].grant = node[n].grant
  <2> DEFINE n == opener[o].node
  <2>1. n \in live /\ ~node[n].fInbound /\ ~node[n].fNetworkNode
    BY <1>2 DEF OpenInv
  <2>2. n \in Slots /\ n \notin Dead
    BY <2>1, DeadUnused DEF TypeInv
  <2>3. node'[n] = After[n] /\ Copies(n)' = Copies(n) /\ opener'[o].node = n
    BY <1>1, <2>1, <2>2
  <2>4. /\ After[n].nRefCount = node[n].nRefCount /\ After[n].fInbound = node[n].fInbound
        /\ After[n].fNetworkNode = node[n].fNetworkNode /\ (n \notin Gone => After[n] = node[n])
    BY <2>1, AfterIs
  <2>5. Spare(n)' = Spare(n)
    BY <2>3, <2>4 DEF Spare
  <2> QED
    BY <1>1, <2>1, <2>2, <2>3, <2>4, <2>5
<1>3. \A o, d \in Openers : o # d /\ opener'[o].node # Null => opener'[o].node # opener'[d].node
  BY <1>1 DEF OpenInv
<1> QED
  BY <1>1, <1>2, <1>3, OpenKeeps DEF OpenInv

\* It gives back every grant of a node that is taken off vNodes or deleted.
LEMMA DisconnectGrant ==
  ASSUME TypeInv, CopyInv, SpareInv, OpenInv, GrantInv, SockDisconnect
  PROVE  GrantInv' /\ semOutbound' \in Nat
<1> DEFINE A == {n \in Gone : node[n].grant}
           B == {n \in Dead : After[n].grant}
<1>1. /\ live' = live \ Dead /\ opener' = opener
      /\ \A m \in Slots : node'[m] = IF m \in Dead THEN Null ELSE After[m]
      /\ semOutbound' = semOutbound + Cardinality(A) + Cardinality(B)
  BY DisconnectIs
<1>2. live \subseteq Slots /\ semOutbound \in Nat /\ Gone \subseteq live /\ Dead \subseteq live
  BY DEF TypeInv, Gone, Dead, Deletable, Pool
<1>3. /\ \A n \in Gone : After[n].grant = FALSE
      /\ \A n \in live : n \notin Gone => After[n] = node[n]
  BY <1>2, AfterIs
<1>4. /\ A \subseteq Granted /\ B \subseteq Granted /\ A \cap B = {}
      /\ Granted \ (A \cup B) \subseteq Granted
  BY <1>2, <1>3 DEF Granted
<1>5. Granted' = Granted \ (A \cup B)
  BY <1>1, <1>2, <1>3 DEF Granted
<1>6. IsFiniteSet(Granted)
  BY <1>2, NodesAssumption, FS_Subset DEF Granted
<1> HIDE DEF A, B
<1>7. /\ IsFiniteSet(A) /\ IsFiniteSet(B) /\ IsFiniteSet(A \cup B)
      /\ IsFiniteSet(Granted \ (A \cup B))
  BY <1>4, <1>6, FS_Subset, FS_Union
<1>8. Cardinality(A \cup B) = Cardinality(A) + Cardinality(B)
  <2>1. Cardinality(A \cup B) = Cardinality(A) + Cardinality(B) - Cardinality(A \cap B)
    BY <1>7, FS_Union
  <2>2. Cardinality(A) \in Nat /\ Cardinality(B) \in Nat /\ Cardinality(A \cap B) = 0
    BY <1>4, <1>7, FS_CardinalityType, FS_EmptySet
  <2> QED
    BY <2>1, <2>2
<1>9. Cardinality(Granted) = Cardinality(Granted \ (A \cup B)) + Cardinality(A \cup B)
  <2> DEFINE C == Granted \ (A \cup B)
             D == A \cup B
  <2>1. C \cup D = Granted /\ C \cap D = {}
    BY <1>4
  <2>2. IsFiniteSet(C) /\ IsFiniteSet(D)
    BY <1>7
  <2> HIDE DEF C, D
  <2>3. Cardinality(C \cup D) = Cardinality(C) + Cardinality(D) - Cardinality(C \cap D)
    BY <2>2, FS_Union
  <2>4. Cardinality(C) \in Nat /\ Cardinality(D) \in Nat /\ Cardinality(C \cap D) = 0
    BY <2>1, <2>2, FS_CardinalityType, FS_EmptySet
  <2>5. Cardinality(Granted) = Cardinality(C \cup D)
    BY <2>1
  <2>6. Cardinality(Granted) = Cardinality(C) + Cardinality(D)
    BY <2>3, <2>4, <2>5
  <2> QED
    BY <2>6 DEF C, D
<1>10. /\ Cardinality(A) \in Nat /\ Cardinality(B) \in Nat
       /\ Cardinality(Granted \ (A \cup B)) \in Nat
  BY <1>7, FS_CardinalityType
<1>11. WithOpeners' = WithOpeners
  BY <1>1 DEF WithOpeners
<1>12. /\ IsFiniteSet(WithOpeners) /\ Cardinality(WithOpeners) \in Nat
       /\ MaxOutbound = semOutbound + Cardinality(WithOpeners) + Cardinality(Granted)
  BY FS_CardinalityType DEF GrantInv
<1>13. MaxOutbound = semOutbound' + Cardinality(WithOpeners) + Cardinality(Granted \ (A \cup B))
  BY <1>1, <1>2, <1>8, <1>9, <1>10, <1>12
<1>14. semOutbound' \in Nat
  BY <1>1, <1>2, <1>10
<1>15. Cardinality(Granted') = Cardinality(Granted \ (A \cup B))
  BY <1>5
<1> QED
  BY <1>11, <1>12, <1>13, <1>14, <1>15 DEF GrantInv

\* It keeps the types, and deletes nothing that is in a copy.
LEMMA DisconnectKeeps ==
  ASSUME TypeInv, CopyInv, SpareInv, OpenInv, GrantInv, SockDisconnect
  PROVE  TypeInv' /\ CopyInv'
<1>1. /\ vNodes' = vNodes \ Gone /\ vNodesDisconnected' = Pool \ Dead /\ live' = live \ Dead
      /\ \A m \in Slots : node'[m] = IF m \in Dead THEN Null ELSE After[m]
      /\ node' \in [Slots -> NodeRecord \cup {Null}]
      /\ sock'.copy = sock.copy /\ UNCHANGED <<msg, opener>>
  BY DisconnectIs
<1>2. live = vNodes \cup vNodesDisconnected /\ vNodes \cap vNodesDisconnected = {} /\ live \subseteq Slots
  BY DEF TypeInv
<1>3. Gone \subseteq vNodes /\ Dead \subseteq Pool /\ Dead \cap (vNodes \ Gone) = {}
  BY <1>2 DEF Gone, Dead, Deletable, Pool
<1>4. (live = vNodes \cup vNodesDisconnected /\ vNodes \cap vNodesDisconnected = {})'
  BY <1>1, <1>2, <1>3 DEF Pool
<1>5. \A n \in Slots : IF n \in live' THEN node'[n] \in NodeRecord ELSE node'[n] = Null
  <2> SUFFICES ASSUME NEW n \in Slots
               PROVE  IF n \in live' THEN node'[n] \in NodeRecord ELSE node'[n] = Null
    OBVIOUS
  <2>1. CASE n \in live
    BY <1>1, <2>1, AfterIs
  <2>2. CASE n \notin live
    BY <1>1, <1>2, <1>3, <2>2 DEF TypeInv, After
  <2> QED
    BY <2>1, <2>2
<1>6. /\ sock' = [sock EXCEPT !.pc = "accept"] /\ sock.pc = "disconnect"
      /\ pnodeSync' = IF pnodeSync \in Gone THEN Null ELSE pnodeSync
  BY DEF SockDisconnect, Gone
<1>7. sock' \in [pc : {"disconnect", "accept", "copy", "service"}, copy : SUBSET Slots,
                 todo : SUBSET Slots] /\ sock'.todo = sock.todo /\ sock'.pc = "accept"
  BY <1>6 DEF TypeInv
<1>8. pnodeSync' \in Slots \cup {Null}
  BY <1>6 DEF TypeInv
<1>9. semOutbound' \in Nat
  BY DisconnectGrant
<1>10. TypeInv'
  BY <1>1, <1>2, <1>4, <1>5, <1>7, <1>8, <1>9 DEF TypeInv
<1>11. \A n \in sock.copy \cup msg.copy : n \notin Dead
  BY DeadUnused
<1>12. CopyInv'
  BY <1>1, <1>6, <1>7, <1>11 DEF CopyInv
<1> QED
  BY <1>10, <1>12

(***************************************************************************)
(* Every step keeps the invariant                                          *)
(***************************************************************************)

\* The initial state.
LEMMA InitNodesInv ==
  ASSUME Init
  PROVE  NodesInv
<1>1. TypeInv
  BY NodesAssumption DEF Init, TypeInv, Idle
<1>2. CopyInv /\ SpareInv
  BY DEF Init, CopyInv, SpareInv
<1>3. OpenInv
  BY DEF Init, OpenInv, Idle
<1>4. WithOpeners = {} /\ Granted = {}
  BY DEF Init, WithOpeners, Granted, Idle
<1>5. GrantInv
  BY <1>4, FS_EmptySet, NodesAssumption DEF GrantInv, Init
<1> QED
  BY <1>1, <1>2, <1>3, <1>5 DEF NodesInv

\* The types of the threads, when a step leaves the lists and the openers alone.
LEMMA QuietType ==
  ASSUME TypeInv, CopyInv, Quiet, pnodeSync' \in Slots \cup {Null},
         sock' \in [pc : {"disconnect", "accept", "copy", "service"}, copy : SUBSET Slots,
                    todo : SUBSET Slots],
         msg' \in [pc : {"copy", "pick", "sync", "poll"}, copy : SUBSET Slots,
                   todo : SUBSET Slots, cand : Slots \cup {Null}]
  PROVE  TypeInv'
<1>1. UNCHANGED <<live, vNodes, vNodesDisconnected, opener, semOutbound>>
  BY DEF Quiet
<1>2. \A n \in Slots : IF n \in live' THEN node'[n] \in NodeRecord ELSE node'[n] = Null
  BY <1>1 DEF Quiet
<1>3. node' \in [Slots -> NodeRecord \cup {Null}]
  BY DEF Quiet
<1> QED
  BY <1>1, <1>2, <1>3 DEF TypeInv

\* The socket thread.
LEMMA SockKeeps ==
  ASSUME NodesInv, SockStep
  PROVE  NodesInv'
<1> USE DEF NodesInv
<1>1. vNodes \subseteq Slots /\ live \subseteq Slots /\ vNodes \subseteq live
  BY DEF TypeInv
<1>2. CASE SockDisconnect
  BY <1>2, DisconnectKeeps, DisconnectSpare, DisconnectOpen, DisconnectGrant
<1>3. ASSUME NEW n \in Slots, NEW p \in Peers, Accept(n, p) PROVE NodesInv'
  <2>1. /\ NewNode(n, p, TRUE) /\ sock.pc = "accept" /\ sock' = [sock EXCEPT !.pc = "copy"]
        /\ UNCHANGED <<semOutbound, pnodeSync, msg, opener>>
    BY <1>3 DEF Accept
  <2>2. /\ sock' \in [pc : {"disconnect", "accept", "copy", "service"}, copy : SUBSET Slots,
                      todo : SUBSET Slots]
        /\ sock'.copy = sock.copy /\ sock'.todo = sock.todo /\ sock'.pc = "copy"
    BY <2>1 DEF TypeInv
  <2>3. /\ (live = vNodes \cup vNodesDisconnected /\ vNodes \cap vNodesDisconnected = {})'
        /\ live' \subseteq Slots
        /\ \A m \in Slots : IF m \in live' THEN node'[m] \in NodeRecord ELSE node'[m] = Null
        /\ SpareInv' /\ Granted' = Granted
    BY <2>1, <2>2, NewNodeKeeps
  <2>4. /\ n \notin live /\ live' = live \cup {n} /\ vNodes' = vNodes \cup {n}
        /\ node' \in [Slots -> NodeRecord \cup {Null}]
        /\ \A m \in Slots : m # n => node'[m] = node[m] /\ Spare(m)' = Spare(m)
    BY <2>1, <2>2, NewNodeIs
  <2>5. TypeInv'
    BY <2>1, <2>2, <2>3, <2>4 DEF TypeInv
  <2>6. CopyInv'
    BY <2>1, <2>2, <2>4 DEF CopyInv
  <2>7. OpenInv'
    <3>1. ASSUME NEW o \in Openers, opener[o].pc \in {"move", "flag"}
          PROVE  LET k == opener[o].node
                 IN /\ k \in live' /\ Spare(k)' = Spare(k) /\ node'[k].fInbound = node[k].fInbound
                    /\ node'[k].fNetworkNode = node[k].fNetworkNode
                    /\ k \in vNodes' => k \in vNodes /\ node'[k].grant = node[k].grant
      <4>1. opener[o].node \in live
        BY <3>1 DEF OpenInv
      <4>2. opener'[o].node = opener[o].node
        BY <2>1
      <4> QED
        BY <1>1, <2>4, <4>1, <4>2
    <3>2. \A o, d \in Openers : o # d /\ opener'[o].node # Null => opener'[o].node # opener'[d].node
      BY <2>1 DEF OpenInv
    <3> QED
      BY <2>1, <3>1, <3>2, OpenKeeps DEF OpenInv
  <2>8. WithOpeners' = WithOpeners /\ semOutbound' = semOutbound
    BY <2>1 DEF WithOpeners
  <2>9. GrantInv'
    BY <2>3, <2>8 DEF GrantInv
  <2> QED
    BY <2>3, <2>5, <2>6, <2>7, <2>9
<1>4. CASE SockCopy
  <2>1. /\ sock.copy = {} /\ sock' = [pc |-> "service", copy |-> vNodes, todo |-> vNodes]
        /\ node' = AddRef(vNodes) /\ UNCHANGED <<pnodeSync, msg>>
        /\ UNCHANGED <<live, vNodes, vNodesDisconnected, opener, semOutbound>>
    BY <1>4 DEF SockCopy, CopyInv, lists
  <2>2. sock'.copy = vNodes /\ msg'.copy = msg.copy
    BY <2>1
  <2>3. Quiet
    BY <1>1, <2>1, <2>2, CountQuiet
  <2>4. TypeInv'
    BY <1>1, <2>1, <2>3, QuietType DEF TypeInv
  <2>5. CopyInv'
    BY <1>1, <2>1 DEF CopyInv
  <2> QED
    BY <2>3, <2>4, <2>5, QuietKeeps
<1>5. ASSUME NEW n \in Slots, Service(n) PROVE NodesInv'
  <2>1. /\ sock' = [sock EXCEPT !.todo = sock.todo \ {n}] /\ n \in sock.todo /\ msg' = msg
        /\ UNCHANGED <<live, vNodes, vNodesDisconnected, opener, semOutbound>>
        /\ pnodeSync' \in {pnodeSync, Null}
        /\ \/ node' = node
           \/ node' = [node EXCEPT ![n].fDisconnect = TRUE, ![n].socket = FALSE]
           \/ node' = [node EXCEPT ![n].fDisconnect = TRUE]
    BY <1>5 DEF Service, CloseSocketDisconnect, lists
  <2>2. /\ sock' \in [pc : {"disconnect", "accept", "copy", "service"}, copy : SUBSET Slots,
                      todo : SUBSET Slots]
        /\ sock'.copy = sock.copy /\ sock'.todo \subseteq sock.todo /\ sock'.pc = sock.pc
    BY <2>1 DEF TypeInv
  <2>3. n \in live /\ msg'.copy = msg.copy
    BY <2>1 DEF CopyInv
  <2>4. Quiet
    BY <2>1, <2>2, <2>3, MarkQuiet
  <2>5. TypeInv'
    BY <2>1, <2>2, <2>4, QuietType DEF TypeInv
  <2>6. CopyInv'
    BY <2>1, <2>2 DEF CopyInv
  <2> QED
    BY <2>4, <2>5, <2>6, QuietKeeps
<1>6. CASE SockRelease
  <2>1. /\ sock' = [pc |-> "disconnect", copy |-> {}, todo |-> {}]
        /\ node' = Release(sock.copy) /\ UNCHANGED <<pnodeSync, msg>>
        /\ UNCHANGED <<live, vNodes, vNodesDisconnected, opener, semOutbound>>
    BY <1>6 DEF SockRelease, lists
  <2>2. sock.copy \subseteq live /\ sock'.copy = {} /\ msg'.copy = msg.copy
    BY <2>1 DEF CopyInv
  <2>3. Quiet
    BY <2>1, <2>2, CountQuiet
  <2>4. TypeInv'
    BY <2>1, <2>3, QuietType DEF TypeInv
  <2>5. CopyInv'
    BY <2>1 DEF CopyInv
  <2> QED
    BY <2>3, <2>4, <2>5, QuietKeeps
<1> QED
  BY <1>2, <1>3, <1>4, <1>5, <1>6 DEF SockStep

\* The message thread.
LEMMA MsgKeeps ==
  ASSUME NodesInv, MsgStep
  PROVE  NodesInv'
<1> USE DEF NodesInv
<1>1. vNodes \subseteq Slots /\ live \subseteq Slots /\ vNodes \subseteq live
  BY DEF TypeInv
<1>2. CASE MsgCopy
  <2>1. /\ msg.copy = {} /\ node' = AddRef(vNodes) /\ UNCHANGED <<pnodeSync, sock>>
        /\ msg' = [pc |-> IF HaveSyncNode THEN "poll" ELSE "pick",
                   copy |-> vNodes, todo |-> vNodes, cand |-> Null]
        /\ UNCHANGED <<live, vNodes, vNodesDisconnected, opener, semOutbound>>
    BY <1>2 DEF MsgCopy, CopyInv, lists
  <2>2. /\ msg'.copy = vNodes /\ sock'.copy = sock.copy /\ msg'.todo = vNodes
        /\ msg'.pc \in {"poll", "pick"}
        /\ msg' \in [pc : {"copy", "pick", "sync", "poll"}, copy : SUBSET Slots,
                     todo : SUBSET Slots, cand : Slots \cup {Null}]
    BY <1>1, <2>1
  <2>3. Quiet
    BY <1>1, <2>1, <2>2, CountQuiet
  <2>4. TypeInv'
    BY <1>1, <2>1, <2>2, <2>3, QuietType DEF TypeInv
  <2>5. CopyInv'
    BY <1>1, <2>1, <2>2 DEF CopyInv
  <2> QED
    BY <2>3, <2>4, <2>5, QuietKeeps
<1>3. ASSUME MsgPick \/ MsgSync PROVE NodesInv'
  <2>1. /\ node' = node /\ sock' = sock /\ msg.pc # "copy"
        /\ pnodeSync' \in {pnodeSync, msg.cand}
        /\ UNCHANGED <<live, vNodes, vNodesDisconnected, opener, semOutbound>>
    BY <1>3 DEF MsgPick, MsgSync, lists
  <2>2. /\ msg' \in [pc : {"copy", "pick", "sync", "poll"}, copy : SUBSET Slots,
                     todo : SUBSET Slots, cand : Slots \cup {Null}]
        /\ msg'.copy = msg.copy /\ msg'.todo = msg.todo /\ msg'.pc # "copy"
    <3>1. CASE MsgSync
      BY <3>1 DEF MsgSync, TypeInv
    <3>2. CASE msg' = [msg EXCEPT !.pc = "poll"]
      BY <3>2 DEF TypeInv
    <3>3. ASSUME NEW n \in msg.copy, msg' = [msg EXCEPT !.pc = "sync", !.cand = n]
          PROVE  <2>2!1 /\ <2>2!2
      <4>1. n \in Slots
        BY <3>3 DEF TypeInv
      <4> QED
        BY <3>3, <4>1 DEF TypeInv
    <3> QED
      BY <1>3, <3>1, <3>2, <3>3 DEF MsgPick
  <2>3. Quiet
    <3>1. \A m \in live : Spare(m)' = Spare(m)
      BY <2>1, <2>2 DEF Spare, Copies
    <3> QED
      BY <2>1, <3>1 DEF Quiet, TypeInv
  <2>4. pnodeSync' \in Slots \cup {Null}
    BY <2>1 DEF TypeInv
  <2>5. TypeInv'
    BY <2>1, <2>2, <2>3, <2>4, QuietType DEF TypeInv
  <2>6. CopyInv'
    BY <2>1, <2>2 DEF CopyInv
  <2> QED
    BY <2>3, <2>5, <2>6, QuietKeeps
<1>4. ASSUME NEW n \in Slots, Poll(n) PROVE NodesInv'
  <2>1. /\ msg' = [msg EXCEPT !.todo = msg.todo \ {n}] /\ n \in msg.todo /\ sock' = sock
        /\ UNCHANGED <<live, vNodes, vNodesDisconnected, opener, semOutbound>>
        /\ pnodeSync' \in {pnodeSync, Null}
        /\ \/ node' = node
           \/ node' = [node EXCEPT ![n].fDisconnect = TRUE, ![n].socket = FALSE]
           \/ node' = [node EXCEPT ![n].fDisconnect = TRUE]
           \/ node' = [node EXCEPT ![n].ready = TRUE]
    BY <1>4 DEF Poll, CloseSocketDisconnect, lists
  <2>2. /\ msg' \in [pc : {"copy", "pick", "sync", "poll"}, copy : SUBSET Slots,
                     todo : SUBSET Slots, cand : Slots \cup {Null}]
        /\ msg'.copy = msg.copy /\ msg'.todo \subseteq msg.todo /\ msg'.pc = msg.pc
    BY <2>1 DEF TypeInv
  <2>3. n \in live /\ sock'.copy = sock.copy
    BY <2>1 DEF CopyInv
  <2>4. Quiet
    BY <2>1, <2>2, <2>3, MarkQuiet
  <2>5. TypeInv'
    BY <2>1, <2>2, <2>4, QuietType DEF TypeInv
  <2>6. CopyInv'
    BY <2>1, <2>2 DEF CopyInv
  <2> QED
    BY <2>4, <2>5, <2>6, QuietKeeps
<1>5. CASE MsgRelease
  <2>1. /\ msg' = [pc |-> "copy", copy |-> {}, todo |-> {}, cand |-> Null]
        /\ node' = Release(msg.copy) /\ UNCHANGED <<pnodeSync, sock>>
        /\ UNCHANGED <<live, vNodes, vNodesDisconnected, opener, semOutbound>>
    BY <1>5 DEF MsgRelease, lists
  <2>2. msg.copy \subseteq live /\ msg'.copy = {} /\ sock'.copy = sock.copy
    BY <2>1 DEF CopyInv
  <2>3. Quiet
    BY <2>1, <2>2, CountQuiet
  <2>4. TypeInv'
    BY <2>1, <2>3, QuietType DEF TypeInv
  <2>5. CopyInv'
    BY <2>1 DEF CopyInv
  <2> QED
    BY <2>3, <2>4, <2>5, QuietKeeps
<1> QED
  BY <1>2, <1>3, <1>4, <1>5 DEF MsgStep

\* An opener's step changes the opener alone, and one node at most.
LEMMA OpenerIs ==
  ASSUME TypeInv, NEW o \in Openers, NEW r, opener' = [opener EXCEPT ![o] = r],
         r \in [pc : {"idle", "connect", "move", "flag"}, peer : Peers \cup {Null},
                grant : BOOLEAN, node : Slots \cup {Null}]
  PROVE  /\ opener' \in [Openers -> [pc : {"idle", "connect", "move", "flag"},
                                     peer : Peers \cup {Null}, grant : BOOLEAN,
                                     node : Slots \cup {Null}]]
         /\ opener'[o] = r /\ \A d \in Openers : d # o => opener'[d] = opener[d]
         /\ WithOpeners' = IF r.grant THEN WithOpeners \cup {o} ELSE WithOpeners \ {o}
<1>1. opener \in [Openers -> [pc : {"idle", "connect", "move", "flag"},
                              peer : Peers \cup {Null}, grant : BOOLEAN, node : Slots \cup {Null}]]
  BY DEF TypeInv
<1>2. /\ opener' \in [Openers -> [pc : {"idle", "connect", "move", "flag"},
                                  peer : Peers \cup {Null}, grant : BOOLEAN,
                                  node : Slots \cup {Null}]]
      /\ opener'[o] = r /\ \A d \in Openers : d # o => opener'[d] = opener[d]
  BY <1>1
<1> QED
  BY <1>2 DEF WithOpeners

\* The grants of the openers, counted.
LEMMA OpenerGrants ==
  ASSUME GrantInv, NEW o
  PROVE  /\ IsFiniteSet(WithOpeners \cup {o}) /\ IsFiniteSet(WithOpeners \ {o})
         /\ Cardinality(WithOpeners) \in Nat
         /\ o \notin WithOpeners => Cardinality(WithOpeners \cup {o}) = Cardinality(WithOpeners) + 1
         /\ o \in WithOpeners => Cardinality(WithOpeners \ {o}) = Cardinality(WithOpeners) - 1
  BY FS_AddElement, FS_RemoveElement, FS_CardinalityType DEF GrantInv

\* The grants of the nodes, counted.
LEMMA NodeGrants ==
  ASSUME TypeInv, NEW n
  PROVE  /\ IsFiniteSet(Granted) /\ Cardinality(Granted) \in Nat
         /\ n \notin Granted => Cardinality(Granted \cup {n}) = Cardinality(Granted) + 1
<1>1. Granted \subseteq Slots
  BY DEF Granted, TypeInv
<1>2. IsFiniteSet(Granted)
  BY <1>1, NodesAssumption, FS_Subset
<1> QED
  BY <1>2, FS_CardinalityType, FS_AddElement

\* Asking for a grant.
LEMMA BeginKeeps ==
  ASSUME NodesInv, NEW o \in Openers, NEW p \in Targets[o], OpenBegin(o, p)
  PROVE  NodesInv'
<1> USE DEF NodesInv
<1> DEFINE r == [pc |-> "connect", peer |-> p, grant |-> TRUE, node |-> Null]
<1>1. /\ opener' = [opener EXCEPT ![o] = r] /\ opener[o].pc = "idle" /\ semOutbound > 0
      /\ semOutbound' = semOutbound - 1 /\ UNCHANGED <<vNodes, vNodesDisconnected>>
      /\ UNCHANGED <<node, live, pnodeSync, sock, msg>>
  BY DEF OpenBegin, lists
<1>2. p \in Peers
  BY NodesAssumption
<1>3. /\ opener' \in [Openers -> [pc : {"idle", "connect", "move", "flag"},
                                  peer : Peers \cup {Null}, grant : BOOLEAN,
                                  node : Slots \cup {Null}]]
      /\ opener'[o] = r /\ \A d \in Openers : d # o => opener'[d] = opener[d]
      /\ WithOpeners' = WithOpeners \cup {o}
  BY <1>1, <1>2, OpenerIs
<1>4. semOutbound' \in Nat
  BY <1>1 DEF TypeInv
<1>5. TypeInv'
  BY <1>1, <1>3, <1>4 DEF TypeInv
<1>6. CopyInv' /\ \A m \in Slots : Spare(m)' = Spare(m)
  BY <1>1 DEF CopyInv, Spare, Copies
<1>7. SpareInv'
  BY <1>1, <1>6 DEF SpareInv, TypeInv
<1>8. OpenInv'
  <2>1. ASSUME NEW d \in Openers
        PROVE  (/\ opener[d].grant <=> opener[d].pc \in {"connect", "move"}
                /\ opener[d].pc = "connect" => opener[d].peer \in Peers
                /\ opener[d].pc \in {"idle", "connect"} => opener[d].node = Null
                /\ opener[d].pc \in {"move", "flag"} =>
                     LET n == opener[d].node
                     IN /\ n \in live /\ Spare(n) = 1 /\ ~node[n].fInbound /\ ~node[n].fNetworkNode
                        /\ opener[d].pc = "flag" /\ n \in vNodes => node[n].grant)'
    <3>1. CASE d = o
      BY <1>2, <1>3, <3>1
    <3>2. CASE d # o
      <4>1. opener'[d] = opener[d]
        BY <1>3, <3>2
      <4>2. opener[d].pc \in {"move", "flag"} => opener[d].node \in live
        BY DEF OpenInv
      <4>3. live \subseteq Slots
        BY DEF TypeInv
      <4> QED
        BY <1>1, <1>6, <4>1, <4>2, <4>3, OpenKeeps
    <3> QED
      BY <3>1, <3>2
  <2>2. \A e, d \in Openers : e # d /\ opener'[e].node # Null => opener'[e].node # opener'[d].node
    BY <1>3 DEF OpenInv
  <2> QED
    BY <2>1, <2>2 DEF OpenInv
<1>9. o \notin WithOpeners
  BY <1>1 DEF WithOpeners, OpenInv
<1>10. Granted' = Granted
  BY <1>1 DEF Granted
<1>11. Cardinality(Granted) \in Nat /\ semOutbound \in Nat
  BY NodeGrants DEF TypeInv
<1>12. GrantInv'
  <2>1. /\ IsFiniteSet(WithOpeners') /\ Cardinality(WithOpeners) \in Nat
        /\ Cardinality(WithOpeners') = Cardinality(WithOpeners) + 1
    BY <1>3, <1>9, OpenerGrants
  <2>2. MaxOutbound = semOutbound' + Cardinality(WithOpeners') + Cardinality(Granted)
    BY <1>1, <1>11, <2>1 DEF GrantInv
  <2> QED
    BY <1>10, <2>1, <2>2 DEF GrantInv
<1> QED
  BY <1>5, <1>6, <1>7, <1>8, <1>12

\* A connection that cannot be made.
LEMMA FailKeeps ==
  ASSUME NodesInv, NEW o \in Openers, OpenFail(o)
  PROVE  NodesInv'
<1> USE DEF NodesInv
<1>1. /\ opener' = [opener EXCEPT ![o] = Idle] /\ opener[o].pc = "connect"
      /\ semOutbound' = semOutbound + 1 /\ UNCHANGED <<vNodes, vNodesDisconnected>>
      /\ UNCHANGED <<node, live, pnodeSync, sock, msg>>
  BY DEF OpenFail, lists
<1>2. /\ Idle \in [pc : {"idle", "connect", "move", "flag"}, peer : Peers \cup {Null},
                   grant : BOOLEAN, node : Slots \cup {Null}]
      /\ Idle.pc = "idle" /\ Idle.grant = FALSE /\ Idle.node = Null
  BY DEF Idle
<1>3. /\ opener' \in [Openers -> [pc : {"idle", "connect", "move", "flag"},
                                  peer : Peers \cup {Null}, grant : BOOLEAN,
                                  node : Slots \cup {Null}]]
      /\ opener'[o] = Idle /\ \A d \in Openers : d # o => opener'[d] = opener[d]
      /\ WithOpeners' = WithOpeners \ {o}
  BY <1>1, <1>2, OpenerIs
<1>4. semOutbound' \in Nat
  BY <1>1 DEF TypeInv
<1>5. TypeInv'
  BY <1>1, <1>3, <1>4 DEF TypeInv
<1>6. CopyInv' /\ \A m \in Slots : Spare(m)' = Spare(m)
  BY <1>1 DEF CopyInv, Spare, Copies
<1>7. SpareInv'
  BY <1>1, <1>6 DEF SpareInv, TypeInv
<1>8. OpenInv'
  <2>1. ASSUME NEW d \in Openers
        PROVE  (/\ opener[d].grant <=> opener[d].pc \in {"connect", "move"}
                /\ opener[d].pc = "connect" => opener[d].peer \in Peers
                /\ opener[d].pc \in {"idle", "connect"} => opener[d].node = Null
                /\ opener[d].pc \in {"move", "flag"} =>
                     LET n == opener[d].node
                     IN /\ n \in live /\ Spare(n) = 1 /\ ~node[n].fInbound /\ ~node[n].fNetworkNode
                        /\ opener[d].pc = "flag" /\ n \in vNodes => node[n].grant)'
    <3>1. CASE d = o
      BY <1>2, <1>3, <3>1
    <3>2. CASE d # o
      <4>1. opener'[d] = opener[d]
        BY <1>3, <3>2
      <4>2. opener[d].pc \in {"move", "flag"} => opener[d].node \in live
        BY DEF OpenInv
      <4>3. live \subseteq Slots
        BY DEF TypeInv
      <4> QED
        BY <1>1, <1>6, <4>1, <4>2, <4>3, OpenKeeps
    <3> QED
      BY <3>1, <3>2
  <2>2. \A e, d \in Openers : e # d /\ opener'[e].node # Null => opener'[e].node # opener'[d].node
    BY <1>2, <1>3 DEF OpenInv
  <2> QED
    BY <2>1, <2>2 DEF OpenInv
<1>9. o \in WithOpeners
  BY <1>1 DEF WithOpeners, OpenInv
<1>10. Granted' = Granted
  BY <1>1 DEF Granted
<1>11. Cardinality(Granted) \in Nat /\ semOutbound \in Nat
  BY NodeGrants DEF TypeInv
<1>12. GrantInv'
  <2>1. /\ IsFiniteSet(WithOpeners') /\ Cardinality(WithOpeners) \in Nat
        /\ Cardinality(WithOpeners') = Cardinality(WithOpeners) - 1
    BY <1>3, <1>9, OpenerGrants
  <2>2. MaxOutbound = semOutbound' + Cardinality(WithOpeners') + Cardinality(Granted)
    BY <1>1, <1>11, <2>1 DEF GrantInv
  <2> QED
    BY <1>10, <2>1, <2>2 DEF GrantInv
<1> QED
  BY <1>5, <1>6, <1>7, <1>8, <1>12

\* A connection that is made.
LEMMA ConnectKeeps ==
  ASSUME NodesInv, NEW o \in Openers, NEW n \in Slots, OpenConnect(o, n)
  PROVE  NodesInv'
<1> USE DEF NodesInv
<1> DEFINE p == opener[o].peer
           r == [opener[o] EXCEPT !.pc = "move", !.node = n]
<1>1. /\ opener[o].pc = "connect" /\ NewNode(n, p, FALSE)
      /\ opener' = [opener EXCEPT ![o].pc = "move", ![o].node = n]
      /\ UNCHANGED <<semOutbound, pnodeSync, sock, msg>>
  BY DEF OpenConnect
<1>2. p \in Peers /\ opener[o].grant /\ opener[o].node = Null
  BY <1>1 DEF OpenInv
<1>3. /\ opener' = [opener EXCEPT ![o] = r]
      /\ r \in [pc : {"idle", "connect", "move", "flag"}, peer : Peers \cup {Null},
                grant : BOOLEAN, node : Slots \cup {Null}]
      /\ r.pc = "move" /\ r.node = n /\ r.grant = opener[o].grant
  <2>1. /\ opener[o] \in [pc : {"idle", "connect", "move", "flag"}, peer : Peers \cup {Null},
                          grant : BOOLEAN, node : Slots \cup {Null}]
        /\ DOMAIN opener = Openers
    BY DEF TypeInv
  <2>2. opener' = [opener EXCEPT ![o] = r]
    BY <1>1
  <2> QED
    BY <2>1, <2>2
<1> HIDE DEF r
<1>4. /\ opener' \in [Openers -> [pc : {"idle", "connect", "move", "flag"},
                                  peer : Peers \cup {Null}, grant : BOOLEAN,
                                  node : Slots \cup {Null}]]
      /\ opener'[o] = r /\ \A d \in Openers : d # o => opener'[d] = opener[d]
      /\ WithOpeners' = WithOpeners \cup {o}
  BY <1>2, <1>3, OpenerIs
<1>5. WithOpeners' = WithOpeners
  BY <1>2, <1>4 DEF WithOpeners
<1>6. sock'.copy = sock.copy /\ msg'.copy = msg.copy
  BY <1>1
<1> HIDE DEF p
<1>7. /\ (live = vNodes \cup vNodesDisconnected /\ vNodes \cap vNodesDisconnected = {})'
      /\ live' \subseteq Slots
      /\ \A m \in Slots : IF m \in live' THEN node'[m] \in NodeRecord ELSE node'[m] = Null
      /\ SpareInv' /\ Granted' = Granted
  BY <1>1, <1>2, <1>6, NewNodeKeeps
<1>8. /\ n \notin live /\ live' = live \cup {n} /\ vNodes' = vNodes \cup {n}
      /\ node' \in [Slots -> NodeRecord \cup {Null}]
      /\ \A m \in Slots : m # n => node'[m] = node[m] /\ Spare(m)' = Spare(m)
      /\ node'[n].fInbound = FALSE /\ ~node'[n].fNetworkNode /\ Spare(n)' = 1
  BY <1>1, <1>2, <1>6, NewNodeIs
<1>9. TypeInv'
  BY <1>1, <1>4, <1>7, <1>8 DEF TypeInv
<1>10. CopyInv'
  BY <1>1, <1>8 DEF CopyInv
<1>11. OpenInv'
  <2>1. ASSUME NEW d \in Openers
        PROVE  (/\ opener[d].grant <=> opener[d].pc \in {"connect", "move"}
                /\ opener[d].pc = "connect" => opener[d].peer \in Peers
                /\ opener[d].pc \in {"idle", "connect"} => opener[d].node = Null
                /\ opener[d].pc \in {"move", "flag"} =>
                     LET k == opener[d].node
                     IN /\ k \in live /\ Spare(k) = 1 /\ ~node[k].fInbound /\ ~node[k].fNetworkNode
                        /\ opener[d].pc = "flag" /\ k \in vNodes => node[k].grant)'
    <3>1. CASE d = o
      <4>1. opener'[d].pc = "move" /\ opener'[d].node = n /\ opener'[d].grant
        BY <1>2, <1>3, <1>4, <3>1
      <4> QED
        BY <1>8, <4>1
    <3>2. CASE d # o
      <4>1. opener'[d] = opener[d] /\ opener'[d].node = opener[d].node
        BY <1>4, <3>2
      <4>2. opener[d].pc \in {"move", "flag"} => opener[d].node \in live
        BY DEF OpenInv
      <4>3. live \subseteq Slots
        BY DEF TypeInv
      <4> QED
        BY <1>8, <4>1, <4>2, <4>3, OpenKeeps
    <3> QED
      BY <3>1, <3>2
  <2>2. ASSUME NEW e \in Openers, NEW d \in Openers, e # d, opener'[e].node # Null
        PROVE  opener'[e].node # opener'[d].node
    <3>1. \A x \in Openers : opener[x].node # n
      <4>1. n # Null
        BY NodesAssumption
      <4> SUFFICES ASSUME NEW x \in Openers, opener[x].node = n PROVE FALSE
        OBVIOUS
      <4>2. opener[x].pc \in {"move", "flag"}
        BY <4>1 DEF OpenInv, TypeInv
      <4> QED
        BY <1>8, <4>2 DEF OpenInv
    <3>2. opener'[o].node = n
      BY <1>3, <1>4
    <3>3. CASE e = o
      BY <1>4, <2>2, <3>1, <3>2, <3>3
    <3>4. CASE d = o
      BY <1>4, <2>2, <3>1, <3>2, <3>4
    <3>5. CASE d # o /\ e # o
      BY <1>4, <2>2, <3>5 DEF OpenInv
    <3> QED
      BY <3>3, <3>4, <3>5
  <2> QED
    BY <2>1, <2>2 DEF OpenInv
<1>12. GrantInv'
  BY <1>1, <1>5, <1>7 DEF GrantInv
<1> QED
  BY <1>7, <1>9, <1>10, <1>11, <1>12

\* What the two steps that mark an opener's node leave alone.
LEMMA OwnNode ==
  ASSUME NodesInv, NEW o \in Openers, NEW r \in NodeRecord, NEW s,
         s \in [pc : {"idle", "connect", "move", "flag"}, peer : Peers \cup {Null},
                grant : BOOLEAN, node : Slots \cup {Null}],
         opener[o].pc \in {"move", "flag"}, ~s.grant,
         node' = [node EXCEPT ![opener[o].node] = r], opener' = [opener EXCEPT ![o] = s],
         r.nRefCount = node[opener[o].node].nRefCount,
         r.fInbound = node[opener[o].node].fInbound, opener[o].node \in vNodes => r.grant,
         s.pc \in {"flag", "idle"},
         s.pc = "flag" => s.node = opener[o].node /\ ~r.fNetworkNode,
         s.pc = "idle" => s.node = Null,
         UNCHANGED <<live, vNodes, vNodesDisconnected, pnodeSync, sock, msg>>,
         semOutbound' \in Nat
  PROVE  /\ TypeInv' /\ CopyInv' /\ SpareInv' /\ OpenInv'
         /\ WithOpeners' = WithOpeners \ {o}
         /\ r.grant => Granted' = Granted \cup {opener[o].node}
         /\ ~r.grant => Granted' = Granted \ {opener[o].node}
<1> USE DEF NodesInv
<1>0. PICK n \in Slots : n = opener[o].node
  BY DEF OpenInv, TypeInv
<1>1. /\ n \in live /\ n \in Slots /\ live \subseteq Slots /\ Spare(n) = 1 /\ ~node[n].fInbound
      /\ node \in [Slots -> NodeRecord \cup {Null}] /\ n # Null
  BY <1>0, NodesAssumption DEF OpenInv, TypeInv
<1>2. /\ node' \in [Slots -> NodeRecord \cup {Null}] /\ node'[n] = r
      /\ \A m \in Slots : m # n => node'[m] = node[m]
  BY <1>0, <1>1
<1>3. /\ opener' \in [Openers -> [pc : {"idle", "connect", "move", "flag"},
                                  peer : Peers \cup {Null}, grant : BOOLEAN,
                                  node : Slots \cup {Null}]]
      /\ opener'[o] = s /\ \A d \in Openers : d # o => opener'[d] = opener[d]
      /\ WithOpeners' = WithOpeners \ {o}
  BY OpenerIs
<1>4. TypeInv'
  BY <1>1, <1>2, <1>3 DEF TypeInv
<1>5. CopyInv'
  BY DEF CopyInv
<1>6. \A m \in Slots : Spare(m)' = Spare(m)
  BY <1>0, <1>2 DEF Spare, Copies
<1>7. SpareInv'
  <2>1. \A m \in vNodes : Spare(m)' = 1 /\ (node'[m].fNetworkNode => node'[m].grant)
    BY <1>0, <1>1, <1>2, <1>6 DEF SpareInv, TypeInv
  <2>2. \A m \in vNodesDisconnected : Spare(m)' = 0 \/ (~node'[m].fInbound /\ Spare(m)' = 1)
    BY <1>0, <1>1, <1>2, <1>6 DEF SpareInv, TypeInv
  <2> QED
    BY <2>1, <2>2 DEF SpareInv
<1>8. OpenInv'
  <2>1. ASSUME NEW d \in Openers
        PROVE  (/\ opener[d].grant <=> opener[d].pc \in {"connect", "move"}
                /\ opener[d].pc = "connect" => opener[d].peer \in Peers
                /\ opener[d].pc \in {"idle", "connect"} => opener[d].node = Null
                /\ opener[d].pc \in {"move", "flag"} =>
                     LET k == opener[d].node
                     IN /\ k \in live /\ Spare(k) = 1 /\ ~node[k].fInbound /\ ~node[k].fNetworkNode
                        /\ opener[d].pc = "flag" /\ k \in vNodes => node[k].grant)'
    <3>1. CASE d = o
      <4>1. CASE s.pc = "idle"
        BY <1>3, <3>1, <4>1
      <4>2. CASE s.pc = "flag"
        <5>1. opener'[d].node = n /\ opener'[d].pc = "flag" /\ ~opener'[d].grant
          BY <1>0, <1>3, <3>1, <4>2
        <5>2. /\ n \in live' /\ Spare(n)' = 1 /\ ~node'[n].fInbound /\ ~node'[n].fNetworkNode
              /\ (n \in vNodes' => node'[n].grant)
          BY <1>0, <1>1, <1>2, <1>6, <4>2
        <5> QED
          BY <5>1, <5>2
      <4> QED
        BY <4>1, <4>2
    <3>2. CASE d # o
      <4>1. opener'[d] = opener[d] /\ opener'[d].node = opener[d].node
        BY <1>3, <3>2
      <4>2. opener[d].pc \in {"move", "flag"} => opener[d].node \in live /\ opener[d].node # n
        BY <1>0, <1>1, <3>2 DEF OpenInv
      <4>3. ASSUME opener[d].pc \in {"move", "flag"}
            PROVE  LET k == opener[d].node
                   IN /\ k \in live' /\ Spare(k)' = Spare(k) /\ node'[k].fInbound = node[k].fInbound
                      /\ node'[k].fNetworkNode = node[k].fNetworkNode
                      /\ k \in vNodes' => k \in vNodes /\ node'[k].grant = node[k].grant
        BY <1>1, <1>2, <1>6, <4>1, <4>2, <4>3
      <4> QED
        BY <4>1, <4>3, OpenKeeps
    <3> QED
      BY <3>1, <3>2
  <2>2. \A e, d \in Openers : e # d /\ opener'[e].node # Null => opener'[e].node # opener'[d].node
    BY <1>0, <1>1, <1>3 DEF OpenInv
  <2> QED
    BY <2>1, <2>2 DEF OpenInv
<1>9. /\ r.grant => Granted' = Granted \cup {n}
      /\ ~r.grant => Granted' = Granted \ {n}
  BY <1>1, <1>2 DEF Granted
<1> QED
  BY <1>0, <1>3, <1>4, <1>5, <1>7, <1>8, <1>9

\* The grant moves to the node.
LEMMA MoveKeeps ==
  ASSUME NodesInv, NEW o \in Openers, OpenMove(o)
  PROVE  NodesInv'
<1> USE DEF NodesInv
<1> DEFINE n == opener[o].node
           r == [node[n] EXCEPT !.grant = TRUE]
           s == [opener[o] EXCEPT !.pc = "flag", !.grant = FALSE]
<1>1. /\ opener[o].pc = "move" /\ n \in live
      /\ semOutbound' = semOutbound + (IF node[n].grant THEN 1 ELSE 0)
      /\ node' = [node EXCEPT ![n].grant = TRUE]
      /\ opener' = [opener EXCEPT ![o].pc = "flag", ![o].grant = FALSE]
      /\ UNCHANGED <<live, vNodes, vNodesDisconnected, pnodeSync, sock, msg>>
  BY DEF OpenMove, lists
<1>2. /\ node \in [Slots -> NodeRecord \cup {Null}] /\ node[n] \in NodeRecord /\ n \in Slots
      /\ ~node[n].fNetworkNode /\ opener[o].grant
  BY <1>1 DEF TypeInv, OpenInv
<1>3. /\ node' = [node EXCEPT ![n] = r] /\ opener' = [opener EXCEPT ![o] = s]
  BY <1>1, <1>2 DEF TypeInv
<1>4. /\ r \in NodeRecord /\ r.grant = TRUE /\ r.nRefCount = node[n].nRefCount
      /\ r.fInbound = node[n].fInbound /\ r.fNetworkNode = node[n].fNetworkNode
  BY <1>2 DEF NodeRecord
<1>5. /\ s \in [pc : {"idle", "connect", "move", "flag"}, peer : Peers \cup {Null},
                grant : BOOLEAN, node : Slots \cup {Null}]
      /\ s.pc = "flag" /\ s.grant = FALSE /\ s.node = n
  <2>1. opener[o] \in [pc : {"idle", "connect", "move", "flag"}, peer : Peers \cup {Null},
                       grant : BOOLEAN, node : Slots \cup {Null}]
    BY DEF TypeInv
  <2> QED
    BY <2>1
<1> HIDE DEF r, s
<1>6. semOutbound \in Nat /\ semOutbound' \in Nat
  BY <1>1 DEF TypeInv
<1>7. /\ TypeInv' /\ CopyInv' /\ SpareInv' /\ OpenInv'
      /\ WithOpeners' = WithOpeners \ {o} /\ Granted' = Granted \cup {n}
  <2>1. /\ opener[o].pc \in {"move", "flag"} /\ ~s.grant /\ r.grant /\ s.pc = "flag"
        /\ s.node = opener[o].node /\ ~r.fNetworkNode
        /\ r.nRefCount = node[opener[o].node].nRefCount
        /\ r.fInbound = node[opener[o].node].fInbound
    BY <1>1, <1>2, <1>4, <1>5
  <2>2. /\ node' = [node EXCEPT ![opener[o].node] = r] /\ opener' = [opener EXCEPT ![o] = s]
        /\ UNCHANGED <<live, vNodes, vNodesDisconnected, pnodeSync, sock, msg>>
    BY <1>1, <1>3
  <2>3. /\ r \in NodeRecord
        /\ s \in [pc : {"idle", "connect", "move", "flag"}, peer : Peers \cup {Null},
                  grant : BOOLEAN, node : Slots \cup {Null}]
    BY <1>4, <1>5
  <2>4. PICK u, v : u = r /\ v = s
    OBVIOUS
  <2> HIDE DEF n, NodesInv
  <2>5. /\ TypeInv' /\ CopyInv' /\ SpareInv' /\ OpenInv'
        /\ WithOpeners' = WithOpeners \ {o} /\ Granted' = Granted \cup {opener[o].node}
    BY <1>6, <2>1, <2>2, <2>3, <2>4, OwnNode
  <2> QED
    BY <2>5 DEF n
<1>8. GrantInv'
  <2>1. o \in WithOpeners
    BY <1>2 DEF WithOpeners
  <2>2. /\ IsFiniteSet(WithOpeners') /\ Cardinality(WithOpeners) \in Nat
        /\ Cardinality(WithOpeners') = Cardinality(WithOpeners) - 1
    BY <1>7, <2>1, OpenerGrants
  <2>3. Cardinality(Granted) \in Nat /\ Cardinality(Granted') \in Nat
    BY <1>7, NodeGrants, FS_AddElement, FS_CardinalityType
  <2>4. MaxOutbound = semOutbound + Cardinality(WithOpeners) + Cardinality(Granted)
    BY DEF GrantInv
  <2>5. CASE node[n].grant
    <3>1. Granted' = Granted
      BY <1>1, <1>7, <2>5 DEF Granted
    <3>2. Cardinality(Granted') = Cardinality(Granted) /\ semOutbound' = semOutbound + 1
      BY <1>1, <2>5, <3>1
    <3>3. MaxOutbound = semOutbound' + Cardinality(WithOpeners') + Cardinality(Granted')
      BY <1>6, <2>2, <2>3, <2>4, <3>2
    <3> QED
      BY <2>2, <3>3 DEF GrantInv
  <2>6. CASE ~node[n].grant
    <3>1. n \notin Granted
      BY <2>6 DEF Granted
    <3>2. Cardinality(Granted') = Cardinality(Granted) + 1
      BY <1>7, <3>1, NodeGrants
    <3>3. semOutbound' = semOutbound
      BY <1>1, <1>6, <2>6
    <3>4. MaxOutbound = semOutbound' + Cardinality(WithOpeners') + Cardinality(Granted')
      BY <1>6, <2>2, <2>3, <2>4, <3>2, <3>3
    <3> QED
      BY <2>2, <3>4 DEF GrantInv
  <2> QED
    BY <2>5, <2>6
<1> QED
  BY <1>7, <1>8

\* The node becomes a network node.
LEMMA FlagKeeps ==
  ASSUME NodesInv, NEW o \in Openers, OpenFlag(o)
  PROVE  NodesInv'
<1> USE DEF NodesInv
<1> DEFINE n == opener[o].node
           r == [node[n] EXCEPT !.fNetworkNode = TRUE]
<1>1. /\ opener[o].pc = "flag" /\ n \in live /\ semOutbound' = semOutbound
      /\ node' = [node EXCEPT ![n].fNetworkNode = TRUE] /\ opener' = [opener EXCEPT ![o] = Idle]
      /\ UNCHANGED <<live, vNodes, vNodesDisconnected, pnodeSync, sock, msg>>
  BY DEF OpenFlag, lists
<1>2. /\ node \in [Slots -> NodeRecord \cup {Null}] /\ node[n] \in NodeRecord /\ n \in Slots
      /\ ~opener[o].grant /\ (n \in vNodes => node[n].grant)
  BY <1>1 DEF TypeInv, OpenInv
<1>3. node' = [node EXCEPT ![n] = r]
  BY <1>1, <1>2
<1>4. /\ r \in NodeRecord /\ r.grant = node[n].grant /\ r.nRefCount = node[n].nRefCount
      /\ r.fInbound = node[n].fInbound
  BY <1>2 DEF NodeRecord
<1>5. /\ Idle \in [pc : {"idle", "connect", "move", "flag"}, peer : Peers \cup {Null},
                   grant : BOOLEAN, node : Slots \cup {Null}]
      /\ Idle.pc = "idle" /\ Idle.grant = FALSE /\ Idle.node = Null
  BY DEF Idle
<1> HIDE DEF r
<1>6. PICK u, v : u = r /\ v = Idle
  OBVIOUS
<1>7. semOutbound' \in Nat
  BY <1>1 DEF TypeInv
<1>8. /\ TypeInv' /\ CopyInv' /\ SpareInv' /\ OpenInv' /\ WithOpeners' = WithOpeners \ {o}
      /\ node[n].grant => Granted' = Granted \cup {n}
      /\ ~node[n].grant => Granted' = Granted \ {n}
  <2>1. /\ opener[o].pc \in {"move", "flag"} /\ ~v.grant /\ v.pc = "idle" /\ v.node = Null
        /\ u.nRefCount = node[opener[o].node].nRefCount
        /\ u.fInbound = node[opener[o].node].fInbound
        /\ opener[o].node \in vNodes => u.grant
        /\ u.grant <=> node[opener[o].node].grant
    BY <1>1, <1>2, <1>4, <1>5, <1>6
  <2>2. /\ node' = [node EXCEPT ![opener[o].node] = u] /\ opener' = [opener EXCEPT ![o] = v]
        /\ UNCHANGED <<live, vNodes, vNodesDisconnected, pnodeSync, sock, msg>>
    BY <1>1, <1>3, <1>6
  <2>3. /\ u \in NodeRecord
        /\ v \in [pc : {"idle", "connect", "move", "flag"}, peer : Peers \cup {Null},
                  grant : BOOLEAN, node : Slots \cup {Null}]
    BY <1>4, <1>5, <1>6
  <2> HIDE DEF n, NodesInv
  <2>4. /\ TypeInv' /\ CopyInv' /\ SpareInv' /\ OpenInv' /\ WithOpeners' = WithOpeners \ {o}
        /\ u.grant => Granted' = Granted \cup {opener[o].node}
        /\ ~u.grant => Granted' = Granted \ {opener[o].node}
    BY <1>7, <2>1, <2>2, <2>3, OwnNode
  <2> QED
    BY <2>1, <2>4 DEF n
<1>9. WithOpeners' = WithOpeners
  BY <1>2, <1>8 DEF WithOpeners
<1>10. Granted' = Granted
  <2>1. CASE node[n].grant
    BY <1>1, <1>8, <2>1 DEF Granted
  <2>2. CASE ~node[n].grant
    BY <1>8, <2>2 DEF Granted
  <2> QED
    BY <2>1, <2>2
<1>11. GrantInv'
  BY <1>1, <1>9, <1>10 DEF GrantInv
<1> QED
  BY <1>8, <1>11

\* A connection of the RPC.
LEMMA OneTryKeeps ==
  ASSUME NodesInv, NEW n \in Slots, NEW p \in Peers, OneTry(n, p)
  PROVE  NodesInv'
<1> USE DEF NodesInv
<1>1. /\ NewNode(n, p, FALSE) /\ UNCHANGED <<semOutbound, pnodeSync, sock, msg, opener>>
      /\ sock'.copy = sock.copy /\ msg'.copy = msg.copy
  BY DEF OneTry
<1>2. /\ (live = vNodes \cup vNodesDisconnected /\ vNodes \cap vNodesDisconnected = {})'
      /\ live' \subseteq Slots
      /\ \A m \in Slots : IF m \in live' THEN node'[m] \in NodeRecord ELSE node'[m] = Null
      /\ SpareInv' /\ Granted' = Granted
  BY <1>1, NewNodeKeeps
<1>3. /\ n \notin live /\ live' = live \cup {n} /\ vNodes' = vNodes \cup {n}
      /\ node' \in [Slots -> NodeRecord \cup {Null}]
      /\ \A m \in Slots : m # n => node'[m] = node[m] /\ Spare(m)' = Spare(m)
  BY <1>1, NewNodeIs
<1>4. TypeInv'
  BY <1>1, <1>2, <1>3 DEF TypeInv
<1>5. CopyInv'
  BY <1>1, <1>3 DEF CopyInv
<1>6. OpenInv'
  <2>1. ASSUME NEW o \in Openers, opener[o].pc \in {"move", "flag"}
        PROVE  LET k == opener[o].node
               IN /\ k \in live' /\ Spare(k)' = Spare(k) /\ node'[k].fInbound = node[k].fInbound
                  /\ node'[k].fNetworkNode = node[k].fNetworkNode
                  /\ k \in vNodes' => k \in vNodes /\ node'[k].grant = node[k].grant
    <3>1. opener[o].node \in live /\ live \subseteq Slots
      BY <2>1 DEF OpenInv, TypeInv
    <3>2. opener'[o].node = opener[o].node
      BY <1>1
    <3> QED
      BY <1>3, <3>1, <3>2
  <2>2. \A o, d \in Openers : o # d /\ opener'[o].node # Null => opener'[o].node # opener'[d].node
    BY <1>1 DEF OpenInv
  <2> QED
    BY <1>1, <2>1, <2>2, OpenKeeps DEF OpenInv
<1>7. WithOpeners' = WithOpeners /\ semOutbound' = semOutbound
  BY <1>1 DEF WithOpeners
<1>8. GrantInv'
  BY <1>2, <1>7 DEF GrantInv
<1> QED
  BY <1>2, <1>4, <1>5, <1>6, <1>8

(***************************************************************************)
(* The theorems                                                            *)
(***************************************************************************)

\* In every reachable state the lists, the copies the two threads work on, the
\* reference counts, what the openers hold and the grants of semOutbound agree.
THEOREM NodesInvariant == Spec => []NodesInv
<1>1. Init => NodesInv
  BY InitNodesInv
<1>2. ASSUME NodesInv, [Next]_vars PROVE NodesInv'
  <2>1. CASE SockStep
    BY <1>2, <2>1, SockKeeps
  <2>2. CASE MsgStep
    BY <1>2, <2>2, MsgKeeps
  <2>3. ASSUME NEW o \in Openers, OpenStep(o) PROVE NodesInv'
    BY <1>2, <2>3, BeginKeeps, ConnectKeeps, FailKeeps, MoveKeeps, FlagKeeps DEF OpenStep
  <2>4. ASSUME NEW n \in Slots, NEW p \in Targets[Rpc], OneTry(n, p) PROVE NodesInv'
    <3>1. p \in Peers
      BY NodesAssumption
    <3> QED
      BY <1>2, <2>4, <3>1, OneTryKeeps
  <2>5. CASE UNCHANGED vars
    <3>1. /\ UNCHANGED <<node, live, vNodes, vNodesDisconnected, semOutbound, pnodeSync>>
          /\ UNCHANGED <<sock, msg, opener>>
      BY <2>5 DEF vars
    <3>2. TypeInv' /\ CopyInv'
      BY <1>2, <3>1 DEF NodesInv, TypeInv, CopyInv
    <3>3. SpareInv' /\ OpenInv'
      BY <1>2, <3>1 DEF NodesInv, SpareInv, OpenInv, Spare, Copies
    <3>4. WithOpeners' = WithOpeners /\ Granted' = Granted
      BY <3>1 DEF WithOpeners, Granted
    <3>5. GrantInv'
      BY <1>2, <3>1, <3>4 DEF NodesInv, GrantInv
    <3> QED
      BY <3>2, <3>3, <3>5 DEF NodesInv
  <2> QED
    BY <1>2, <2>1, <2>2, <2>3, <2>4, <2>5 DEF Next
<1> QED
  BY <1>1, <1>2, PTL DEF Spec

\* No grant is lost or given back twice, whatever threads open and connections
\* close, and the connections that were opened never exceed MaxOutbound.
THEOREM GrantsAreConserved == Spec => []GrantsConserved
<1>1. NodesInv => GrantsConserved
  <2> SUFFICES ASSUME NodesInv PROVE GrantsConserved
    OBVIOUS
  <2> USE DEF NodesInv
  <2>1. MaxOutbound = semOutbound + Cardinality(WithOpeners) + Cardinality(Granted)
    BY DEF GrantInv
  <2>2. /\ semOutbound \in Nat /\ Cardinality(WithOpeners) \in Nat
        /\ IsFiniteSet(Granted) /\ Cardinality(Granted) \in Nat
    BY NodeGrants, FS_CardinalityType DEF TypeInv, GrantInv
  <2> DEFINE N == {n \in vNodes : node[n].fNetworkNode}
  <2>3. N \subseteq Granted
    BY DEF Granted, SpareInv, TypeInv
  <2>4. Cardinality(N) <= Cardinality(Granted) /\ Cardinality(N) \in Nat
    BY <2>2, <2>3, FS_Subset, FS_CardinalityType
  <2>5. Cardinality(N) <= MaxOutbound
    BY <2>1, <2>2, <2>4
  <2> QED
    BY <2>1, <2>5 DEF GrantsConserved, WithOpeners, Granted
<1> QED
  BY <1>1, NodesInvariant, PTL

\* No thread and no opener can reach a node that was deleted, and every count of
\* references is exact.
THEOREM RefsAreSound == Spec => []RefsSound
<1>1. NodesInv => RefsSound
  <2> SUFFICES ASSUME NodesInv PROVE RefsSound
    OBVIOUS
  <2> USE DEF NodesInv
  <2>1. semOutbound \in 0 .. MaxOutbound
    <3>1. MaxOutbound = semOutbound + Cardinality(WithOpeners) + Cardinality(Granted)
      BY DEF GrantInv
    <3>2. /\ semOutbound \in Nat /\ Cardinality(WithOpeners) \in Nat
          /\ Cardinality(Granted) \in Nat
      BY NodeGrants, FS_CardinalityType DEF TypeInv, GrantInv
    <3> QED
      BY <3>1, <3>2, NodesAssumption
  <2>2. TypeOK
    BY <2>1 DEF TypeOK, TypeInv, NodeRecord
  <2>3. UsedAlive
    BY DEF UsedAlive, CopyInv, OpenInv, TypeInv
  <2>4. \A n \in live : node[n].nRefCount \in Int /\ Copies(n) \in Nat
    BY DEF TypeInv, NodeRecord, Copies
  <2>5. ASSUME NEW n \in live
        PROVE  /\ Spare(n) = 1 => node[n].nRefCount = Copies(n) + 1
               /\ Spare(n) = 0 => node[n].nRefCount = Copies(n)
    BY <2>4 DEF Spare
  <2>6. RefsExact
    BY <2>5 DEF RefsExact, SpareInv, TypeInv
  <2> QED
    BY <2>2, <2>3, <2>6 DEF RefsSound
<1> QED
  BY <1>1, NodesInvariant, PTL

=============================================================================

--------------------------------- MODULE Flow ---------------------------------
(***************************************************************************)
(* Flow control between two connected nodes (net.cpp, net.h).  On either   *)
(* side the message thread processes complete messages while the send      *)
(* buffer is not full and queues answers, and the socket thread first      *)
(* decides, before select(), whether to wait for room to send or for data, *)
(* and then sends or receives.  Between them is a TCP connection holding   *)
(* a bounded number of bytes in each direction.  All messages have one     *)
(* size, counted in bytes that may be sent a few at a time.  The version   *)
(* messages are behind: the check of the first 60 seconds is left out.     *)
(*                                                                         *)
(* Time passes in ticks of just over 30 minutes, an age for the threads:   *)
(* FlowTick waits until neither thread of either side has anything to do.      *)
(***************************************************************************)
EXTENDS Integers

CONSTANTS
  Sides,          \* the two nodes
  MsgSize,        \* bytes of a message, header included
  PipeCap,        \* bytes TCP holds in each direction
  SendBufferSize, \* -maxsendbuffer
  ReceiveFloodSize, \* -maxreceivebuffer
  RecvChunk,      \* bytes of one recv()
  MaxReply,       \* bound: messages queued while one is processed
  MaxQueue,       \* bound: bytes queued when SendMessages adds one of its own
  PingAfter,      \* ticks without sending after which a ping is sent
  Timeout         \* ticks after which a silent or blocked connection is dropped

ASSUME FlowAssumption ==
  /\ \E a, b \in Sides : a # b /\ Sides = {a, b}
  /\ {MsgSize, PipeCap, RecvChunk, PingAfter} \subseteq Nat \ {0}
  /\ {SendBufferSize, ReceiveFloodSize, MaxReply, MaxQueue, Timeout} \subseteq Nat
  /\ PingAfter < Timeout

VARIABLES
  up,         \* the connection is open
  queue,      \* bytes of vSendMsg that are not sent yet
  pipe,       \* bytes on their way from each side
  recv,       \* bytes in vRecvMsg
  mode,       \* socket thread: what it waits for in select()
  sinceSend, sinceEmpty, sinceRecv  \* ages of nLastSend, nLastSendEmpty, nLastRecv

ages == <<sinceSend, sinceEmpty, sinceRecv>>
flowVars == <<up, queue, pipe, recv, mode, ages>>

Other(x) == CHOOSE y \in Sides : y # x
Smaller(a, b) == IF a < b THEN a ELSE b
Larger(a, b) == IF a > b THEN a ELSE b

FlowInit ==
  /\ up = TRUE
  /\ queue = [x \in Sides |-> 0]
  /\ pipe = [x \in Sides |-> 0]
  /\ recv = [x \in Sides |-> 0]
  /\ mode = [x \in Sides |-> "loop"]
  /\ sinceSend = [x \in Sides |-> 0]
  /\ sinceEmpty = [x \in Sides |-> 0]
  /\ sinceRecv = [x \in Sides |-> 0]

\* nSendSize counts the first message whole until all of it is sent.
SendSize(x) == ((queue[x] + MsgSize - 1) \div MsgSize) * MsgSize

Complete(x) == recv[x] >= MsgSize

\* Fault: the size of the buffer is not looked at.
WantsDataUnbounded(x) == TRUE

\* The condition to select() for receiving data.
WantsData(x) == ~Complete(x) \/ recv[x] <= ReceiveFloodSize

\* SocketSendData: send what the connection takes.
SocketSendData(x, bytes) ==
  LET n == Smaller(bytes, PipeCap - pipe[x])
  IN /\ queue' = [queue EXCEPT ![x] = bytes - n]
     /\ pipe' = [pipe EXCEPT ![x] = @ + n]
     /\ sinceSend' = [sinceSend EXCEPT ![x] = IF n > 0 THEN 0 ELSE @]

\* k messages are queued; the first goes out at once if the queue was empty
\* (the optimistic write of EndMessage), and so on while they are sent whole.
PushMessages(x, k) ==
  IF queue[x] = 0
  THEN SocketSendData(x, k * MsgSize)
  ELSE /\ queue' = [queue EXCEPT ![x] = @ + k * MsgSize]
       /\ UNCHANGED <<pipe, sinceSend>>

-----------------------------------------------------------------------------
\* The socket thread prepares select(): if there is data to send, it waits for
\* room to send it, and only for that ...
SelectSend(x) ==
  /\ up /\ mode[x] = "loop"
  /\ queue[x] > 0
  /\ mode' = [mode EXCEPT ![x] = "send"]
  /\ UNCHANGED <<up, queue, pipe, recv, ages>>

\* ... and otherwise, or when the message thread holds cs_vSend just now, for
\* data, if there is place for it, ...
SelectRecv(x) ==
  /\ up /\ mode[x] = "loop"
  /\ WantsData(x)
  /\ mode' = [mode EXCEPT ![x] = "recv"]
  /\ UNCHANGED <<up, queue, pipe, recv, ages>>

\* ... or for nothing, if there is none or the message thread holds the locks.
SelectNone(x) ==
  /\ up /\ mode[x] = "loop"
  /\ mode' = [mode EXCEPT ![x] = "none"]
  /\ UNCHANGED <<up, queue, pipe, recv, ages>>

\* Fault: the checks are never reached.
NeverInactive(x) == FALSE

\* The inactivity checks: "socket not sending" and "socket inactivity timeout".
Inactive(x) ==
  \/ sinceSend[x] >= Timeout /\ sinceEmpty[x] >= Timeout
  \/ sinceRecv[x] >= Timeout

\* After select(): receive or send what is possible, then the inactivity checks.
Service(x) ==
  /\ up /\ mode[x] # "loop"
  /\ \/ /\ mode[x] = "send"
        /\ SocketSendData(x, queue[x])
        /\ UNCHANGED <<recv, sinceRecv>>
     \/ /\ mode[x] = "recv"
        /\ LET n == Smaller(RecvChunk, pipe[Other(x)])
           IN /\ recv' = [recv EXCEPT ![x] = @ + n]
              /\ pipe' = [pipe EXCEPT ![Other(x)] = @ - n]
              /\ sinceRecv' = [sinceRecv EXCEPT ![x] = IF n > 0 THEN 0 ELSE @]
        /\ UNCHANGED <<queue, sinceSend>>
     \/ mode[x] = "none" /\ UNCHANGED <<queue, pipe, recv, sinceSend, sinceRecv>>
  /\ sinceEmpty' = [sinceEmpty EXCEPT ![x] = IF queue'[x] = 0 THEN 0 ELSE @]
  /\ up' = ~Inactive(x)'
  /\ mode' = [mode EXCEPT ![x] = "loop"]

\* ProcessMessages: a complete message, unless the send buffer is full.
ProcessMessage(x) ==
  /\ up /\ Complete(x)
  /\ SendSize(x) < SendBufferSize
  /\ recv' = [recv EXCEPT ![x] = @ - MsgSize]
  /\ \E k \in 0 .. MaxReply : PushMessages(x, k)
  /\ UNCHANGED <<up, mode, sinceEmpty, sinceRecv>>

\* Fault: the ping waits as long as the time-out.
PingDueLate(x) == sinceSend[x] >= Timeout /\ queue[x] = 0

\* "Keep-alive ping": nothing sent for 30 minutes, nothing queued.
PingDue(x) == sinceSend[x] >= PingAfter /\ queue[x] = 0

\* SendMessages: the keep-alive ping.
Ping(x) ==
  /\ up /\ PingDue(x)
  /\ PushMessages(x, 1)
  /\ UNCHANGED <<up, recv, mode, sinceEmpty, sinceRecv>>

\* SendMessages: an inventory, a request or an address of its own accord.
Announce(x) ==
  /\ up /\ queue[x] < MaxQueue
  /\ PushMessages(x, 1)
  /\ UNCHANGED <<up, recv, mode, sinceEmpty, sinceRecv>>

\* What a side still has to do before any time worth counting has passed.
Busy(x) ==
  \/ queue[x] > 0 /\ pipe[x] < PipeCap
  \/ queue[x] = 0 /\ pipe[Other(x)] > 0 /\ WantsData(x)
  \/ Complete(x) /\ SendSize(x) < SendBufferSize
  \/ PingDue(x)
  \/ queue[x] = 0 /\ sinceEmpty[x] > 0
  \/ mode[x] = "recv" /\ pipe[Other(x)] > 0
  \/ Inactive(x)

FlowTick ==
  /\ up
  /\ \A x \in Sides : ~Busy(x)
  /\ sinceSend' = [x \in Sides |-> Smaller(sinceSend[x] + 1, Timeout)]
  /\ sinceEmpty' = [x \in Sides |-> Smaller(sinceEmpty[x] + 1, Timeout)]
  /\ sinceRecv' = [x \in Sides |-> Smaller(sinceRecv[x] + 1, Timeout)]
  /\ UNCHANGED <<up, queue, pipe, recv, mode>>

\* Nothing happens on a connection that is closed.
Closed == ~up /\ UNCHANGED flowVars

FlowNext ==
  \/ \E x \in Sides :
       \/ SelectSend(x) \/ SelectRecv(x) \/ SelectNone(x) \/ Service(x)
       \/ ProcessMessage(x) \/ Ping(x) \/ Announce(x)
  \/ FlowTick
  \/ Closed

FlowSpec == FlowInit /\ [][FlowNext]_flowVars

\* Both threads of both sides run for ever, and time passes.  The message
\* thread sleeps with every pass, so its locks are not taken whenever the socket
\* thread tries them.
FlowFairSpec ==
  /\ FlowSpec
  /\ \A x \in Sides :
       /\ WF_flowVars(SelectSend(x) \/ SelectRecv(x) \/ SelectNone(x) \/ Service(x))
       /\ SF_flowVars(SelectSend(x))
       /\ SF_flowVars(queue[x] = 0 /\ SelectRecv(x))
       /\ WF_flowVars(ProcessMessage(x))
       /\ WF_flowVars(Ping(x))
  /\ WF_flowVars(FlowTick)

-----------------------------------------------------------------------------
\* Buffers and ages stay within their bounds.
FlowTypeOK ==
  /\ up \in BOOLEAN
  /\ queue \in [Sides -> Nat]
  /\ pipe \in [Sides -> 0 .. PipeCap]
  /\ recv \in [Sides -> Nat]
  /\ mode \in [Sides -> {"loop", "send", "recv", "none"}]
  /\ {sinceSend, sinceEmpty, sinceRecv} \subseteq [Sides -> 0 .. Timeout]

\* A peer that sends faster than its messages are processed fills the receive
\* buffer to its limit, or to one message that is not complete, and by one
\* recv() more (net.cpp:877-881, read before select() and acted on after it).
RecvBounded ==
  \A x \in Sides : recv[x] <= Larger(ReceiveFloodSize, MsgSize - 1) + RecvChunk

\* No buffer outgrows its bound, the connection's capacity included.
BuffersBounded == FlowTypeOK /\ RecvBounded

\* Both sides wait for the other to read: each has data to send, the
\* connection is full in both directions, and data to send keeps a side from
\* selecting for receiving.
Stalled == \A x \in Sides : queue[x] > 0 /\ pipe[x] = PipeCap

\* The time-outs run out only on a connection that is stalled: in any other
\* state the ping of an idle side is sent, and received, in time for both.
InactiveOnlyStalled ==
  [][\A x \in Sides : ~Inactive(x) /\ Inactive(x)' => Stalled]_flowVars

\* Data that waits because the connection is full does not wait for ever: the
\* peer reads, or the connection is dropped.
BlockedEnds ==
  \A x \in Sides :
    (up /\ queue[x] > 0 /\ pipe[x] = PipeCap) ~> (~up \/ pipe[x] < PipeCap)
=============================================================================

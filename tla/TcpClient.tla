----------------------------- MODULE TcpClient ------------------------------
(***************************************************************************)
(* The network task of the CM7 (tcpclient.c): one socket to the host, the  *)
(* queue of messages for it, and the stream that is being sent.            *)
(*                                                                         *)
(* The client task goes round its loop; "pc" is the place where other      *)
(* tasks and the network may come in between.  The controller queues       *)
(* replies and starts streams, the telemetry task queues heartbeats, and   *)
(* the link and the host fail at any time, or the host stops reading.  A   *)
(* message is its number, a stream its number and its chunks.  The socket  *)
(* is a blocking one, without a time limit: a send returns when the host   *)
(* has room, or when the connection is found dead.  The task holds         *)
(* tx_mutex meanwhile, and nobody can start a stream; CloseSocket does not *)
(* take it.                                                                *)
(***************************************************************************)
EXTENDS Naturals, Sequences

CONSTANTS
  MailboxSize,  \* TCPCLIENT_TX_MBOX_SIZE (128)
  Sizes,        \* total_size of a stream, in chunks
  MaxMessages,  \* bounds of the model: messages queued,
  MaxStreams,   \*   streams started,
  MaxFaults     \*   failures of the link and of connections, reconnect requests

ASSUME TcpClientAssumption ==
  /\ MailboxSize \in Nat \ {0} /\ Sizes \subseteq Nat
  /\ MaxMessages \in Nat /\ MaxStreams \in Nat /\ MaxFaults \in Nat

VARIABLES
  pc,         \* where the client task is in its loop
  connected,  \* the flag, and the socket exists
  asked,      \* reconnect_requested
  mbox,       \* tx_mbox
  tx,         \* the message taken from it, while it is being sent
  stream,     \* number (0: not active), header_sent, chunks sent, total
  telemetry,  \* the telemetry task has found the stream idle and will send
  stable,     \* the link has been up long enough
  alive,      \* the connection still reaches the host,
  stalled,    \* which does not read, and lwip_send waits
  wire,       \* history: what has been sent on the current connection
  messages, streams, faults,  \* history: messages queued, streams started, failures
  done        \* history: how often done_fn has been called for a stream

task  == <<pc, connected, asked>>
mail  == <<mbox, tx>>
net   == <<stable, alive, stalled, faults>>
count == <<messages, streams>>
vars  == <<task, mail, stream, telemetry, net, wire, count, done>>

Free == [kind |-> "none", id |-> 0, part |-> 0, total |-> 0]     \* no message is held
None == [id |-> 0, header |-> FALSE, sent |-> 0, total |-> 0]    \* after the memset
Active == stream.id # 0

Message(k) == [kind |-> k, id |-> messages + 1, part |-> 0, total |-> 0]
Part(k)    == [kind |-> "stream", id |-> stream.id, part |-> k, total |-> stream.total]

Init ==
  /\ pc = "top" /\ connected = FALSE /\ asked = FALSE
  /\ mbox = <<>> /\ tx = Free /\ stream = None /\ telemetry = FALSE
  /\ stable = FALSE /\ alive = FALSE /\ stalled = FALSE
  /\ wire = <<>> /\ messages = 0 /\ streams = 0 /\ faults = 0
  /\ done = [s \in 1..MaxStreams |-> 0]

-----------------------------------------------------------------------------
(* The other tasks.                                                        *)

\* Mutant: no look at the room in the queue.
Queue_NoRoom(k) ==
  /\ messages < MaxMessages
  /\ messages' = messages + 1
  /\ mbox' = Append(mbox, Message(k)) /\ UNCHANGED tx

\* TcpClient_SendBuffer: does not look at the connection.
Queue(k) ==
  /\ messages < MaxMessages
  /\ messages' = messages + 1 /\ UNCHANGED tx
  /\ \/ Len(mbox) < MailboxSize /\ mbox' = Append(mbox, Message(k))
     \/ UNCHANGED mbox                   \* no memory, or no room: the caller ignores it

\* A reply of ControllerTask.
SendBuffer ==
  /\ Queue("reply")
  /\ UNCHANGED <<task, stream, telemetry, net, wire, streams, done>>

\* Telemetry_SendIdleHeartbeat: the test, and later the sending.
HeartbeatTest ==
  /\ ~telemetry /\ messages < MaxMessages
  /\ connected /\ ~Active
  /\ telemetry' = TRUE
  /\ UNCHANGED <<task, mail, stream, net, wire, count, done>>

HeartbeatSend ==
  /\ telemetry /\ telemetry' = FALSE
  /\ Queue("heartbeat")
  /\ UNCHANGED <<task, stream, net, wire, streams, done>>

\* TcpClient_StartStream and StartStreamPtr: connected or not.  A stream that is
\* active makes them answer -2, and a send under way makes them wait for tx_mutex.
StartStream ==
  /\ streams < MaxStreams /\ ~Active /\ pc # "send"
  /\ streams' = streams + 1
  /\ \E n \in Sizes : stream' = [None EXCEPT !.id = streams + 1, !.total = n]
  /\ UNCHANGED <<task, mail, telemetry, net, wire, messages, done>>

\* TcpClient_RequestReconnect
RequestReconnect ==
  /\ ~asked /\ faults < MaxFaults
  /\ asked' = TRUE /\ faults' = faults + 1
  /\ UNCHANGED <<pc, connected, mail, stream, telemetry, stable, alive, stalled, wire, count, done>>

-----------------------------------------------------------------------------
(* The client task.                                                        *)

Goto(l) == pc' = l
conn == <<connected, alive, stalled, stream>>

\* Mutant: the stream outlives its socket.
CloseSocket_KeepStream ==
  /\ connected' = FALSE /\ alive' = FALSE /\ stalled' = FALSE
  /\ UNCHANGED stream

\* TcpClient_CloseSocket: the stream is forgotten, its done_fn not called.
CloseSocket ==
  /\ connected' = FALSE /\ alive' = FALSE /\ stalled' = FALSE
  /\ stream' = None

\* TcpClient_ConnectOnce succeeds: a new socket.
ConnectOk ==
  /\ pc = "top" /\ ~connected /\ stable
  /\ connected' = TRUE /\ alive' = TRUE /\ wire' = <<>>
  /\ UNCHANGED <<pc, asked, mail, stream, telemetry, stable, stalled, faults, count, done>>

\* It fails after it has made a socket, which it closes.
ConnectFails ==
  /\ pc = "top" /\ ~connected /\ stable /\ faults < MaxFaults
  /\ CloseSocket /\ faults' = faults + 1
  /\ UNCHANGED <<pc, asked, mail, telemetry, stable, wire, count, done>>

\* The top of the loop, with a connection.
Asked ==
  /\ pc = "top" /\ connected
  /\ IF asked
     THEN CloseSocket /\ UNCHANGED pc
     ELSE Goto("link") /\ UNCHANGED conn
  /\ asked' = FALSE
  /\ UNCHANGED <<mail, telemetry, stable, faults, wire, count, done>>

\* The test of the link, which also stands before a connection.
Link ==
  /\ pc = "link"
  /\ IF stable
     THEN Goto("queue") /\ UNCHANGED conn
     ELSE Goto("top") /\ CloseSocket
  /\ UNCHANGED <<asked, mail, telemetry, stable, faults, wire, count, done>>

\* TcpClient_SendQueued takes a message,
FetchQueued ==
  /\ pc = "queue" /\ mbox # <<>>
  /\ Goto("send")
  /\ tx' = Head(mbox) /\ mbox' = Tail(mbox)
  /\ UNCHANGED <<connected, asked, stream, telemetry, net, wire, count, done>>

\* and sends it; one whose sending fails is freed as well.
SendQueued ==
  /\ pc = "send" /\ tx' = Free
  /\ \/ /\ alive /\ ~stalled
        /\ wire' = Append(wire, tx)
        /\ Goto("queue") /\ UNCHANGED asked
     \/ /\ ~alive
        /\ Goto("top") /\ asked' = TRUE
        /\ UNCHANGED wire
  /\ UNCHANGED <<connected, mbox, stream, telemetry, net, count, done>>

QueueEmpty ==
  /\ pc = "queue" /\ mbox = <<>>
  /\ Goto(IF asked THEN "top" ELSE IF Active THEN "stream" ELSE "select")
  /\ UNCHANGED <<connected, asked, mail, stream, telemetry, net, wire, count, done>>

\* Mutant: the stream's state is not cleared.
FinishStream_Keep ==
  /\ UNCHANGED stream
  /\ done' = IF Active THEN [done EXCEPT ![stream.id] = @ + 1] ELSE done

\* TcpClient_FinishStream: nothing, when the stream is not active any more.
FinishStream ==
  /\ stream' = None
  /\ done' = IF Active THEN [done EXCEPT ![stream.id] = @ + 1] ELSE done

\* TcpClient_ProcessStream sends the header.
StreamHeader ==
  /\ pc = "stream" /\ Active /\ ~stream.header
  /\ Goto("poll")
  /\ \/ /\ alive /\ ~stalled
        /\ wire' = Append(wire, Part(0))
        /\ stream' = [stream EXCEPT !.header = TRUE]
        /\ UNCHANGED <<asked, done>>
     \/ /\ ~alive
        /\ asked' = TRUE /\ FinishStream
        /\ UNCHANGED wire
  /\ UNCHANGED <<connected, mail, telemetry, net, count>>

\* Mutant: a read that fails is tried again.
StreamChunk_Retry ==
  /\ pc = "stream" /\ Active /\ stream.header
  /\ Goto("poll")
  /\ UNCHANGED <<connected, asked, mail, stream, telemetry, net, wire, count, done>>

\* It reads a chunk, or ends the stream: one that is complete or empty, and one
\* whose read fails.
StreamChunk ==
  /\ pc = "stream" /\ Active /\ stream.header
  /\ \/ Goto("poll") /\ FinishStream
     \/ /\ stream.sent < stream.total /\ Goto("chunk")
        /\ UNCHANGED <<stream, done>>
  /\ UNCHANGED <<connected, asked, mail, telemetry, net, wire, count>>

\* It sends the chunk; the stream ends with the last one, and when it cannot be sent.
SendChunk ==
  /\ pc = "chunk" /\ Goto("poll")
  /\ \/ /\ alive /\ ~stalled
        /\ wire' = Append(wire, Part(stream.sent + 1))
        /\ IF stream.sent + 1 >= stream.total
           THEN FinishStream
           ELSE stream' = [stream EXCEPT !.sent = @ + 1] /\ UNCHANGED done
        /\ UNCHANGED asked
     \/ /\ ~alive
        /\ FinishStream /\ asked' = TRUE
        /\ UNCHANGED wire
  /\ UNCHANGED <<connected, mail, telemetry, net, count>>

\* TcpClient_PollRxNonBlocking between two chunks: a command, or nothing, or the
\* end of the connection.
Poll ==
  /\ pc = "poll"
  /\ \/ /\ UNCHANGED conn
        /\ Goto(IF asked \/ Active THEN "top" ELSE "select")
     \/ /\ ~alive /\ CloseSocket
        /\ Goto(IF asked THEN "top" ELSE "select")
  /\ UNCHANGED <<asked, mail, telemetry, stable, faults, wire, count, done>>

\* Mutant: the end of the connection is not noticed.
Select_Blind ==
  /\ pc = "select"
  /\ Goto("top")
  /\ UNCHANGED <<connected, asked, mail, stream, telemetry, net, wire, count, done>>

\* The wait for commands: until the time is over, on a live connection; the end of
\* the connection makes the socket readable.  A socket that Poll has closed may
\* give an error, and is closed once more.
Select ==
  /\ pc = "select"
  /\ Goto("top")
  /\ \/ (alive \/ ~connected) /\ UNCHANGED conn
     \/ ~alive /\ CloseSocket
  /\ UNCHANGED <<asked, mail, telemetry, stable, faults, wire, count, done>>

-----------------------------------------------------------------------------
(* The network.                                                            *)

LinkUp ==
  /\ ~stable /\ stable' = TRUE
  /\ UNCHANGED <<task, mail, stream, telemetry, alive, stalled, faults, wire, count, done>>

LinkDown ==
  /\ stable /\ faults < MaxFaults
  /\ stable' = FALSE /\ faults' = faults + 1
  /\ UNCHANGED <<task, mail, stream, telemetry, alive, stalled, wire, count, done>>

\* The host stops reading, and the buffers between are full; it reads again.
Stall ==
  /\ alive /\ ~stalled /\ faults < MaxFaults
  /\ stalled' = TRUE /\ faults' = faults + 1
  /\ UNCHANGED <<task, mail, stream, telemetry, stable, alive, wire, count, done>>

Resume ==
  /\ stalled /\ stalled' = FALSE
  /\ UNCHANGED <<task, mail, stream, telemetry, stable, alive, faults, wire, count, done>>

\* The host closes the connection, or the keepalive gives it up; a send fails then.
Hangup ==
  /\ alive /\ faults < MaxFaults
  /\ alive' = FALSE /\ stalled' = FALSE /\ faults' = faults + 1
  /\ UNCHANGED <<task, mail, stream, telemetry, stable, wire, count, done>>

-----------------------------------------------------------------------------

Client ==
  \/ ConnectOk \/ ConnectFails \/ Asked \/ Link \/ FetchQueued \/ SendQueued
  \/ QueueEmpty \/ StreamHeader \/ StreamChunk \/ SendChunk \/ Poll \/ Select
Others == SendBuffer \/ HeartbeatTest \/ HeartbeatSend \/ StartStream \/ RequestReconnect
Network == LinkUp \/ LinkDown \/ Stall \/ Resume \/ Hangup

Next == Client \/ Others \/ Network
Spec == Init /\ [][Next]_vars

\* The scheduler runs the client task, but for a send that waits for the host, of
\* which nothing is assumed; the link comes up again, and a host that
\* is reached for ever again accepts the connection once.
FairSpec == Spec /\ WF_vars(Client) /\ WF_vars(LinkUp) /\ SF_vars(ConnectOk)

-----------------------------------------------------------------------------
(* Properties.                                                             *)

IsPart(x) == x.kind = "stream"
Items == [kind : {"reply", "heartbeat", "stream"}, id : Nat \ {0}, part : Nat, total : Nat]

TypeOK ==
  /\ pc \in {"top", "link", "queue", "send", "stream", "chunk", "poll", "select"}
  /\ connected \in BOOLEAN /\ asked \in BOOLEAN /\ telemetry \in BOOLEAN
  /\ stable \in BOOLEAN /\ alive \in BOOLEAN /\ stalled \in BOOLEAN
  /\ (stalled => alive) /\ (alive => connected)
  /\ mbox \in Seq(Items) /\ Len(mbox) <= MailboxSize
  /\ tx \in (IF pc = "send" THEN Items ELSE {Free})
  /\ stream \in [id : 0..MaxStreams, header : BOOLEAN, sent : Nat, total : Nat]
  /\ wire \in Seq(Items)
  /\ messages \in 0..MaxMessages /\ streams \in 0..MaxStreams /\ faults \in 0..MaxFaults
  /\ done \in [1..MaxStreams -> Nat]

\* On a connection messages go out in the order of their queueing, each once; those
\* that an earlier connection left in the mailbox go out too, before its own.  A
\* stream is its header and then its chunks, one after the other, no more than the
\* header announces and none of another stream between them: no connection carries
\* the rest of a stream that was begun on another.
WireInOrder ==
  \A j \in DOMAIN wire :
    /\ \A i \in 1..j - 1 : IsPart(wire[i]) = IsPart(wire[j]) =>
         \/ wire[i].id < wire[j].id
         \/ wire[i].id = wire[j].id /\ IsPart(wire[i]) /\ wire[i].part < wire[j].part
    /\ wire[j].part <= wire[j].total
    /\ wire[j].part > 0 =>
         \E i \in 1..j - 1 : wire[i] = [wire[j] EXCEPT !.part = @ - 1]

\* A stream's end is reported once at most, never while it is still sent, and a
\* stream that has gone out whole has been reported.
EndIsReported ==
  /\ \A s \in 1..MaxStreams : done[s] <= (IF s > streams \/ s = stream.id THEN 0 ELSE 1)
  /\ \A j \in DOMAIN wire :
       wire[j].part > 0 /\ wire[j].part = wire[j].total => done[wire[j].id] = 1

\* A stream that has been started comes to an end, so that the next one can be
\* started, whatever fails on the way; the one thing that may keep it is a host
\* that stays connected and reads no more.
StreamEnds == <>[]stalled \/ \A s \in 1..MaxStreams : stream.id = s ~> stream.id # s

\* A connection that does not reach the host any more is closed; so is one that is to
\* be renewed, unless its host stays connected and reads no more.
DeadConnectionCloses ==
  /\ connected /\ ~alive ~> ~connected
  /\ <>[]stalled \/ (connected /\ asked ~> ~connected)
=============================================================================

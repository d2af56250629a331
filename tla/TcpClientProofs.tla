--------------------------- MODULE TcpClientProofs ---------------------------
(* Proofs about TcpClient: types, the order of what goes out on a          *)
(* connection, and the report of a stream's end.                           *)
EXTENDS TcpClient, SequenceTheorems, TLAPS

-----------------------------------------------------------------------------
(* Types. *)

\* TypeOK without the flags, and the flags.
DataOK ==
  /\ pc \in {"top", "link", "queue", "send", "stream", "chunk", "poll", "select"}
  /\ mbox \in Seq(Items) /\ Len(mbox) <= MailboxSize
  /\ tx \in (IF pc = "send" THEN Items ELSE {Free})
  /\ stream \in [id : 0..MaxStreams, header : BOOLEAN, sent : Nat, total : Nat]
  /\ wire \in Seq(Items)
  /\ messages \in 0..MaxMessages /\ streams \in 0..MaxStreams /\ faults \in 0..MaxFaults
  /\ done \in [1..MaxStreams -> Nat]

FlagsOK ==
  /\ connected \in BOOLEAN /\ asked \in BOOLEAN /\ telemetry \in BOOLEAN
  /\ stable \in BOOLEAN /\ alive \in BOOLEAN /\ stalled \in BOOLEAN
  /\ (stalled => alive) /\ (alive => connected)

LEMMA TypeParts ==
  /\ TypeOK <=> DataOK /\ FlagsOK
  /\ TypeOK' <=> DataOK' /\ FlagsOK'
BY DEF TypeOK, DataOK, FlagsOK

LEMMA AppendType ==
  ASSUME NEW w \in Seq(Items), NEW x \in Items
  PROVE  Append(w, x) \in Seq(Items) /\ Len(Append(w, x)) = Len(w) + 1
BY AppendProperties

LEMMA TypeInit == Init => TypeOK
<1>. SUFFICES ASSUME Init PROVE TypeOK  OBVIOUS
<1>1. stream \in [id : 0..MaxStreams, header : BOOLEAN, sent : Nat, total : Nat]
  BY TcpClientAssumption DEF Init, None
<1>2. mbox \in Seq(Items) /\ Len(mbox) <= MailboxSize /\ wire \in Seq(Items)
  BY TcpClientAssumption, EmptySeq DEF Init
<1>3. DataOK  BY <1>1, <1>2, TcpClientAssumption DEF Init, DataOK
<1>4. FlagsOK  BY DEF Init, FlagsOK
<1>. QED  BY <1>3, <1>4, TypeParts

LEMMA CloseType == TypeOK /\ CloseSocket => stream' \in [id : 0..MaxStreams, header : BOOLEAN,
                                                         sent : Nat, total : Nat]
BY TcpClientAssumption DEF TypeOK, CloseSocket, None

LEMMA FinishType ==
  TypeOK /\ FinishStream =>
    /\ stream' \in [id : 0..MaxStreams, header : BOOLEAN, sent : Nat, total : Nat]
    /\ done' \in [1..MaxStreams -> Nat]
<1>. SUFFICES ASSUME TypeOK, FinishStream
              PROVE  /\ stream' \in [id : 0..MaxStreams, header : BOOLEAN, sent : Nat,
                                     total : Nat]
                     /\ done' \in [1..MaxStreams -> Nat]
  OBVIOUS
<1>1. stream' \in [id : 0..MaxStreams, header : BOOLEAN, sent : Nat, total : Nat]
  BY TcpClientAssumption DEF FinishStream, None
<1>2. done \in [1..MaxStreams -> Nat]  BY DEF TypeOK
<1>3. CASE Active
  <2>1. stream.id \in 1..MaxStreams  BY <1>3, TcpClientAssumption DEF TypeOK, Active
  <2>2. done' = [done EXCEPT ![stream.id] = done[stream.id] + 1]
    BY <1>3 DEF FinishStream
  <2>. QED  BY <1>1, <1>2, <2>1, <2>2
<1>4. CASE ~Active  BY <1>1, <1>2, <1>4 DEF FinishStream
<1>. QED  BY <1>3, <1>4

LEMMA PartType ==
  ASSUME TypeOK, Active, NEW k \in Nat
  PROVE  Part(k) \in Items
BY TcpClientAssumption DEF TypeOK, Active, Part, Items

LEMMA QueueType ==
  ASSUME TypeOK, NEW k \in {"reply", "heartbeat"}, Queue(k)
  PROVE  /\ mbox' \in Seq(Items) /\ Len(mbox') <= MailboxSize
         /\ messages' \in 0..MaxMessages /\ tx' = tx
<1>1. Message(k) \in Items  BY TcpClientAssumption DEF TypeOK, Message, Items
<1>2. mbox \in Seq(Items) /\ Len(mbox) \in Nat /\ Len(mbox) <= MailboxSize
  BY LenProperties DEF TypeOK
<1>3. messages' \in 0..MaxMessages /\ tx' = tx  BY TcpClientAssumption DEF TypeOK, Queue
<1>4. CASE Len(mbox) < MailboxSize /\ mbox' = Append(mbox, Message(k))
  BY <1>1, <1>2, <1>3, <1>4, AppendType, TcpClientAssumption
<1>. QED  BY <1>2, <1>3, <1>4 DEF Queue

LEMMA FlagsNext == FlagsOK /\ [Next]_vars => FlagsOK'
<1>. SUFFICES ASSUME FlagsOK, [Next]_vars PROVE FlagsOK'  OBVIOUS
<1>1. asked' \in BOOLEAN /\ telemetry' \in BOOLEAN /\ stable' \in BOOLEAN
  BY DEF FlagsOK, Next, Client, Others, Network, ConnectOk, ConnectFails, Asked, Link,
     FetchQueued, SendQueued, QueueEmpty, StreamHeader, StreamChunk, SendChunk, Poll, Select,
     SendBuffer, HeartbeatTest, HeartbeatSend, StartStream, RequestReconnect, LinkUp, LinkDown,
     Stall, Resume, Hangup, conn, vars, task, net
<1>2. \/ UNCHANGED <<connected, alive, stalled>>
      \/ UNCHANGED <<connected, alive>> /\ alive /\ stalled' = TRUE
      \/ UNCHANGED <<connected, alive>> /\ stalled' = FALSE
      \/ ~connected /\ connected' = TRUE /\ alive' = TRUE /\ UNCHANGED stalled
      \/ connected' \in {connected, FALSE} /\ alive' = FALSE /\ stalled' = FALSE
  BY DEF Next, Client, Others, Network, ConnectOk, ConnectFails, Asked, Link, CloseSocket,
     FetchQueued, SendQueued, QueueEmpty, StreamHeader, StreamChunk, SendChunk, Poll, Select,
     SendBuffer, HeartbeatTest, HeartbeatSend, StartStream, RequestReconnect, LinkUp, LinkDown,
     Stall, Resume, Hangup, conn, vars, task, net
<1>3. CASE UNCHANGED <<connected, alive, stalled>>  BY <1>1, <1>3, Zenon DEF FlagsOK
<1>4. CASE UNCHANGED <<connected, alive>> /\ alive /\ stalled' = TRUE
  BY <1>1, <1>4, Zenon DEF FlagsOK
<1>5. CASE UNCHANGED <<connected, alive>> /\ stalled' = FALSE  BY <1>1, <1>5, Zenon DEF FlagsOK
<1>6. CASE ~connected /\ connected' = TRUE /\ alive' = TRUE /\ UNCHANGED stalled
  BY <1>1, <1>6, Zenon DEF FlagsOK
<1>7. CASE connected' \in {connected, FALSE} /\ alive' = FALSE /\ stalled' = FALSE
  <2>1. connected' \in BOOLEAN  BY <1>7 DEF FlagsOK
  <2>. QED  BY <1>1, <1>7, <2>1, Zenon DEF FlagsOK
<1>. QED  BY <1>2, <1>3, <1>4, <1>5, <1>6, <1>7

\* While a chunk is being sent, there is a stream that has it.
ChunkInv == pc = "chunk" => Active /\ stream.header /\ stream.sent < stream.total

LEMMA ChunkInit == Init => ChunkInv
BY DEF Init, ChunkInv

LEMMA ChunkNext == ChunkInv /\ [Next]_vars => ChunkInv'
<1>. SUFFICES ASSUME ChunkInv, [Next]_vars PROVE ChunkInv'  OBVIOUS
<1>1. \/ pc' # "chunk"
      \/ pc' = pc /\ stream' = stream
      \/ pc' = pc /\ ~Active
      \/ Active /\ stream.header /\ stream.sent < stream.total /\ stream' = stream
      \/ pc = "top" /\ pc' = pc
  BY DEF Next, Client, Others, Network, ConnectOk, ConnectFails, Asked, Link, CloseSocket,
     FetchQueued, SendQueued, QueueEmpty, StreamHeader, StreamChunk, SendChunk, Poll, Select,
     SendBuffer, HeartbeatTest, HeartbeatSend, StartStream, RequestReconnect, LinkUp, LinkDown,
     Stall, Resume, Hangup, conn, vars, task, Goto
<1>. QED  BY <1>1 DEF ChunkInv, Active

LEMMA ClientType == TypeOK /\ ChunkInv /\ Client => DataOK'
<1>. SUFFICES ASSUME TypeOK, ChunkInv, Client PROVE DataOK'  OBVIOUS
<1>. USE DEF DataOK, TypeOK, task, mail, net, count, Goto
<1>1. CASE ConnectOk  BY <1>1, EmptySeq DEF ConnectOk
<1>2. CASE ConnectFails
  <2>1. stream' \in [id : 0..MaxStreams, header : BOOLEAN, sent : Nat, total : Nat]
    BY <1>2, CloseType DEF ConnectFails
  <2>2. faults' \in 0..MaxFaults  BY <1>2, TcpClientAssumption DEF ConnectFails
  <2>. QED  BY <1>2, <2>1, <2>2 DEF ConnectFails
<1>3. CASE Asked  BY <1>3, CloseType DEF Asked, CloseSocket, conn
<1>4. CASE Link  BY <1>4, CloseType DEF Link, CloseSocket, conn
<1>5. CASE FetchQueued
  <2>1. /\ mbox \in Seq(Items) /\ mbox # <<>> /\ mbox' = Tail(mbox) /\ tx' = Head(mbox)
        /\ Len(mbox) \in Nat /\ Len(mbox) <= MailboxSize
    BY <1>5, LenProperties DEF FetchQueued
  <2>2. Head(mbox) \in Items /\ Tail(mbox) \in Seq(Items) /\ Len(Tail(mbox)) = Len(mbox) - 1
    BY <2>1, HeadTailProperties
  <2>3. Len(mbox') <= MailboxSize  BY <2>1, <2>2, TcpClientAssumption
  <2>. QED  BY <1>5, <2>1, <2>2, <2>3 DEF FetchQueued
<1>11. CASE SendQueued
  <2>1. tx \in Items  BY <1>11 DEF SendQueued
  <2>2. wire' \in Seq(Items)  BY <1>11, <2>1, AppendType DEF SendQueued
  <2>. QED  BY <1>11, <2>2 DEF SendQueued
<1>6. CASE QueueEmpty  BY <1>6 DEF QueueEmpty
<1>7. CASE StreamHeader
  <2>1. wire' \in Seq(Items)
    <3>1. Part(0) \in Items  BY <1>7, PartType DEF StreamHeader
    <3>. QED  BY <1>7, <3>1, AppendType DEF StreamHeader
  <2>2. /\ stream' \in [id : 0..MaxStreams, header : BOOLEAN, sent : Nat, total : Nat]
        /\ done' \in [1..MaxStreams -> Nat]
    BY <1>7, FinishType DEF StreamHeader
  <2>. QED  BY <1>7, <2>1, <2>2 DEF StreamHeader
<1>8. CASE StreamChunk
  <2>1. /\ stream' \in [id : 0..MaxStreams, header : BOOLEAN, sent : Nat, total : Nat]
        /\ done' \in [1..MaxStreams -> Nat]
    BY <1>8, FinishType DEF StreamChunk
  <2>. QED  BY <1>8, <2>1 DEF StreamChunk
<1>12. CASE SendChunk
  <2>0. Active  BY <1>12 DEF SendChunk, ChunkInv
  <2>1. stream.sent + 1 \in Nat  BY DEF TypeOK
  <2>2. wire' \in Seq(Items)
    <3>1. Part(stream.sent + 1) \in Items  BY <2>0, <2>1, PartType
    <3>. QED  BY <1>12, <3>1, AppendType DEF SendChunk
  <2>3. /\ stream' \in [id : 0..MaxStreams, header : BOOLEAN, sent : Nat, total : Nat]
        /\ done' \in [1..MaxStreams -> Nat]
    BY <1>12, <2>1, FinishType DEF SendChunk
  <2>. QED  BY <1>12, <2>2, <2>3 DEF SendChunk
<1>9. CASE Poll  BY <1>9, CloseType DEF Poll, CloseSocket, conn
<1>10. CASE Select  BY <1>10, CloseType DEF Select, CloseSocket, conn
<1>. QED
  BY <1>1, <1>2, <1>3, <1>4, <1>5, <1>6, <1>7, <1>8, <1>9, <1>10, <1>11, <1>12 DEF Client

LEMMA OthersType == TypeOK /\ Others => DataOK'
<1>. SUFFICES ASSUME TypeOK, Others PROVE DataOK'  OBVIOUS
<1>. USE DEF DataOK, TypeOK, task, mail, net, count
<1>1. CASE SendBuffer
  <2>1. /\ mbox' \in Seq(Items) /\ Len(mbox') <= MailboxSize
        /\ messages' \in 0..MaxMessages /\ tx' = tx
    BY <1>1, QueueType DEF SendBuffer
  <2>. QED  BY <1>1, <2>1 DEF SendBuffer
<1>2. CASE HeartbeatTest  BY <1>2 DEF HeartbeatTest
<1>3. CASE HeartbeatSend
  <2>1. /\ mbox' \in Seq(Items) /\ Len(mbox') <= MailboxSize
        /\ messages' \in 0..MaxMessages /\ tx' = tx
    BY <1>3, QueueType DEF HeartbeatSend
  <2>. QED  BY <1>3, <2>1 DEF HeartbeatSend
<1>4. CASE StartStream
  <2>1. PICK n \in Sizes :
          stream' = [id |-> streams + 1, header |-> FALSE, sent |-> 0, total |-> n]
    BY <1>4 DEF StartStream, None
  <2>2. streams + 1 \in 0..MaxStreams /\ streams' \in 0..MaxStreams /\ n \in Nat
    BY <1>4, TcpClientAssumption DEF StartStream
  <2>. QED  BY <1>4, <2>1, <2>2 DEF StartStream
<1>5. CASE RequestReconnect  BY <1>5, TcpClientAssumption DEF RequestReconnect
<1>. QED  BY <1>1, <1>2, <1>3, <1>4, <1>5 DEF Others

LEMMA TypeNext == TypeOK /\ ChunkInv /\ [Next]_vars => TypeOK'
<1>. SUFFICES ASSUME TypeOK, ChunkInv, [Next]_vars PROVE TypeOK'  OBVIOUS
<1>1. Client => DataOK'  BY ClientType
<1>2. Others => DataOK'  BY OthersType
<1>3. ASSUME Network PROVE DataOK'
  BY <1>3, TcpClientAssumption, SMTT(30) DEF Network, LinkUp, LinkDown, Stall, Resume,
     Hangup, TypeOK, DataOK, task, mail, count
<1>4. ASSUME UNCHANGED vars PROVE DataOK'
  BY <1>4 DEF vars, TypeOK, DataOK, task, mail, net, count
<1>5. DataOK'  BY <1>1, <1>2, <1>3, <1>4 DEF Next
<1>6. FlagsOK'  BY FlagsNext, TypeParts
<1>. QED  BY <1>5, <1>6, TypeParts

\* Every variable keeps to its type: the queue to its size, the stream in hand to
\* the streams started, and only a connection that exists reaches the host.
THEOREM TypeCorrect == Spec => []TypeOK
BY TypeInit, TypeNext, ChunkInit, ChunkNext, PTL DEF Spec

LEMMA ChunkCorrect == Spec => []ChunkInv
BY ChunkInit, ChunkNext, PTL DEF Spec

-----------------------------------------------------------------------------
(* What waits in the queue, what is on the wire and the stream in hand, as *)
(* they stand to each other.                                               *)

\* The stream in hand is the last one started.  Once its header is out, the part
\* that was sent last is on the wire, and it is not the last of the stream.
StreamInv ==
  /\ Active => stream.id = streams
  /\ IF stream.header
     THEN /\ Active /\ connected
          /\ \E i \in DOMAIN wire : wire[i] = Part(stream.sent)
     ELSE stream.sent = 0
  /\ stream.sent = 0 \/ stream.sent < stream.total

\* Messages wait in the order of their numbers; the one being sent is before them.
MboxInv ==
  /\ pc = "send" =>
       /\ ~IsPart(tx) /\ tx.part = 0 /\ tx.id <= messages
       /\ \A k \in DOMAIN mbox : tx.id < mbox[k].id
  /\ \A j \in DOMAIN mbox : ~IsPart(mbox[j]) /\ mbox[j].part = 0 /\ mbox[j].id <= messages
  /\ \A i, j \in DOMAIN mbox : i < j => mbox[i].id < mbox[j].id

\* A message on the wire is older than those that wait, and a part on the wire
\* older than those still to be sent.
SentBefore(x) ==
  IF IsPart(x)
  THEN /\ x.id <= streams
       /\ x.id = stream.id => /\ stream.header
                              /\ x.part <= stream.sent /\ x.total = stream.total
  ELSE /\ x.part = 0 /\ x.id <= messages
       /\ pc = "send" => x.id < tx.id
       /\ \A k \in DOMAIN mbox : x.id < mbox[k].id

WireInv == \A j \in DOMAIN wire : SentBefore(wire[j])

IInv == StreamInv /\ MboxInv /\ WireInv /\ WireInOrder /\ EndIsReported

LEMMA ItemsOf ==
  ASSUME NEW w \in Seq(Items), NEW j \in DOMAIN w
  PROVE  w[j] \in Items /\ w[j].id \in Nat \ {0} /\ w[j].part \in Nat
<1>1. w[j] \in Items  BY ElementOfSeq, LenProperties
<1>. QED  BY <1>1 DEF Items

LEMMA InvInit == Init => IInv
<1>. SUFFICES ASSUME Init PROVE IInv  OBVIOUS
<1>1. DOMAIN <<>> = {}  OBVIOUS
<1>2. wire = <<>> /\ mbox = <<>> /\ stream = None /\ pc = "top"  BY DEF Init
<1>3. StreamInv  BY <1>2 DEF StreamInv, Active, None
<1>4. MboxInv /\ WireInv /\ WireInOrder  BY <1>1, <1>2 DEF MboxInv, WireInv, WireInOrder
<1>5. EndIsReported  BY <1>1, <1>2 DEF Init, EndIsReported
<1>. QED  BY <1>3, <1>4, <1>5 DEF IInv

\* An element is added to what is on the wire.
LEMMA WireAppend ==
  ASSUME TypeOK, NEW x \in Items, wire' = Append(wire, x)
  PROVE  /\ Len(wire) \in Nat /\ DOMAIN wire = 1..Len(wire)
         /\ DOMAIN wire' = 1..Len(wire) + 1
         /\ \A i \in 1..Len(wire) : wire'[i] = wire[i] /\ wire[i] \in Items
         /\ wire'[Len(wire) + 1] = x
BY AppendProperties, LenProperties, ElementOfSeq DEF TypeOK

\* What may go out next.
Follows(x) ==
  /\ \A i \in DOMAIN wire : IsPart(wire[i]) = IsPart(x) =>
       \/ wire[i].id < x.id
       \/ wire[i].id = x.id /\ IsPart(wire[i]) /\ wire[i].part < x.part
  /\ x.part <= x.total
  /\ x.part > 0 => \E i \in DOMAIN wire : wire[i] = [x EXCEPT !.part = @ - 1]

LEMMA OrderAppend ==
  ASSUME TypeOK, WireInOrder, NEW x \in Items, Follows(x), wire' = Append(wire, x)
  PROVE  WireInOrder'
<1>. DEFINE n == Len(wire)
<1>1. /\ n \in Nat /\ DOMAIN wire = 1..n /\ DOMAIN wire' = 1..n + 1
      /\ \A i \in 1..n : wire'[i] = wire[i] /\ wire[i] \in Items
      /\ wire'[n + 1] = x
  BY WireAppend
<1>2. ASSUME NEW j \in DOMAIN wire'
      PROVE  /\ \A i \in 1..j - 1 : IsPart(wire'[i]) = IsPart(wire'[j]) =>
                  \/ wire'[i].id < wire'[j].id
                  \/ /\ wire'[i].id = wire'[j].id /\ IsPart(wire'[i])
                     /\ wire'[i].part < wire'[j].part
             /\ wire'[j].part <= wire'[j].total
             /\ wire'[j].part > 0 =>
                  \E i \in 1..j - 1 : wire'[i] = [wire'[j] EXCEPT !.part = @ - 1]
  <2>1. CASE j \in 1..n
    <3>1. \A i \in 1..j - 1 : wire'[i] = wire[i]  BY <1>1, <2>1
    <3>2. wire'[j] = wire[j] /\ j \in DOMAIN wire  BY <1>1, <2>1
    <3>. QED  BY <3>1, <3>2 DEF WireInOrder
  <2>2. CASE j = n + 1
    <3>1. 1..j - 1 = DOMAIN wire /\ \A i \in DOMAIN wire : wire'[i] = wire[i]
      BY <1>1, <2>2
    <3>2. wire'[j] = x  BY <1>1, <2>2
    <3>. QED  BY <3>1, <3>2 DEF Follows
  <2>. QED  BY <1>1, <2>1, <2>2
<1>. QED  BY <1>2 DEF WireInOrder

\* What keeps the stream in hand, or forgets it, and sends nothing.
LEMMA KeepStep ==
  ASSUME TypeOK, IInv, UNCHANGED <<mbox, tx, wire, messages, streams, done>>,
         pc' = pc \/ pc' # "send",
         \/ stream' = stream /\ (connected => connected')
         \/ stream' = None
  PROVE  IInv'
<1>1. StreamInv'
  <2>1. CASE stream' = None  BY <2>1 DEF StreamInv, Active, None
  <2>2. CASE stream' = stream /\ (connected => connected')
    BY <2>2 DEF IInv, StreamInv, Active, Part
  <2>. QED  BY <2>1, <2>2
<1>2. MboxInv' /\ WireInOrder'  BY DEF IInv, MboxInv, WireInOrder
<1>3. (stream'.id = stream.id /\ stream' = stream) \/ stream'.id = 0  BY DEF None
<1>4. \A j \in DOMAIN wire : wire[j].id # 0
  <2>1. \A j \in DOMAIN wire : wire[j] \in Items
    BY ElementOfSeq, LenProperties DEF TypeOK
  <2>. QED  BY <2>1 DEF Items
<1>5. WireInv'  BY <1>3, <1>4 DEF IInv, WireInv, SentBefore
<1>6. EndIsReported'
  <2>1. \A s \in 1..MaxStreams : s # 0  BY TcpClientAssumption
  <2>. QED  BY <1>3, <2>1 DEF IInv, EndIsReported, TypeOK
<1>. QED  BY <1>1, <1>2, <1>5, <1>6 DEF IInv

\* What ends the stream in hand has its end reported, once.
LEMMA FinishReports ==
  ASSUME TypeOK, IInv, FinishStream
  PROVE  /\ \A s \in 1..MaxStreams : done'[s] <= (IF s > streams \/ s = stream'.id THEN 0 ELSE 1)
         /\ \A s \in 1..MaxStreams : done[s] = 1 => done'[s] = 1
         /\ Active => stream.id \in 1..MaxStreams /\ done'[stream.id] = 1
<1>1. /\ done \in [1..MaxStreams -> Nat] /\ streams \in Nat /\ stream.id \in Nat
      /\ stream.id <= MaxStreams /\ MaxStreams \in Nat /\ stream'.id = 0
  BY TcpClientAssumption DEF TypeOK, FinishStream, None
<1>2. \A s \in 1..MaxStreams : done[s] <= (IF s > streams \/ s = stream.id THEN 0 ELSE 1)
  BY DEF IInv, EndIsReported
<1>3. CASE Active
  <2>1. stream.id \in 1..MaxStreams /\ stream.id = streams
    BY <1>1, <1>3 DEF Active, IInv, StreamInv
  <2>2. done' = [done EXCEPT ![stream.id] = done[stream.id] + 1]
    BY <1>3 DEF FinishStream
  <2>3. done[stream.id] = 0  BY <1>1, <1>2, <2>1
  <2>. QED  BY <1>1, <1>2, <1>3, <2>1, <2>2, <2>3
<1>4. CASE ~Active
  BY <1>1, <1>2, <1>4 DEF FinishStream
<1>. QED  BY <1>3, <1>4

\* A part with a number above zero belongs to a stream that has been started.
LEMMA PartSent ==
  ASSUME TypeOK, IInv, NEW j \in DOMAIN wire, wire[j].part > 0
  PROVE  IsPart(wire[j]) /\ wire[j].id \in 1..MaxStreams /\ wire[j].id <= streams
<1>1. wire[j] \in Items  BY ElementOfSeq, LenProperties DEF TypeOK
<1>2. wire[j].part \in Nat /\ wire[j].id \in Nat \ {0}  BY <1>1 DEF Items
<1>3. IsPart(wire[j]) /\ wire[j].id <= streams
  BY <1>2 DEF IInv, WireInv, SentBefore
<1>. QED  BY <1>2, <1>3, TcpClientAssumption, SMTT(30) DEF TypeOK

LEMMA FinishStep ==
  ASSUME TypeOK, IInv, FinishStream, UNCHANGED <<mbox, wire, messages, streams>>, pc' # "send"
  PROVE  IInv'
<1>1. stream' = None  BY DEF FinishStream
<1>2. StreamInv'  BY <1>1 DEF StreamInv, Active, None
<1>3. MboxInv' /\ WireInOrder'  BY DEF IInv, MboxInv, WireInOrder
<1>4. \A j \in DOMAIN wire : wire[j] \in Items
  BY ElementOfSeq, LenProperties DEF TypeOK
<1>5. WireInv'
  BY <1>1, <1>4 DEF IInv, WireInv, SentBefore, Items, None
<1>6. EndIsReported'
  <2>1. \A s \in 1..MaxStreams : done'[s] <= (IF s > streams \/ s = stream'.id THEN 0 ELSE 1)
    BY FinishReports
  <2>2. ASSUME NEW j \in DOMAIN wire, wire[j].part > 0, wire[j].part = wire[j].total
        PROVE  done'[wire[j].id] = 1
    <3>1. done[wire[j].id] = 1  BY <2>2 DEF IInv, EndIsReported
    <3>2. wire[j].id \in 1..MaxStreams  BY <2>2, PartSent
    <3>. QED  BY <3>1, <3>2, FinishReports
  <2>. QED  BY <2>1, <2>2 DEF EndIsReported
<1>. QED  BY <1>2, <1>3, <1>5, <1>6 DEF IInv

\* The next part of the stream in hand goes out.
NextPart == IF stream.header THEN stream.sent + 1 ELSE 0

LEMMA PartFollows ==
  ASSUME TypeOK, IInv, Active, NextPart <= stream.total
  PROVE  /\ NextPart \in Nat /\ Part(NextPart) \in Items /\ Follows(Part(NextPart))
         /\ stream.id = streams
<1>. DEFINE k == NextPart
            x == Part(k)
<1>1. /\ stream.sent \in Nat /\ stream.total \in Nat /\ stream.id \in Nat /\ streams \in Nat
      /\ k \in Nat /\ stream.id = streams /\ stream.header \in BOOLEAN
  BY TcpClientAssumption DEF TypeOK, NextPart, IInv, StreamInv
<1>2. x \in Items  BY <1>1, PartType
<1>3. /\ IsPart(x) /\ x.id = stream.id /\ x.part = k /\ x.total = stream.total
  BY DEF IsPart, Part
<1>4. ASSUME NEW i \in DOMAIN wire, IsPart(wire[i])
      PROVE  wire[i].id < x.id \/ (wire[i].id = x.id /\ wire[i].part < x.part)
  <2>1. wire[i] \in Items  BY ElementOfSeq, LenProperties DEF TypeOK
  <2>2. wire[i].id \in Nat /\ wire[i].part \in Nat  BY <2>1 DEF Items
  <2>3. /\ wire[i].id <= streams
        /\ wire[i].id = stream.id => stream.header /\ wire[i].part <= stream.sent
    BY <1>4 DEF IInv, WireInv, SentBefore
  <2>. QED  BY <1>1, <1>3, <2>2, <2>3 DEF NextPart
<1>5. ASSUME k > 0 PROVE \E i \in DOMAIN wire : wire[i] = [x EXCEPT !.part = @ - 1]
  <2>1. stream.header /\ k = stream.sent + 1  BY <1>5 DEF NextPart
  <2>2. [x EXCEPT !.part = @ - 1] = Part(stream.sent)  BY <1>1, <2>1 DEF Part
  <2>3. \E i \in DOMAIN wire : wire[i] = Part(stream.sent)
    BY <2>1 DEF IInv, StreamInv
  <2>. QED  BY <2>2, <2>3
<1>. QED  BY <1>1, <1>2, <1>3, <1>4, <1>5 DEF Follows

\* It is not the last one.
LEMMA PartStep ==
  ASSUME TypeOK, IInv, Active, connected, NextPart = 0 \/ NextPart < stream.total,
         wire' = Append(wire, Part(NextPart)),
         stream' = [stream EXCEPT !.header = TRUE, !.sent = NextPart],
         UNCHANGED <<connected, mbox, messages, streams, done>>, pc' # "send"
  PROVE  IInv'
<1>0. PICK k, x, n : k = NextPart /\ x = Part(k) /\ n = Len(wire)  OBVIOUS
<1>1. /\ stream.sent \in Nat /\ stream.total \in Nat /\ stream.id \in 1..MaxStreams
      /\ stream.id # 0 /\ stream = [id |-> stream.id, header |-> stream.header,
                                    sent |-> stream.sent, total |-> stream.total]
  BY TcpClientAssumption DEF TypeOK, Active
<1>2. k \in Nat /\ k <= stream.total
  <2>1. k \in Nat  BY <1>0, <1>1 DEF NextPart
  <2>. QED  BY <1>0, <1>1, <2>1
<1>3. x \in Items /\ Follows(x) /\ stream.id = streams  BY <1>0, <1>2, PartFollows
<1>4. /\ n \in Nat /\ DOMAIN wire = 1..n /\ DOMAIN wire' = 1..n + 1
      /\ \A i \in 1..n : wire'[i] = wire[i] /\ wire[i] \in Items
      /\ wire'[n + 1] = x
  BY <1>0, <1>3, WireAppend
<1>5. /\ stream'.id = stream.id /\ stream'.header = TRUE /\ stream'.sent = k
      /\ stream'.total = stream.total
  BY <1>0, <1>1
<1>6. /\ IsPart(x) /\ x.id = stream.id /\ x.part = k /\ x.total = stream.total
  BY <1>0 DEF IsPart, Part
<1>7. StreamInv'
  <2>1. wire'[n + 1] = Part(stream.sent)'  BY <1>0, <1>4, <1>5 DEF Part
  <2>. QED  BY <1>1, <1>3, <1>4, <1>5, <2>1 DEF StreamInv, Active
<1>8. MboxInv'  BY DEF IInv, MboxInv
<1>9. WireInOrder'  BY <1>0, <1>3, OrderAppend DEF IInv
<1>10. WireInv'
  <2>1. ASSUME NEW j \in 1..n PROVE SentBefore(wire[j])'
    <3>1. SentBefore(wire[j])  BY <1>4, <2>1 DEF IInv, WireInv
    <3>2. wire[j].part \in Nat  BY <1>4, <2>1 DEF Items
    <3>. QED  BY <1>0, <1>1, <1>2, <1>4, <1>5, <3>1, <3>2 DEF SentBefore, NextPart, IInv, StreamInv
  <2>2. SentBefore(x)'  BY <1>1, <1>2, <1>3, <1>5, <1>6 DEF SentBefore
  <2>. QED  BY <1>4, <2>1, <2>2 DEF WireInv
<1>11. EndIsReported'
  <2>1. \A j \in 1..n : wire[j].part > 0 /\ wire[j].part = wire[j].total
                        => done[wire[j].id] = 1
    BY <1>4 DEF IInv, EndIsReported
  <2>2. ~(x.part > 0 /\ x.part = x.total)  BY <1>0, <1>1, <1>2, <1>6
  <2>3. \A s \in 1..MaxStreams : done'[s] <= (IF s > streams' \/ s = stream'.id THEN 0 ELSE 1)
    BY <1>5 DEF IInv, EndIsReported
  <2>. QED  BY <1>4, <2>1, <2>2, <2>3 DEF EndIsReported
<1>. QED  BY <1>7, <1>8, <1>9, <1>10, <1>11 DEF IInv

\* It is the last one.
LEMMA LastPartStep ==
  ASSUME TypeOK, IInv, Active, NextPart <= stream.total, FinishStream,
         wire' = Append(wire, Part(NextPart)),
         UNCHANGED <<mbox, messages, streams>>, pc' # "send"
  PROVE  IInv'
<1>0. PICK k, x, n : k = NextPart /\ x = Part(k) /\ n = Len(wire)  OBVIOUS
<1>1. k \in Nat /\ x \in Items /\ Follows(x) /\ stream.id = streams
  BY <1>0, PartFollows
<1>2. /\ n \in Nat /\ DOMAIN wire = 1..n /\ DOMAIN wire' = 1..n + 1
      /\ \A i \in 1..n : wire'[i] = wire[i] /\ wire[i] \in Items
      /\ wire'[n + 1] = x
  BY <1>0, <1>1, WireAppend
<1>3. stream' = None /\ stream'.id = 0  BY DEF FinishStream, None
<1>4. /\ IsPart(x) /\ x.id = stream.id /\ x.part = k /\ x.total = stream.total
  BY <1>0 DEF IsPart, Part
<1>5. StreamInv'  BY <1>3 DEF StreamInv, Active, None
<1>6. MboxInv'  BY DEF IInv, MboxInv
<1>7. WireInOrder'  BY <1>0, <1>1, OrderAppend DEF IInv
<1>8. WireInv'
  <2>1. ASSUME NEW j \in 1..n PROVE SentBefore(wire[j])'
    <3>1. SentBefore(wire[j])  BY <1>2, <2>1 DEF IInv, WireInv
    <3>2. wire[j].id # 0  BY <1>2, <2>1 DEF Items
    <3>. QED  BY <1>2, <1>3, <3>1, <3>2 DEF SentBefore
  <2>2. x.id # 0  BY <1>1 DEF Items
  <2>3. SentBefore(x)'
    <3>1. streams \in Nat /\ streams' = streams  BY DEF TypeOK
    <3>. QED  BY <1>1, <1>3, <1>4, <2>2, <3>1 DEF SentBefore
  <2>. QED  BY <1>2, <2>1, <2>3 DEF WireInv
<1>9. EndIsReported'
  <2>1. ASSUME NEW j \in DOMAIN wire', wire'[j].part > 0, wire'[j].part = wire'[j].total
        PROVE  done'[wire'[j].id] = 1
    <3>1. CASE j \in 1..n
      <4>1. done[wire[j].id] = 1 /\ wire[j].part > 0
        BY <1>2, <2>1, <3>1 DEF IInv, EndIsReported
      <4>2. wire[j].id \in 1..MaxStreams  BY <1>2, <3>1, <4>1, PartSent
      <4>. QED  BY <1>2, <3>1, <4>1, <4>2, FinishReports
    <3>2. CASE j = n + 1  BY <1>2, <1>4, <3>2, FinishReports
    <3>. QED  BY <1>2, <3>1, <3>2
  <2>2. \A s \in 1..MaxStreams : done'[s] <= (IF s > streams' \/ s = stream'.id THEN 0 ELSE 1)
    BY FinishReports
  <2>. QED  BY <2>1, <2>2 DEF EndIsReported
<1>. QED  BY <1>5, <1>6, <1>7, <1>8, <1>9 DEF IInv

\* A message is put into the queue.
LEMMA QueueStep ==
  ASSUME TypeOK, IInv, NEW k \in {"reply", "heartbeat"}, Queue(k),
         UNCHANGED <<pc, wire, stream, streams, done, connected>>
  PROVE  IInv'
<1>0. PICK x : x = Message(k)  OBVIOUS
<1>1. /\ mbox \in Seq(Items) /\ x \in Items /\ messages \in Nat /\ messages' = messages + 1
      /\ ~IsPart(x) /\ x.part = 0 /\ x.id = messages + 1 /\ tx' = tx /\ pc' = pc
  BY <1>0 DEF TypeOK, Queue, Message, Items, IsPart
<1>4. pc = "send" => /\ ~IsPart(tx) /\ tx.part = 0 /\ tx.id <= messages
                     /\ \A i \in DOMAIN mbox : tx.id < mbox[i].id
                     /\ tx.id \in Nat
  BY DEF IInv, MboxInv, TypeOK, Items
<1>2. CASE UNCHANGED mbox
  <2>1. MboxInv'
    <3>1. \A j \in DOMAIN mbox : mbox[j].id \in Nat
      BY <1>1, ItemsOf
    <3>. QED  BY <1>1, <1>2, <1>4, <3>1 DEF IInv, MboxInv
  <2>2. WireInv'
    <3>1. \A j \in DOMAIN wire : wire[j].id \in Nat
      BY ItemsOf DEF TypeOK
    <3>2. ASSUME NEW j \in DOMAIN wire PROVE SentBefore(wire[j])'
      <4>1. SentBefore(wire[j])  BY DEF IInv, WireInv
      <4>. QED  BY <1>1, <1>2, <3>1, <4>1 DEF SentBefore
    <3>. QED  BY <3>2 DEF WireInv
  <2>3. StreamInv' /\ WireInOrder' /\ EndIsReported'
    BY DEF IInv, StreamInv, Active, Part, WireInOrder, EndIsReported
  <2>. QED  BY <2>1, <2>2, <2>3 DEF IInv
<1>3. CASE mbox' = Append(mbox, x)
  <2>0. PICK n : n = Len(mbox)  OBVIOUS
  <2>1. /\ n \in Nat /\ DOMAIN mbox = 1..n /\ DOMAIN mbox' = 1..n + 1
        /\ \A i \in 1..n : mbox'[i] = mbox[i] /\ mbox[i] \in Items
        /\ mbox'[n + 1] = x
    BY <1>1, <1>3, <2>0, AppendProperties, LenProperties, ElementOfSeq
  <2>2. \A i \in 1..n : /\ ~IsPart(mbox[i]) /\ mbox[i].part = 0
                        /\ mbox[i].id <= messages /\ mbox[i].id \in Nat
    BY <2>1 DEF IInv, MboxInv, Items
  <2>3. MboxInv'
    <3>1. \A j \in 1..n + 1 : ~IsPart(mbox'[j]) /\ mbox'[j].part = 0 /\ mbox'[j].id <= messages'
      BY <1>1, <2>1, <2>2
    <3>2. ASSUME NEW i \in 1..n + 1, NEW j \in 1..n + 1, i < j
          PROVE  mbox'[i].id < mbox'[j].id
      <4>1. CASE j \in 1..n
        <5>1. i \in 1..n /\ i < j  BY <2>1, <3>2, <4>1
        <5>. QED  BY <2>1, <4>1, <5>1 DEF IInv, MboxInv
      <4>2. CASE j = n + 1
        <5>1. i \in 1..n  BY <2>1, <3>2, <4>2
        <5>. QED  BY <1>1, <2>1, <2>2, <4>2, <5>1
      <4>. QED  BY <2>1, <4>1, <4>2
    <3>3. pc = "send" => /\ tx.id <= messages + 1
                         /\ \A i \in 1..n + 1 : tx.id < mbox'[i].id
      <4>1. CASE pc = "send"
        <5>1. \A i \in 1..n : tx.id < mbox'[i].id  BY <1>4, <2>1, <4>1
        <5>2. tx.id < mbox'[n + 1].id /\ tx.id <= messages + 1  BY <1>1, <1>4, <2>1, <4>1
        <5>. QED  BY <2>1, <5>1, <5>2
      <4>. QED  BY <4>1
    <3>4. pc' = "send" => ~IsPart(tx') /\ tx'.part = 0  BY <1>1, <1>4 DEF IsPart
    <3>. QED  BY <1>1, <2>1, <3>1, <3>2, <3>3, <3>4 DEF MboxInv
  <2>4. WireInv'
    <3>1. ASSUME NEW j \in DOMAIN wire PROVE SentBefore(wire[j])'
      <4>1. wire[j] \in Items  BY ElementOfSeq, LenProperties DEF TypeOK
      <4>2. wire[j].id \in Nat  BY <4>1 DEF Items
      <4>3. SentBefore(wire[j])  BY DEF IInv, WireInv
      <4>. QED  BY <1>1, <2>1, <4>2, <4>3 DEF SentBefore
    <3>. QED  BY <3>1 DEF WireInv
  <2>5. StreamInv' /\ WireInOrder' /\ EndIsReported'
    BY DEF IInv, StreamInv, Active, Part, WireInOrder, EndIsReported
  <2>. QED  BY <2>3, <2>4, <2>5 DEF IInv
<1>. QED  BY <1>0, <1>2, <1>3 DEF Queue

\* The oldest message leaves the queue.
LEMMA FetchStep ==
  ASSUME TypeOK, IInv, FetchQueued
  PROVE  IInv'
<1>0. PICK x, m : x = Head(mbox) /\ m = Len(mbox)  OBVIOUS
<1>1. /\ mbox' = Tail(mbox) /\ tx' = x /\ pc = "queue" /\ pc' = "send" /\ mbox # <<>>
      /\ UNCHANGED <<wire, connected, stream, messages, streams, done>>
  BY <1>0 DEF FetchQueued, Goto, count
<1>2. /\ mbox \in Seq(Items) /\ x \in Items /\ x = mbox[1]
      /\ m \in Nat /\ m # 0 /\ DOMAIN mbox = 1..m /\ DOMAIN mbox' = 1..m - 1
      /\ \A i \in 1..m - 1 : mbox'[i] = mbox[i + 1]
  BY <1>0, <1>1, HeadTailProperties, EmptySeq, LenProperties DEF TypeOK
<1>3. /\ ~IsPart(x) /\ x.part = 0 /\ x.id <= messages
      /\ \A i \in 1..m - 1 : x.id < mbox[i + 1].id
  <2>1. 1 \in DOMAIN mbox /\ \A i \in 1..m - 1 : i + 1 \in DOMAIN mbox /\ 1 < i + 1
    BY <1>2
  <2>. QED  BY <1>2, <2>1 DEF IInv, MboxInv
<1>4. MboxInv'
  <2>1. \A i \in 1..m - 1 : i + 1 \in DOMAIN mbox  BY <1>2
  <2>2. ASSUME NEW i \in 1..m - 1, NEW j \in 1..m - 1, i < j
        PROVE  mbox'[i].id < mbox'[j].id
    <3>1. i + 1 < j + 1 /\ i + 1 \in DOMAIN mbox /\ j + 1 \in DOMAIN mbox
      BY <1>2, <2>1, <2>2
    <3>2. mbox[i + 1].id < mbox[j + 1].id  BY <3>1 DEF IInv, MboxInv
    <3>. QED  BY <1>2, <3>2
  <2>3. \A j \in 1..m - 1 : /\ ~IsPart(mbox'[j]) /\ mbox'[j].part = 0
                            /\ mbox'[j].id <= messages
    BY <1>2, <2>1 DEF IInv, MboxInv
  <2>. QED  BY <1>1, <1>2, <1>3, <2>2, <2>3 DEF MboxInv
<1>5. WireInv'
  <2>1. ASSUME NEW j \in DOMAIN wire PROVE SentBefore(wire[j])'
    <3>1. SentBefore(wire[j])  BY DEF IInv, WireInv
    <3>2. 1 \in DOMAIN mbox /\ \A i \in 1..m - 1 : i + 1 \in DOMAIN mbox  BY <1>2
    <3>. QED  BY <1>1, <1>2, <3>1, <3>2 DEF SentBefore
  <2>. QED  BY <1>1, <2>1 DEF WireInv
<1>6. StreamInv' /\ WireInOrder' /\ EndIsReported'
  BY <1>1 DEF IInv, StreamInv, Active, Part, WireInOrder, EndIsReported
<1>. QED  BY <1>4, <1>5, <1>6 DEF IInv

\* It goes out, or is lost with the connection.
LEMMA SendStep ==
  ASSUME TypeOK, IInv, SendQueued
  PROVE  IInv'
<1>0. PICK n : n = Len(wire)  OBVIOUS
<1>1. /\ pc = "send" /\ pc' # "send" /\ tx \in Items
      /\ wire' = Append(wire, tx) \/ wire' = wire
      /\ UNCHANGED <<mbox, connected, stream, messages, streams, done>>
  BY DEF SendQueued, Goto, count, TypeOK
<1>2. ~IsPart(tx) /\ tx.part = 0 /\ tx.id <= messages /\ \A k \in DOMAIN mbox : tx.id < mbox[k].id
  BY <1>1 DEF IInv, MboxInv
<1>3. MboxInv'  BY <1>1 DEF IInv, MboxInv
<1>4. ASSUME NEW x, SentBefore(x) PROVE SentBefore(x)'
  BY <1>1, <1>4 DEF SentBefore
<1>5. CASE wire' = wire
  <2>1. WireInv'  BY <1>4, <1>5 DEF IInv, WireInv
  <2>2. StreamInv' /\ WireInOrder' /\ EndIsReported'
    BY <1>1, <1>5 DEF IInv, StreamInv, Active, Part, WireInOrder, EndIsReported
  <2>. QED  BY <1>3, <2>1, <2>2 DEF IInv
<1>6. CASE wire' = Append(wire, tx)
  <2>1. /\ n \in Nat /\ DOMAIN wire = 1..n /\ DOMAIN wire' = 1..n + 1
        /\ \A i \in 1..n : wire'[i] = wire[i] /\ wire[i] \in Items
        /\ wire'[n + 1] = tx
    BY <1>0, <1>1, <1>6, WireAppend
  <2>2. WireInOrder'
    <3>1. \A i \in DOMAIN wire : ~IsPart(wire[i]) => wire[i].id < tx.id
      BY <1>1 DEF IInv, WireInv, SentBefore
    <3>2. tx.part <= tx.total  BY <1>1, <1>2 DEF Items
    <3>3. Follows(tx)  BY <1>2, <3>1, <3>2 DEF Follows
    <3>. QED  BY <1>1, <1>6, <3>3, OrderAppend DEF IInv
  <2>3. WireInv'
    <3>1. PICK y : y = tx  OBVIOUS
    <3>2. SentBefore(y)'  BY <1>1, <1>2, <3>1 DEF SentBefore
    <3>3. ASSUME NEW j \in 1..n PROVE SentBefore(wire[j])'
      <4>1. PICK x : x = wire[j]  OBVIOUS
      <4>2. SentBefore(x)'  BY <1>4, <2>1, <4>1 DEF IInv, WireInv
      <4>. QED  BY <2>1, <4>1, <4>2
    <3>4. SentBefore(wire[n + 1])'  BY <1>0, <2>1, <3>1, <3>2
    <3>. QED  BY <2>1, <3>3, <3>4 DEF WireInv
  <2>4. StreamInv'
    <3>1. \A p : (\E i \in DOMAIN wire : wire[i] = p) => \E i \in DOMAIN wire' : wire'[i] = p
      BY <2>1
    <3>2. Part(stream.sent)' = Part(stream.sent)  BY <1>1 DEF Part
    <3>. QED  BY <1>1, <3>1, <3>2 DEF IInv, StreamInv, Active
  <2>5. EndIsReported'
    BY <1>1, <1>2, <2>1 DEF IInv, EndIsReported
  <2>. QED  BY <1>3, <2>2, <2>3, <2>4, <2>5 DEF IInv
<1>. QED  BY <1>1, <1>5, <1>6

LEMMA StartStep ==
  ASSUME TypeOK, IInv, StartStream
  PROVE  IInv'
<1>1. PICK t \in Sizes :
        stream' = [id |-> streams + 1, header |-> FALSE, sent |-> 0, total |-> t]
  BY DEF StartStream, None
<1>2. /\ streams' = streams + 1 /\ streams \in Nat
      /\ UNCHANGED <<pc, connected, mbox, tx, wire, messages, done>>
  BY DEF StartStream, TypeOK, task, mail
<1>3. /\ stream'.id = streams + 1 /\ stream'.header = FALSE /\ stream'.sent = 0
  BY <1>1
<1>4. StreamInv'  BY <1>2, <1>3 DEF StreamInv, Active
<1>5. MboxInv' /\ WireInOrder'  BY <1>2 DEF IInv, MboxInv, WireInOrder
<1>6. WireInv'
  <2>1. ASSUME NEW j \in DOMAIN wire PROVE SentBefore(wire[j])'
    <3>1. wire[j] \in Items  BY ElementOfSeq, LenProperties DEF TypeOK
    <3>2. wire[j].id \in Nat  BY <3>1 DEF Items
    <3>3. SentBefore(wire[j])  BY DEF IInv, WireInv
    <3>. QED  BY <1>2, <1>3, <3>2, <3>3 DEF SentBefore
  <2>. QED  BY <1>2, <2>1 DEF WireInv
<1>7. EndIsReported'
  <2>1. ASSUME NEW s \in 1..MaxStreams
        PROVE  done[s] <= (IF s > streams + 1 \/ s = streams + 1 THEN 0 ELSE 1)
    <3>1. done[s] <= (IF s > streams \/ s = stream.id THEN 0 ELSE 1) /\ done[s] \in Nat
      BY DEF IInv, EndIsReported, TypeOK
    <3>. QED  BY <1>2, <3>1, TcpClientAssumption
  <2>. QED  BY <1>2, <1>3, <2>1 DEF IInv, EndIsReported
<1>. QED  BY <1>4, <1>5, <1>6, <1>7 DEF IInv

LEMMA ConnectStep ==
  ASSUME TypeOK, IInv, ConnectOk
  PROVE  IInv'
<1>1. /\ wire' = <<>> /\ ~connected /\ UNCHANGED <<pc, mbox, tx, stream, messages, streams, done>>
      /\ DOMAIN wire' = {}
  BY DEF ConnectOk, mail, count
<1>2. ~stream.header  BY <1>1 DEF IInv, StreamInv
<1>3. StreamInv'  BY <1>1, <1>2 DEF IInv, StreamInv, Active
<1>4. MboxInv'  BY <1>1 DEF IInv, MboxInv
<1>5. WireInv' /\ WireInOrder'  BY <1>1 DEF WireInv, WireInOrder
<1>6. EndIsReported'  BY <1>1 DEF IInv, EndIsReported
<1>. QED  BY <1>3, <1>4, <1>5, <1>6 DEF IInv

LEMMA HeaderStep ==
  ASSUME TypeOK, IInv, StreamHeader
  PROVE  IInv'
<1>1. Active /\ ~stream.header /\ UNCHANGED <<connected, mbox, messages, streams>>
      /\ pc' # "send"
  BY DEF StreamHeader, Goto, mail, count
<1>2. stream.sent = 0 /\ NextPart = 0  BY <1>1 DEF IInv, StreamInv, NextPart
<1>3. CASE alive /\ wire' = Append(wire, Part(0)) /\ done' = done
           /\ stream' = [stream EXCEPT !.header = TRUE]
  <2>1. [stream EXCEPT !.header = TRUE] = [stream EXCEPT !.header = TRUE, !.sent = NextPart]
    BY <1>2 DEF TypeOK
  <2>2. connected  BY <1>3 DEF TypeOK
  <2>. QED  BY <1>1, <1>2, <1>3, <2>1, <2>2, PartStep
<1>4. CASE FinishStream /\ UNCHANGED wire  BY <1>1, <1>4, FinishStep
<1>. QED  BY <1>3, <1>4 DEF StreamHeader

LEMMA ReadStep ==
  ASSUME TypeOK, IInv, StreamChunk
  PROVE  IInv'
<1>1. pc' # "send" /\ UNCHANGED <<connected, mbox, tx, wire, messages, streams>>
  BY DEF StreamChunk, Goto, mail, count
<1>2. CASE FinishStream  BY <1>1, <1>2, FinishStep
<1>3. CASE UNCHANGED <<stream, done>>  BY <1>1, <1>3, KeepStep
<1>. QED  BY <1>2, <1>3 DEF StreamChunk

LEMMA ChunkStep ==
  ASSUME TypeOK, IInv, ChunkInv, SendChunk
  PROVE  IInv'
<1>1. /\ Active /\ stream.header /\ stream.sent < stream.total /\ pc' # "send"
      /\ UNCHANGED <<connected, mbox, messages, streams>>
  BY DEF SendChunk, ChunkInv, Goto, mail, count
<1>2. /\ NextPart = stream.sent + 1 /\ connected
      /\ stream.sent \in Nat /\ stream.total \in Nat
  BY <1>1 DEF IInv, StreamInv, NextPart, TypeOK
<1>3. CASE FinishStream /\ UNCHANGED wire  BY <1>1, <1>3, FinishStep
<1>4. CASE /\ wire' = Append(wire, Part(stream.sent + 1))
           /\ IF stream.sent + 1 >= stream.total
              THEN FinishStream
              ELSE stream' = [stream EXCEPT !.sent = @ + 1] /\ UNCHANGED done
  <2>1. CASE stream.sent + 1 >= stream.total
    <3>1. NextPart <= stream.total  BY <1>1, <1>2
    <3>. QED  BY <1>1, <1>2, <1>4, <2>1, <3>1, LastPartStep
  <2>2. CASE ~(stream.sent + 1 >= stream.total)
    <3>1. NextPart < stream.total  BY <1>2, <2>2
    <3>2. stream' = [stream EXCEPT !.header = TRUE, !.sent = NextPart]
      BY <1>1, <1>2, <1>4, <2>2 DEF TypeOK
    <3>. QED  BY <1>1, <1>2, <1>4, <2>2, <3>1, <3>2, PartStep
  <2>. QED  BY <2>1, <2>2
<1>. QED  BY <1>3, <1>4 DEF SendChunk

LEMMA InvNext == TypeOK /\ IInv /\ ChunkInv /\ [Next]_vars => IInv'
<1>. SUFFICES ASSUME TypeOK, IInv, ChunkInv, [Next]_vars PROVE IInv'  OBVIOUS
<1>. USE DEF task, mail, count
<1>1. CASE ConnectOk  BY <1>1, ConnectStep
<1>2. CASE FetchQueued \/ SendQueued  BY <1>2, FetchStep, SendStep
<1>3. CASE StreamHeader  BY <1>3, HeaderStep
<1>4. CASE StreamChunk \/ SendChunk  BY <1>4, ReadStep, ChunkStep
<1>5. CASE SendBuffer  BY <1>5, QueueStep DEF SendBuffer
<1>6. CASE HeartbeatSend  BY <1>6, QueueStep DEF HeartbeatSend
<1>7. CASE StartStream  BY <1>7, StartStep
<1>8. CASE ConnectFails \/ Asked \/ Link
  BY <1>8, KeepStep DEF ConnectFails, Asked, Link, CloseSocket, conn, Goto
<1>9. CASE QueueEmpty \/ Poll \/ Select
  BY <1>9, KeepStep DEF QueueEmpty, Poll, Select, CloseSocket, conn, Goto
<1>10. CASE HeartbeatTest \/ RequestReconnect
  BY <1>10, KeepStep DEF HeartbeatTest, RequestReconnect
<1>11. CASE Network
  BY <1>11, KeepStep DEF Network, LinkUp, LinkDown, Stall, Resume, Hangup
<1>12. CASE UNCHANGED vars  BY <1>12, KeepStep DEF vars
<1>. QED
  BY <1>1, <1>2, <1>3, <1>4, <1>5, <1>6, <1>7, <1>8, <1>9, <1>10, <1>11, <1>12
  DEF Next, Client, Others

\* On every connection, and whatever queues, starts, stalls, fails or hangs up
\* meanwhile, messages go out once and in the order of their queueing, those an earlier
\* connection has left in the mailbox first, and a stream as its header and then its
\* chunks, the rest of no stream that another connection began.
THEOREM WireCorrect == Spec => []WireInOrder
<1>1. IInv => WireInOrder  BY DEF IInv
<1>. QED  BY <1>1, InvInit, InvNext, TypeCorrect, ChunkCorrect, PTL DEF Spec

\* The end of a stream is reported once at most and not before it, and the end of
\* one that has gone out whole has been.
THEOREM EndCorrect == Spec => []EndIsReported
<1>1. IInv => EndIsReported  BY DEF IInv
<1>. QED  BY <1>1, InvInit, InvNext, TypeCorrect, ChunkCorrect, PTL DEF Spec
=============================================================================

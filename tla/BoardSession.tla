---------------------------- MODULE BoardSession ----------------------------
(***************************************************************************)
(* The host's end of a connection to a board (session.py): the thread that *)
(* cuts the received bytes into packets, stream headers and payload, and   *)
(* the threads that call it, the DAQ stream job (daemon/jobs.py) and the   *)
(* health poll (daemon/manager.py).                                        *)
(*                                                                         *)
(* The bytes are units: a packet has PacketLen of them, a header HeaderLen *)
(* and a chunk of payload one; recv returns any number of those under way. *)
(* No payload looks like a packet, which the session takes for granted.    *)
(* The board (freertos.c, tcpclient.c) answers the commands in order and   *)
(* sends its stream in between.                                            *)
(***************************************************************************)
EXTENDS Integers, Sequences, FiniteSetsExt

CONSTANTS
  PacketLen, HeaderLen,  \* 128 and 18 bytes
  Totals,                \* total_size of a stream; above MaxChunks for 0xFFFFFFFF
  MaxChunks,             \* bounds of the model: chunks of a stream,
  MaxTurns               \*   streams prepared, commands polled, idle heartbeats

ASSUME BoardSessionAssumption ==
  /\ PacketLen \in Nat \ {0} /\ HeaderLen \in Nat \ {0}
  /\ Totals \subseteq Nat \ {0} /\ MaxChunks \in Nat
  /\ MaxTurns \in Nat

VARIABLES
  job,        \* where the thread of the job is
  poll,       \* where the thread of the health poll is
  timeouts,   \* history: calls of each command that timed out
  online, active, handle,  \* the session: is_online, _active_stream, its handle
  responses,  \* how many packets of each command wait to be taken
  file,       \* what has been written to the file of the stream
  reader, rx, \* the receive thread: its place, rx_buffer
  commands, wire,          \* under way to the board, and from it
  daq, sender,             \* the board: the DAQ runs, the stream of its client task
  streams, polls, beats,   \* history: streams prepared, commands polled, idle heartbeats
  sent,       \* history: chunks sent of each stream
  due,        \* history: payload that was announced and is still to be sent
  stopped,    \* history: the stream whose stop was answered in its payload
  mixed       \* history: something else was sent where payload was due, or payload after
              \*   the answer to the stop

calls   == <<job, poll, timeouts>>
session == <<online, active, handle, responses, file>>
input   == <<reader, rx>>
board   == <<daq, sender>>
past    == <<streams, polls, beats, sent, due, stopped, mixed>>
vars    == <<calls, session, input, commands, wire, board, past>>

PollCommands == <<0, 99, 10>>    \* heartbeat, openamp_heartbeat, get_daq_status
Commands == {0, 10, 12, 99}      \* those answered with a packet
Start == 13
Payload == 255    \* what no packet or header begins with

Packet(c) == [k \in 1..PacketLen |-> <<c, 0, k>>]
Header(total) == [k \in 1..HeaderLen |-> <<Start, total, k>>]
Chunk(s, k) == <<Payload, s, k>>

NoStream == [on |-> FALSE, total |-> 0, pending |-> FALSE]
NoSender == [id |-> 0, header |-> FALSE, total |-> 0]

Init ==
  /\ job = "idle" /\ poll = 0 /\ timeouts = [c \in Commands |-> 0]
  /\ online = TRUE /\ active = NoStream /\ handle = "none"
  /\ responses = [c \in Commands |-> 0] /\ file = <<>>
  /\ reader = "recv" /\ rx = <<>> /\ commands = <<>> /\ wire = <<>>
  /\ daq = FALSE /\ sender = NoSender
  /\ streams = 0 /\ polls = 0 /\ beats = 0
  /\ sent = [s \in 1..MaxTurns |-> 0] /\ due = 0 /\ stopped = 0 /\ mixed = FALSE

-----------------------------------------------------------------------------
(* Calls.                                                                  *)

\* send_command
SendCommand(c) == commands' = Append(commands, c)

\* Mutant: the packet that is returned stays in the queue.
WaitForCommand_Peek(c) ==
  \/ responses[c] > 0 /\ UNCHANGED <<responses, timeouts>>
  \/ /\ responses[c] = 0
     /\ timeouts' = [timeouts EXCEPT ![c] = @ + 1]
     /\ UNCHANGED responses

\* wait_for_command: the oldest packet of the command, or a timeout.
WaitForCommand(c) ==
  \/ /\ responses[c] > 0
     /\ responses' = [responses EXCEPT ![c] = @ - 1]
     /\ UNCHANGED timeouts
  \/ /\ responses[c] = 0
     /\ timeouts' = [timeouts EXCEPT ![c] = @ + 1]
     /\ UNCHANGED responses

More == streams + polls + beats < MaxTurns

Job(from, to) == job = from /\ job' = to

\* JobManager keeps the job: the board is busy from now on.
KeepJob ==
  /\ Job("idle", "tracked")
  /\ UNCHANGED <<poll, timeouts, session, input, commands, wire, board, past>>

\* _prepare_stream
PrepareStream ==
  /\ \/ /\ ~active.on /\ Job("tracked", "prepared") /\ More
        /\ active' = [NoStream EXCEPT !.on = TRUE]
        /\ handle' = "open" /\ file' = <<>> /\ streams' = streams + 1
     \/ /\ active.on /\ Job("tracked", "idle")
        /\ UNCHANGED <<active, handle, file, streams>>
  /\ UNCHANGED <<poll, timeouts, online, responses, input, commands, wire, board,
                 polls, beats, sent, due, stopped, mixed>>

SendStart ==
  /\ Job("prepared", "running") /\ SendCommand(Start)
  /\ UNCHANGED <<poll, timeouts, session, input, wire, board, past>>

\* Mutant: the stop is not announced to the receive thread.
StopDaq_Unannounced ==
  /\ Job("running", "stop")
  /\ UNCHANGED <<poll, timeouts, session, input, commands, wire, board, past>>

\* stop_daq: the packet is announced to the receive thread, then asked for.
StopDaq ==
  /\ Job("running", "stop")
  /\ active' = [active EXCEPT !.pending = active.on]
  /\ UNCHANGED <<poll, timeouts, online, handle, responses, file, input, commands, wire,
                 board, past>>

SendStop ==
  /\ Job("stop", "ack") /\ SendCommand(12)
  /\ UNCHANGED <<poll, timeouts, session, input, wire, board, past>>

StopAck ==
  /\ Job("ack", "wait") /\ WaitForCommand(12)
  /\ UNCHANGED <<poll, online, active, handle, file, input, commands, wire, board, past>>

\* handle.wait, which may time out; then get_daq_status.
HandleWait ==
  /\ \/ handle = "result" /\ Job("wait", "status") /\ SendCommand(10)
     \/ handle # "result" /\ Job("wait", "idle") /\ UNCHANGED commands
  /\ UNCHANGED <<poll, timeouts, session, input, wire, board, past>>

JobStatus ==
  /\ Job("status", "idle") /\ WaitForCommand(10)
  /\ UNCHANGED <<poll, online, active, handle, file, input, commands, wire, board, past>>

\* _poll_board_health: the test, and later the commands one after the other.
PollTest ==
  /\ poll = 0 /\ job = "idle"
  /\ poll' = 1
  /\ UNCHANGED <<job, timeouts, session, input, commands, wire, board, past>>

Polled == PollCommands[(poll + 1) \div 2]

PollSend ==
  /\ poll % 2 = 1 /\ poll' = poll + 1
  /\ More /\ polls' = polls + 1
  /\ SendCommand(Polled)
  /\ UNCHANGED <<job, timeouts, session, input, wire, board,
                 streams, beats, sent, due, stopped, mixed>>

PollWait ==
  /\ poll % 2 = 0 /\ poll > 0
  /\ poll' = IF poll = 2 * Len(PollCommands) THEN 0 ELSE poll + 1
  /\ WaitForCommand(Polled)
  /\ UNCHANGED <<job, online, active, handle, file, input, commands, wire, board, past>>

Caller ==
  \/ KeepJob \/ PrepareStream \/ SendStart \/ StopDaq \/ SendStop
  \/ StopAck \/ HandleWait \/ JobStatus
  \/ PollTest \/ PollSend \/ PollWait

-----------------------------------------------------------------------------
(* The board.                                                              *)

Sends(units) == wire' = wire \o units

\* A start while a stream is being sent is answered with nothing, and stops the DAQ;
\* a DAQ that does not start is answered with an empty header.
ServeStart ==
  /\ \/ /\ sender.id = 0
        /\ \/ \E n \in Totals : sender' = [NoSender EXCEPT !.id = streams, !.total = n]
              /\ daq' = TRUE /\ UNCHANGED wire
           \/ Sends(Header(0)) /\ UNCHANGED board
     \/ sender.id # 0 /\ daq' = FALSE /\ UNCHANGED <<sender, wire>>
  /\ UNCHANGED <<sent, due, stopped, mixed>>

Sent(s) == sent' = [sent EXCEPT ![s] = @ + 1]
NextChunk == <<Chunk(sender.id, sent[sender.id] + 1)>>
MayChunk == sender.header /\ daq /\ sent[sender.id] < MaxChunks

\* The CM4 ends the run some turns of its superloop later: a chunk may still follow.
ServeStop ==
  /\ \/ Sends(Packet(12)) /\ UNCHANGED <<sent, mixed>>
     \/ /\ MayChunk /\ Sent(sender.id)
        /\ Sends(Packet(12) \o NextChunk) /\ mixed' = TRUE
  /\ daq' = FALSE
  /\ stopped' = IF due > 0 THEN streams ELSE stopped
  /\ due' = 0
  /\ UNCHANGED sender

SendsPacket(c) == Sends(Packet(c)) /\ mixed' = (mixed \/ due > 0)

Serve ==
  /\ commands # <<>> /\ commands' = Tail(commands)
  /\ LET c == Head(commands) IN
       \/ c = Start /\ ServeStart
       \/ c = 12 /\ ServeStop
       \/ c \notin {Start, 12} /\ SendsPacket(c) /\ UNCHANGED <<board, sent, due, stopped>>
  /\ UNCHANGED <<calls, session, input, streams, polls, beats>>

SendHeader ==
  /\ sender.id # 0 /\ ~sender.header
  /\ sender' = [sender EXCEPT !.header = TRUE]
  /\ Sends(Header(sender.total)) /\ due' = sender.total
  /\ UNCHANGED <<calls, session, input, commands, daq, streams, polls, beats, sent,
                 stopped, mixed>>

\* A chunk of the stream; the last one ends it, and done_fn stops the DAQ.
SendChunk ==
  /\ MayChunk /\ Sent(sender.id)
  /\ Sends(NextChunk) /\ due' = due - 1
  /\ IF due = 1 THEN sender' = NoSender /\ daq' = FALSE ELSE UNCHANGED board
  /\ UNCHANGED <<calls, session, input, commands, streams, polls, beats, stopped, mixed>>

\* The CM4 has had nothing for too long: the stream ends, the host is not told.
EndStream ==
  /\ sender.header /\ sender' = NoSender /\ daq' = FALSE
  /\ UNCHANGED <<calls, session, input, commands, wire, past>>

\* Telemetry_SendIdleHeartbeat
IdleHeartbeat ==
  /\ sender.id = 0 /\ More
  /\ beats' = beats + 1
  /\ SendsPacket(0)
  /\ UNCHANGED <<calls, session, input, commands, board, streams, polls, sent, due, stopped>>

Board == Serve \/ SendHeader \/ SendChunk \/ EndStream \/ IdleHeartbeat

-----------------------------------------------------------------------------
(* The receive thread.                                                     *)

\* recv: any part of what is under way.
Recv ==
  /\ reader = "recv" /\ wire # <<>>
  /\ \E n \in 1..Len(wire) :
       rx' = rx \o SubSeq(wire, 1, n) /\ wire' = SubSeq(wire, n + 1, Len(wire))
  /\ reader' = "parse"
  /\ UNCHANGED <<calls, session, commands, board, past>>

InStream == active.on /\ active.total > 0
Starts(unit, cs) == unit[1] \in cs /\ unit[3] = 1    \* first unit of a packet or header
Ahead(cs) == rx # <<>> /\ Starts(rx[1], cs)

\* _find_stream_control_marker
Markers == {i \in 1..(Len(rx) - PacketLen + 1) : active.pending /\ Starts(rx[i], {12})}

Takes(n) == rx' = SubSeq(rx, n + 1, Len(rx))
\* _handle_fixed_packet
Handles(c) == responses' = [responses EXCEPT ![c] = @ + 1]
\* _consume_stream_payload, _finish_stream
Consumes(n) == file' = file \o SubSeq(rx, 1, n)
\* Mutant: the stream stays the active one.
Finishes_StillActive(how) == UNCHANGED active /\ handle' = how
Finishes(how) == active' = NoStream /\ handle' = how
Parsing(cond) == reader = "parse" /\ rx # <<>> /\ cond
Elsewhere == UNCHANGED <<calls, online, commands, wire, board, past>>

ParseMarker ==
  /\ Parsing(InStream /\ Markers # {})
  /\ LET i == Min(Markers) IN Consumes(i - 1) /\ Takes(i - 1 + PacketLen)
  /\ Finishes("result") /\ Handles(12)
  /\ UNCHANGED reader /\ Elsewhere

\* Mutant: nothing is held back.
ParseHeld_All ==
  /\ Parsing(InStream /\ Markers = {} /\ active.pending /\ Len(rx) >= PacketLen)
  /\ Consumes(Len(rx)) /\ Takes(Len(rx))
  /\ UNCHANGED <<reader, active, handle, responses>> /\ Elsewhere

\* While a packet is announced, its beginning may be the end of what has come.
ParseHeld ==
  /\ Parsing(InStream /\ Markers = {} /\ active.pending /\ Len(rx) >= PacketLen)
  /\ Consumes(Len(rx) - (PacketLen - 1)) /\ Takes(Len(rx) - (PacketLen - 1))
  /\ UNCHANGED <<reader, active, handle, responses>> /\ Elsewhere

ParsePayload ==
  /\ Parsing(InStream /\ ~active.pending)
  /\ LET remaining == active.total - Len(file)
         n == Min({Len(rx), remaining})
     IN  IF remaining <= 0
           THEN Finishes("result") /\ UNCHANGED <<rx, file>>
           ELSE /\ Consumes(n) /\ Takes(n)
                /\ IF n = remaining THEN Finishes("result") ELSE UNCHANGED <<active, handle>>
  /\ UNCHANGED <<reader, responses>> /\ Elsewhere

\* _handle_stream_header
ParseHeader ==
  /\ Parsing(~InStream /\ Ahead({Start}) /\ Len(rx) >= HeaderLen)
  /\ Takes(HeaderLen)
  /\ IF ~active.on THEN UNCHANGED <<active, handle>>
     ELSE IF rx[1][2] = 0 THEN Finishes("error")
     ELSE active' = [active EXCEPT !.total = rx[1][2]] /\ UNCHANGED handle
  /\ UNCHANGED <<reader, responses, file>> /\ Elsewhere

ParsePacket ==
  /\ Parsing(~InStream /\ Ahead(Commands) /\ Len(rx) >= PacketLen)
  /\ Takes(PacketLen) /\ Handles(rx[1][1])
  /\ UNCHANGED <<reader, active, handle, file>> /\ Elsewhere

\* More is needed.
ParseNothing ==
  /\ reader = "parse"
  /\ \/ rx = <<>>
     \/ InStream /\ active.pending /\ Len(rx) < PacketLen
     \/ ~InStream /\ Ahead({Start}) /\ Len(rx) < HeaderLen
     \/ ~InStream /\ Ahead(Commands) /\ Len(rx) < PacketLen
  /\ reader' = "recv"
  /\ UNCHANGED <<session, rx>> /\ Elsewhere

\* The first byte is not the first of anything: the model follows no further.
ParseLost ==
  /\ Parsing(~InStream /\ ~Ahead(Commands \union {Start}))
  /\ reader' = "lost"
  /\ UNCHANGED <<session, rx>> /\ Elsewhere

Reader ==
  \/ Recv \/ ParseMarker \/ ParseHeld \/ ParsePayload
  \/ ParseHeader \/ ParsePacket \/ ParseNothing \/ ParseLost

\* The connection ends, and with it the session.
Disconnect ==
  /\ online' = FALSE /\ reader' = "ended"
  /\ active' = NoStream
  /\ handle' = IF active.on THEN "error" ELSE handle
  /\ UNCHANGED <<calls, responses, file, rx, commands, wire, board, past>>

Next == online /\ (Caller \/ Board \/ Reader \/ Disconnect)

Spec == Init /\ [][Next]_vars /\ WF_vars(online /\ Reader)

-----------------------------------------------------------------------------
Places == {"idle", "tracked", "prepared", "running", "stop", "ack", "wait", "status"}
Units == (Commands \X {0} \X (1..PacketLen))
  \union ({Start} \X (Totals \union {0}) \X (1..HeaderLen))
  \union ({Payload} \X (1..MaxTurns) \X (1..MaxChunks))

TypeOK ==
  /\ job \in Places /\ poll \in 0..(2 * Len(PollCommands))
  /\ timeouts \in [Commands -> Nat] /\ responses \in [Commands -> Nat]
  /\ online \in BOOLEAN /\ handle \in {"none", "open", "result", "error"}
  /\ active \in [on : BOOLEAN, total : Totals \union {0}, pending : BOOLEAN]
  /\ file \in Seq(Units) /\ rx \in Seq(Units) /\ wire \in Seq(Units)
  /\ commands \in Seq(Commands \union {Start})
  /\ reader \in {"recv", "parse", "lost", "ended"}
  /\ daq \in BOOLEAN
  /\ sender \in [id : 0..MaxTurns, header : BOOLEAN, total : Totals \union {0}]
  /\ streams \in 0..MaxTurns /\ polls \in 0..MaxTurns /\ beats \in 0..MaxTurns
  /\ sent \in [1..MaxTurns -> 0..MaxChunks] /\ due \in Nat
  /\ stopped \in 0..MaxTurns /\ mixed \in BOOLEAN
  /\ active.pending => active.on
  /\ active.on <=> handle = "open"

\* The receive thread finds the beginning of every packet and header, and what it
\* writes to the file of a stream is its payload, in order and each chunk once, and
\* all of it once the handle has a result, wherever the received bytes are cut,
\* whenever the job stops the stream, and whatever has timed out before; as long as
\* nothing but the answer to the stop is sent where payload is due, and no payload
\* after it.  Only to a sized stream that was whole before its stop may something be
\* added.
FileIsPayload ==
  ~mixed =>
    /\ reader # "lost"
    /\ streams > 0 =>
         /\ \A k \in 1..Min({Len(file), sent[streams]}) : file[k] = Chunk(streams, k)
         /\ handle = "result" => Len(file) >= sent[streams]
         /\ due > 0 \/ stopped = streams => Len(file) <= sent[streams]

Waiting(c) == (IF c = 12 /\ job = "ack" THEN 1 ELSE 0)
            + (IF c = 10 /\ job = "status" THEN 1 ELSE 0)
            + (IF poll > 0 /\ poll % 2 = 0 /\ Polled = c THEN 1 ELSE 0)

\* A packet that waits to be taken is one a thread waits for, or the late answer to a
\* call that timed out, or an idle heartbeat: later calls are behind by no more.
StaleIsBounded ==
  \A c \in Commands :
    responses[c] <= Waiting(c) + timeouts[c] + (IF c = 0 THEN beats ELSE 0)

\* The answer to a stop in the payload of a stream ends the stream for its job, unless
\* the connection ends or something else was sent where payload was due.
StopEndsStream ==
  \A s \in 1..MaxTurns :
    stopped = s ~> handle # "open" \/ streams # s \/ ~online \/ mixed

\* The health poll stays out of the captures of the jobs the daemon runs.
PollsStayOut ==
  job \in {"running", "stop", "ack", "wait"} => \A k \in 1..Len(file) : file[k][1] # 99
=============================================================================

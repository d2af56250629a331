----------------------------- MODULE FileStream -----------------------------
(***************************************************************************)
(* A file on its way to the host: command 8 of ControllerTask and the      *)
(* callbacks of the stream (CM7 freertos.c), the callers of the channel    *)
(* between the cores (CM7 openamp_fs.c), the file stream of the service    *)
(* behind it (CM4 openamp_fs.c), and the one buffer both cores share.      *)
(*                                                                         *)
(* Two tasks of the CM7 act: the controller, command by command, and the   *)
(* network task, which sends the active stream.  OpenAmpRpc shows what a   *)
(* call is made of; here it is the request carried out, the test of the    *)
(* reply's operation, and the reading of the reply, or a failure that      *)
(* leaves it open whether the request has been carried out; that a reply   *)
(* comes late and is taken for another's is left to OpenAmpRpc.  TcpClient *)
(* shows the network task; here it sends, or loses its connection.         *)
(*                                                                         *)
(* Data come in blocks: what one read brings.  A buffer's content is the   *)
(* block it holds.                                                         *)
(***************************************************************************)
EXTENDS Naturals, Sequences

CONSTANTS
  Files,        \* the files of the eMMC
  Blocks,       \* the blocks of each
  MaxCommands   \* bound of the model: commands the controller takes

ASSUME FileStreamAssumption == Blocks \in Nat \ {0} /\ MaxCommands \in Nat

Tasks == {"controller", "network"}
Ops == {"open", "read", "close", "list", "query"}   \* list stands for what uses the buffer,
                                                     \* query for what does not
VARIABLES
  at,       \* what each task does: nothing, a call, or a step between calls
  phase,    \* how far its call is
  command,  \* msg of the controller: file and start offset
  last,     \* g_last_response: operation, status, total size, offset, length
  handle,   \* CM4: g_stream_handle and g_stream_offset
  buffer,   \* FILE_SHMEM_DATA_PTR
  ctx,      \* g_openamp_file_stream_ctx: total size, offset, prefetch valid
  active,   \* gTcpClient.stream.active
  promise,  \* history: file, start and total_size of the last stream started
  wire,     \* history: the blocks sent for it
  commands, \* history: commands taken
  failed,   \* history: since the last stream began, a call or a connection failed
  disturbed \* history: a command has been taken while this stream was active

ctl  == <<command, commands>>
cm4  == <<handle, buffer>>
sent == <<active, promise, wire>>
hist == <<failed, disturbed>>
vars == <<at, phase, ctl, last, cm4, ctx, sent, hist>>

NoFile  == "none"
Nothing == [file |-> NoFile, block |-> 0]
Closed  == [file |-> NoFile, pos |-> 0]
NoPromise == [file |-> NoFile, start |-> 0, total |-> 0]
NoCtx   == [total |-> 0, offset |-> 0, prefetch |-> FALSE]
Reply(op, status, total, offset, len) ==
  [op |-> op, status |-> status, total |-> total, offset |-> offset, len |-> len]

Init ==
  /\ at = [t \in Tasks |-> "idle"] /\ phase = [t \in Tasks |-> "call"]
  /\ command = [file |-> NoFile, start |-> 0] /\ commands = 0
  /\ last = Reply("query", "ok", 0, 0, 0)
  /\ handle = Closed /\ buffer = Nothing /\ ctx = NoCtx
  /\ active = FALSE /\ promise = NoPromise /\ wire = <<>>
  /\ failed = FALSE /\ disturbed = FALSE

Goto(t, l) == at' = [at EXCEPT ![t] = l]

-----------------------------------------------------------------------------
(* The service, on the CM4.                                                *)

\* OPENAMP_OP_STREAM_OPEN: an open stream is closed first; the file may be missing.
ServeOpen ==
  /\ \/ /\ command.start <= Blocks
        /\ handle' = [file |-> command.file, pos |-> command.start]
        /\ last' = Reply("open", "ok", Blocks, command.start, 0)
     \/ /\ handle' = Closed
        /\ last' = Reply("open", "error", 0, 0, 0)
  /\ UNCHANGED buffer

\* OPENAMP_OP_STREAM_READ_SHMEM: the next block goes to the shared buffer.  At the
\* end of the file nothing is read; without a file, or when the medium fails,
\* the status says so.
ServeRead ==
  \/ /\ handle.file # NoFile /\ handle.pos < Blocks
     /\ buffer' = [file |-> handle.file, block |-> handle.pos + 1]
     /\ last' = Reply("read", "ok", Blocks, handle.pos, 1)
     /\ handle' = [handle EXCEPT !.pos = @ + 1]
  \/ /\ handle.file # NoFile /\ handle.pos = Blocks
     /\ last' = Reply("read", "ok", Blocks, handle.pos, 0)
     /\ UNCHANGED <<handle, buffer>>
  \/ /\ last' = Reply("read", "error", Blocks, handle.pos, 0)
     /\ buffer' \in {buffer, Nothing}
     /\ UNCHANGED handle

\* OPENAMP_OP_STREAM_CLOSE
ServeClose ==
  /\ last' = Reply("close", "ok", Blocks, handle.pos, 0)
  /\ handle' = Closed
  /\ UNCHANGED buffer

\* Any other request: LIST_FILES and SHMEM_PROBE write to the buffer, the others
\* do not.  What stands in the length and the offset of the reply is not about
\* the stream.
ServeOther(op) ==
  /\ \E n \in 0..1 : last' = Reply(op, "ok", 0, n, n)
  /\ buffer' = IF op = "list" THEN Nothing ELSE buffer
  /\ UNCHANGED handle

Serve(op) ==
  \/ op = "open" /\ ServeOpen
  \/ op = "read" /\ ServeRead
  \/ op = "close" /\ ServeClose
  \/ op \in {"list", "query"} /\ ServeOther(op)

-----------------------------------------------------------------------------
(* A call: at[t] is its operation; a task that only closes the stream does  *)
(* not look at the result.                                                 *)

\* The operation of each place where a call is made.
OpAt == [open |-> "open", prefetch |-> "read", read |-> "read", abort |-> "close",
         done |-> "close", list |-> "list", query |-> "query"]
Calling(t) == at[t] \in DOMAIN OpAt

Call(t) ==
  /\ Calling(t) /\ phase[t] = "call"
  /\ Serve(OpAt[at[t]])
  /\ phase' = [phase EXCEPT ![t] = "check"]
  /\ UNCHANGED <<at, ctl, ctx, sent, hist>>

\* The reply is of another operation, or there is none; what has become of the
\* request is not known.
Fails(t) ==
  /\ Calling(t)
  /\ \/ phase[t] = "check" /\ last.op # OpAt[at[t]] /\ UNCHANGED <<last, cm4>>
     \/ phase[t] = "call" /\ (Serve(OpAt[at[t]]) \/ UNCHANGED <<last, cm4>>)
  /\ phase' = [phase EXCEPT ![t] = "call"]
  /\ failed' = TRUE
  /\ UNCHANGED disturbed

Check(t) ==
  /\ Calling(t) /\ phase[t] = "check" /\ last.op = OpAt[at[t]]
  /\ phase' = [phase EXCEPT ![t] = "take"]
  /\ UNCHANGED <<at, ctl, last, cm4, ctx, sent, hist>>

\* The call of task t, made at l, returns: what it reads now of the reply.
Returns(t, l) ==
  /\ at[t] = l /\ phase[t] = "take"
  /\ phase' = [phase EXCEPT ![t] = "call"]
  /\ failed' = (failed \/ last.status # "ok")
  /\ UNCHANGED <<ctl, last, cm4, disturbed>>

-----------------------------------------------------------------------------
(* ControllerTask.                                                         *)

\* A command is taken from the queue.  Command 8 clears the context at once.  When
\* no stream is active, the histories begin anew.
FileCommand(f, s) ==
  /\ at["controller"] = "idle" /\ commands < MaxCommands
  /\ commands' = commands + 1
  /\ command' = [file |-> f, start |-> s]
  /\ ctx' = NoCtx
  /\ Goto("controller", "open")
  /\ disturbed' = active
  /\ IF active
     THEN UNCHANGED <<failed, promise, wire>>
     ELSE failed' = FALSE /\ promise' = NoPromise /\ wire' = <<>>
  /\ UNCHANGED <<phase, last, cm4, active>>

OtherCommand(op) ==
  /\ at["controller"] = "idle" /\ commands < MaxCommands
  /\ commands' = commands + 1
  /\ Goto("controller", op)
  /\ disturbed' = (disturbed \/ active)
  /\ UNCHANGED <<phase, command, last, cm4, ctx, sent, failed>>

\* OpenAmpFs_OpenFileStream has returned.
Opened ==
  /\ Returns("controller", "open")
  /\ IF last.status = "ok" /\ command.start < last.total
     THEN /\ ctx' = [ctx EXCEPT !.total = last.total, !.offset = command.start]
          /\ Goto("controller", "prefetch")
     ELSE Goto("controller", "abort") /\ UNCHANGED ctx
  /\ UNCHANGED sent

\* Mutant: the context keeps the offset from before the prefetch.
Prefetched_Keep ==
  /\ Returns("controller", "prefetch")
  /\ IF last.status = "ok" /\ last.len > 0
     THEN /\ ctx' = [ctx EXCEPT !.prefetch = TRUE]
          /\ Goto("controller", "start")
     ELSE Goto("controller", "abort") /\ UNCHANGED ctx
  /\ UNCHANGED sent

\* OpenAmpFs_ReadFileStreamShared has returned to it.
Prefetched ==
  /\ Returns("controller", "prefetch")
  /\ IF last.status = "ok" /\ last.len > 0
     THEN /\ ctx' = [ctx EXCEPT !.prefetch = TRUE, !.offset = last.offset + last.len]
          /\ Goto("controller", "start")
     ELSE Goto("controller", "abort") /\ UNCHANGED ctx
  /\ UNCHANGED sent

\* TcpClient_StartStreamPtr, under tx_mutex: the network task is not in
\* ProcessStream.
Start ==
  /\ at["controller"] = "start" /\ at["network"] = "idle"
  /\ IF active
     THEN Goto("controller", "abort") /\ UNCHANGED sent
     ELSE /\ active' = TRUE /\ wire' = <<>>
          /\ promise' = [file |-> command.file, start |-> command.start,
                         total |-> ctx.total - command.start]
          /\ Goto("controller", "idle")
  /\ UNCHANGED <<phase, ctl, last, cm4, ctx, hist>>

\* A close, a list or a query has returned: the command is over.
CommandEnds ==
  /\ \E l \in {"abort", "list", "query"} : Returns("controller", l)
  /\ Goto("controller", "idle")
  /\ UNCHANGED <<ctx, sent>>

\* A call of the controller has failed: the file is closed.
ControllerFails ==
  /\ Fails("controller")
  /\ Goto("controller", IF at["controller"] \in {"open", "prefetch"} THEN "abort" ELSE "idle")
  /\ UNCHANGED <<ctl, ctx, sent>>

-----------------------------------------------------------------------------
(* The network task, in ProcessStream.  TcpClient_FinishStream calls        *)
(* OpenAmpFileStreamDone: the context is at its end, the file is closed.   *)

ToDone == Goto("network", "done") /\ ctx' = [ctx EXCEPT !.offset = ctx.total]

\* Mutant: the prefetched block stays valid.
NextChunk_Again ==
  /\ at["network"] = "idle" /\ active
  /\ IF ~ctx.prefetch /\ ctx.offset >= ctx.total
     THEN ToDone
     ELSE Goto("network", IF ctx.prefetch THEN "send" ELSE "read") /\ UNCHANGED ctx
  /\ UNCHANGED <<phase, ctl, last, cm4, sent, hist>>

\* Mutant: the end of the file is seen one block early.
NextChunk_OneShort ==
  /\ at["network"] = "idle" /\ active
  /\ IF ~ctx.prefetch /\ ctx.offset + 1 >= ctx.total
     THEN ToDone
     ELSE /\ Goto("network", IF ctx.prefetch THEN "send" ELSE "read")
          /\ ctx' = [ctx EXCEPT !.prefetch = FALSE]
  /\ UNCHANGED <<phase, ctl, last, cm4, sent, hist>>

\* OpenAmpFileStreamReadPtr: the prefetched block, or one to be read.
NextChunk ==
  /\ at["network"] = "idle" /\ active
  /\ IF ~ctx.prefetch /\ ctx.offset >= ctx.total
     THEN ToDone
     ELSE /\ Goto("network", IF ctx.prefetch THEN "send" ELSE "read")
          /\ ctx' = [ctx EXCEPT !.prefetch = FALSE]
  /\ UNCHANGED <<phase, ctl, last, cm4, sent, hist>>

ChunkRead ==
  /\ Returns("network", "read")
  /\ IF last.status = "ok" /\ last.len > 0
     THEN /\ ctx' = [ctx EXCEPT !.offset = last.offset + last.len]
          /\ Goto("network", "send")
     ELSE ToDone
  /\ UNCHANGED sent

\* TcpClient_SendSocketBuffer sends what the shared buffer holds by now.
SendChunk ==
  /\ at["network"] = "send"
  /\ \/ /\ wire' = Append(wire, buffer)
        /\ IF Len(wire) + 1 >= promise.total
           THEN ToDone
           ELSE Goto("network", "idle") /\ UNCHANGED ctx
        /\ UNCHANGED failed
     \/ /\ failed' = TRUE
        /\ ToDone
        /\ UNCHANGED wire
  /\ UNCHANGED <<phase, ctl, last, cm4, active, promise, disturbed>>

\* The rest of TcpClient_FinishStream.
Finish == active' = FALSE /\ Goto("network", "idle") /\ UNCHANGED <<ctx, promise, wire>>

Done == Returns("network", "done") /\ Finish

NetworkFails ==
  /\ Fails("network")
  /\ IF at["network"] = "done"
     THEN Finish
     ELSE ToDone /\ UNCHANGED sent
  /\ UNCHANGED ctl

\* TcpClient_CloseSocket between two chunks: nobody closes the file.
CloseSocket ==
  /\ at["network"] = "idle" /\ active
  /\ active' = FALSE /\ failed' = TRUE
  /\ UNCHANGED <<at, phase, ctl, last, cm4, ctx, promise, wire, disturbed>>

-----------------------------------------------------------------------------

Controller ==
  \/ \E f \in Files, s \in 0..Blocks + 1 : FileCommand(f, s)
  \/ \E op \in {"list", "query"} : OtherCommand(op)
  \/ Opened \/ Prefetched \/ Start \/ CommandEnds \/ ControllerFails
Network == NextChunk \/ ChunkRead \/ SendChunk \/ Done \/ NetworkFails \/ CloseSocket

Next == (\E t \in Tasks : Call(t) \/ Check(t)) \/ Controller \/ Network
Spec == Init /\ [][Next]_vars

-----------------------------------------------------------------------------
(* Properties.                                                             *)

TypeOK ==
  /\ at \in [Tasks -> {"idle"} \cup DOMAIN OpAt \cup {"start", "send"}]
  /\ at["controller"] \in {"idle", "open", "prefetch", "start", "abort", "list", "query"}
  /\ at["network"] \in {"idle", "read", "send", "done"}
  /\ phase \in [Tasks -> {"call", "check", "take"}]
  /\ command \in [file : Files \cup {NoFile}, start : 0..Blocks + 1]
  /\ last \in [op : Ops, status : {"ok", "error"}, total : 0..Blocks, offset : 0..Blocks, len : 0..1]
  /\ handle \in [file : Files \cup {NoFile}, pos : 0..Blocks]
  /\ buffer \in [file : Files \cup {NoFile}, block : 0..Blocks]
  /\ ctx \in [total : 0..Blocks, offset : 0..Blocks + 1, prefetch : BOOLEAN]
  /\ active \in BOOLEAN /\ failed \in BOOLEAN /\ disturbed \in BOOLEAN
  /\ promise \in [file : Files \cup {NoFile}, start : 0..Blocks, total : 0..Blocks]
  /\ wire \in Seq([file : Files \cup {NoFile}, block : 0..Blocks])
  /\ commands \in 0..MaxCommands

\* What the host receives of a stream are the blocks of its file from the offset
\* it has asked for, in order, without a gap and without a repetition, and no
\* more than announced: the pointer that is sent later than the block is read
\* does no harm as long as no command comes during a stream.
StreamIsFile ==
  ~disturbed =>
    /\ Len(wire) <= promise.total
    /\ \A i \in DOMAIN wire : wire[i] = [file |-> promise.file, block |-> promise.start + i]

\* A stream during which no command comes is cut short by a failure only.
ShortByFailure == ~disturbed /\ ~failed /\ ~active => Len(wire) = promise.total

\* As long as no command comes during the stream, the two cores agree between two
\* chunks on what comes next: the file that is open on the CM4 and its position, and
\* the context of the CM7.
PositionsAgree ==
  ~disturbed /\ active /\ at["network"] = "idle" =>
    /\ handle = [file |-> promise.file, pos |-> ctx.offset]
    /\ ctx.total = promise.start + promise.total
    /\ ctx.offset = promise.start + Len(wire) + (IF ctx.prefetch THEN 1 ELSE 0)
=============================================================================

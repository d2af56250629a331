-------------------------- MODULE FileStreamProofs --------------------------
(* Proofs about FileStream, for any files, any number of blocks and any    *)
(* number of commands.                                                     *)
EXTENDS FileStream, SequenceTheorems, TLAPS

Ctl == at["controller"]
Net == at["network"]
At(f, p) == [file |-> f, pos |-> p]             \* a handle
Block(f, b) == [file |-> f, block |-> b]        \* a buffer

\* What holds whether a command has disturbed the stream or not.
Always ==
  /\ Net # "idle" => active
  /\ Ctl \in {"prefetch", "start"} => command.start < ctx.total
  /\ \A t \in Tasks : at[t] \in {"idle", "start", "send"} => phase[t] = "call"

\* Block n of file f has been read, unless the reply says otherwise.
HasRead(f, n) ==
  last.status = "ok" => handle = At(f, n) /\ buffer = Block(f, n) /\ last.offset + last.len = n /\ last.len > 0

\* Command 8 on its way, with no stream active: the CM4 follows.
Opening ==
  /\ Ctl = "open" => ~ctx.prefetch
  /\ Ctl = "open" /\ phase["controller"] # "call" /\ last.status = "ok" =>
       handle = At(command.file, command.start) /\ last.total = Blocks
  /\ Ctl = "prefetch" =>
       /\ ctx = [total |-> Blocks, offset |-> command.start, prefetch |-> FALSE]
       /\ IF phase["controller"] = "call"
          THEN handle = At(command.file, command.start)
          ELSE HasRead(command.file, command.start + 1)
  /\ Ctl = "start" =>
       /\ ctx = [total |-> Blocks, offset |-> command.start + 1, prefetch |-> TRUE]
       /\ handle = At(command.file, command.start + 1)
       /\ buffer = Block(command.file, command.start + 1)

Due == promise.start + Len(wire) + 1     \* the block that is due

\* The stream between its start and its end.
Streaming ==
  /\ ctx.total = Blocks /\ promise.start + promise.total = Blocks
  /\ Net # "done" => Len(wire) < promise.total
  /\ Net = "idle" =>
       IF ctx.prefetch
       THEN /\ ctx.offset = Due
            /\ handle = At(promise.file, Due) /\ buffer = Block(promise.file, Due)
       ELSE ctx.offset = Due - 1 /\ handle = At(promise.file, Due - 1)
  /\ Net = "read" =>
       /\ ctx.offset = Due - 1 /\ ~ctx.prefetch
       /\ IF phase["network"] = "call"
          THEN handle = At(promise.file, Due - 1)
          ELSE HasRead(promise.file, Due)
  /\ Net = "send" =>
       /\ ctx.offset = Due /\ ~ctx.prefetch
       /\ handle = At(promise.file, Due) /\ buffer = Block(promise.file, Due)
  /\ Net = "done" /\ ~failed => Len(wire) = promise.total

Followed ==
  ~disturbed => IF active THEN Ctl = "idle" /\ Streaming ELSE Opening

IInv == TypeOK /\ Always /\ Followed /\ StreamIsFile /\ ShortByFailure

-----------------------------------------------------------------------------

Cmds == [file : Files \cup {NoFile}, start : 0..Blocks + 1]
Ctxs == [total : 0..Blocks, offset : 0..Blocks + 1, prefetch : BOOLEAN]
Replies == [op : Ops, status : {"ok", "error"}, total : 0..Blocks, offset : 0..Blocks, len : 0..1]
Handles == [file : Files \cup {NoFile}, pos : 0..Blocks]
Blks == [file : Files \cup {NoFile}, block : 0..Blocks]
Promises == [file : Files \cup {NoFile}, start : 0..Blocks, total : 0..Blocks]

\* The parts of the type invariant.
AtOK ==
  /\ at \in [Tasks -> {"idle"} \cup DOMAIN OpAt \cup {"start", "send"}]
  /\ at["controller"] \in {"idle", "open", "prefetch", "start", "abort", "list", "query"}
  /\ at["network"] \in {"idle", "read", "send", "done"}
FlagsOK ==
  /\ phase \in [Tasks -> {"call", "check", "take"}] /\ commands \in 0..MaxCommands
  /\ active \in BOOLEAN /\ failed \in BOOLEAN /\ disturbed \in BOOLEAN
CtlOK == command \in Cmds /\ ctx \in Ctxs
RemoteOK == last \in Replies /\ handle \in Handles /\ buffer \in Blks
SentOK == promise \in Promises /\ wire \in Seq(Blks)

LEMMA Types == TypeOK <=> AtOK /\ FlagsOK /\ CtlOK /\ RemoteOK /\ SentOK
  BY Zenon DEF TypeOK, AtOK, FlagsOK, CtlOK, RemoteOK, SentOK, Cmds, Ctxs, Replies, Handles, Blks,
            Promises
LEMMA TypesNext == TypeOK' <=> AtOK' /\ FlagsOK' /\ CtlOK' /\ RemoteOK' /\ SentOK'
  BY Zenon DEF TypeOK, AtOK, FlagsOK, CtlOK, RemoteOK, SentOK, Cmds, Ctxs, Replies, Handles, Blks,
            Promises

LEMMA Steps ==
  ASSUME Next
  PROVE  \/ \E t \in Tasks : Call(t)
         \/ \E t \in Tasks : Check(t)
         \/ \E f \in Files, s \in 0..Blocks + 1 : FileCommand(f, s)
         \/ \E op \in {"list", "query"} : OtherCommand(op)
         \/ Opened \/ Prefetched \/ Start \/ CommandEnds \/ ControllerFails
         \/ NextChunk \/ ChunkRead \/ SendChunk \/ Done \/ NetworkFails \/ CloseSocket
  BY DEF Next, Controller, Network

LEMMA InitIInv == Init => IInv
<1>. SUFFICES ASSUME Init  PROVE IInv
  OBVIOUS
<1>. USE FileStreamAssumption DEF Init
<1>1. AtOK
  BY DEF AtOK, Tasks
<1>2. FlagsOK
  <2>1. phase \in [Tasks -> {"call", "check", "take"}] /\ commands \in 0..MaxCommands
    BY DEF Tasks
  <2>. QED  BY <2>1, Zenon DEF FlagsOK
<1>3. CtlOK
  BY DEF CtlOK, Cmds, Ctxs, NoCtx
<1>4. RemoteOK
  BY DEF RemoteOK, Replies, Reply, Ops, Handles, Closed, Blks, Nothing
<1>5. SentOK
  BY DEF SentOK, Promises, NoPromise
<1>6. Always /\ Followed
  BY DEF Always, Followed, Opening, Ctl, Net, Tasks
<1>7. StreamIsFile /\ ShortByFailure
  BY DEF StreamIsFile, ShortByFailure, NoPromise
<1>. QED  BY <1>1, <1>2, <1>3, <1>4, <1>5, <1>6, <1>7, Types, Zenon DEF IInv

\* A request of any operation leaves the types of the CM4's state.
LEMMA ServeTypes ==
  ASSUME RemoteOK, CtlOK, NEW op \in Ops, Serve(op)
  PROVE  RemoteOK'
<1>. USE FileStreamAssumption
<1>0. last \in Replies /\ handle \in Handles /\ buffer \in Blks /\ command \in Cmds
  BY DEF RemoteOK, CtlOK
<1>1. /\ \A o \in Ops, st \in {"ok", "error"}, t, n \in 0..Blocks, l \in 0..1 :
            Reply(o, st, t, n, l) \in Replies
      /\ Closed \in Handles /\ Nothing \in Blks
  BY DEF Reply, Replies, Closed, Handles, Nothing, Blks
<1>2. 0 \in 0..Blocks /\ 1 \in 0..Blocks /\ Blocks \in 0..Blocks /\ handle.pos \in 0..Blocks
  BY <1>0 DEF Handles
<1>3. CASE ServeOpen
  <2>1. CASE command.start <= Blocks
        /\ handle' = [file |-> command.file, pos |-> command.start]
        /\ last' = Reply("open", "ok", Blocks, command.start, 0)
    <3>1. command.start \in 0..Blocks /\ handle' \in Handles
      BY <1>0, <2>1 DEF Cmds, Handles
    <3>. QED  BY <1>0, <1>1, <1>2, <1>3, <2>1, <3>1 DEF ServeOpen, RemoteOK, Ops
  <2>2. CASE handle' = Closed /\ last' = Reply("open", "error", 0, 0, 0)
    BY <1>0, <1>1, <1>2, <1>3, <2>2 DEF ServeOpen, RemoteOK, Ops
  <2>. QED  BY <1>3, <2>1, <2>2 DEF ServeOpen
<1>4. CASE ServeRead
  <2>1. handle' \in Handles
    BY <1>0, <1>4 DEF ServeRead, Handles
  <2>2. last' \in Replies
    BY <1>0, <1>1, <1>2, <1>4 DEF ServeRead, Ops
  <2>3. buffer' \in Blks
    BY <1>0, <1>1, <1>4 DEF ServeRead, Handles, Blks
  <2>. QED  BY <2>1, <2>2, <2>3 DEF RemoteOK
<1>5. CASE ServeClose
  BY <1>0, <1>1, <1>2, <1>5 DEF ServeClose, RemoteOK, Ops
<1>6. CASE op \in {"list", "query"} /\ ServeOther(op)
  <2>1. PICK n \in 0..1 : last' = Reply(op, "ok", 0, n, n)
    BY <1>6 DEF ServeOther
  <2>. QED  BY <1>0, <1>1, <1>2, <1>6, <2>1 DEF ServeOther, RemoteOK, Ops
<1>. QED  BY <1>3, <1>4, <1>5, <1>6 DEF Serve

LEMMA FailTypes ==
  ASSUME RemoteOK, CtlOK, FlagsOK, NEW t \in Tasks, Fails(t)
  PROVE  /\ RemoteOK'
         /\ phase' \in [Tasks -> {"call", "check", "take"}]
         /\ failed' \in BOOLEAN /\ disturbed' \in BOOLEAN
<1>1. OpAt[at[t]] \in Ops
  BY DEF Fails, Calling, OpAt, Ops
<1>2. phase' \in [Tasks -> {"call", "check", "take"}] /\ failed' \in BOOLEAN /\ disturbed' \in BOOLEAN
  BY DEF Fails, FlagsOK
<1>3. CASE UNCHANGED <<last, cm4>>
  BY <1>2, <1>3 DEF RemoteOK, cm4
<1>4. CASE Serve(OpAt[at[t]])
  BY <1>1, <1>2, <1>4, ServeTypes
<1>. QED  BY <1>3, <1>4 DEF Fails

LEMMA Typing == TypeOK /\ Always /\ [Next]_vars => TypeOK'
<1>. SUFFICES ASSUME TypeOK, Always, [Next]_vars  PROVE TypeOK'
  OBVIOUS
<1>. USE FileStreamAssumption
<1>0. AtOK /\ FlagsOK /\ CtlOK /\ RemoteOK /\ SentOK
  BY Types
\* what a step leaves alone keeps its type
<1>u. /\ UNCHANGED at => AtOK'
      /\ UNCHANGED <<phase, commands, active, failed, disturbed>> => FlagsOK'
      /\ UNCHANGED <<command, ctx>> => CtlOK'
      /\ UNCHANGED <<last, cm4>> => RemoteOK'
      /\ UNCHANGED <<promise, wire>> => SentOK'
  BY <1>0 DEF AtOK, FlagsOK, CtlOK, RemoteOK, SentOK, cm4
<1>g. /\ \A l \in {"idle", "open", "prefetch", "start", "abort", "list", "query"} :
            Goto("controller", l) => AtOK'
      /\ \A l \in {"idle", "read", "send", "done"} : Goto("network", l) => AtOK'
  BY <1>0 DEF AtOK, Goto, Tasks, OpAt
<1>f. ASSUME NEW t \in Tasks, Fails(t)  PROVE RemoteOK' /\ (UNCHANGED commands /\ active' \in BOOLEAN => FlagsOK')
  BY <1>0, <1>f, FailTypes DEF FlagsOK
<1>1. ASSUME NEW t \in Tasks, Call(t)  PROVE TypeOK'
  <2>1. OpAt[at[t]] \in Ops
    BY <1>1 DEF Call, Calling, OpAt, Ops
  <2>2. RemoteOK'
    BY <1>0, <1>1, <2>1, ServeTypes DEF Call
  <2>3. FlagsOK'
    BY <1>0, <1>1 DEF Call, FlagsOK, ctl, sent, hist
  <2>. QED  BY <1>1, <1>u, <2>2, <2>3, TypesNext DEF Call, ctl, sent
<1>2. ASSUME NEW t \in Tasks, Check(t)  PROVE TypeOK'
  <2>1. FlagsOK'
    BY <1>0, <1>2 DEF Check, FlagsOK, ctl, sent, hist
  <2>. QED  BY <1>2, <1>u, <2>1, TypesNext DEF Check, ctl, sent
<1>3. ASSUME NEW f \in Files, NEW s \in 0..Blocks + 1, FileCommand(f, s)  PROVE TypeOK'
  <2>1. FlagsOK'
    <3>1. commands' \in 0..MaxCommands
      BY <1>0, <1>3 DEF FileCommand, FlagsOK
    <3>. QED  BY <1>0, <1>3, <3>1, Zenon DEF FileCommand, FlagsOK
  <2>2. CtlOK'
    BY <1>3 DEF FileCommand, CtlOK, Cmds, Ctxs, NoCtx
  <2>3. SentOK'
    <3>1. NoPromise \in Promises /\ <<>> \in Seq(Blks)
      BY DEF Promises, NoPromise
    <3>. QED  BY <1>0, <1>3, <3>1 DEF FileCommand, SentOK
  <2>. QED  BY <1>3, <1>u, <1>g, <2>1, <2>2, <2>3, TypesNext DEF FileCommand
<1>4. ASSUME NEW op \in {"list", "query"}, OtherCommand(op)  PROVE TypeOK'
  <2>1. FlagsOK'
    BY <1>0, <1>4 DEF OtherCommand, FlagsOK, sent
  <2>. QED  BY <1>4, <1>u, <1>g, <2>1, TypesNext DEF OtherCommand, sent
<1>5. CASE Opened
  <2>1. CtlOK'
    <3>1. last.total \in 0..Blocks /\ command.start \in 0..Blocks + 1
      BY <1>0 DEF CtlOK, RemoteOK, Cmds, Replies
    <3>2. [ctx EXCEPT !.total = last.total, !.offset = command.start] \in Ctxs
      BY <1>0, <3>1 DEF CtlOK, Ctxs
    <3>. QED  BY <1>0, <1>5, <3>2 DEF Opened, Returns, CtlOK, ctl
  <2>2. FlagsOK'
    BY <1>0, <1>5 DEF Opened, Returns, FlagsOK, ctl, sent
  <2>3. AtOK'
    BY <1>5, <1>g DEF Opened
  <2>. QED  BY <1>5, <1>u, <2>1, <2>2, <2>3, TypesNext DEF Opened, Returns, sent
<1>6. CASE Prefetched
  <2>1. CtlOK'
    <3>1. last.offset + last.len \in 0..Blocks + 1
      BY <1>0 DEF RemoteOK, Replies
    <3>2. [ctx EXCEPT !.prefetch = TRUE, !.offset = last.offset + last.len] \in Ctxs
      BY <1>0, <3>1 DEF CtlOK, Ctxs
    <3>. QED  BY <1>0, <1>6, <3>2 DEF Prefetched, Returns, CtlOK, ctl
  <2>2. FlagsOK'
    BY <1>0, <1>6 DEF Prefetched, Returns, FlagsOK, ctl, sent
  <2>3. AtOK'
    BY <1>6, <1>g DEF Prefetched
  <2>. QED  BY <1>6, <1>u, <2>1, <2>2, <2>3, TypesNext DEF Prefetched, Returns, sent
<1>7. CASE Start
  <2>1. SentOK'
    <3>1. CASE active
      BY <1>7, <1>u, <3>1 DEF Start, sent
    <3>2. CASE ~active
      <4>1. ctx.total - command.start \in 0..Blocks /\ command.start \in 0..Blocks
        BY <1>0, <1>7 DEF Start, Always, Ctl, CtlOK, Cmds, Ctxs
      <4>2. command.file \in Files \cup {NoFile}
        BY <1>0 DEF CtlOK, Cmds
      <4>. QED  BY <1>7, <3>2, <4>1, <4>2 DEF Start, SentOK, Promises
    <3>. QED  BY <3>1, <3>2
  <2>2. FlagsOK'
    BY <1>0, <1>7 DEF Start, FlagsOK, ctl, sent, hist
  <2>3. AtOK'
    BY <1>7, <1>g DEF Start
  <2>. QED  BY <1>7, <1>u, <2>1, <2>2, <2>3, TypesNext DEF Start, ctl
<1>8. CASE CommandEnds
  <2>1. FlagsOK'
    BY <1>0, <1>8 DEF CommandEnds, Returns, FlagsOK, ctl, sent
  <2>2. AtOK'
    BY <1>8, <1>g DEF CommandEnds
  <2>. QED  BY <1>8, <1>u, <2>1, <2>2, TypesNext DEF CommandEnds, Returns, ctl, sent
<1>9. CASE ControllerFails
  <2>1. RemoteOK' /\ FlagsOK'
    BY <1>0, <1>9, <1>f DEF ControllerFails, FlagsOK, ctl, sent, Tasks
  <2>2. AtOK'
    BY <1>9, <1>g DEF ControllerFails
  <2>. QED  BY <1>9, <1>u, <2>1, <2>2, TypesNext DEF ControllerFails, ctl, sent
<1>10. CASE NextChunk
  <2>1. CtlOK'
    <3>0. ctx \in Ctxs /\ ctx.total \in 0..Blocks
      BY <1>0 DEF CtlOK, Ctxs
    <3>1. [ctx EXCEPT !.prefetch = FALSE] \in Ctxs
      BY <3>0 DEF Ctxs
    <3>2. [ctx EXCEPT !.offset = ctx.total] \in Ctxs
      BY <3>0 DEF Ctxs
    <3>. QED  BY <1>0, <1>10, <3>1, <3>2 DEF NextChunk, ToDone, CtlOK, ctl
  <2>2. AtOK' /\ FlagsOK'
    BY <1>0, <1>10, <1>g DEF NextChunk, ToDone, FlagsOK, ctl, sent, hist
  <2>. QED  BY <1>10, <1>u, <2>1, <2>2, TypesNext DEF NextChunk, ctl, sent
<1>11. CASE ChunkRead
  <2>1. CtlOK'
    BY <1>0, <1>11 DEF ChunkRead, ToDone, Returns, CtlOK, RemoteOK, Ctxs, Replies, ctl
  <2>2. AtOK' /\ FlagsOK'
    BY <1>0, <1>11, <1>g DEF ChunkRead, ToDone, Returns, FlagsOK, ctl, sent
  <2>. QED  BY <1>11, <1>u, <2>1, <2>2, TypesNext DEF ChunkRead, Returns, sent
<1>12. CASE SendChunk
  <2>1. CtlOK'
    BY <1>0, <1>12 DEF SendChunk, ToDone, CtlOK, Ctxs, ctl
  <2>2. AtOK'
    BY <1>12, <1>g DEF SendChunk, ToDone
  <2>3. FlagsOK'
    BY <1>0, <1>12 DEF SendChunk, FlagsOK, ctl
  <2>4. SentOK'
    BY <1>0, <1>12 DEF SendChunk, SentOK, RemoteOK
  <2>. QED  BY <1>12, <1>u, <2>1, <2>2, <2>3, <2>4, TypesNext DEF SendChunk
<1>13. CASE Done
  <2>1. FlagsOK' /\ AtOK'
    BY <1>0, <1>13, <1>g DEF Done, Finish, Returns, FlagsOK, ctl
  <2>. QED  BY <1>13, <1>u, <2>1, TypesNext DEF Done, Finish, Returns, ctl
<1>14. CASE NetworkFails
  <2>1. RemoteOK' /\ FlagsOK'
    BY <1>0, <1>14, <1>f DEF NetworkFails, Finish, FlagsOK, ctl, sent, Tasks
  <2>2. AtOK'
    BY <1>14, <1>g DEF NetworkFails, ToDone, Finish
  <2>3. CtlOK' /\ SentOK'
    BY <1>0, <1>14, <1>u DEF NetworkFails, ToDone, Finish, CtlOK, Ctxs, ctl, sent
  <2>. QED  BY <2>1, <2>2, <2>3, TypesNext
<1>15. CASE CloseSocket
  <2>1. FlagsOK'
    BY <1>0, <1>15 DEF CloseSocket, FlagsOK, ctl
  <2>. QED  BY <1>15, <1>u, <2>1, TypesNext DEF CloseSocket, ctl
<1>16. CASE UNCHANGED vars
  BY <1>16, <1>u, TypesNext DEF vars, ctl, sent, hist
<1>. QED
  BY Steps, <1>1, <1>2, <1>3, <1>4, <1>5, <1>6, <1>7, <1>8, <1>9, <1>10, <1>11, <1>12,
     <1>13, <1>14, <1>15, <1>16

LEMMA AlwaysStep == TypeOK /\ Always /\ [Next]_vars => Always'
<1>. SUFFICES ASSUME TypeOK, Always, [Next]_vars  PROVE Always'
  OBVIOUS
<1>0. AtOK /\ phase \in [Tasks -> {"call", "check", "take"}]
  BY Types DEF FlagsOK
<1>. USE DEF Always, Ctl, Net, Tasks, AtOK, Goto
<1>1. ASSUME NEW t \in Tasks, Call(t) \/ Check(t)  PROVE Always'
  BY <1>0, <1>1 DEF Call, Check, Calling, OpAt, ctl, sent
<1>2. ASSUME NEW f \in Files, NEW s \in 0..Blocks + 1, FileCommand(f, s)  PROVE Always'
  BY <1>0, <1>2 DEF FileCommand
<1>3. ASSUME NEW op \in {"list", "query"}, OtherCommand(op)  PROVE Always'
  BY <1>0, <1>3 DEF OtherCommand, sent
<1>4. CASE Opened
  <2>1. CtlOK
    BY Types
  <2>. QED  BY <1>0, <1>4, <2>1 DEF Opened, Returns, ctl, sent, CtlOK, Ctxs, Cmds
<1>5. CASE Prefetched  BY <1>0, <1>5, Types DEF Prefetched, Returns, ctl, sent, CtlOK, Ctxs
<1>6. CASE Start  BY <1>0, <1>6 DEF Start, ctl, sent
<1>7. CASE CommandEnds  BY <1>0, <1>7 DEF CommandEnds, Returns, ctl, sent
<1>8. CASE ControllerFails  BY <1>0, <1>8 DEF ControllerFails, Fails, ctl, sent
<1>9. CASE NextChunk
  BY <1>0, <1>9, Types DEF NextChunk, ToDone, ctl, sent, CtlOK, Ctxs
<1>10. CASE ChunkRead
  BY <1>0, <1>10, Types DEF ChunkRead, ToDone, Returns, ctl, sent, CtlOK, Ctxs
<1>11. CASE SendChunk
  BY <1>0, <1>11, Types DEF SendChunk, ToDone, ctl, CtlOK, Ctxs
<1>12. CASE Done  BY <1>0, <1>12 DEF Done, Finish, Returns, ctl
<1>13. CASE NetworkFails
  BY <1>0, <1>13, Types DEF NetworkFails, Fails, Calling, OpAt, Finish, ToDone, ctl, sent, CtlOK, Ctxs
<1>14. CASE CloseSocket  BY <1>0, <1>14 DEF CloseSocket, ctl
<1>15. CASE UNCHANGED vars  BY <1>0, <1>15 DEF vars, ctl, sent
<1>. QED
  BY Steps, <1>1, <1>2, <1>3, <1>4, <1>5, <1>6, <1>7, <1>8, <1>9, <1>10, <1>11, <1>12,
     <1>13, <1>14, <1>15

-----------------------------------------------------------------------------
(* The stream.                                                             *)

\* Command 8, until its stream is started.
LEMMA OpeningStep ==
  ASSUME IInv, [Next]_vars, ~disturbed', ~active'  PROVE Opening'
<1>. USE DEF Ctl, Net
<1>0. TypeOK /\ Always /\ Followed /\ AtOK /\ CtlOK /\ RemoteOK
  BY Types DEF IInv
<1>1. ASSUME NEW t \in Tasks, Call(t)  PROVE Opening'
  <2>1. ~active /\ ~disturbed /\ Opening /\ Net = "idle"
    BY <1>0, <1>1 DEF Call, sent, hist, Followed, Always
  <2>2. t = "controller"
    BY <1>1, <2>1 DEF Call, Calling, OpAt, Tasks
  <2>3. CASE Ctl = "open"
    <3>1. ServeOpen /\ phase' = [phase EXCEPT ![t] = "check"]
      BY <1>1, <2>2, <2>3 DEF Call, Serve, OpAt
    <3>2. last'.status = "ok" => handle' = At(command.file, command.start) /\ last'.total = Blocks
      BY <3>1 DEF ServeOpen, Reply, At
    <3>. QED  BY <1>1, <2>1, <2>2, <2>3, <3>2 DEF Opening, Call, ctl
  <2>4. CASE Ctl = "prefetch"
    <3>1. ServeRead /\ phase["controller"] = "call" /\ phase' = [phase EXCEPT ![t] = "check"]
      BY <1>1, <2>2, <2>4 DEF Call, Serve, OpAt
    <3>2. handle = At(command.file, command.start) /\ command.start < Blocks
      BY <1>0, <2>1, <2>4, <3>1 DEF Opening, Always
    <3>3. HasRead(command.file, command.start + 1)'
      BY <1>1, <3>1, <3>2, FileStreamAssumption DEF ServeRead, Reply, At, Block, HasRead, Call, ctl
    <3>4. phase'["controller"] = "check"
      BY <1>0, <2>2, <3>1, Types DEF FlagsOK
    <3>. QED  BY <1>1, <2>1, <2>4, <3>3, <3>4 DEF Opening, Call, ctl
  <2>5. CASE Ctl \notin {"open", "prefetch"}
    <3>1. Ctl # "start"
      BY <1>1, <2>2 DEF Call, Calling, OpAt
    <3>. QED  BY <1>1, <2>5, <3>1 DEF Opening, Call
  <2>. QED  BY <2>3, <2>4, <2>5
<1>2. ASSUME NEW t \in Tasks, Check(t)  PROVE Opening'
  <2>1. ~active /\ ~disturbed /\ Opening /\ Net = "idle"
    BY <1>0, <1>2 DEF Check, sent, hist, Followed, Always
  <2>2. t = "controller" /\ phase["controller"] = "check"
    BY <1>2, <2>1 DEF Check, Calling, OpAt, Tasks
  <2>3. phase'["controller"] = "take"
    BY <1>0, <1>2, <2>2, Types DEF Check, FlagsOK
  <2>. QED  BY <1>2, <2>1, <2>2, <2>3 DEF Check, Opening, HasRead, ctl, cm4
<1>3. ASSUME NEW f \in Files, NEW s \in 0..Blocks + 1, FileCommand(f, s)  PROVE Opening'
  <2>1. phase["controller"] = "call" /\ phase' = phase /\ at'["controller"] = "open"
    BY <1>0, <1>3 DEF FileCommand, Goto, AtOK, Always, Tasks
  <2>. QED  BY <1>3, <2>1 DEF FileCommand, NoCtx, Opening
<1>4. ASSUME NEW op \in {"list", "query"}, OtherCommand(op)  PROVE Opening'
  BY <1>0, <1>4 DEF OtherCommand, Goto, Opening, AtOK, Tasks
<1>5. CASE Opened
  <2>1. ~active /\ ~disturbed /\ Opening /\ Net = "idle"
    BY <1>0, <1>5 DEF Opened, Returns, sent, Followed, Always
  <2>2. phase["controller"] = "take" /\ phase'["controller"] = "call" /\ Ctl = "open"
    <3>1. phase \in [Tasks -> {"call", "check", "take"}]
      BY <1>0, Types DEF FlagsOK
    <3>. QED  BY <1>5, <3>1 DEF Opened, Returns, Tasks
  <2>3. CASE last.status = "ok" /\ command.start < last.total
    <3>1. last.total = Blocks /\ handle = At(command.file, command.start)
      BY <2>1, <2>2, <2>3 DEF Opening
    <3>2. ctx' = [total |-> Blocks, offset |-> command.start, prefetch |-> FALSE]
      <4>1. ctx \in Ctxs /\ ~ctx.prefetch
        BY <1>0, <2>1, <2>2 DEF CtlOK, Opening
      <4>2. ctx' = [ctx EXCEPT !.total = Blocks, !.offset = command.start]
        BY <1>5, <2>3, <3>1 DEF Opened
      <4>. QED  BY <4>1, <4>2 DEF Ctxs
    <3>. QED  BY <1>0, <1>5, <2>2, <2>3, <3>1, <3>2 DEF Opened, Returns, Goto, Opening, AtOK, Tasks, cm4, ctl
  <2>4. CASE ~(last.status = "ok" /\ command.start < last.total)
    BY <1>0, <1>5, <2>4 DEF Opened, Goto, Opening, AtOK, Tasks
  <2>. QED  BY <2>3, <2>4
<1>6. CASE Prefetched
  <2>1. ~active /\ ~disturbed /\ Opening /\ Net = "idle" /\ Ctl = "prefetch"
    BY <1>0, <1>6 DEF Prefetched, Returns, sent, Followed, Always
  <2>2. CASE last.status = "ok" /\ last.len > 0
    <3>1. /\ HasRead(command.file, command.start + 1)
          /\ ctx = [total |-> Blocks, offset |-> command.start, prefetch |-> FALSE]
      BY <1>6, <2>1 DEF Prefetched, Returns, Opening
    <3>2. ctx' = [total |-> Blocks, offset |-> command.start + 1, prefetch |-> TRUE]
      BY <1>6, <2>2, <3>1 DEF Prefetched, HasRead
    <3>. QED  BY <1>0, <1>6, <2>2, <3>1, <3>2
              DEF Prefetched, Returns, HasRead, Goto, Opening, AtOK, Tasks, cm4, ctl
  <2>3. CASE ~(last.status = "ok" /\ last.len > 0)
    BY <1>0, <1>6, <2>3 DEF Prefetched, Goto, Opening, AtOK, Tasks
  <2>. QED  BY <2>2, <2>3
<1>7. CASE Start \/ CommandEnds \/ ControllerFails
  <2>1. at'["controller"] \in {"abort", "idle"}
    BY <1>0, <1>7 DEF Start, CommandEnds, ControllerFails, Goto, AtOK, Tasks
  <2>. QED  BY <2>1 DEF Opening
<1>8. CASE NextChunk \/ ChunkRead \/ SendChunk \/ Done \/ NetworkFails \/ CloseSocket
  <2>1. active
    BY <1>0, <1>8 DEF NextChunk, ChunkRead, SendChunk, Done, NetworkFails, CloseSocket, Always,
                      Returns, Fails, Calling, OpAt
  <2>2. Ctl = "idle"
    BY <1>0, <1>8, <2>1 DEF NextChunk, ChunkRead, SendChunk, Done, NetworkFails, CloseSocket,
                      Returns, Fails, hist, Followed
  <2>3. at'["controller"] = "idle"
    BY <1>0, <1>8, <2>2 DEF NextChunk, ChunkRead, SendChunk, Done, NetworkFails, CloseSocket,
                      Finish, ToDone, Goto, AtOK, Tasks
  <2>. QED  BY <2>3 DEF Opening
<1>9. CASE UNCHANGED vars
  BY <1>0, <1>9 DEF vars, ctl, cm4, sent, hist, Opening, HasRead, Followed
<1>. QED  BY Steps, <1>1, <1>2, <1>3, <1>4, <1>5, <1>6, <1>7, <1>8, <1>9

\* The stream, from the step that starts it.
LEMMA StreamingStep ==
  ASSUME IInv, [Next]_vars, ~disturbed', active'
  PROVE  Ctl' = "idle" /\ Streaming' /\ StreamIsFile'
<1>. USE DEF Ctl, Net
<1>0. TypeOK /\ Always /\ Followed /\ AtOK /\ CtlOK /\ RemoteOK /\ SentOK
  BY Types DEF IInv
<1>00. /\ phase \in [Tasks -> {"call", "check", "take"}]
       /\ Len(wire) \in Nat /\ promise.start \in 0..Blocks /\ promise.total \in 0..Blocks
       /\ Blocks \in Nat \ {0}
  BY <1>0, FileStreamAssumption, Types DEF FlagsOK, SentOK, Promises
\* a step while the stream is active, which does not move the controller
<1>a. ASSUME active, ~disturbed
      PROVE  Ctl = "idle" /\ Streaming /\ StreamIsFile
  BY <1>0, <1>a DEF Followed, IInv
<1>1. ASSUME NEW t \in Tasks, Call(t)  PROVE Ctl' = "idle" /\ Streaming' /\ StreamIsFile'
  <2>1. Ctl = "idle" /\ Streaming /\ StreamIsFile /\ t = "network" /\ phase[t] = "call"
    BY <1>1, <1>a DEF Call, sent, hist, Calling, OpAt, Tasks
  <2>2. phase'["network"] = "check" /\ UNCHANGED <<at, ctx, wire, promise, failed, disturbed>>
    BY <1>1, <1>00, <2>1 DEF Call, sent, hist, Tasks
  <2>3. CASE Net = "read"
    <3>1. ServeRead /\ handle = At(promise.file, Due - 1) /\ Len(wire) < promise.total
      BY <1>1, <2>1, <2>3 DEF Call, Serve, OpAt, Streaming
    <3>2. Due - 1 < Blocks
      BY <1>00, <2>1, <3>1 DEF Streaming, Due
    <3>3. HasRead(promise.file, Due)'
      BY <1>00, <2>2, <3>1, <3>2 DEF ServeRead, Reply, At, Block, HasRead, Due
    <3>. QED  BY <2>1, <2>2, <2>3, <3>3 DEF Streaming, StreamIsFile, Due
  <2>4. CASE Net = "done"
    BY <2>1, <2>2, <2>4 DEF Streaming, StreamIsFile, Due
  <2>. QED  BY <1>0, <1>1, <2>1, <2>3, <2>4 DEF Call, Calling, OpAt, AtOK
<1>2. ASSUME NEW t \in Tasks, Check(t)  PROVE Ctl' = "idle" /\ Streaming' /\ StreamIsFile'
  <2>1. Ctl = "idle" /\ Streaming /\ StreamIsFile /\ t = "network" /\ phase[t] = "check"
    BY <1>2, <1>a DEF Check, sent, hist, Calling, OpAt, Tasks
  <2>2. /\ phase'["network"] = "take"
        /\ UNCHANGED <<at, ctx, wire, promise, failed, disturbed, last, handle, buffer>>
    BY <1>2, <1>00, <2>1 DEF Check, sent, hist, cm4, Tasks
  <2>. QED  BY <2>1, <2>2 DEF Streaming, StreamIsFile, HasRead, Due
<1>3. ASSUME NEW f \in Files, NEW s \in 0..Blocks + 1, FileCommand(f, s)  PROVE FALSE
  BY <1>3 DEF FileCommand
<1>4. ASSUME NEW op \in {"list", "query"}, OtherCommand(op)  PROVE FALSE
  BY <1>0, <1>4, Zenon, Types DEF OtherCommand, FlagsOK, sent
<1>5. CASE Opened \/ Prefetched \/ CommandEnds \/ ControllerFails
  <2>1. UNCHANGED <<active, disturbed>>
    BY <1>5 DEF Opened, Prefetched, CommandEnds, ControllerFails, Returns, Fails, sent
  <2>2. Ctl # "idle"
    BY <1>5 DEF Opened, Prefetched, CommandEnds, ControllerFails, Returns, Fails, Calling, OpAt
  <2>. QED  BY <1>a, <2>1, <2>2
<1>6. CASE Start
  <2>1. CASE active
    BY <1>6, <1>a, <2>1 DEF Start, hist
  <2>2. CASE ~active
    <3>1. /\ ctx = [total |-> Blocks, offset |-> command.start + 1, prefetch |-> TRUE]
          /\ handle = At(command.file, command.start + 1)
          /\ buffer = Block(command.file, command.start + 1)
          /\ command.start \in 0..Blocks + 1 /\ command.start < Blocks
      BY <1>0, <1>6, <2>2 DEF Start, hist, Followed, Opening, Always, CtlOK, Cmds
    <3>2. /\ promise' = [file |-> command.file, start |-> command.start,
                         total |-> Blocks - command.start]
          /\ wire' = <<>> /\ UNCHANGED <<ctx, handle, buffer>>
      BY <1>6, <2>2, <3>1 DEF Start, cm4
    <3>3. at'["controller"] = "idle" /\ at'["network"] = "idle"
      BY <1>0, <1>6, <2>2 DEF Start, Goto, AtOK, Tasks
    <3>4. Len(wire') = 0 /\ Due' = command.start + 1
      BY <3>1, <3>2 DEF Due
    <3>5. Streaming'
      BY <1>00, <3>1, <3>2, <3>3, <3>4 DEF Streaming
    <3>6. StreamIsFile'
      BY <1>00, <3>1, <3>2, <3>4 DEF StreamIsFile
    <3>. QED  BY <3>3, <3>5, <3>6
  <2>. QED  BY <2>1, <2>2
<1>7. CASE NextChunk
  <2>1. Ctl = "idle" /\ Streaming /\ StreamIsFile /\ Net = "idle" /\ Len(wire) < promise.total
    BY <1>7, <1>a DEF NextChunk, sent, hist, Streaming
  <2>2. UNCHANGED <<phase, promise, wire, handle, buffer, failed, disturbed>>
    BY <1>7 DEF NextChunk, sent, cm4, hist
  <2>3. CASE ctx.prefetch
    <3>1. at' = [at EXCEPT !["network"] = "send"] /\ ctx' = [ctx EXCEPT !.prefetch = FALSE]
      BY <1>7, <2>3 DEF NextChunk, Goto
    <3>2. /\ at'["controller"] = "idle" /\ at'["network"] = "send" /\ ~ctx'.prefetch
          /\ ctx'.total = ctx.total /\ ctx'.offset = ctx.offset
      BY <1>0, <2>1, <3>1 DEF AtOK, CtlOK, Ctxs, Tasks
    <3>. QED  BY <2>1, <2>2, <2>3, <3>2 DEF Streaming, StreamIsFile, Due
  <2>4. CASE ~ctx.prefetch
    <3>1. ctx.offset = Due - 1 /\ ctx.offset < ctx.total
      BY <1>00, <2>1, <2>4 DEF Streaming, Due
    <3>2. at' = [at EXCEPT !["network"] = "read"] /\ ctx' = [ctx EXCEPT !.prefetch = FALSE]
      BY <1>0, <1>7, <2>4, <3>1 DEF NextChunk, Goto, CtlOK, Ctxs
    <3>3. /\ at'["controller"] = "idle" /\ at'["network"] = "read" /\ ~ctx'.prefetch
          /\ ctx'.total = ctx.total /\ ctx'.offset = ctx.offset
      BY <1>0, <2>1, <3>2 DEF AtOK, CtlOK, Ctxs, Tasks
    <3>4. phase'["network"] = "call"
      BY <1>0, <2>1, <2>2 DEF Always, Tasks
    <3>. QED  BY <2>1, <2>2, <2>4, <3>3, <3>4 DEF Streaming, StreamIsFile, Due
  <2>. QED  BY <2>3, <2>4
<1>8. CASE ChunkRead
  <2>1. /\ Ctl = "idle" /\ Streaming /\ StreamIsFile /\ Net = "read" /\ phase["network"] = "take"
        /\ Len(wire) < promise.total
    BY <1>8, <1>a DEF ChunkRead, Returns, sent, Streaming
  <2>2. UNCHANGED <<promise, wire, handle, buffer, disturbed>>
    BY <1>8 DEF ChunkRead, Returns, sent, cm4
  <2>3. CASE last.status = "ok"
    <3>1. /\ handle = At(promise.file, Due) /\ buffer = Block(promise.file, Due)
          /\ last.offset + last.len = Due /\ ctx.offset = Due - 1 /\ ~ctx.prefetch
      BY <2>1, <2>3 DEF Streaming, HasRead
    <3>2. last.len > 0
      BY <2>1, <2>3 DEF Streaming, HasRead
    <3>3. /\ at' = [at EXCEPT !["network"] = "send"]
          /\ ctx' = [ctx EXCEPT !.offset = Due]
      BY <1>8, <2>3, <3>1, <3>2 DEF ChunkRead, Goto
    <3>4. /\ at'["controller"] = "idle" /\ at'["network"] = "send" /\ ~ctx'.prefetch
          /\ ctx'.total = ctx.total /\ ctx'.offset = Due
      BY <1>0, <2>1, <3>1, <3>3 DEF AtOK, CtlOK, Ctxs, Tasks
    <3>. QED  BY <2>1, <2>2, <3>1, <3>4 DEF Streaming, StreamIsFile, Due
  <2>4. CASE last.status # "ok"
    <3>1. at' = [at EXCEPT !["network"] = "done"] /\ ctx' = [ctx EXCEPT !.offset = ctx.total] /\ failed'
      BY <1>8, <2>4 DEF ChunkRead, Returns, ToDone, Goto
    <3>2. at'["controller"] = "idle" /\ at'["network"] = "done" /\ ctx'.total = ctx.total
      BY <1>0, <2>1, <3>1 DEF AtOK, CtlOK, Ctxs, Tasks
    <3>. QED  BY <2>1, <2>2, <3>1, <3>2 DEF Streaming, StreamIsFile, Due
  <2>. QED  BY <2>3, <2>4
<1>9. CASE SendChunk
  <2>1. /\ Ctl = "idle" /\ Streaming /\ StreamIsFile /\ Net = "send"
        /\ Len(wire) < promise.total /\ ctx.offset = Due /\ ~ctx.prefetch
        /\ handle = At(promise.file, Due) /\ buffer = Block(promise.file, Due)
    BY <1>9, <1>a DEF SendChunk, Streaming
  <2>2. UNCHANGED <<phase, promise, handle, buffer, disturbed>>
    BY <1>9 DEF SendChunk, cm4
  <2>3. ctx'.total = ctx.total
    BY <1>0, <1>9 DEF SendChunk, ToDone, CtlOK, Ctxs
  <2>4. at'["controller"] = "idle" /\ at'["network"] \in {"idle", "done"}
    BY <1>0, <1>9, <2>1 DEF SendChunk, ToDone, Goto, AtOK, Tasks
  <2>5. CASE wire' = Append(wire, buffer) /\ UNCHANGED failed
    <3>0. /\ wire \in Seq(Blks) /\ buffer \in Blks /\ promise' = promise
          /\ buffer = Block(promise.file, promise.start + Len(wire) + 1)
          /\ \A i \in 1..Len(wire) : wire[i] = Block(promise.file, promise.start + i)
      <4>1. ~disturbed
        BY <2>2
      <4>. QED  BY <1>0, <1>00, <2>1, <2>2, <4>1 DEF SentOK, StreamIsFile, Block, Due, RemoteOK
    <3>1. /\ Len(wire') = Len(wire) + 1 /\ Due' = Due + 1
          /\ \A i \in DOMAIN wire' : wire'[i] = Block(promise.file, promise.start + i)
      <4>1. /\ Len(wire') = Len(wire) + 1 /\ wire' \in Seq(Blks)
            /\ \A i \in 1..Len(wire) : wire'[i] = wire[i]
            /\ wire'[Len(wire) + 1] = buffer
        <5>1. wire \in Seq(Blks) /\ buffer \in Blks /\ wire' = Append(wire, buffer)
          BY <2>5, <3>0, Zenon
        <5>. QED  BY <5>1, AppendProperties
      <4>2. DOMAIN wire' = 1..(Len(wire) + 1) /\ Due' = Due + 1
        <5>1. DOMAIN wire' = 1..Len(wire')
          BY <4>1
        <5>2. Due' = Due + 1
          <6>1. promise'.start = promise.start /\ promise.start \in Nat /\ Len(wire) \in Nat
            BY <1>00, <3>0
          <6>2. Len(wire') = Len(wire) + 1
            BY <4>1
          <6>3. Due' = promise'.start + Len(wire') + 1
            BY DEF Due
          <6>. QED  BY <6>1, <6>2, <6>3 DEF Due
        <5>. QED  BY <4>1, <5>1, <5>2
      <4>3. ASSUME NEW i \in DOMAIN wire'
            PROVE  wire'[i] = Block(promise.file, promise.start + i)
        <5>1. CASE i \in 1..Len(wire)
          BY <3>0, <4>1, <5>1
        <5>2. CASE i = Len(wire) + 1
          <6>1. promise.start + Len(wire) + 1 = promise.start + i
            BY <1>00, <5>2
          <6>. QED  BY <3>0, <4>1, <5>2, <6>1
        <5>. QED  BY <1>00, <4>2, <4>3, <5>1, <5>2
      <4>. QED  BY <4>1, <4>2, <4>3
    <3>2. StreamIsFile'
      <4>1. Len(wire') <= promise'.total
        BY <1>00, <2>1, <3>0, <3>1
      <4>. QED  BY <3>0, <3>1, <4>1 DEF StreamIsFile, Block
    <3>3. CASE Len(wire) + 1 >= promise.total
      <4>1. ToDone /\ at'["network"] = "done"
        BY <1>0, <1>9, <2>1, <2>5, <3>3, <1>00, <3>0, <3>1 DEF SendChunk, ToDone, Goto, AtOK, Tasks
      <4>2. Len(wire') = promise'.total
        BY <1>00, <2>1, <3>0, <3>1, <3>3
      <4>. QED  BY <2>1, <2>3, <2>4, <3>0, <3>2, <4>1, <4>2 DEF Streaming
    <3>4. CASE ~(Len(wire) + 1 >= promise.total)
      <4>1. ctx' = ctx
        BY <1>9, <2>5, <3>4, <1>00 DEF SendChunk, StreamIsFile
      <4>2. Len(wire') < promise'.total /\ at'["network"] = "idle"
        BY <1>0, <1>9, <1>00, <2>1, <2>5, <3>0, <3>1, <3>4 DEF SendChunk, Goto, AtOK, Tasks
      <4>3. ctx'.offset = Due' - 1 /\ Due' - 1 = Due /\ ~ctx'.prefetch
        BY <1>00, <2>1, <3>1, <4>1 DEF Due
      <4>. QED  BY <2>1, <2>2, <2>3, <2>4, <3>0, <3>2, <4>2, <4>3 DEF Streaming
    <3>. QED  BY <3>3, <3>4
  <2>6. CASE UNCHANGED wire /\ failed' = TRUE /\ ToDone
    <3>1. at'["network"] = "done"
      BY <1>0, <2>6 DEF ToDone, Goto, AtOK, Tasks
    <3>. QED  BY <2>1, <2>2, <2>3, <2>4, <2>6, <3>1 DEF Streaming, StreamIsFile, Due
  <2>. QED  BY <1>9, <2>5, <2>6 DEF SendChunk
<1>10. CASE NetworkFails
  <2>1. Net # "done" /\ active /\ ~disturbed /\ failed' = TRUE
    <3>1. failed' = TRUE /\ UNCHANGED disturbed
      BY <1>10 DEF NetworkFails, Fails
    <3>2. Net # "done"
      BY <1>10 DEF NetworkFails, Finish
    <3>. QED  BY <1>10, <3>1, <3>2 DEF NetworkFails, sent
  <2>2. Ctl = "idle" /\ Streaming /\ StreamIsFile
    BY <1>a, <2>1
  <2>3. /\ at'["network"] = "done" /\ at'["controller"] = "idle" /\ ctx'.total = ctx.total
        /\ UNCHANGED <<promise, wire, disturbed>>
    BY <1>0, <1>10, <2>1, <2>2 DEF NetworkFails, Fails, ToDone, Goto, AtOK, CtlOK, Ctxs, Tasks, sent
  <2>. QED  BY <2>1, <2>2, <2>3 DEF Streaming, StreamIsFile, Due
<1>11. CASE Done \/ CloseSocket
  BY <1>11 DEF Done, Finish, CloseSocket
<1>12. CASE UNCHANGED vars
  BY <1>a, <1>12 DEF vars, ctl, cm4, sent, hist, Streaming, StreamIsFile, HasRead, Due
<1>. QED  BY Steps, <1>1, <1>2, <1>3, <1>4, <1>5, <1>6, <1>7, <1>8, <1>9, <1>10, <1>11, <1>12

\* What has been sent stays as it is once the stream is over, and a stream that
\* ends without a failure has been sent whole.
LEMMA EndedStep ==
  ASSUME IInv, [Next]_vars, ~disturbed', ~active'
  PROVE  StreamIsFile' /\ ShortByFailure'
<1>. USE DEF Ctl, Net
<1>0. /\ Always /\ Followed /\ StreamIsFile /\ ShortByFailure
      /\ promise.total \in Nat /\ Len(wire) \in Nat /\ FlagsOK
  BY Types, FileStreamAssumption DEF IInv, SentOK, Promises
<1>1. ASSUME NEW f \in Files, NEW s \in 0..Blocks + 1, FileCommand(f, s)
      PROVE  StreamIsFile' /\ ShortByFailure'
  BY <1>1 DEF FileCommand, StreamIsFile, ShortByFailure, NoPromise
<1>2. CASE Done \/ (NetworkFails /\ Net = "done")
  <2>1. /\ active /\ ~disturbed /\ Streaming
        /\ UNCHANGED <<promise, wire>> /\ (~failed' => ~failed) /\ Net = "done"
    <3>1. Net = "done" /\ UNCHANGED <<promise, wire, disturbed>>
      BY <1>2 DEF Done, NetworkFails, Finish, Returns, Fails
    <3>2. ~failed' => ~failed
      BY <1>2 DEF Done, NetworkFails, Finish, Returns, Fails
    <3>. QED  BY <1>0, <3>1, <3>2 DEF Followed, Always
  <2>. QED  BY <1>0, <2>1 DEF Streaming, StreamIsFile, ShortByFailure
<1>3. CASE CloseSocket
  BY <1>0, <1>3 DEF CloseSocket, StreamIsFile, ShortByFailure
<1>4. CASE /\ ~disturbed /\ UNCHANGED <<active, promise, wire>>
           /\ (~failed' => ~failed)
  BY <1>0, <1>4 DEF StreamIsFile, ShortByFailure
<1>5. ASSUME NEW t \in Tasks, Call(t) \/ Check(t)  PROVE StreamIsFile' /\ ShortByFailure'
  BY <1>4, <1>5 DEF Call, Check, sent, hist
<1>6. ASSUME NEW op \in {"list", "query"}, OtherCommand(op)
      PROVE  StreamIsFile' /\ ShortByFailure'
  BY <1>4, <1>6 DEF OtherCommand, sent
<1>7. CASE Opened \/ Prefetched \/ CommandEnds \/ ControllerFails
  BY <1>4, <1>7 DEF Opened, Prefetched, CommandEnds, ControllerFails, Returns, Fails, sent
<1>8. CASE Start \/ NextChunk \/ ChunkRead \/ (NetworkFails /\ Net # "done")
  BY <1>4, <1>8 DEF Start, NextChunk, ChunkRead, NetworkFails, Returns, Fails, sent, hist
<1>9. CASE SendChunk
  BY <1>0, <1>9 DEF SendChunk, Always
<1>10. CASE UNCHANGED vars
  BY <1>4, <1>10 DEF vars, sent, hist
<1>. QED  BY Steps, <1>1, <1>2, <1>3, <1>5, <1>6, <1>7, <1>8, <1>9, <1>10

LEMMA Invariance == Spec => []IInv
<1>1. IInv /\ [Next]_vars => IInv'
  <2>. SUFFICES ASSUME IInv, [Next]_vars  PROVE IInv'
    OBVIOUS
  <2>1. TypeOK' /\ Always'
    BY Typing, AlwaysStep DEF IInv
  <2>2. CASE disturbed'
    BY <2>1, <2>2 DEF IInv, Followed, StreamIsFile, ShortByFailure
  <2>3. CASE ~disturbed' /\ active'
    BY <2>1, <2>3, StreamingStep DEF IInv, Followed, ShortByFailure
  <2>4. CASE ~disturbed' /\ ~active'
    BY <2>1, <2>4, OpeningStep, EndedStep DEF IInv, Followed
  <2>. QED  BY <2>2, <2>3, <2>4
<1>. QED  BY InitIInv, <1>1, PTL DEF Spec

-----------------------------------------------------------------------------

\* The variables of the stream, of the call and of the service keep their types.
THEOREM TypesOK == Spec => []TypeOK
<1>1. IInv => TypeOK
  BY DEF IInv
<1>. QED  BY <1>1, Invariance, PTL

\* The host receives the blocks of the file it has asked for, in order and once
\* each, unless a command comes during the stream.
THEOREM StreamIsTheFile == Spec => []StreamIsFile
<1>1. IInv => StreamIsFile
  BY DEF IInv
<1>. QED  BY <1>1, Invariance, PTL

\* A stream during which no command comes and nothing fails is sent to its end.
THEOREM OnlyFailuresCutShort == Spec => []ShortByFailure
<1>1. IInv => ShortByFailure
  BY DEF IInv
<1>. QED  BY <1>1, Invariance, PTL

\* As long as no command comes during the stream, the CM4's file position is between
\* two chunks the one the CM7 expects.
THEOREM CoresAgree == Spec => []PositionsAgree
<1>1. IInv => PositionsAgree
  <2>. SUFFICES ASSUME IInv, ~disturbed, active, at["network"] = "idle"
       PROVE  /\ handle = [file |-> promise.file, pos |-> ctx.offset]
              /\ ctx.total = promise.start + promise.total
              /\ ctx.offset = promise.start + Len(wire) + (IF ctx.prefetch THEN 1 ELSE 0)
    BY DEF PositionsAgree
  <2>1. Streaming /\ promise.start \in Nat /\ Len(wire) \in Nat
    BY Types, FileStreamAssumption DEF IInv, Followed, SentOK, Promises
  <2>. QED  BY <2>1 DEF Streaming, Due, At, Net
<1>. QED  BY <1>1, Invariance, PTL
=============================================================================

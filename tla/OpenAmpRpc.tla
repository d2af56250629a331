----------------------------- MODULE OpenAmpRpc -----------------------------
(***************************************************************************)
(* The request and reply channel between the cores: OpenAmpFs_SendRequest- *)
(* Ex3 and its receive callback on the CM7 (openamp_fs.c), the service's   *)
(* callback on the CM4, and the mailbox of each core (mbox_hsem.c).        *)
(*                                                                         *)
(* Several CM7 tasks make calls: the controller, and the network task      *)
(* through the readers of the streams.  They have one priority and are     *)
(* time-sliced, and nothing serialises them: every access to a variable    *)
(* they share is a step, and g_last_response is written and read field by  *)
(* field: its operation, its value, and its status, which stands for the   *)
(* fields read after it.  A vring is changed under its lock; a message and *)
(* its notification are one step.  A request carries its operation and no  *)
(* identity: the numbers here are the model's, and where the code has a    *)
(* value or a status the model has the number of the reply they came with. *)
(***************************************************************************)
EXTENDS Integers, Sequences, FiniteSets

CONSTANTS
  Callers,   \* the CM7 tasks that make calls
  Ops,       \* operation codes
  NoOp,      \* the code of no message, 0
  Ring,      \* buffers of a vring
  MaxCalls   \* bound of the model: no call begins when so many are sent

ASSUME OpenAmpRpcAssumption ==
  Ring \in Nat \ {0} /\ MaxCalls \in Nat /\ IsFiniteSet(Callers)

VARIABLES
  pc,        \* the next access of each caller
  call,      \* its request, and after the call the last one: number and operation
  outcome,   \* how its last call ended, and what it has read of the reply
  held,      \* the reply whose buffer its receive processing has in hand
  up,        \* g_openamp_initialized and g_service_created
  ready,     \* g_response_ready
  last,      \* g_last_response
  requests, replies,  \* the vrings
  note4, note7,       \* msg_received of each core
  server,    \* where the CM4 is in MAILBOX_Poll
  sent,      \* history: requests sent
  taken,     \* history: replies taken off the ring
  lost,      \* history: replies for which there was no buffer
  timeouts,  \* history: calls that ended with -4
  overlap    \* history: two calls have been under way at once

tasks   == <<pc, call, outcome, held>>
master  == <<up, ready, last>>
cm4     == <<note4, server>>
hist    == <<sent, taken, lost, timeouts, overlap>>
vars    == <<tasks, master, requests, replies, note7, cm4, hist>>

Blank     == [id |-> 0, op |-> NoOp]
Cleared   == [op |-> NoOp, value |-> 0, status |-> 0]
Messages  == [id : Nat, op : Ops \cup {NoOp}]
Responses == [op : Ops \cup {NoOp}, value : Nat, status : Nat]
Waiting   == {"test", "poll", "drain", "unnote", "again"}
Copying   == {"wipeOp", "wipeValue", "wipeStatus", "copyOp", "copyValue", "copyStatus", "flag"}
Reading   == {"check", "takeValue", "takeStatus"}
Locations == {"idle", "clear", "send", "return"} \cup Waiting \cup Copying \cup Reading
Results   == {"none", "ok", "timeout", "mismatch", "init", "full"}
Outcomes  == [result : Results, got : Responses]

Nothing == [result |-> "none", got |-> Cleared]

Init ==
  /\ pc = [c \in Callers |-> "idle"]
  /\ call = [c \in Callers |-> Blank]
  /\ outcome = [c \in Callers |-> Nothing]
  /\ held = [c \in Callers |-> Blank]
  /\ up = FALSE /\ ready = FALSE /\ last = Cleared
  /\ requests = <<>> /\ replies = <<>>
  /\ note4 = FALSE /\ note7 = FALSE /\ server = "out"
  /\ sent = 0 /\ taken = 0 /\ lost = 0 /\ timeouts = 0 /\ overlap = FALSE

Goto(c, l) == pc' = [pc EXCEPT ![c] = l]

\* The call returns, with what it has read of the reply.
Return(c, result) ==
  /\ Goto(c, "idle")
  /\ outcome' = [outcome EXCEPT ![c].result = result]

\* A buffer goes back to the ring of replies after the callback has returned.
Holders == {c \in Callers : pc[c] \in Copying \cup {"return"}}
InUse   == Len(replies) + Cardinality(Holders)

-----------------------------------------------------------------------------
(* A call, on the CM7.                                                     *)

\* The first call, and each one until it succeeds, initialises the channel
\* and waits for the service.
Begin(c, op) ==
  /\ pc[c] = "idle" /\ sent < MaxCalls
  /\ call' = [call EXCEPT ![c] = [id |-> 0, op |-> op]]
  /\ outcome' = [outcome EXCEPT ![c] = Nothing]
  /\ overlap' = (overlap \/ \E d \in Callers : pc[d] # "idle")
  /\ \/ up /\ UNCHANGED master
     \/ ~up /\ up' = TRUE /\ ready' = FALSE /\ last' = Cleared
  /\ Goto(c, "clear")
  /\ UNCHANGED <<held, requests, replies, note7, cm4, sent, taken, lost, timeouts>>

\* OpenAmpFs_MasterInit fails.
InitFails(c, op) ==
  /\ pc[c] = "idle" /\ sent < MaxCalls /\ ~up
  /\ ready' = FALSE /\ last' = Cleared
  /\ call' = [call EXCEPT ![c] = [id |-> 0, op |-> op]]
  /\ outcome' = [outcome EXCEPT ![c] = [result |-> "init", got |-> Cleared]]
  /\ UNCHANGED <<pc, held, up, requests, replies, note7, cm4, hist>>

\* Mutant: the flag of an earlier reply is left set.
Clear_Keep(c) ==
  /\ pc[c] = "clear"
  /\ Goto(c, "send")
  /\ UNCHANGED <<call, outcome, held, master, requests, replies, note7, cm4, hist>>

Clear(c) ==
  /\ pc[c] = "clear"
  /\ ready' = FALSE
  /\ Goto(c, "send")
  /\ UNCHANGED <<call, outcome, held, up, last, requests, replies, note7, cm4, hist>>

\* OPENAMP_send: the request is in the ring, and the other core is notified.
Send(c) ==
  /\ pc[c] = "send"
  /\ IF Len(requests) < Ring
     THEN /\ sent' = sent + 1
          /\ call' = [call EXCEPT ![c].id = sent + 1]
          /\ requests' = Append(requests, call'[c])
          /\ note4' = TRUE
          /\ Goto(c, "test")
          /\ UNCHANGED outcome
     ELSE /\ Return(c, "full")
          /\ UNCHANGED <<call, requests, note4, sent>>
  /\ UNCHANGED <<held, master, replies, note7, server, taken, lost, timeouts, overlap>>

\* while (g_response_ready == 0U)
Test(c) ==
  /\ pc[c] \in {"test", "again"}
  /\ Goto(c, IF ready THEN "check" ELSE "poll")
  /\ UNCHANGED <<call, outcome, held, master, requests, replies, note7, cm4, hist>>

\* MAILBOX_Poll: the ring is processed if there has been a notification.
Poll(c) ==
  /\ pc[c] = "poll"
  /\ Goto(c, IF note7 THEN "drain" ELSE "again")
  /\ UNCHANGED <<call, outcome, held, master, requests, replies, note7, cm4, hist>>

\* Under the lock of the ring: the buffer in hand, if there is one, goes back,
\* and the next reply is taken.
Fetch(c) ==
  /\ pc[c] \in {"drain", "return"}
  /\ \/ /\ replies # <<>>
        /\ held' = [held EXCEPT ![c] = Head(replies)]
        /\ replies' = Tail(replies)
        /\ taken' = taken + 1
        /\ Goto(c, "wipeOp")
     \/ /\ replies = <<>>
        /\ Goto(c, "unnote")
        /\ UNCHANGED <<held, replies, taken>>
  /\ UNCHANGED <<call, outcome, master, requests, note7, cm4, sent, lost, timeouts, overlap>>

\* The receive callback, after the lock is given back: g_last_response is
\* zeroed and the reply copied over it, one field after another.
Put(c, from, to, response) ==
  /\ pc[c] = from
  /\ last' = response
  /\ Goto(c, to)
  /\ UNCHANGED <<call, outcome, held, up, ready, requests, replies, note7, cm4, hist>>

Wipe(c) ==
  \/ Put(c, "wipeOp", "wipeValue", [last EXCEPT !.op = NoOp])
  \/ Put(c, "wipeValue", "wipeStatus", [last EXCEPT !.value = 0])
  \/ Put(c, "wipeStatus", "copyOp", [last EXCEPT !.status = 0])

Copy(c) ==
  \/ Put(c, "copyOp", "copyValue", [last EXCEPT !.op = held[c].op])
  \/ Put(c, "copyValue", "copyStatus", [last EXCEPT !.value = held[c].id])
  \/ Put(c, "copyStatus", "flag", [last EXCEPT !.status = held[c].id])

Flag(c) ==
  /\ pc[c] = "flag"
  /\ ready' = TRUE
  /\ Goto(c, "return")
  /\ UNCHANGED <<call, outcome, held, up, last, requests, replies, note7, cm4, hist>>

\* Whatever has come in since is forgotten until the next notification.
Unnote(c) ==
  /\ pc[c] = "unnote"
  /\ note7' = FALSE
  /\ Goto(c, "again")
  /\ UNCHANGED <<call, outcome, held, master, requests, replies, cm4, hist>>


\* The time is looked at after each poll, whatever the poll has brought.
TimeOut(c) ==
  /\ pc[c] = "again"
  /\ Return(c, "timeout")
  /\ timeouts' = timeouts + 1
  /\ UNCHANGED <<call, held, master, requests, replies, note7, cm4, sent, taken, lost, overlap>>

Check(c) ==
  /\ pc[c] = "check"
  /\ IF last.op = call[c].op
     THEN Goto(c, "takeValue") /\ UNCHANGED outcome
     ELSE Return(c, "mismatch")
  /\ UNCHANGED <<call, held, master, requests, replies, note7, cm4, hist>>

TakeValue(c) ==
  /\ pc[c] = "takeValue"
  /\ outcome' = [outcome EXCEPT ![c].got = [last EXCEPT !.status = 0]]
  /\ Goto(c, "takeStatus")
  /\ UNCHANGED <<call, held, master, requests, replies, note7, cm4, hist>>

TakeStatus(c) ==
  /\ pc[c] = "takeStatus"
  /\ outcome' = [outcome EXCEPT ![c] =
                    [result |-> "ok", got |-> [@.got EXCEPT !.status = last.status]]]
  /\ Goto(c, "idle")
  /\ UNCHANGED <<call, held, master, requests, replies, note7, cm4, hist>>

-----------------------------------------------------------------------------
(* The service, on the CM4: OpenAmpFs_RemotePoll of the superloop.         *)

ServerPoll ==
  /\ server = "out" /\ note4
  /\ server' = "drain"
  /\ UNCHANGED <<tasks, master, requests, replies, note7, note4, hist>>

\* A request is carried out and its reply sent; the result of the sending is
\* ignored, so that a reply that finds no buffer, be it after a wait, is lost.
Serve ==
  /\ server = "drain" /\ requests # <<>>
  /\ IF InUse < Ring
     THEN replies' = Append(replies, Head(requests)) /\ note7' = TRUE /\ UNCHANGED lost
     ELSE lost' = lost + 1 /\ UNCHANGED <<replies, note7>>
  /\ server' = "return"
  /\ UNCHANGED <<tasks, master, requests, note4, sent, taken, timeouts, overlap>>

\* Mutant: the request is served again.
ReturnRequest_Keep ==
  /\ server = "return"
  /\ server' = "drain"
  /\ UNCHANGED <<tasks, master, requests, replies, note7, note4, hist>>

\* The buffer of the request goes back after the callback has returned.
ReturnRequest ==
  /\ server = "return"
  /\ requests' = Tail(requests)
  /\ server' = "drain"
  /\ UNCHANGED <<tasks, master, replies, note7, note4, hist>>

ServerDrained ==
  /\ server = "drain" /\ requests = <<>>
  /\ server' = "unnote"
  /\ UNCHANGED <<tasks, master, requests, replies, note7, note4, hist>>

ServerUnnote ==
  /\ server = "unnote"
  /\ note4' = FALSE /\ server' = "out"
  /\ UNCHANGED <<tasks, master, requests, replies, note7, hist>>

-----------------------------------------------------------------------------

Step(c) ==
  \/ Clear(c) \/ Send(c) \/ Test(c) \/ Poll(c)
  \/ Fetch(c) \/ Wipe(c) \/ Copy(c) \/ Flag(c) \/ Unnote(c)
  \/ TimeOut(c) \/ Check(c) \/ TakeValue(c) \/ TakeStatus(c)

Server == ServerPoll \/ Serve \/ ReturnRequest \/ ServerDrained \/ ServerUnnote

Next ==
  \/ \E c \in Callers : Step(c) \/ \E op \in Ops : Begin(c, op) \/ InitFails(c, op)
  \/ Server

Spec == Init /\ [][Next]_vars

\* The CM7's scheduler runs every task, and its clock goes on: a caller that
\* looks at it for ever finds its time gone.  Nothing is asked of the CM4.
FairSpec ==
  Spec /\ \A c \in Callers : WF_vars(Step(c)) /\ SF_vars(TimeOut(c))

-----------------------------------------------------------------------------
(* Properties.                                                             *)

\* Types, and no ring has more messages in it or in hand than it has buffers.
TypeOK ==
  /\ pc \in [Callers -> Locations] /\ call \in [Callers -> Messages]
  /\ outcome \in [Callers -> Outcomes] /\ held \in [Callers -> Messages]
  /\ up \in BOOLEAN /\ ready \in BOOLEAN /\ last \in Responses
  /\ requests \in Seq(Messages) /\ replies \in Seq(Messages)
  /\ note4 \in BOOLEAN /\ note7 \in BOOLEAN
  /\ server \in {"out", "drain", "return", "unnote"}
  /\ Len(requests) <= Ring /\ InUse <= Ring
  /\ sent \in Nat /\ taken \in Nat /\ lost \in Nat /\ timeouts \in Nat
  /\ overlap \in BOOLEAN

\* While calls do not overlap, the n-th reply that is lost for want of a buffer
\* has been preceded by a timeout for each buffer of the ring and each reply
\* lost before: only replies nobody has waited for fill the ring, and each call
\* that returns otherwise takes one off it.
LossNeedsTimeouts == ~overlap /\ lost > 0 => timeouts >= Ring + lost - 1

\* While calls do not overlap, what a call reads is one reply, whole, to a
\* request of its operation, its own or one sent before it, and out of date by
\* no more requests than there have been timeouts: nothing else makes a late
\* reply.
LagBounded ==
  ~overlap => \A c \in Callers : outcome[c].result = "ok" =>
    /\ outcome[c].got.op = call[c].op
    /\ outcome[c].got.value = outcome[c].got.status
    /\ outcome[c].got.value \in call[c].id - timeouts..call[c].id

=============================================================================

-------------------------- MODULE OpenAmpRpcProofs --------------------------
(* Proofs about OpenAmpRpc, for any callers, operations and ring size, and *)
(* any number of calls.                                                    *)
EXTENDS OpenAmpRpc, FiniteSetTheorems, TLAPS

\* Requests the CM4 has not answered yet: it gives a buffer back later.
Unserved == IF server = "return" THEN Len(requests) - 1 ELSE Len(requests)

\* Each request sent is still to be served, or its reply is in the ring, taken
\* or lost.  The requests in the ring are the newest, and a reply is as new as
\* the replies before it are many.
Traffic ==
  /\ sent = taken + Len(replies) + lost + Unserved
  /\ server = "return" => requests # <<>>
  /\ \A i \in DOMAIN requests : requests[i].id = sent - Len(requests) + i
  /\ \A i \in DOMAIN replies : replies[i].id \in taken + i..sent

Holding == Copying \cup {"return"}
Under   == Waiting \cup Holding \cup Reading   \* the request is sent

\* What the call under way knows, when there is one only.
Current(c) ==
  /\ call[c].id = sent
  /\ sent - taken <= timeouts + 1
  /\ ready \/ pc[c] \in Holding => sent - taken <= timeouts
  /\ pc[c] \in Copying => held[c].id \in taken..sent
  /\ pc[c] \in {"copyStatus", "flag"} => last.value = held[c].id
  /\ pc[c] = "flag" => last.status = held[c].id
  /\ ready /\ pc[c] \notin Copying => last.value = last.status /\ last.value \in taken..sent
  /\ pc[c] \in Reading => ready
  /\ pc[c] \in {"takeValue", "takeStatus"} => last.op = call[c].op
  /\ pc[c] = "takeStatus" => outcome[c].got.op = last.op /\ outcome[c].got.value = last.value

\* While calls do not overlap there is one request at most that waits for its
\* reply, the newest; every other one whose reply has not been taken has cost a
\* timeout.
Serial ==
  /\ ~up => sent = 0
  /\ \A c \in Callers : pc[c] # "idle" => up /\ outcome[c].result = "none"
  /\ ~overlap =>
       /\ \A c, d \in Callers : pc[c] # "idle" /\ pc[d] # "idle" => c = d
       /\ (\A c \in Callers : pc[c] \notin Under) => sent - taken <= timeouts
       /\ \A c \in Callers : pc[c] = "send" => ~ready
       /\ \A c \in Callers : pc[c] \in Under => Current(c)

IInv == TypeOK /\ Traffic /\ Serial /\ LagBounded /\ LossNeedsTimeouts

-----------------------------------------------------------------------------

\* Messages.
LEMMA Requesting ==
  /\ Blank \in Messages
  /\ \A n \in Nat, op \in Ops : [id |-> n, op |-> op] \in Messages
  /\ \A m \in Messages : m.id \in Nat /\ m.op \in Ops \cup {NoOp}
  /\ \A m \in Messages, n \in Nat : /\ [m EXCEPT !.id = n] \in Messages
                                    /\ [m EXCEPT !.id = n].id = n
                                    /\ [m EXCEPT !.id = n].op = m.op
  BY DEF Blank, Messages

\* What g_last_response holds.
LEMMA Responding ==
  /\ Cleared \in Responses
  /\ \A r \in Responses : r.op \in Ops \cup {NoOp} /\ r.value \in Nat /\ r.status \in Nat
  /\ \A r \in Responses, o \in Ops \cup {NoOp} :
       /\ [r EXCEPT !.op = o] \in Responses
       /\ [r EXCEPT !.op = o].value = r.value /\ [r EXCEPT !.op = o].status = r.status
  /\ \A r \in Responses, n \in Nat :
       /\ [r EXCEPT !.value = n] \in Responses
       /\ [r EXCEPT !.value = n].value = n /\ [r EXCEPT !.value = n].status = r.status
       /\ [r EXCEPT !.status = n] \in Responses
       /\ [r EXCEPT !.status = n].status = n /\ [r EXCEPT !.status = n].value = r.value
       /\ [r EXCEPT !.status = n].op = r.op
  BY DEF Cleared, Responses

\* How a call can end.
LEMMA Ending ==
  /\ Nothing \in Outcomes /\ Nothing.result = "none"
  /\ \A r \in Results, g \in Responses : [result |-> r, got |-> g] \in Outcomes
  /\ \A o \in Outcomes : o.got \in Responses
  /\ \A o \in Outcomes, r \in Results :
       [o EXCEPT !.result = r] \in Outcomes /\ [o EXCEPT !.result = r].result = r
  /\ \A o \in Outcomes, r \in Responses :
       /\ [o EXCEPT !.got = r] \in Outcomes
       /\ [o EXCEPT !.got = r].got = r /\ [o EXCEPT !.got = r].result = o.result
  BY Responding DEF Nothing, Outcomes, Results

\* The buffers in hand are finitely many, and none while no call holds one.
LEMMA HoldersFinite ==
  /\ IsFiniteSet(Holders) /\ Cardinality(Holders) \in Nat
  /\ Holders = {} => Cardinality(Holders) = 0
<1>1. IsFiniteSet(Holders)
  BY OpenAmpRpcAssumption, FS_Subset DEF Holders
<1>. QED  BY <1>1, FS_CardinalityType, FS_EmptySet

LEMMA InitIInv == Init => IInv
<1>. SUFFICES ASSUME Init  PROVE IInv
  OBVIOUS
<1>1. requests = <<>> /\ replies = <<>> /\ Len(requests) = 0 /\ Len(replies) = 0
  BY DEF Init
<1>2. InUse = 0
  <2>1. Holders = {}
    BY DEF Init, Holders, Copying
  <2>. QED  BY <1>1, <2>1, HoldersFinite DEF InUse
<1>3. TypeOK
  <2>1. /\ pc \in [Callers -> Locations] /\ call \in [Callers -> Messages]
        /\ outcome \in [Callers -> Outcomes] /\ held \in [Callers -> Messages]
        /\ last \in Responses
    BY Requesting, Responding, Ending DEF Init, Locations
  <2>2. /\ requests \in Seq(Messages) /\ replies \in Seq(Messages)
        /\ Len(requests) <= Ring /\ InUse <= Ring
    BY <1>1, <1>2, OpenAmpRpcAssumption
  <2>3. /\ up \in BOOLEAN /\ ready \in BOOLEAN /\ note4 \in BOOLEAN /\ note7 \in BOOLEAN
        /\ server \in {"out", "drain", "return", "unnote"}
        /\ sent \in Nat /\ taken \in Nat /\ lost \in Nat /\ timeouts \in Nat /\ overlap \in BOOLEAN
    BY DEF Init
  <2>. QED  BY <2>1, <2>2, <2>3, Zenon DEF TypeOK
<1>4. Traffic
  BY <1>1 DEF Init, Traffic, Unserved
<1>5. Serial
  BY DEF Init, Serial, Under, Waiting, Holding, Copying, Reading
<1>6. LagBounded /\ LossNeedsTimeouts
  BY DEF Init, LagBounded, LossNeedsTimeouts, Nothing
<1>. QED  BY <1>3, <1>4, <1>5, <1>6 DEF IInv

\* Every step keeps the types; the capacity of the ring of replies follows.
Typed == /\ pc \in [Callers -> Locations] /\ call \in [Callers -> Messages]
         /\ outcome \in [Callers -> Outcomes] /\ held \in [Callers -> Messages]
         /\ up \in BOOLEAN /\ ready \in BOOLEAN /\ last \in Responses
         /\ requests \in Seq(Messages) /\ replies \in Seq(Messages)
         /\ note4 \in BOOLEAN /\ note7 \in BOOLEAN
         /\ server \in {"out", "drain", "return", "unnote"}
         /\ Len(requests) <= Ring
         /\ sent \in Nat /\ taken \in Nat /\ lost \in Nat /\ timeouts \in Nat
         /\ overlap \in BOOLEAN

LEMMA Typing ==
  ASSUME Typed, Traffic, [Next]_vars  PROVE Typed'
<1>. USE OpenAmpRpcAssumption DEF Typed
<1>1. ASSUME NEW c \in Callers, NEW op \in Ops, Begin(c, op)  PROVE Typed'
  <2>1. /\ pc' \in [Callers -> Locations] /\ call' \in [Callers -> Messages]
        /\ outcome' \in [Callers -> Outcomes]
    BY <1>1, Requesting, Ending DEF Begin, Goto, Locations
  <2>2. up' \in BOOLEAN /\ ready' \in BOOLEAN /\ last' \in Responses /\ overlap' \in BOOLEAN
    BY <1>1, Responding DEF Begin, master
  <2>. QED  BY <1>1, <2>1, <2>2 DEF Begin, cm4
<1>2. ASSUME NEW c \in Callers, NEW op \in Ops, InitFails(c, op)  PROVE Typed'
  <2>1. [result |-> "init", got |-> Cleared] \in Outcomes
    BY Responding, Ending DEF Results
  <2>2. call' \in [Callers -> Messages] /\ outcome' \in [Callers -> Outcomes]
        /\ last' \in Responses
    BY <1>2, <2>1, Requesting, Responding DEF InitFails
  <2>. QED  BY <1>2, <2>2 DEF InitFails, cm4, hist
<1>3. ASSUME NEW c \in Callers, Send(c), Len(requests) < Ring  PROVE Typed'
  <2>1. call' \in [Callers -> Messages] /\ call'[c] \in Messages /\ sent' \in Nat
    <3>1. call[c] \in Messages /\ sent + 1 \in Nat
      OBVIOUS
    <3>2. [call[c] EXCEPT !.id = sent + 1] \in Messages
      BY <3>1, Requesting
    <3>3. call' = [call EXCEPT ![c] = [call[c] EXCEPT !.id = sent + 1]] /\ sent' = sent + 1
      BY <1>3 DEF Send
    <3>. QED  BY <3>1, <3>2, <3>3
  <2>2. requests' \in Seq(Messages) /\ Len(requests') = Len(requests) + 1
    <3>1. requests' = Append(requests, call'[c])
      BY <1>3 DEF Send
    <3>. QED  BY <2>1, <3>1
  <2>3. pc' \in [Callers -> Locations] /\ Len(requests') <= Ring
    BY <1>3, <2>2 DEF Send, Goto, Locations, Waiting
  <2>. QED  BY <1>3, <2>1, <2>2, <2>3 DEF Send, master
<1>4. ASSUME NEW c \in Callers, Send(c), ~(Len(requests) < Ring)  PROVE Typed'
  <2>1. pc' \in [Callers -> Locations]
    BY <1>4 DEF Send, Return, Goto, Locations
  <2>2. outcome' \in [Callers -> Outcomes]
    <3>1. outcome' = [outcome EXCEPT ![c] = [outcome[c] EXCEPT !.result = "full"]]
      BY <1>4 DEF Send, Return
    <3>2. [outcome[c] EXCEPT !.result = "full"] \in Outcomes
      BY Ending DEF Results
    <3>. QED  BY <3>1, <3>2
  <2>. QED  BY <1>4, <2>1, <2>2 DEF Send, master
<1>5. ASSUME NEW c \in Callers, Fetch(c)  PROVE Typed'
  <2>1. pc' \in [Callers -> Locations]
    BY <1>5 DEF Fetch, Goto, Locations, Copying, Waiting
  <2>2. replies' \in Seq(Messages) /\ held' \in [Callers -> Messages] /\ taken' \in Nat
    <3>1. CASE replies # <<>>
      <4>1. held' = [held EXCEPT ![c] = replies[1]] /\ replies' = Tail(replies) /\ taken' = taken + 1
        BY <1>5, <3>1 DEF Fetch
      <4>2. replies[1] \in Messages
        BY <3>1
      <4>. QED  BY <3>1, <4>1, <4>2
    <3>2. CASE replies = <<>>
      BY <1>5, <3>2 DEF Fetch
    <3>. QED  BY <3>1, <3>2
  <2>. QED  BY <1>5, <2>1, <2>2 DEF Fetch, master, cm4
<1>6. ASSUME NEW c \in Callers, Wipe(c) \/ Copy(c) \/ Flag(c)  PROVE Typed'
  <2>1. pc' \in [Callers -> Locations]
    BY <1>6 DEF Wipe, Copy, Flag, Put, Goto, Locations, Copying
  <2>2. last' \in Responses
    <3>1. held[c].id \in Nat /\ held[c].op \in Ops \cup {NoOp} /\ NoOp \in Ops \cup {NoOp} /\ 0 \in Nat
      BY Requesting
    <3>2. \A o \in Ops \cup {NoOp} : [last EXCEPT !.op = o] \in Responses
      BY Responding
    <3>3. \A n \in Nat : /\ [last EXCEPT !.value = n] \in Responses
                        /\ [last EXCEPT !.status = n] \in Responses
      BY Responding
    <3>4. \/ last' = last \/ \E o \in Ops \cup {NoOp} : last' = [last EXCEPT !.op = o]
          \/ \E n \in Nat : last' = [last EXCEPT !.value = n] \/ last' = [last EXCEPT !.status = n]
      BY <1>6, <3>1 DEF Wipe, Copy, Flag, Put
    <3>. QED  BY <3>2, <3>3, <3>4
  <2>. QED  BY <1>6, <2>1, <2>2 DEF Wipe, Copy, Flag, Put, cm4, hist
<1>7. ASSUME NEW c \in Callers, Clear(c) \/ Test(c) \/ Poll(c) \/ Unnote(c)  PROVE Typed'
  BY <1>7 DEF Clear, Test, Poll, Unnote, Goto, master, cm4, hist, Locations, Waiting, Reading
<1>8. ASSUME NEW c \in Callers, TimeOut(c) \/ Check(c)  PROVE Typed'
  <2>1. pc' \in [Callers -> Locations]
    BY <1>8 DEF TimeOut, Check, Goto, Return, Locations, Reading
  <2>2. outcome' \in [Callers -> Outcomes]
    <3>1. PICK r \in Results : outcome' = [outcome EXCEPT ![c] = [outcome[c] EXCEPT !.result = r]]
                               \/ outcome' = outcome
      BY <1>8 DEF TimeOut, Check, Return, Results
    <3>2. [outcome[c] EXCEPT !.result = r] \in Outcomes
      BY Ending
    <3>. QED  BY <3>1, <3>2
  <2>. QED  BY <1>8, <2>1, <2>2 DEF TimeOut, Check, master, cm4, hist
<1>9. ASSUME NEW c \in Callers, TakeValue(c) \/ TakeStatus(c)  PROVE Typed'
  <2>1. pc' \in [Callers -> Locations]
    BY <1>9 DEF TakeValue, TakeStatus, Goto, Locations, Reading
  <2>2. outcome' \in [Callers -> Outcomes]
    <3>1. 0 \in Nat /\ last.status \in Nat /\ outcome[c] \in Outcomes /\ "ok" \in Results
      BY Responding DEF Results
    <3>2. outcome[c].got \in Responses
      BY <3>1, Ending
    <3>3. [last EXCEPT !.status = 0] \in Responses
          /\ [outcome[c].got EXCEPT !.status = last.status] \in Responses
      BY <3>1, <3>2, Responding
    <3>4. CASE TakeValue(c)
      BY <3>1, <3>3, <3>4, Ending DEF TakeValue
    <3>5. CASE TakeStatus(c)
      BY <3>1, <3>3, <3>5, Ending DEF TakeStatus
    <3>. QED  BY <1>9, <3>4, <3>5
  <2>. QED  BY <1>9, <2>1, <2>2 DEF TakeValue, TakeStatus, master, cm4, hist
<1>10. ASSUME Serve  PROVE Typed'
  <2>1. replies' \in Seq(Messages) /\ note7' \in BOOLEAN /\ lost' \in Nat
    <3>1. requests[1] \in Messages
      BY <1>10 DEF Serve
    <3>2. \/ replies' = Append(replies, requests[1]) /\ note7' = TRUE /\ lost' = lost
          \/ replies' = replies /\ note7' = note7 /\ lost' = lost + 1
      BY <1>10 DEF Serve
    <3>3. Append(replies, requests[1]) \in Seq(Messages)
      BY <3>1
    <3>4. replies' \in Seq(Messages)
      BY <3>2, <3>3
    <3>5. note7' \in BOOLEAN
      BY <3>2, Zenon
    <3>. QED  BY <3>2, <3>4, <3>5
  <2>. QED  BY <1>10, <2>1 DEF Serve, master, tasks
<1>11. ASSUME ReturnRequest  PROVE Typed'
  <2>1. requests' \in Seq(Messages) /\ Len(requests') = Len(requests) - 1
    BY <1>11 DEF ReturnRequest, Traffic
  <2>. QED  BY <1>11, <2>1 DEF ReturnRequest, master, tasks, hist
<1>12. ASSUME ServerPoll \/ ServerDrained \/ ServerUnnote  PROVE Typed'
  BY <1>12 DEF ServerPoll, ServerDrained, ServerUnnote, master, tasks, hist
<1>13. CASE UNCHANGED vars
  BY <1>13 DEF vars, master, cm4, hist, tasks
<1>. QED
  BY <1>1, <1>2, <1>3, <1>4, <1>5, <1>6, <1>7, <1>8, <1>9, <1>10, <1>11, <1>12, <1>13
     DEF Next, Step, Server

\* No ring has more messages in it or in hand than it has buffers: a buffer
\* in hand has left the ring for the callback, and comes back after it.
LEMMA Capacity ==
  ASSUME TypeOK, Typed', [Next]_vars  PROVE TypeOK'
<1>. DEFINE n == Cardinality(Holders)
<1>0. /\ Typed /\ InUse <= Ring /\ Len(replies) \in Nat /\ Ring \in Nat /\ n \in Nat
      /\ InUse = Len(replies) + n
  BY HoldersFinite, OpenAmpRpcAssumption DEF TypeOK, Typed, InUse
<1>1. SUFFICES InUse' <= Ring
  BY Zenon DEF TypeOK, Typed
<1>2. ASSUME Holders' = Holders, replies' = replies  PROVE InUse' <= Ring
  BY <1>0, <1>2 DEF InUse
<1>3. ASSUME NEW c \in Callers, Fetch(c)  PROVE InUse' <= Ring
  <2>1. CASE replies # <<>>
    <3>1. Len(replies') = Len(replies) - 1
      BY <1>0, <1>3, <2>1 DEF Fetch, Typed
    <3>2. Holders' = Holders \cup {c}
      BY <1>0, <1>3, <2>1 DEF Fetch, Goto, Holders, Typed, Copying
    <3>3. Cardinality(Holders') <= n + 1
      <4>1. /\ Cardinality(Holders \cup {c}) = IF c \in Holders THEN n ELSE n + 1
            /\ n \in Nat
        BY HoldersFinite, FS_AddElement
      <4>. QED  BY <3>2, <4>1
    <3>4. Cardinality(Holders') \in Nat
      BY <3>2, HoldersFinite, FS_AddElement, FS_CardinalityType
    <3>. QED  BY <1>0, <3>1, <3>3, <3>4 DEF InUse
  <2>2. CASE replies = <<>>
    <3>1. replies' = replies
      BY <1>3, <2>2 DEF Fetch
    <3>2. Holders' = Holders \ {c}
      BY <1>0, <1>3, <2>2 DEF Fetch, Goto, Holders, Typed, Copying
    <3>3. Cardinality(Holders') <= n
      <4>1. /\ Cardinality(Holders \ {c}) = IF c \in Holders THEN n - 1 ELSE n
            /\ n \in Nat
        BY HoldersFinite, FS_RemoveElement
      <4>. QED  BY <3>2, <4>1
    <3>4. Cardinality(Holders') \in Nat
      BY <3>2, HoldersFinite, FS_RemoveElement, FS_CardinalityType
    <3>. QED  BY <1>0, <3>1, <3>3, <3>4 DEF InUse
  <2>. QED  BY <2>1, <2>2
<1>4. ASSUME NEW c \in Callers,
             Clear(c) \/ Send(c) \/ Test(c) \/ Poll(c) \/ Unnote(c) \/ TimeOut(c)
             \/ Check(c) \/ TakeValue(c) \/ TakeStatus(c)
      PROVE  InUse' <= Ring
  <2>1. replies' = replies
    BY <1>4 DEF Clear, Send, Test, Poll, Unnote, TimeOut, Check, TakeValue, TakeStatus
  <2>2. PICK l \in Locations \ Holding : pc' = [pc EXCEPT ![c] = l]
    BY <1>4 DEF Clear, Send, Test, Poll, Unnote, TimeOut, Check, TakeValue, TakeStatus,
                Return, Goto, Locations, Holding, Copying, Waiting, Reading
  <2>3. pc[c] \notin Holding
    BY <1>4 DEF Clear, Send, Test, Poll, Unnote, TimeOut, Check, TakeValue, TakeStatus,
                Holding, Copying
  <2>4. Holders' = Holders
    BY <1>0, <2>2, <2>3 DEF Holders, Holding, Typed
  <2>. QED  BY <1>2, <2>1, <2>4
<1>5. ASSUME NEW c \in Callers, Wipe(c) \/ Copy(c) \/ Flag(c)  PROVE InUse' <= Ring
  <2>1. replies' = replies
    BY <1>5 DEF Wipe, Copy, Flag, Put
  <2>2. PICK l \in Holding : pc' = [pc EXCEPT ![c] = l]
    BY <1>5 DEF Wipe, Copy, Flag, Put, Goto, Holding, Copying
  <2>3. pc[c] \in Holding
    BY <1>5 DEF Wipe, Copy, Flag, Put, Holding, Copying
  <2>4. Holders' = Holders
    BY <1>0, <2>2, <2>3 DEF Holders, Holding, Typed
  <2>. QED  BY <1>2, <2>1, <2>4
<1>6. ASSUME NEW c \in Callers, NEW op \in Ops, Begin(c, op)  PROVE InUse' <= Ring
  <2>1. Holders' = Holders
    BY <1>0, <1>6 DEF Begin, Goto, Holders, Typed, Copying
  <2>. QED  BY <1>2, <1>6, <2>1 DEF Begin
<1>7. ASSUME NEW c \in Callers, NEW op \in Ops, InitFails(c, op)  PROVE InUse' <= Ring
  <2>1. Holders' = Holders
    BY <1>7 DEF InitFails, Holders
  <2>. QED  BY <1>2, <1>7, <2>1 DEF InitFails
<1>8. ASSUME Serve  PROVE InUse' <= Ring
  <2>1. Holders' = Holders
    BY <1>8 DEF Serve, Holders, tasks
  <2>2. CASE InUse < Ring
    <3>1. Len(replies') = Len(replies) + 1
      BY <1>0, <1>8, <2>2 DEF Serve, Typed
    <3>. QED  BY <1>0, <2>1, <2>2, <3>1 DEF InUse
  <2>3. CASE ~(InUse < Ring)
    BY <1>2, <1>8, <2>1, <2>3 DEF Serve
  <2>. QED  BY <2>2, <2>3
<1>9. ASSUME \/ ServerPoll \/ ReturnRequest \/ ServerDrained \/ ServerUnnote
             \/ UNCHANGED vars
      PROVE  InUse' <= Ring
  <2>1. pc' = pc /\ replies' = replies
    BY <1>9 DEF ServerPoll, ReturnRequest, ServerDrained, ServerUnnote, vars, tasks
  <2>2. Holders' = Holders
    BY <2>1 DEF Holders
  <2>. QED  BY <1>2, <2>1, <2>2
<1>. QED
  BY <1>3, <1>4, <1>5, <1>6, <1>7, <1>8, <1>9 DEF Next, Step, Server

\* Every step keeps the account of the messages: a request joins with the
\* highest number, its reply joins the other ring as the newest or is lost,
\* and the oldest reply is taken.
LEMMA Accounting ==
  ASSUME TypeOK, Traffic, [Next]_vars  PROVE Traffic'
<1>0. /\ requests \in Seq(Messages) /\ replies \in Seq(Messages)
      /\ Len(requests) \in Nat /\ Len(replies) \in Nat
      /\ DOMAIN requests = 1..Len(requests) /\ DOMAIN replies = 1..Len(replies)
      /\ sent \in Nat /\ taken \in Nat /\ lost \in Nat
      /\ server \in {"out", "drain", "return", "unnote"}
  BY DEF TypeOK
<1>1. ASSUME UNCHANGED <<sent, taken, lost, requests, replies>>,
             (server' # "return" /\ server # "return") \/ server' = server
      PROVE  Traffic'
  BY <1>1 DEF Traffic, Unserved
<1>2. ASSUME NEW c \in Callers, Send(c), Len(requests) < Ring  PROVE Traffic'
  <2>1. /\ sent' = sent + 1 /\ UNCHANGED <<replies, server, taken, lost>>
        /\ requests' = Append(requests, call'[c])
        /\ call' = [call EXCEPT ![c] = [call[c] EXCEPT !.id = sent + 1]]
    BY <1>2 DEF Send
  <2>2. call'[c] \in Messages /\ call'[c].id = sent + 1
    <3>1. call[c] \in Messages /\ sent + 1 \in Nat /\ call \in [Callers -> Messages]
      BY <1>0 DEF TypeOK
    <3>2. [call[c] EXCEPT !.id = sent + 1] \in Messages /\ [call[c] EXCEPT !.id = sent + 1].id = sent + 1
      BY <3>1, Requesting
    <3>. QED  BY <2>1, <3>1, <3>2
  <2>3. /\ Len(requests') = Len(requests) + 1 /\ DOMAIN requests' = 1..Len(requests) + 1
        /\ \A i \in DOMAIN requests : requests'[i] = requests[i]
        /\ requests'[Len(requests) + 1] = call'[c]
    BY <1>0, <2>1, <2>2
  <2>4. \A i \in DOMAIN requests' : requests'[i].id = sent' - Len(requests') + i
    <3>1. \A i \in DOMAIN requests : requests[i].id = sent' - Len(requests') + i
      <4>1. sent' - Len(requests') = sent - Len(requests)
        BY <1>0, <2>1, <2>3
      <4>. QED  BY <4>1, Zenon DEF Traffic
    <3>2. sent + 1 = sent' - Len(requests') + (Len(requests) + 1)
      BY <1>0, <2>1, <2>3
    <3>. QED  BY <1>0, <2>2, <2>3, <3>1, <3>2
  <2>5. \A i \in DOMAIN replies' : replies'[i].id \in taken' + i..sent'
    <3>1. \A a, b \in Nat : \A x \in a..b : x \in a..b + 1
      OBVIOUS
    <3>2. \A i \in DOMAIN replies : i \in Nat /\ taken + i \in Nat
      BY <1>0
    <3>. QED  BY <1>0, <2>1, <3>1, <3>2 DEF Traffic
  <2>6. sent' = taken' + Len(replies') + lost' + Unserved'
    <3>1. Unserved' = Unserved + 1 /\ Unserved \in Int
      BY <1>0, <2>1, <2>3 DEF Unserved
    <3>2. sent = taken + Len(replies) + lost + Unserved
      BY DEF Traffic
    <3>. QED  BY <1>0, <2>1, <3>1, <3>2
  <2>7. requests' # <<>>
    BY <1>0, <2>3
  <2>. QED  BY <2>4, <2>5, <2>6, <2>7 DEF Traffic
<1>3. ASSUME NEW c \in Callers, Fetch(c), replies # <<>>  PROVE Traffic'
  <2>1. /\ replies' = Tail(replies) /\ taken' = taken + 1
        /\ UNCHANGED <<sent, lost, requests, server>>
    BY <1>3 DEF Fetch, cm4
  <2>2. /\ Len(replies') = Len(replies) - 1
        /\ \A i \in DOMAIN replies' : i \in Nat /\ i + 1 \in DOMAIN replies /\ replies'[i] = replies[i + 1]
    BY <1>0, <1>3, <2>1
  <2>3. ASSUME NEW i \in DOMAIN replies'  PROVE replies'[i].id \in taken' + i..sent'
    <3>1. replies'[i].id \in taken + (i + 1)..sent
      BY <2>2 DEF Traffic
    <3>2. taken' + i = taken + (i + 1)
      BY <1>0, <2>1, <2>2
    <3>. QED  BY <2>1, <3>1, <3>2
  <2>4. sent' = taken' + Len(replies') + lost' + Unserved'
    <3>1. Unserved' = Unserved /\ Unserved \in Int
      BY <1>0, <2>1 DEF Unserved
    <3>2. sent = taken + Len(replies) + lost + Unserved
      BY DEF Traffic
    <3>3. Len(replies') = Len(replies) - 1 /\ taken' = taken + 1 /\ sent' = sent /\ lost' = lost
      BY <2>1, <2>2
    <3>. QED  BY <1>0, <3>1, <3>2, <3>3
  <2>5. \A i \in DOMAIN requests' : requests'[i].id = sent' - Len(requests') + i
    BY <2>1 DEF Traffic
  <2>6. server' = "return" => requests' # <<>>
    BY <2>1 DEF Traffic
  <2>7. \A i \in DOMAIN replies' : replies'[i].id \in taken' + i..sent'
    BY <2>3
  <2>. QED  BY <2>4, <2>5, <2>6, <2>7, Zenon DEF Traffic
<1>4. ASSUME Serve  PROVE Traffic'
  <2>1. /\ UNCHANGED <<sent, taken, requests>> /\ server = "drain" /\ server' = "return"
        /\ requests # <<>>
    BY <1>4 DEF Serve
  <2>2. /\ Len(requests) >= 1 /\ requests[1].id = sent - Len(requests) + 1
        /\ sent = taken + Len(replies) + lost + Len(requests)
    BY <1>0, <2>1 DEF Traffic, Unserved
  <2>3. CASE InUse < Ring
    <3>1. replies' = Append(replies, requests[1]) /\ lost' = lost /\ requests[1] \in Messages
      BY <1>0, <1>4, <2>2, <2>3 DEF Serve
    <3>2. /\ Len(replies') = Len(replies) + 1 /\ DOMAIN replies' = 1..Len(replies) + 1
          /\ \A i \in DOMAIN replies : replies'[i] = replies[i]
          /\ replies'[Len(replies) + 1] = requests[1]
      BY <1>0, <3>1
    <3>3. requests[1].id \in taken + (Len(replies) + 1)..sent
      BY <1>0, <2>2
    <3>4. \A i \in DOMAIN replies' : replies'[i].id \in taken' + i..sent'
      <4>1. \A i \in DOMAIN replies : replies[i].id \in taken + i..sent
        BY DEF Traffic
      <4>2. \A i \in DOMAIN replies' : i \in DOMAIN replies \/ i = Len(replies) + 1
        BY <1>0, <3>2
      <4>. QED  BY <2>1, <3>2, <3>3, <4>1, <4>2
    <3>5. sent' = taken' + Len(replies') + lost' + Unserved'
      BY <1>0, <2>1, <2>2, <3>1, <3>2 DEF Unserved
    <3>. QED  BY <2>1, <3>4, <3>5 DEF Traffic
  <2>4. CASE ~(InUse < Ring)
    <3>1. replies' = replies /\ lost' = lost + 1
      BY <1>4, <2>4 DEF Serve
    <3>2. sent' = taken' + Len(replies') + lost' + Unserved'
      BY <1>0, <2>1, <2>2, <3>1 DEF Unserved
    <3>. QED  BY <2>1, <3>1, <3>2 DEF Traffic
  <2>. QED  BY <2>3, <2>4
<1>5. ASSUME ReturnRequest  PROVE Traffic'
  <2>1. /\ UNCHANGED <<sent, taken, lost, replies>> /\ server = "return" /\ server' = "drain"
        /\ requests' = Tail(requests) /\ requests # <<>>
    BY <1>5 DEF ReturnRequest, hist, Traffic
  <2>2. /\ Len(requests') = Len(requests) - 1
        /\ \A i \in DOMAIN requests' :
             i \in Nat /\ i + 1 \in DOMAIN requests /\ requests'[i] = requests[i + 1]
    BY <1>0, <2>1
  <2>3. \A i \in DOMAIN requests' : requests'[i].id = sent' - Len(requests') + i
    BY <1>0, <2>1, <2>2 DEF Traffic
  <2>4. sent' = taken' + Len(replies') + lost' + Unserved'
    BY <1>0, <2>1, <2>2 DEF Traffic, Unserved
  <2>. QED  BY <2>1, <2>3, <2>4 DEF Traffic
<1>6. ASSUME NEW c \in Callers,
             \/ Send(c) /\ ~(Len(requests) < Ring)
             \/ Fetch(c) /\ replies = <<>>
             \/ Clear(c) \/ Test(c) \/ Poll(c) \/ Wipe(c) \/ Copy(c) \/ Flag(c) \/ Unnote(c)
             \/ TimeOut(c) \/ Check(c) \/ TakeValue(c) \/ TakeStatus(c)
      PROVE  Traffic'
  <2>1. UNCHANGED <<sent, taken, lost, requests, replies, server>>
    BY <1>6 DEF Send, Fetch, Clear, Test, Poll, Wipe, Copy, Flag, Put, Unnote, TimeOut, Check,
                TakeValue, TakeStatus, cm4, hist
  <2>. QED  BY <1>1, <2>1
<1>7. ASSUME NEW c \in Callers, NEW op \in Ops, Begin(c, op) \/ InitFails(c, op)  PROVE Traffic'
  <2>1. UNCHANGED <<sent, taken, lost, requests, replies, server>>
    BY <1>7 DEF Begin, InitFails, cm4, hist
  <2>. QED  BY <1>1, <2>1
<1>8. ASSUME ServerPoll \/ ServerDrained \/ ServerUnnote \/ UNCHANGED vars  PROVE Traffic'
  <2>1. /\ UNCHANGED <<sent, taken, lost, requests, replies>>
        /\ (server' # "return" /\ server # "return") \/ server' = server
    BY <1>8 DEF ServerPoll, ServerDrained, ServerUnnote, vars, cm4, hist
  <2>. QED  BY <1>1, <2>1
<1>. QED
  BY <1>2, <1>3, <1>4, <1>5, <1>6, <1>7, <1>8 DEF Next, Step, Server

\* A call that stays under way keeps what is known of calls, if what it knows
\* of its own is kept.
LEMMA Staying ==
  ASSUME TypeOK, Serial, LagBounded,
         NEW c \in Callers, NEW l \in Under,
         pc[c] # "idle", pc' = [pc EXCEPT ![c] = l],
         UNCHANGED <<up, overlap, timeouts>>,
         \A d \in Callers : d # c => outcome'[d] = outcome[d] /\ call'[d] = call[d],
         outcome'[c].result = "none",
         ~overlap => Current(c)'
  PROVE  Serial' /\ LagBounded'
<1>1. /\ \A d \in Callers : pc'[d] = IF d = c THEN l ELSE pc[d]
      /\ l # "idle" /\ l # "send"
  BY DEF TypeOK, Under, Waiting, Holding, Copying, Reading
<1>2. up' /\ up
  BY DEF Serial
<1>3. ASSUME ~overlap  PROVE \A d \in Callers : d # c => pc[d] = "idle"
  BY <1>3 DEF Serial
<1>4. "idle" \notin Under
  BY DEF Under, Waiting, Holding, Copying, Reading
<1>5. Serial'
  <2>1. \A d \in Callers : pc'[d] # "idle" => up' /\ outcome'[d].result = "none"
    BY <1>1, <1>2 DEF Serial
  <2>2. ASSUME ~overlap'
        PROVE  /\ \A d, e \in Callers : pc'[d] # "idle" /\ pc'[e] # "idle" => d = e
               /\ (\A d \in Callers : pc'[d] \notin Under) => sent' - taken' <= timeouts'
               /\ \A d \in Callers : pc'[d] = "send" => ~ready'
               /\ \A d \in Callers : pc'[d] \in Under => Current(d)'
    BY <1>1, <1>3, <1>4, <2>2
  <2>. QED  BY <1>2, <2>1, <2>2 DEF Serial
<1>6. LagBounded'
  BY DEF LagBounded
<1>. QED  BY <1>5, <1>6

\* A call that returns leaves one request without a reply for each timeout.
LEMMA Returning ==
  ASSUME TypeOK, Serial, LagBounded,
         NEW c \in Callers,
         pc[c] # "idle", pc' = [pc EXCEPT ![c] = "idle"],
         UNCHANGED <<up, overlap, call, sent, taken>>,
         timeouts' \in timeouts..timeouts + 1,
         \A d \in Callers : d # c => outcome'[d] = outcome[d],
         ~overlap => sent - taken <= timeouts',
         ~overlap /\ outcome'[c].result = "ok" =>
           /\ outcome'[c].got.op = call[c].op
           /\ outcome'[c].got.value = outcome'[c].got.status
           /\ outcome'[c].got.value \in call[c].id - timeouts'..call[c].id
  PROVE  Serial' /\ LagBounded'
<1>1. \A d \in Callers : pc'[d] = IF d = c THEN "idle" ELSE pc[d]
  BY DEF TypeOK
<1>2. ASSUME ~overlap  PROVE \A d \in Callers : d # c => pc[d] = "idle"
  BY <1>2 DEF Serial
<1>3. "idle" \notin Under
  BY DEF Under, Waiting, Holding, Copying, Reading
<1>4. Serial'
  <2>1. \A d \in Callers : pc'[d] # "idle" => up' /\ outcome'[d].result = "none"
    BY <1>1 DEF Serial
  <2>2. ASSUME ~overlap'  PROVE \A d \in Callers : pc'[d] = "idle"
    BY <1>1, <1>2, <2>2
  <2>3. ~up' => sent' = 0
    BY DEF Serial
  <2>. QED  BY <1>3, <2>1, <2>2, <2>3 DEF Serial
<1>5. LagBounded'
  <2>1. timeouts \in Nat /\ \A d \in Callers : call[d].id \in Nat
    BY Requesting DEF TypeOK
  <2>2. \A n, m \in Int : n \in m - timeouts..m => n \in m - timeouts'..m
    BY <2>1
  <2>3. ASSUME ~overlap, NEW d \in Callers, d # c, outcome[d].result = "ok"
        PROVE  outcome[d].got.value \in call[d].id - timeouts'..call[d].id
    BY <2>1, <2>2, <2>3 DEF LagBounded
  <2>. QED  BY <2>3 DEF LagBounded
<1>. QED  BY <1>4, <1>5

\* Every step keeps the account of the requests whose reply is not taken.
LEMMA Calling ==
  ASSUME TypeOK, TypeOK', Traffic, Serial, LagBounded, [Next]_vars
  PROVE  Serial' /\ LagBounded'
<1>0. /\ sent \in Nat /\ taken \in Nat /\ timeouts \in Nat /\ taken <= sent
  <2>1. /\ sent \in Nat /\ taken \in Nat /\ timeouts \in Nat /\ lost \in Nat
        /\ Len(requests) \in Nat /\ Len(replies) \in Nat
    BY DEF TypeOK
  <2>2. Unserved \in Nat
    BY <2>1 DEF Traffic, Unserved, TypeOK
  <2>. QED  BY <2>1, <2>2 DEF Traffic
<1>1. ASSUME NEW c \in Callers, NEW op \in Ops, Begin(c, op)  PROVE Serial' /\ LagBounded'
  <2>1. /\ \A d \in Callers : pc'[d] = IF d = c THEN "clear" ELSE pc[d]
        /\ \A d \in Callers : d # c => call'[d] = call[d] /\ outcome'[d] = outcome[d]
        /\ outcome'[c].result = "none"
    BY <1>1, Ending DEF Begin, Goto, TypeOK
  <2>2. /\ up' /\ UNCHANGED <<sent, taken, timeouts>> /\ (~up => sent = 0)
        /\ overlap' = (overlap \/ \E d \in Callers : pc[d] # "idle")
    BY <1>1 DEF Begin, master, Serial
  <2>3. ~overlap' => ~overlap /\ \A d \in Callers : pc[d] = "idle"
    BY <2>2 DEF TypeOK
  <2>4. "idle" \notin Under /\ "clear" \notin Under
    BY DEF Under, Waiting, Holding, Copying, Reading
  <2>5. ~overlap' => sent' - taken' <= timeouts'
    BY <2>2, <2>3, <2>4 DEF Serial
  <2>6. Serial'
    BY <2>1, <2>2, <2>3, <2>4, <2>5 DEF Serial
  <2>7. LagBounded'
    BY <2>1, <2>2, <2>3 DEF LagBounded
  <2>. QED  BY <2>6, <2>7
<1>2. ASSUME NEW c \in Callers, NEW op \in Ops, InitFails(c, op)  PROVE Serial' /\ LagBounded'
  <2>1. /\ \A d \in Callers : d # c => call'[d] = call[d] /\ outcome'[d] = outcome[d]
        /\ outcome'[c].result = "init"
    BY <1>2 DEF InitFails, TypeOK
  <2>2. /\ ~up /\ UNCHANGED <<pc, up, sent, taken, timeouts, overlap>>
        /\ \A d \in Callers : pc[d] = "idle"
    BY <1>2 DEF InitFails, hist, Serial
  <2>3. "idle" \notin Under
    BY DEF Under, Waiting, Holding, Copying, Reading
  <2>4. Serial'
    BY <2>2, <2>3 DEF Serial
  <2>5. LagBounded'
    BY <2>1, <2>2 DEF LagBounded
  <2>. QED  BY <2>4, <2>5
<1>3. ASSUME NEW c \in Callers, Clear(c)  PROVE Serial' /\ LagBounded'
  <2>1. /\ \A d \in Callers : pc'[d] = IF d = c THEN "send" ELSE pc[d]
        /\ pc[c] = "clear" /\ ready' = FALSE
        /\ UNCHANGED <<up, sent, taken, timeouts, overlap, call, outcome>>
    BY <1>3 DEF Clear, Goto, TypeOK, hist
  <2>2. "idle" \notin Under /\ "clear" \notin Under /\ "send" \notin Under
    BY DEF Under, Waiting, Holding, Copying, Reading
  <2>3. ASSUME ~overlap  PROVE \A d \in Callers : d # c => pc[d] = "idle"
    BY <2>1, <2>3 DEF Serial
  <2>4. ~overlap => sent - taken <= timeouts
    BY <2>1, <2>2, <2>3 DEF Serial
  <2>5. Serial'
    BY <2>1, <2>2, <2>3, <2>4 DEF Serial
  <2>6. LagBounded'
    BY <2>1 DEF LagBounded
  <2>. QED  BY <2>5, <2>6
<1>4. ASSUME NEW c \in Callers, Send(c), Len(requests) < Ring  PROVE Serial' /\ LagBounded'
  <2>1. /\ pc' = [pc EXCEPT ![c] = "test"] /\ pc[c] = "send" /\ sent' = sent + 1
        /\ UNCHANGED <<up, ready, last, taken, timeouts, overlap, outcome, held>>
        /\ call' = [call EXCEPT ![c] = [call[c] EXCEPT !.id = sent + 1]]
    BY <1>4 DEF Send, Goto, master
  <2>2. /\ call'[c].id = sent + 1 /\ \A d \in Callers : d # c => call'[d] = call[d]
    BY <1>0, <2>1, Requesting DEF TypeOK
  <2>3. pc'[c] = "test" /\ "test" \in Under /\ outcome'[c].result = "none"
    BY <2>1 DEF Serial, Under, Waiting, TypeOK
  <2>4. ASSUME ~overlap  PROVE ~ready /\ sent - taken <= timeouts
    <3>1. "idle" \notin Under /\ "send" \notin Under
      BY DEF Under, Waiting, Holding, Copying, Reading
    <3>2. \A d \in Callers : pc[d] \notin Under
      BY <2>1, <2>4, <3>1 DEF Serial
    <3>. QED  BY <2>1, <2>4, <3>2 DEF Serial
  <2>5. ASSUME ~overlap  PROVE Current(c)'
    BY <1>0, <2>1, <2>2, <2>3, <2>4, <2>5 DEF Current, Holding, Copying, Reading
  <2>. QED  BY <2>1, <2>2, <2>3, <2>5, Staying
<1>5. ASSUME NEW c \in Callers, Send(c), ~(Len(requests) < Ring)  PROVE Serial' /\ LagBounded'
  <2>1. /\ pc' = [pc EXCEPT ![c] = "idle"] /\ pc[c] = "send"
        /\ UNCHANGED <<up, overlap, call, sent, taken, timeouts>>
        /\ outcome' = [outcome EXCEPT ![c] = [outcome[c] EXCEPT !.result = "full"]]
    BY <1>5 DEF Send, Return, Goto, master
  <2>2. /\ \A d \in Callers : d # c => outcome'[d] = outcome[d]
        /\ outcome'[c].result = "full"
    BY <2>1, Ending DEF TypeOK, Results
  <2>3. ASSUME ~overlap  PROVE sent - taken <= timeouts
    <3>1. "idle" \notin Under /\ "send" \notin Under
      BY DEF Under, Waiting, Holding, Copying, Reading
    <3>2. \A d \in Callers : pc[d] \notin Under
      BY <2>1, <2>3, <3>1 DEF Serial
    <3>. QED  BY <2>3, <3>2 DEF Serial
  <2>4. timeouts' \in timeouts..timeouts + 1
    BY <1>0, <2>1
  <2>. QED  BY <2>1, <2>2, <2>3, <2>4, Returning
<1>6. ASSUME NEW c \in Callers, Test(c) \/ Poll(c) \/ Unnote(c)  PROVE Serial' /\ LagBounded'
  <2>1. PICK l \in Waiting \cup {"check"} : pc' = [pc EXCEPT ![c] = l] /\ (l = "check" => ready)
    BY <1>6 DEF Test, Poll, Unnote, Goto, Waiting
  <2>2. /\ pc[c] \in Waiting
        /\ UNCHANGED <<up, ready, last, sent, taken, timeouts, overlap, call, outcome, held>>
    BY <1>6 DEF Test, Poll, Unnote, master, hist, Waiting
  <2>3. pc'[c] = l /\ l \in Under /\ pc[c] \in Under /\ pc[c] # "idle"
    BY <2>1, <2>2 DEF Under, Reading, Waiting, TypeOK
  <2>4. ASSUME ~overlap  PROVE Current(c)'
    <3>1. Current(c) /\ pc[c] \notin Copying
      BY <2>2, <2>3, <2>4 DEF Serial, Waiting, Copying
    <3>2. l \notin Holding /\ l \notin {"takeValue", "takeStatus"}
      BY DEF Holding, Copying, Waiting
    <3>3. l \in Reading => ready
      BY <2>1 DEF Reading, Waiting
    <3>. QED  BY <2>2, <2>3, <3>1, <3>2, <3>3 DEF Current, Holding, Copying
  <2>. QED  BY <2>1, <2>2, <2>3, <2>4, Staying DEF Serial
<1>7. ASSUME NEW c \in Callers, Fetch(c), replies # <<>>  PROVE Serial' /\ LagBounded'
  <2>1. /\ pc' = [pc EXCEPT ![c] = "wipeOp"] /\ pc[c] \in {"drain", "return"}
        /\ held' = [held EXCEPT ![c] = replies[1]] /\ taken' = taken + 1
        /\ UNCHANGED <<up, ready, last, sent, timeouts, overlap, call, outcome>>
    BY <1>7 DEF Fetch, Goto, master
  <2>2. /\ pc'[c] = "wipeOp" /\ "wipeOp" \in Under /\ pc[c] \in Under /\ pc[c] # "idle"
    BY <2>1 DEF Under, Holding, Copying, Waiting, TypeOK
  <2>3. held'[c].id \in taken'..sent
    <3>1. 1 \in DOMAIN replies
      BY <1>7 DEF TypeOK
    <3>2. replies[1].id \in taken + 1..sent
      BY <3>1 DEF Traffic
    <3>. QED  BY <2>1, <3>2 DEF TypeOK
  <2>4. ASSUME ~overlap  PROVE Current(c)'
    <3>1. Current(c)
      BY <2>2, <2>4 DEF Serial
    <3>2. sent - taken' <= timeouts
      BY <1>0, <2>1, <3>1 DEF Current
    <3>3. call[c].id = sent /\ sent' - taken' <= timeouts' + 1
      BY <1>0, <2>1, <3>1, <3>2 DEF Current
    <3>. QED  BY <2>1, <2>2, <2>3, <3>2, <3>3 DEF Current, Holding, Copying, Reading
  <2>. QED  BY <2>1, <2>2, <2>4, Staying DEF Serial
<1>8. ASSUME NEW c \in Callers, Fetch(c), replies = <<>>  PROVE Serial' /\ LagBounded'
  <2>1. /\ pc' = [pc EXCEPT ![c] = "unnote"] /\ pc[c] \in {"drain", "return"}
        /\ UNCHANGED <<up, ready, last, sent, taken, timeouts, overlap, call, outcome, held>>
    BY <1>8 DEF Fetch, Goto, master
  <2>2. pc'[c] = "unnote" /\ "unnote" \in Under /\ pc[c] \in Under /\ pc[c] # "idle"
    BY <2>1 DEF Under, Holding, Waiting, TypeOK
  <2>3. ASSUME ~overlap  PROVE Current(c)'
    <3>1. Current(c) /\ pc[c] \notin Copying
      BY <2>1, <2>2, <2>3 DEF Serial, Copying
    <3>. QED  BY <2>1, <2>2, <3>1 DEF Current, Holding, Copying, Reading
  <2>. QED  BY <2>1, <2>2, <2>3, Staying DEF Serial
<1>9. ASSUME NEW c \in Callers, Wipe(c) \/ Copy(c) \/ Flag(c)  PROVE Serial' /\ LagBounded'
  <2>1. PICK l \in Holding : pc' = [pc EXCEPT ![c] = l]
    BY <1>9 DEF Wipe, Copy, Flag, Put, Goto, Holding, Copying
  <2>2. /\ pc[c] \in Copying
        /\ UNCHANGED <<up, sent, taken, timeouts, overlap, call, outcome, held>>
    BY <1>9 DEF Wipe, Copy, Flag, Put, hist, Copying
  <2>3. pc'[c] = l /\ l \in Under /\ pc[c] \in Under /\ pc[c] # "idle"
    BY <2>1, <2>2 DEF Under, Holding, Copying, TypeOK
  <2>4. ASSUME ~overlap  PROVE Current(c)'
    <3>1. Current(c) /\ held[c].id \in taken..sent /\ sent - taken <= timeouts
      BY <2>2, <2>3, <2>4 DEF Serial, Current, Holding
    <3>2. /\ held[c].id \in Nat /\ last \in Responses
          /\ \A n \in Nat : /\ [last EXCEPT !.value = n].value = n
                          /\ [last EXCEPT !.status = n].status = n
                          /\ [last EXCEPT !.status = n].value = last.value
      BY Responding, Requesting DEF TypeOK
    <3>3. ASSUME l = "copyStatus"  PROVE last'.value = held[c].id
      <4>1. last' = [last EXCEPT !.value = held[c].id]
        BY <1>9, <2>1, <2>3, <3>3 DEF Wipe, Copy, Flag, Put, Goto, TypeOK
      <4>. QED  BY <3>2, <4>1
    <3>4. ASSUME l = "flag"  PROVE last'.value = held[c].id /\ last'.status = held[c].id
      <4>1. last' = [last EXCEPT !.status = held[c].id] /\ pc[c] = "copyStatus"
        BY <1>9, <2>1, <2>3, <3>4 DEF Wipe, Copy, Flag, Put, Goto, TypeOK
      <4>2. last.value = held[c].id
        BY <3>1, <4>1 DEF Current
      <4>. QED  BY <3>2, <4>1, <4>2
    <3>5. l \in {"copyStatus", "flag"} => last'.value = held[c].id
      <4>1. CASE l = "copyStatus"
        BY <3>3, <4>1
      <4>2. CASE l = "flag"
        BY <3>4, <4>2
      <4>. QED  BY <4>1, <4>2
    <3>6. l = "flag" => last'.status = held[c].id
      BY <3>4
    <3>7. l \notin Copying => last'.value = last'.status /\ last'.value = held[c].id
      BY <1>9, <2>1, <2>3, <3>1 DEF Wipe, Copy, Flag, Put, Goto, Current, TypeOK, Copying
    <3>8. l \notin Reading /\ l \notin {"takeValue", "takeStatus"}
      BY DEF Holding, Copying, Reading
    <3>. QED  BY <1>0, <2>2, <2>3, <3>1, <3>5, <3>6, <3>7, <3>8 DEF Current
  <2>. QED  BY <2>1, <2>2, <2>3, <2>4, Staying DEF Serial
<1>10. ASSUME NEW c \in Callers, TimeOut(c)  PROVE Serial' /\ LagBounded'
  <2>1. /\ pc' = [pc EXCEPT ![c] = "idle"] /\ pc[c] = "again" /\ timeouts' = timeouts + 1
        /\ UNCHANGED <<up, overlap, call, sent, taken>>
        /\ outcome' = [outcome EXCEPT ![c] = [outcome[c] EXCEPT !.result = "timeout"]]
    BY <1>10 DEF TimeOut, Return, Goto, master
  <2>2. /\ \A d \in Callers : d # c => outcome'[d] = outcome[d]
        /\ outcome'[c].result = "timeout"
    BY <2>1, Ending DEF TypeOK, Results
  <2>3. ASSUME ~overlap  PROVE sent - taken <= timeouts'
    <3>1. pc[c] \in Under
      BY <2>1 DEF Under, Waiting
    <3>2. Current(c)
      BY <2>3, <3>1 DEF Serial
    <3>. QED  BY <2>1, <3>2 DEF Current
  <2>4. timeouts' \in timeouts..timeouts + 1
    BY <1>0, <2>1
  <2>. QED  BY <2>1, <2>2, <2>3, <2>4, Returning
<1>11. ASSUME NEW c \in Callers, Check(c), last.op # call[c].op  PROVE Serial' /\ LagBounded'
  <2>1. /\ pc' = [pc EXCEPT ![c] = "idle"] /\ pc[c] = "check"
        /\ UNCHANGED <<up, overlap, call, sent, taken, timeouts>>
        /\ outcome' = [outcome EXCEPT ![c] = [outcome[c] EXCEPT !.result = "mismatch"]]
    BY <1>11 DEF Check, Return, Goto, master, hist
  <2>2. /\ \A d \in Callers : d # c => outcome'[d] = outcome[d]
        /\ outcome'[c].result = "mismatch"
    BY <2>1, Ending DEF TypeOK, Results
  <2>3. ASSUME ~overlap  PROVE sent - taken <= timeouts'
    <3>1. pc[c] \in Under /\ pc[c] \in Reading
      BY <2>1 DEF Under, Reading
    <3>2. Current(c)
      BY <2>3, <3>1 DEF Serial
    <3>. QED  BY <2>1, <3>1, <3>2 DEF Current
  <2>4. timeouts' \in timeouts..timeouts + 1
    BY <1>0, <2>1
  <2>. QED  BY <2>1, <2>2, <2>3, <2>4, Returning
<1>12. ASSUME NEW c \in Callers, \/ Check(c) /\ last.op = call[c].op
                                 \/ TakeValue(c)
       PROVE  Serial' /\ LagBounded'
  <2>1. PICK l \in {"takeValue", "takeStatus"} :
          /\ pc' = [pc EXCEPT ![c] = l]
          /\ \/ l = "takeValue" /\ outcome' = outcome /\ last.op = call[c].op
             \/ /\ l = "takeStatus" /\ pc[c] = "takeValue"
                /\ outcome' = [outcome EXCEPT ![c] = [outcome[c] EXCEPT
                                 !.got = [last EXCEPT !.status = 0]]]
    BY <1>12 DEF Check, TakeValue, Goto
  <2>2. /\ pc[c] \in Reading /\ pc[c] # "takeStatus"
        /\ UNCHANGED <<up, ready, last, sent, taken, timeouts, overlap, call, held>>
    BY <1>12 DEF Check, TakeValue, master, hist, Reading
  <2>3. /\ pc'[c] = l /\ l \in Under /\ pc[c] \in Under /\ pc[c] # "idle" /\ l \in Reading
        /\ l \notin Holding /\ pc[c] \notin Copying
    BY <2>1, <2>2 DEF Under, Reading, Holding, Copying, TypeOK
  <2>4. [last EXCEPT !.status = 0] \in Responses /\ [last EXCEPT !.status = 0].op = last.op
        /\ [last EXCEPT !.status = 0].value = last.value
    BY Responding DEF TypeOK
  <2>5. /\ \A d \in Callers : d # c => outcome'[d] = outcome[d]
        /\ outcome'[c].result = outcome[c].result
        /\ l = "takeStatus" => outcome'[c].got = [last EXCEPT !.status = 0]
    <3>1. CASE outcome' = outcome /\ l = "takeValue"
      BY <3>1
    <3>2. CASE outcome' = [outcome EXCEPT ![c] = [outcome[c] EXCEPT
                             !.got = [last EXCEPT !.status = 0]]]
      <4>1. outcome[c] \in Outcomes /\ outcome \in [Callers -> Outcomes]
        BY DEF TypeOK
      <4>2. LET g == [last EXCEPT !.status = 0] IN
            [outcome[c] EXCEPT !.got = g].got = g
            /\ [outcome[c] EXCEPT !.got = g].result = outcome[c].result
        BY <2>4, <4>1, Ending
      <4>. QED  BY <3>2, <4>1, <4>2
    <3>. QED  BY <2>1, <3>1, <3>2
  <2>6. ASSUME ~overlap  PROVE Current(c)'
    <3>1. Current(c)
      BY <2>3, <2>6 DEF Serial
    <3>2. ready /\ last.value = last.status /\ last.value \in taken..sent
      BY <2>2, <2>3, <3>1 DEF Current
    <3>3. last.op = call[c].op
      BY <2>1, <3>1 DEF Current
    <3>. QED  BY <2>2, <2>3, <2>4, <2>5, <3>1, <3>2, <3>3 DEF Current, Holding, Copying
  <2>. QED  BY <2>1, <2>2, <2>3, <2>5, <2>6, Staying DEF Serial
<1>13. ASSUME NEW c \in Callers, TakeStatus(c)  PROVE Serial' /\ LagBounded'
  <2>1. /\ pc' = [pc EXCEPT ![c] = "idle"] /\ pc[c] = "takeStatus"
        /\ UNCHANGED <<up, overlap, call, sent, taken, timeouts>>
        /\ outcome' = [outcome EXCEPT ![c] =
                         [result |-> "ok", got |-> [outcome[c].got EXCEPT !.status = last.status]]]
    BY <1>13 DEF TakeStatus, Goto, master, hist
  <2>2. /\ outcome[c].got \in Responses /\ last.status \in Nat
        /\ \A d \in Callers : d # c => outcome'[d] = outcome[d]
        /\ outcome'[c].got = [outcome[c].got EXCEPT !.status = last.status]
    BY <2>1, Ending, Responding DEF TypeOK
  <2>3. /\ outcome'[c].got.op = outcome[c].got.op
        /\ outcome'[c].got.value = outcome[c].got.value
        /\ outcome'[c].got.status = last.status
    BY <2>2, Responding
  <2>4. ASSUME ~overlap
        PROVE  /\ sent - taken <= timeouts
               /\ outcome'[c].got.op = call[c].op
               /\ outcome'[c].got.value = outcome'[c].got.status
               /\ outcome'[c].got.value \in call[c].id - timeouts..call[c].id
    <3>1. pc[c] \in Under /\ pc[c] \in Reading /\ pc[c] \notin Copying
      BY <2>1 DEF Under, Reading, Copying
    <3>2. Current(c)
      BY <2>4, <3>1 DEF Serial
    <3>3. /\ ready /\ sent - taken <= timeouts /\ call[c].id = sent
          /\ last.value = last.status /\ last.value \in taken..sent
          /\ last.op = call[c].op
          /\ outcome[c].got.op = last.op /\ outcome[c].got.value = last.value
      BY <2>1, <3>1, <3>2 DEF Current
    <3>4. last.value \in sent - timeouts..sent
      BY <1>0, <3>3
    <3>. QED  BY <2>3, <3>3, <3>4
  <2>5. timeouts' \in timeouts..timeouts + 1 /\ timeouts' = timeouts
    BY <1>0, <2>1
  <2>. QED  BY <2>1, <2>2, <2>4, <2>5, Returning
<1>14. ASSUME Server  PROVE Serial' /\ LagBounded'
  <2>1. UNCHANGED <<pc, up, ready, last, sent, taken, timeouts, overlap, call, outcome, held>>
    BY <1>14 DEF Server, ServerPoll, Serve, ReturnRequest, ServerDrained, ServerUnnote,
                 master, tasks, hist
  <2>2. Serial'
    BY <2>1 DEF Serial, Current
  <2>. QED  BY <2>1, <2>2 DEF LagBounded
<1>15. CASE UNCHANGED vars
  <2>1. UNCHANGED <<pc, up, ready, last, sent, taken, timeouts, overlap, call, outcome, held>>
    BY <1>15 DEF vars, master, tasks, hist
  <2>2. Serial'
    BY <2>1 DEF Serial, Current
  <2>. QED  BY <2>1, <2>2 DEF LagBounded
<1>. QED
  BY <1>1, <1>2, <1>3, <1>4, <1>5, <1>6, <1>7, <1>8, <1>9, <1>10, <1>11, <1>12, <1>13, <1>14, <1>15
     DEF Next, Step

\* A reply is lost only when the ring is full of replies that have not been
\* taken, but for one in the hand of the call under way.
LEMMA Losing ==
  ASSUME TypeOK, Traffic, Serial, LossNeedsTimeouts, [Next]_vars
  PROVE  LossNeedsTimeouts'
<1>0. /\ sent \in Nat /\ taken \in Nat /\ lost \in Nat /\ timeouts \in Nat /\ Ring \in Nat
      /\ Len(requests) \in Nat /\ Len(replies) \in Nat /\ Cardinality(Holders) \in Nat
  BY HoldersFinite, OpenAmpRpcAssumption DEF TypeOK
<1>1. ASSUME Serve, ~(InUse < Ring), ~overlap'  PROVE timeouts' >= Ring + lost' - 1
  <2>1. /\ lost' = lost + 1 /\ UNCHANGED <<timeouts, overlap>> /\ server = "drain"
        /\ requests # <<>> /\ ~overlap
    BY <1>1 DEF Serve
  <2>2. Len(requests) >= 1
    BY <2>1 DEF TypeOK
  <2>3. sent = taken + Len(replies) + lost + Len(requests)
    BY <2>1 DEF Traffic, Unserved
  <2>4. CASE Holders = {}
    <3>1. Len(replies) >= Ring
      BY <1>0, <1>1, <2>4, HoldersFinite DEF InUse
    <3>2. sent - taken <= timeouts + 1
      <4>1. CASE \A c \in Callers : pc[c] \notin Under
        BY <1>0, <2>1, <4>1 DEF Serial
      <4>2. CASE \E c \in Callers : pc[c] \in Under
        BY <2>1, <4>2 DEF Serial, Current
      <4>. QED  BY <4>1, <4>2
    <3>. QED  BY <1>0, <2>1, <2>2, <2>3, <3>1, <3>2
  <2>5. ASSUME NEW c \in Holders  PROVE timeouts' >= Ring + lost' - 1
    <3>1. c \in Callers /\ pc[c] \in Holding /\ pc[c] \in Under
      BY <2>5 DEF Holders, Holding, Under
    <3>2. sent - taken <= timeouts
      BY <2>1, <3>1 DEF Serial, Current
    <3>3. Holders = {c}
      <4>1. "idle" \notin Copying \cup {"return"}
        BY DEF Copying
      <4>2. \A d \in Holders : d = c
        BY <2>1, <3>1, <4>1 DEF Serial, Holders, Holding
      <4>. QED  BY <2>5, <4>2
    <3>4. Len(replies) >= Ring - 1
      <4>1. Cardinality(Holders) = 1
        BY <3>3, FS_Singleton
      <4>. QED  BY <1>0, <1>1, <4>1 DEF InUse
    <3>. QED  BY <1>0, <2>1, <2>2, <2>3, <3>2, <3>4
  <2>. QED  BY <2>4, <2>5
<1>2. CASE lost' = lost /\ (~overlap' => ~overlap) /\ timeouts' \in {timeouts, timeouts + 1}
  BY <1>0, <1>2 DEF LossNeedsTimeouts
<1>3. ASSUME NEW c \in Callers, Step(c)  PROVE LossNeedsTimeouts'
  <2>1. lost' = lost /\ overlap' = overlap /\ timeouts' \in {timeouts, timeouts + 1}
    BY <1>3 DEF Step, Clear, Send, Test, Poll, Fetch, Wipe, Copy, Put, Flag, Unnote, TimeOut,
                Check, TakeValue, TakeStatus, hist
  <2>. QED  BY <1>2, <2>1
<1>4. ASSUME NEW c \in Callers, NEW op \in Ops, Begin(c, op) \/ InitFails(c, op)
      PROVE  LossNeedsTimeouts'
  <2>1. lost' = lost /\ (~overlap' => ~overlap) /\ timeouts' = timeouts
    BY <1>4 DEF Begin, InitFails, hist, TypeOK
  <2>. QED  BY <1>2, <2>1
<1>5. ASSUME \/ ServerPoll \/ ReturnRequest \/ ServerDrained \/ ServerUnnote
             \/ (Serve /\ InUse < Ring) \/ UNCHANGED vars
      PROVE  LossNeedsTimeouts'
  <2>1. lost' = lost /\ overlap' = overlap /\ timeouts' = timeouts
    BY <1>5 DEF ServerPoll, ReturnRequest, ServerDrained, ServerUnnote, Serve, vars, hist
  <2>. QED  BY <1>2, <2>1
<1>. QED
  BY <1>1, <1>3, <1>4, <1>5 DEF Next, Server, LossNeedsTimeouts

LEMMA Invariance == Spec => []IInv
<1>1. TypeOK <=> Typed /\ InUse <= Ring
  BY Zenon DEF TypeOK, Typed
<1>2. IInv /\ [Next]_vars => IInv'
  BY <1>1, Typing, Capacity, Accounting, Calling, Losing DEF IInv
<1>. QED  BY <1>2, InitIInv, PTL DEF Spec

\* The types, and the capacity of the rings.
THEOREM TypesOK == Spec => []TypeOK
<1>1. IInv => TypeOK
  BY DEF IInv
<1>. QED  BY <1>1, Invariance, PTL

\* Without overlapping calls, only timeouts fill the ring of replies.
THEOREM LossesAreLate == Spec => []LossNeedsTimeouts
<1>1. IInv => LossNeedsTimeouts
  BY DEF IInv
<1>. QED  BY <1>1, Invariance, PTL

\* Without overlapping calls, a call reads one whole reply, as late as there
\* were timeouts.
THEOREM RepliesLag == Spec => []LagBounded
<1>1. IInv => LagBounded
  BY DEF IInv
<1>. QED  BY <1>1, Invariance, PTL
=============================================================================

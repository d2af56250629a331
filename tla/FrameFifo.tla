----------------------------- MODULE FrameFifo -----------------------------
(***************************************************************************)
(* What the acquisition engine takes the DMA driver for: one transfer at a *)
(* time, and a bounded queue of completed frames that are taken in order.  *)
(* After a race ("broken") the driver promises nothing.                    *)
(***************************************************************************)
EXTENDS Naturals, Sequences

CONSTANT Capacity

VARIABLES
  flight,   \* the transfer on the bus, or 0
  queue,    \* completed frames, oldest first
  taken,    \* frames handed to the engine
  started,  \* how many transfers have been started
  broken

vars == <<flight, queue, taken, started, broken>>

Init == flight = 0 /\ queue = <<>> /\ taken = <<>> /\ started = 0 /\ ~broken

\* A transfer is started only when a slot is free for its frame.
Start ==
  /\ flight = 0 /\ Len(queue) < Capacity
  /\ flight' = started + 1 /\ started' = started + 1
  /\ UNCHANGED <<queue, taken, broken>>

Complete ==
  /\ flight # 0
  /\ queue' = Append(queue, flight)
  /\ flight' = 0
  /\ UNCHANGED <<taken, started, broken>>

\* A transfer that fails or is aborted leaves nothing.
Cancel ==
  /\ flight' = 0
  /\ UNCHANGED <<queue, taken, started, broken>>

Take ==
  /\ queue # <<>>
  /\ taken' = Append(taken, Head(queue))
  /\ queue' = Tail(queue)
  /\ UNCHANGED <<flight, started, broken>>

Clear ==
  /\ queue' = <<>>
  /\ UNCHANGED <<flight, taken, started, broken>>

\* The end of one transfer starts the next in the same interrupt.
Chain ==
  /\ flight # 0
  /\ queue' \in {queue, Append(queue, flight)}
  /\ Len(queue') < Capacity
  /\ flight' = started + 1 /\ started' = started + 1
  /\ UNCHANGED <<taken, broken>>

Break == broken'

Next == Start \/ Complete \/ Chain \/ Cancel \/ Take \/ Clear \/ Break

Spec == Init /\ [][Next]_vars
=============================================================================

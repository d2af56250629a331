---------------------------- MODULE AdcDmaProofs ----------------------------
(* Proofs about AdcDma, for any number of slots and of DRDY edges.         *)
EXTENDS AdcDmaRefinement, SequenceTheorems, TLAPS

\* What the types and the first properties rest on: the superloop has seen a
\* frame before it claims one, and only a transfer occupies the bus.
Base ==
  /\ TypeOK
  /\ EdgesConserved
  /\ BusyIsServed
  /\ pc = "claim" => count > 0
  /\ bus = Idle \/ bus.frame # 0

\* Outside the windows: a transfer on the bus is announced, has cleared the
\* error and has a slot left for it; the superloop starts one on a free bus
\* only, and throws frames away with the bus free.
Quiet ==
  ~raced =>
    /\ bus # Idle => busy /\ ~error /\ count < Slots
    /\ pc \in {"countCheck", "slot", "clearSlot", "clearError", "setBusy"} => ~busy
    /\ pc = "launch" => busy
    /\ pc \in {"countCheck", "slot", "clearSlot", "clearError", "setBusy", "launch"}
         => bus = Idle
    /\ pc \in {"slot", "clearSlot", "clearError", "setBusy", "launch"} => count < Slots
    /\ pc \in {"setBusy", "launch"} => ~error
    /\ pc \notin {"failBusy", "failError"}
    /\ pc \in {"abortCs", "abortBusy", "abortTail", "abortCount"} => bus = Idle
    /\ ~(error /\ count = Slots)

-----------------------------------------------------------------------------
(* Types, edges and the busy flag.                                         *)

LEMMA SlotOf == \A n \in Nat : n % Slots \in 0..Slots - 1
  BY AdcDmaAssumption

LEMMA BaseInit == Init => Base
  BY AdcDmaAssumption, SMTT(30) DEF Init, Base, TypeOK, EdgesConserved, BusyIsServed, Locations,
     StartLocations, AbortLocations, Idle, Junk, Frames

\* What an interrupt's attempt to start a transfer keeps, whatever the handler
\* has done before: it may find the bus free only if the flag says so or the
\* handler has ended the transfer on it.
LEMMA TryStartKeepsBase ==
  ASSUME Base,
         NEW p \in 0..MaxEdges, NEW b \in BOOLEAN, NEW e \in BOOLEAN, NEW n \in 0..Slots,
         NEW r \in [0..Slots - 1 -> Frames], NEW free \in BOOLEAN,
         TryStart(p, b, e, n, r, free),
         edges' \in 0..MaxEdges,
         edges' = p + (next - 1) + IF pc \in StartLocations THEN 1 ELSE 0,
         n >= count,
         bus = Idle => free,
         b => busy /\ (free => bus = Idle)
  PROVE  Base'
<1>1. FreeSlot(n) \in 0..Slots - 1
  <2>1. tail + n \in Nat  BY AdcDmaAssumption DEF Base, TypeOK
  <2>. QED  BY <2>1, SlotOf DEF FreeSlot
<1>6. /\ pc' = pc /\ slot' = slot /\ sampling' = sampling /\ closing' = closing
      /\ tail' = tail /\ taken' = taken /\ count' = n
  BY DEF TryStart, loop, run
<1>2. Idle \in [frame : Frames, slot : 0..Slots - 1, spoiled : BOOLEAN]
  BY AdcDmaAssumption DEF Idle, Frames
<1>. DEFINE s == FreeSlot(n)
            wanted == sampling /\ p > 0 /\ ~b
<1>. USE <1>1, AdcDmaAssumption
<1>3. CASE /\ ~wanted \/ n >= Slots
           /\ pending' = p /\ busy' = b /\ error' = e /\ rx' = r
           /\ bus' = IF free THEN Idle ELSE bus
           /\ UNCHANGED <<next, raced>>
  BY <1>2, <1>3, <1>6 DEF Base, TypeOK, EdgesConserved, BusyIsServed
<1>4. CASE /\ wanted /\ n < Slots /\ free
           /\ pending' = p - 1 /\ busy' = TRUE /\ error' = FALSE
           /\ rx' = [r EXCEPT ![s] = Junk]
           /\ Launched(s)
           /\ raced' = (raced \/ Window(s))
  <2>1. next \in 1..MaxEdges
    BY <1>4 DEF Base, TypeOK
  <2>2. rx' \in [0..Slots - 1 -> Frames]
    BY <1>4 DEF Frames, Junk
  <2>3. /\ bus' \in [frame : Frames, slot : 0..Slots - 1, spoiled : BOOLEAN]
        /\ bus'.frame # 0 /\ bus' # Idle
    BY <1>4, <2>1 DEF Launched, Frames, Idle
  <2>4. raced' \in BOOLEAN /\ next' \in 1..MaxEdges + 1 /\ next' = next + 1
    BY <1>4, <2>1 DEF Launched, Base, TypeOK, Window
  <2>. QED
    <3>1. pending' = p - 1 /\ p > 0 /\ busy' = TRUE /\ error' = FALSE
      BY <1>4
    <3>2. TypeOK'
      <4>1. pending' \in 0..MaxEdges
        <5>1. pending' = p - 1 /\ p > 0  BY <3>1
        <5>2. p \in 0..MaxEdges  OBVIOUS
        <5>. QED  BY <5>1, <5>2
      <4>2. busy' \in BOOLEAN /\ error' \in BOOLEAN  BY <3>1, Zenon
      <4>. QED  BY <1>6, <2>2, <2>3, <2>4, <4>1, <4>2 DEF Base, TypeOK
    <3>3. EdgesConserved'
      BY <1>6, <2>1, <2>4, <3>1 DEF EdgesConserved
    <3>4. BusyIsServed'
      BY <2>3 DEF BusyIsServed
    <3>. QED
      BY <1>6, <2>3, <3>2, <3>3, <3>4 DEF Base, TypeOK
<1>5. CASE /\ wanted /\ n < Slots /\ ~free
           /\ pending' = p /\ busy' = FALSE /\ error' = TRUE
           /\ rx' = [r EXCEPT ![s] = Junk]
           /\ Refused
           /\ raced' = (raced \/ Window(s))
  <2>1. rx' \in [0..Slots - 1 -> Frames]
    BY <1>5 DEF Frames, Junk
  <2>2. /\ bus' \in [frame : Frames, slot : 0..Slots - 1, spoiled : BOOLEAN]
        /\ bus'.frame # 0
    BY <1>5 DEF Refused, Base, TypeOK
  <2>3. raced' \in BOOLEAN /\ next' = next
    BY <1>5 DEF Refused, Base, TypeOK, Window
  <2>. QED
    <3>1. pending' = p /\ busy' = FALSE /\ error' = TRUE
      BY <1>5
    <3>2. TypeOK'
      BY <1>6, <2>1, <2>2, <2>3, <3>1 DEF Base, TypeOK
    <3>3. EdgesConserved'
      BY <1>6, <2>3, <3>1 DEF EdgesConserved
    <3>4. BusyIsServed'
      BY <3>1 DEF BusyIsServed
    <3>. QED
      BY <1>6, <2>2, <3>2, <3>3, <3>4 DEF Base, TypeOK
<1>. QED  BY <1>3, <1>4, <1>5 DEF TryStart

LEMMA InterruptKeepsBase == Base /\ Interrupt => Base'
<1>. SUFFICES ASSUME Base, Interrupt PROVE Base'  OBVIOUS
<1>1. CASE Drdy
  <2>1. pending + 1 \in 0..MaxEdges /\ edges' \in 0..MaxEdges
    BY <1>1, AdcDmaAssumption DEF Drdy, Base, TypeOK, EdgesConserved
  <2>2. edges' = (pending + 1) + (next - 1) + IF pc \in StartLocations THEN 1 ELSE 0
    BY <1>1 DEF Drdy, Base, TypeOK, EdgesConserved
  <2>. DEFINE free == bus = Idle
              p == pending + 1
  <2>3. TryStart(p, busy, error, count, rx, free)
    BY <1>1 DEF Drdy
  <2>4. /\ busy \in BOOLEAN /\ error \in BOOLEAN /\ count \in 0..Slots /\ count >= count
        /\ rx \in [0..Slots - 1 -> Frames]
    BY AdcDmaAssumption DEF Base, TypeOK
  <2>5. free \in BOOLEAN /\ (bus = Idle => free) /\ (busy => busy /\ (free => bus = Idle))
    OBVIOUS
  <2>6. p \in 0..MaxEdges /\ edges' = p + (next - 1) + IF pc \in StartLocations THEN 1 ELSE 0
    BY <2>1, <2>2
  <2>. HIDE DEF free, p
  <2>. QED
    BY <2>1, <2>3, <2>4, <2>5, <2>6, TryStartKeepsBase
<1>. DEFINE filled == [rx EXCEPT ![bus.slot] = IF bus.spoiled THEN Junk ELSE bus.frame]
            failed == [rx EXCEPT ![bus.slot] = Junk]
<1>2. filled \in [0..Slots - 1 -> Frames] /\ failed \in [0..Slots - 1 -> Frames]
  BY AdcDmaAssumption DEF Base, TypeOK, Frames, Junk
<1>3. edges = pending + (next - 1) + IF pc \in StartLocations THEN 1 ELSE 0
  BY DEF Base, EdgesConserved
<1>4. CASE DmaComplete
  <2>. DEFINE full == count >= Slots
              n == IF full THEN count ELSE count + 1
              e == error \/ full
  <2>1. n \in 0..Slots /\ n >= count /\ e \in BOOLEAN
    BY AdcDmaAssumption DEF Base, TypeOK
  <2>2. TryStart(pending, FALSE, e, n, filled, TRUE) /\ edges' = edges
    BY <1>4 DEF DmaComplete
  <2>3. pending \in 0..MaxEdges /\ edges \in 0..MaxEdges
    BY DEF Base, TypeOK
  <2>. HIDE DEF n, e, filled
  <2>. QED
    BY <2>1, <2>2, <2>3, <1>2, <1>3, TryStartKeepsBase
<1>5. CASE DmaError
  <2>1. TryStart(pending, FALSE, TRUE, count, failed, TRUE) /\ edges' = edges
    BY <1>5 DEF DmaError
  <2>2. pending \in 0..MaxEdges /\ edges \in 0..MaxEdges /\ count \in 0..Slots /\ count >= count
    BY DEF Base, TypeOK
  <2>. HIDE DEF failed
  <2>. QED
    BY <2>1, <2>2, <1>2, <1>3, TryStartKeepsBase
<1>. QED  BY <1>1, <1>4, <1>5 DEF Interrupt

LEMMA ClearKeepsIdle == TypeOK /\ ClearSlot /\ bus = Idle => bus' = Idle
  BY ZenonT(40) DEF ClearSlot, Idle, TypeOK

LEMMA StartKeepsBase == Base /\ StartRead => Base'
<1>. SUFFICES ASSUME Base, StartRead PROVE Base'  OBVIOUS
<1>. USE AdcDmaAssumption
     DEF Base, TypeOK, EdgesConserved, BusyIsServed, StartLocations, AbortLocations, Locations,
         Goto, loop, run, flags, fifo, hist
<1>1. CASE ServePending  BY <1>1 DEF ServePending
<1>2. CASE CheckBusy  BY <1>2 DEF CheckBusy
<1>3. CASE CheckCount  BY <1>3 DEF CheckCount
<1>4. CASE ComputeSlot
  <2>1. tail + count \in Nat  OBVIOUS
  <2>2. slot' \in 0..Slots - 1  BY <1>4, <2>1, SlotOf DEF ComputeSlot, FreeSlot
  <2>. QED  BY <1>4, <2>2 DEF ComputeSlot
<1>5. CASE ClearSlot
  <2>1. rx' \in [0..Slots - 1 -> Frames]  BY <1>5 DEF ClearSlot, Frames, Junk
  <2>2. /\ bus' \in [frame : Frames, slot : 0..Slots - 1, spoiled : BOOLEAN]
        /\ bus'.frame = bus.frame
    BY <1>5 DEF ClearSlot
  <2>3. bus = Idle => bus' = Idle  BY <1>5, ClearKeepsIdle
  <2>4. bus # Idle => bus' # Idle  BY <2>2 DEF Idle
  <2>. QED  BY <1>5, <2>1, <2>2, <2>3, <2>4 DEF ClearSlot
<1>6. CASE ClearError  BY <1>6 DEF ClearError
<1>7. CASE SetBusy  BY <1>7 DEF SetBusy
<1>8. CASE Launch
  <2>1. CASE bus = Idle /\ Launched(slot) /\ Goto("serve")
    <3>1. next \in 1..MaxEdges  BY <1>8 DEF Launch
    <3>2. /\ bus' \in [frame : Frames, slot : 0..Slots - 1, spoiled : BOOLEAN]
          /\ bus'.frame # 0 /\ bus' # Idle
      BY <2>1, <3>1 DEF Launched, Frames, Idle
    <3>3. next' = next + 1 /\ next' \in 1..MaxEdges + 1  BY <2>1, <3>1 DEF Launched
    <3>. QED  BY <1>8, <2>1, <3>2, <3>3 DEF Launch
  <2>2. CASE bus # Idle /\ Refused /\ Goto("failBusy")
    <3>1. /\ bus' \in [frame : Frames, slot : 0..Slots - 1, spoiled : BOOLEAN]
          /\ bus'.frame = bus.frame /\ next' = next
      BY <2>2 DEF Refused
    <3>. QED  BY <1>8, <2>2, <3>1 DEF Launch
  <2>. QED  BY <1>8, <2>1, <2>2 DEF Launch
<1>9. CASE FailBusy  BY <1>9 DEF FailBusy
<1>10. CASE FailError  BY <1>10 DEF FailError
<1>11. CASE PutBack
  <2>1. pending' \in 0..MaxEdges  BY <1>11 DEF PutBack
  <2>. QED  BY <1>11, <2>1 DEF PutBack
<1>. QED
  BY <1>1, <1>2, <1>3, <1>4, <1>5, <1>6, <1>7, <1>8, <1>9, <1>10, <1>11 DEF StartRead

LEMMA TakeKeepsBase == Base /\ TakeFrame => Base'
<1>. SUFFICES ASSUME Base, TakeFrame PROVE Base'  OBVIOUS
<1>. USE AdcDmaAssumption
     DEF Base, TypeOK, EdgesConserved, BusyIsServed, StartLocations, AbortLocations, Locations,
         Goto, loop, run, flags, fifo, hist
<1>1. CASE TakeCheck  BY <1>1 DEF TakeCheck
<1>2. CASE Claim
  <2>1. tail + 1 \in Nat  OBVIOUS
  <2>2. tail' \in 0..Slots - 1  BY <1>2, <2>1, SlotOf DEF Claim
  <2>. QED  BY <1>2, <2>2 DEF Claim
<1>3. CASE Parse
  <2>1. rx[slot] \in Frames  OBVIOUS
  <2>2. taken' \in Seq(Frames)  BY <1>3, <2>1 DEF Parse
  <2>. QED  BY <1>3, <2>2 DEF Parse
<1>. QED  BY <1>1, <1>2, <1>3 DEF TakeFrame

LEMMA AbortKeepsBase == Base /\ AbortReadDma => Base'
<1>. SUFFICES ASSUME Base, AbortReadDma PROVE Base'  OBVIOUS
<1>. USE AdcDmaAssumption
     DEF Base, TypeOK, EdgesConserved, BusyIsServed, StartLocations, AbortLocations, Locations,
         Goto, loop, run, flags, fifo, hist
<1>1. CASE AbortCheck  BY <1>1 DEF AbortCheck
<1>2. CASE AbortHal
  <2>1. Idle \in [frame : Frames, slot : 0..Slots - 1, spoiled : BOOLEAN]  BY DEF Idle, Frames
  <2>. QED  BY <1>2, <2>1 DEF AbortHal
<1>3. CASE AbortCs
  <2>1. /\ bus' \in [frame : Frames, slot : 0..Slots - 1, spoiled : BOOLEAN]
        /\ bus'.frame = bus.frame
    BY <1>3 DEF AbortCs
  <2>2. bus = Idle => bus' = Idle  BY <1>3 DEF AbortCs, Idle
  <2>. QED  BY <1>3, <2>1, <2>2 DEF AbortCs
<1>4. CASE AbortBusy  BY <1>4 DEF AbortBusy
<1>5. CASE AbortTail  BY <1>5 DEF AbortTail
<1>6. CASE AbortCount  BY <1>6 DEF AbortCount
<1>7. CASE AbortError  BY <1>7 DEF AbortError
<1>. QED  BY <1>1, <1>2, <1>3, <1>4, <1>5, <1>6, <1>7 DEF AbortReadDma

LEMMA BaseNext == Base /\ [Next]_vars => Base'
<1>. SUFFICES ASSUME Base, [Next]_vars PROVE Base'  OBVIOUS
<1>1. CASE Interrupt  BY <1>1, InterruptKeepsBase
<1>2. CASE StartRead \/ TakeFrame \/ AbortReadDma
  BY <1>2, StartKeepsBase, TakeKeepsBase, AbortKeepsBase
<1>3. CASE NextTurn \/ StopRun \/ CloseRun \/ Disarm
  <2>. USE DEF Base, TypeOK, EdgesConserved, BusyIsServed, StartLocations, AbortLocations,
               Locations, Goto, loop, run, flags, fifo, hist
  <2>1. CASE NextTurn  BY <2>1 DEF NextTurn
  <2>2. CASE StopRun  BY <2>2 DEF StopRun
  <2>3. CASE CloseRun  BY <2>3 DEF CloseRun
  <2>4. CASE Disarm  BY <2>4 DEF Disarm
  <2>. QED  BY <1>3, <2>1, <2>2, <2>3, <2>4
<1>4. CASE BeginRun
  <2>1. edges' \in 0..MaxEdges  BY <1>4, AdcDmaAssumption DEF BeginRun, Base, TypeOK, EdgesConserved
  <2>. QED
    BY <1>4, <2>1, AdcDmaAssumption DEF BeginRun, Base, TypeOK, EdgesConserved, BusyIsServed,
       StartLocations, AbortLocations, Locations, Goto, loop, run, flags, fifo, hist
<1>5. CASE UNCHANGED vars
  BY <1>5 DEF vars, Base, TypeOK, EdgesConserved, BusyIsServed, loop, run, flags, fifo, hist
<1>. QED  BY <1>1, <1>2, <1>3, <1>4, <1>5 DEF Next, Superloop

LEMMA BaseHolds == Spec => []Base
  BY BaseInit, BaseNext, PTL DEF Spec

\* The types, and with them the bound on the ready frames: the completion
\* interrupt holds the count at the number of slots whatever was started.
THEOREM AdcTypeCorrect == Spec => []TypeOK
<1>1. Base => TypeOK  BY DEF Base
<1>. QED  BY <1>1, BaseHolds, PTL

\* Each counted DRDY edge is served once or pending, although the superloop
\* and the interrupts both take edges and put them back.
THEOREM EdgesCorrect == Spec => []EdgesConserved
<1>1. Base => EdgesConserved  BY DEF Base
<1>. QED  BY <1>1, BaseHolds, PTL

\* No interleaving leaves the driver busy with no transfer to end it.
THEOREM BusyCorrect == Spec => []BusyIsServed
<1>1. Base => BusyIsServed  BY DEF Base
<1>. QED  BY <1>1, BaseHolds, PTL
-----------------------------------------------------------------------------
(* Outside the windows.                                                    *)

LEMMA QuietInit == Init => Quiet
  BY AdcDmaAssumption DEF Init, Quiet

\* The handler either finds the driver as it is, or has ended the transfer.
LEMMA TryStartKeepsQuiet ==
  ASSUME Base, Quiet,
         NEW p, NEW b \in BOOLEAN, NEW e \in BOOLEAN, NEW n \in 0..Slots, NEW r,
         NEW free \in BOOLEAN,
         TryStart(p, b, e, n, r, free),
         \/ (free <=> bus = Idle) /\ (b <=> busy) /\ (e <=> error) /\ n = count
         \/ bus # Idle /\ free /\ ~b /\ (~raced => ~(e /\ n = Slots))
  PROVE  Quiet'
<1>. SUFFICES ASSUME ~raced' PROVE Quiet'  BY DEF Quiet
<1>1. pc' = pc /\ count' = n
  BY DEF TryStart, loop
<1>. DEFINE s == FreeSlot(n)
            wanted == sampling /\ p > 0 /\ ~b
<1>2. CASE /\ ~wanted \/ n >= Slots
           /\ busy' = b /\ error' = e
           /\ bus' = IF free THEN Idle ELSE bus
           /\ raced' = raced
  <2>. HIDE DEF wanted
  <2>. QED  BY <1>1, <1>2, AdcDmaAssumption DEF Quiet, Base, TypeOK
<1>3. CASE /\ wanted /\ n < Slots /\ free
           /\ busy' = TRUE /\ error' = FALSE
           /\ Launched(s)
           /\ raced' = (raced \/ Window(s))
  <2>1. ~raced /\ ~Window(s)  BY <1>3
  <2>2. busy' /\ ~error' /\ n < Slots /\ ~b  BY <1>3
  <2>. HIDE DEF wanted, s
  <2>. QED  BY <1>1, <2>1, <2>2, AdcDmaAssumption DEF Quiet, Window, Base, TypeOK
<1>4. CASE /\ wanted /\ n < Slots /\ ~free
           /\ raced' = (raced \/ Window(s))
  <2>1. ~raced /\ ~free /\ ~b  BY <1>4
  <2>. QED  BY <2>1 DEF Quiet
<1>. QED  BY <1>2, <1>3, <1>4 DEF TryStart

LEMMA InterruptKeepsQuiet == Base /\ Quiet /\ Interrupt => Quiet'
<1>. SUFFICES ASSUME Base, Quiet, Interrupt PROVE Quiet'  OBVIOUS
<1>0. busy \in BOOLEAN /\ error \in BOOLEAN /\ count \in 0..Slots
  BY DEF Base, TypeOK
<1>1. CASE Drdy
  <2>. DEFINE free == bus = Idle
              p == pending + 1
  <2>1. TryStart(p, busy, error, count, rx, free)  BY <1>1 DEF Drdy
  <2>2. free \in BOOLEAN /\ (free <=> bus = Idle)  OBVIOUS
  <2>. HIDE DEF free, p
  <2>. QED  BY <1>0, <2>1, <2>2, TryStartKeepsQuiet
<1>. DEFINE filled == [rx EXCEPT ![bus.slot] = IF bus.spoiled THEN Junk ELSE bus.frame]
            failed == [rx EXCEPT ![bus.slot] = Junk]
<1>2. CASE DmaComplete
  <2>. DEFINE full == count >= Slots
              n == IF full THEN count ELSE count + 1
              e == error \/ full
  <2>1. bus # Idle /\ TryStart(pending, FALSE, e, n, filled, TRUE)
    BY <1>2 DEF DmaComplete
  <2>2. n \in 0..Slots /\ e \in BOOLEAN
    BY <1>0, AdcDmaAssumption
  <2>3. ~raced => ~e
    BY <1>0, <2>1, AdcDmaAssumption DEF Quiet
  <2>. HIDE DEF n, e, filled
  <2>. QED  BY <2>1, <2>2, <2>3, TryStartKeepsQuiet
<1>3. CASE DmaError
  <2>1. bus # Idle /\ TryStart(pending, FALSE, TRUE, count, failed, TRUE)
    BY <1>3 DEF DmaError
  <2>2. ~raced => count # Slots
    BY <1>0, <2>1, AdcDmaAssumption DEF Quiet
  <2>. HIDE DEF failed
  <2>. QED  BY <1>0, <2>1, <2>2, TryStartKeepsQuiet
<1>. QED  BY <1>1, <1>2, <1>3 DEF Interrupt

LEMMA SuperloopKeepsQuiet == Base /\ Quiet /\ Superloop => Quiet'
<1>. SUFFICES ASSUME Base, Quiet, Superloop, ~raced' PROVE Quiet'  BY DEF Quiet
<1>. USE AdcDmaAssumption DEF Quiet, Goto, loop, run, flags, fifo, hist
<1>0. /\ busy \in BOOLEAN /\ error \in BOOLEAN /\ count \in 0..Slots
  BY DEF Base, TypeOK
<1>1. CASE ServePending  BY <1>1 DEF ServePending
<1>2. CASE CheckBusy  BY <1>2 DEF CheckBusy
<1>3. CASE CheckCount  BY <1>0, <1>3 DEF CheckCount
<1>4. CASE ComputeSlot  BY <1>4 DEF ComputeSlot
<1>5. CASE ClearSlot
  <2>1. bus' = Idle  BY <1>5, ClearKeepsIdle DEF ClearSlot, Base
  <2>. QED  BY <1>5, <2>1 DEF ClearSlot
<1>6. CASE ClearError  BY <1>6 DEF ClearError
<1>7. CASE SetBusy  BY <1>7 DEF SetBusy
<1>8. CASE Launch  BY <1>8 DEF Launch
<1>9. CASE FailBusy  BY <1>9 DEF FailBusy
<1>10. CASE FailError  BY <1>10 DEF FailError
<1>11. CASE PutBack  BY <1>11 DEF PutBack
<1>12. CASE TakeCheck  BY <1>12 DEF TakeCheck
<1>13. CASE Claim  BY <1>0, <1>13 DEF Claim, Base
<1>14. CASE Parse  BY <1>14 DEF Parse
<1>15. CASE AbortCheck  BY <1>15 DEF AbortCheck
<1>16. CASE AbortHal  BY <1>16 DEF AbortHal
<1>17. CASE AbortCs  BY <1>17 DEF AbortCs
<1>18. CASE AbortBusy  BY <1>18 DEF AbortBusy
<1>19. CASE AbortTail  BY <1>19 DEF AbortTail
<1>20. CASE AbortCount  BY <1>20 DEF AbortCount
<1>21. CASE AbortError  BY <1>21 DEF AbortError
<1>22. CASE NextTurn \/ StopRun \/ CloseRun \/ Disarm \/ BeginRun
  BY <1>22 DEF NextTurn, StopRun, CloseRun, Disarm, BeginRun
<1>. QED
  BY <1>1, <1>2, <1>3, <1>4, <1>5, <1>6, <1>7, <1>8, <1>9, <1>10, <1>11, <1>12, <1>13, <1>14,
     <1>15, <1>16, <1>17, <1>18, <1>19, <1>20, <1>21, <1>22
     DEF Superloop, StartRead, TakeFrame, AbortReadDma

LEMMA QuietNext == Base /\ Quiet /\ [Next]_vars => Quiet'
<1>. SUFFICES ASSUME Base, Quiet, [Next]_vars PROVE Quiet'  OBVIOUS
<1>1. CASE UNCHANGED vars  BY <1>1 DEF vars, Quiet, loop, run, flags, fifo, hist
<1>. QED  BY <1>1, InterruptKeepsQuiet, SuperloopKeepsQuiet DEF Next

\* The ring wedges, full and with an error that forbids taking from it, only
\* after an interrupt has started a transfer in a window.
THEOREM WedgeCorrect == Spec => []WedgedOnlyByRace
<1>1. Quiet => WedgedOnlyByRace  BY DEF Quiet, WedgedOnlyByRace
<1>. QED  BY <1>1, QuietNext, QuietInit, BaseHolds, PTL DEF Spec

-----------------------------------------------------------------------------
(* The ring.                                                               *)

\* The frames of a ring r with n ready from slot t on.
Ring(t, n, r) == [i \in 1..n |-> r[(t + i - 1) % Slots]]

LEMMA Wraps ==
  ASSUME NEW n \in 0..2 * Slots - 1
  PROVE  n % Slots = IF n < Slots THEN n ELSE n - Slots
<1>1. Slots \in Nat /\ Slots > 0  BY AdcDmaAssumption
<1>2. CASE n < Slots  BY <1>1, <1>2
<1>3. CASE n >= Slots
  <2>1. n - Slots \in 0..Slots - 1  BY <1>1, <1>3
  <2>2. n % Slots = (n - Slots) % Slots  BY <1>1, <1>3
  <2>3. (n - Slots) % Slots = n - Slots  BY <1>1, <2>1
  <2>. QED  BY <1>1, <1>3, <2>2, <2>3
<1>. QED  BY <1>1, <1>2, <1>3

\* Fewer than Slots places further on is another slot.
LEMMA OtherSlot ==
  ASSUME NEW t \in 0..Slots - 1, NEW i \in 0..Slots, NEW j \in 0..Slots - 1, j < i, i < Slots
  PROVE  (t + j) % Slots # (t + i) % Slots
<1>1. Slots \in Nat /\ Slots > 0  BY AdcDmaAssumption
<1>2. t + j \in 0..2 * Slots - 1 /\ t + i \in 0..2 * Slots - 1  BY <1>1
<1>3. /\ (t + j) % Slots = IF t + j < Slots THEN t + j ELSE t + j - Slots
      /\ (t + i) % Slots = IF t + i < Slots THEN t + i ELSE t + i - Slots
  BY <1>1, <1>2, Wraps
<1>. QED  BY <1>1, <1>3

LEMMA NextSlot ==
  ASSUME NEW t \in 0..Slots - 1, NEW i \in 0..Slots - 1
  PROVE  (((t + 1) % Slots) + i) % Slots = (t + 1 + i) % Slots
<1>1. Slots \in Nat /\ Slots > 0  BY AdcDmaAssumption
<1>2. (t + 1) % Slots = IF t + 1 < Slots THEN t + 1 ELSE 0
  <2>1. t + 1 \in 0..2 * Slots - 1  BY <1>1
  <2>2. (t + 1) % Slots = IF t + 1 < Slots THEN t + 1 ELSE t + 1 - Slots  BY <1>1, <2>1, Wraps
  <2>. QED  BY <1>1, <2>2
<1>3. CASE t + 1 < Slots  BY <1>2, <1>3
<1>4. CASE t + 1 >= Slots
  <2>1. t + 1 = Slots  BY <1>1, <1>4
  <2>2. ((t + 1) % Slots) + i = i  BY <1>2, <2>1
  <2>3. t + 1 + i \in 0..2 * Slots - 1 /\ i \in 0..2 * Slots - 1  BY <1>1, <2>1
  <2>4. (t + 1 + i) % Slots = i /\ i % Slots = i  BY <1>1, <2>1, <2>3, Wraps
  <2>. QED  BY <2>2, <2>4
<1>. QED  BY <1>1, <1>3, <1>4

LEMMA RingType ==
  ASSUME NEW t \in 0..Slots - 1, NEW n \in 0..Slots, NEW r \in [0..Slots - 1 -> Frames]
  PROVE  Ring(t, n, r) \in Seq(Frames) /\ Len(Ring(t, n, r)) = n
<1>0. Slots \in Nat /\ Slots > 0 /\ n \in Nat /\ t \in Nat  BY AdcDmaAssumption
<1>1. ASSUME NEW i \in 1..n PROVE r[(t + i - 1) % Slots] \in Frames
  <2>1. t + i - 1 \in Nat  BY <1>0
  <2>2. (t + i - 1) % Slots \in 0..Slots - 1  BY <2>1, SlotOf
  <2>. QED  BY <2>2
<1>. QED  BY <1>0, <1>1 DEF Ring

\* What is written to the free slot is not among the frames that are ready.
LEMMA RingFree ==
  ASSUME NEW t \in 0..Slots - 1, NEW n \in 0..Slots - 1, NEW r, NEW q,
         \A s \in 0..Slots - 1 : s # (t + n) % Slots => q[s] = r[s]
  PROVE  Ring(t, n, q) = Ring(t, n, r)
<1>0. Slots \in Nat /\ Slots > 0  BY AdcDmaAssumption
<1>1. ASSUME NEW i \in 1..n PROVE q[(t + i - 1) % Slots] = r[(t + i - 1) % Slots]
  <2>1. i - 1 \in 0..Slots - 1 /\ i - 1 < n /\ n \in 0..Slots /\ n < Slots /\ t + i - 1 = t + (i - 1)
    BY <1>0
  <2>2. (t + (i - 1)) % Slots # (t + n) % Slots  BY <2>1, OtherSlot
  <2>3. t + (i - 1) \in Nat  BY <1>0
  <2>4. (t + (i - 1)) % Slots \in 0..Slots - 1  BY <2>3, SlotOf
  <2>. QED  BY <2>1, <2>2, <2>4
<1>. QED  BY <1>1 DEF Ring

\* And then it is, the newest of them.
LEMMA RingAppend ==
  ASSUME NEW t \in 0..Slots - 1, NEW n \in 0..Slots - 1, NEW r \in [0..Slots - 1 -> Frames]
  PROVE  Ring(t, n + 1, r) = Append(Ring(t, n, r), r[(t + n) % Slots])
<1>0. Slots \in Nat /\ Slots > 0 /\ n \in Nat /\ t \in Nat  BY AdcDmaAssumption
<1>1. Len(Ring(t, n, r)) = n  BY <1>0, RingType
<1>2. t + (n + 1) - 1 = t + n  BY <1>0
<1>3. ASSUME NEW i \in 1..n + 1
      PROVE  Append(Ring(t, n, r), r[(t + n) % Slots])[i] = r[(t + i - 1) % Slots]
  <2>1. CASE i <= n
    <3>1. i \in 1..n  BY <1>0, <2>1
    <3>. QED  BY <1>0, <3>1 DEF Ring
  <2>2. CASE ~(i <= n)
    <3>1. i = n + 1  BY <1>0, <2>2
    <3>. QED  BY <1>0, <1>1, <1>2, <3>1 DEF Ring
  <2>. QED  BY <2>1, <2>2
<1>4. Append(Ring(t, n, r), r[(t + n) % Slots])
        = [i \in 1..n + 1 |-> Append(Ring(t, n, r), r[(t + n) % Slots])[i]]
  <2>1. t + n \in Nat /\ n \in 0..Slots  BY <1>0
  <2>2. r[(t + n) % Slots] \in Frames  BY <2>1, SlotOf
  <2>3. Ring(t, n, r) \in Seq(Frames)  BY <2>1, RingType
  <2>. DEFINE s == Append(Ring(t, n, r), r[(t + n) % Slots])
  <2>4. s \in Seq(Frames) /\ Len(s) = n + 1
    BY <1>1, <2>2, <2>3, AppendProperties
  <2>. HIDE DEF s
  <2>5. s = [i \in 1..n + 1 |-> s[i]]  BY <2>4
  <2>. QED  BY <2>5 DEF s
<1>. QED  BY <1>3, <1>4 DEF Ring

\* The oldest is in the slot t.
LEMMA RingTake ==
  ASSUME NEW t \in 0..Slots - 1, NEW n \in 1..Slots, NEW r
  PROVE  /\ Ring(t, n, r) # <<>>
         /\ Head(Ring(t, n, r)) = r[t]
         /\ Tail(Ring(t, n, r)) = Ring((t + 1) % Slots, n - 1, r)
<1>0. Slots \in Nat /\ Slots > 0 /\ n \in Nat /\ n >= 1 /\ t \in Nat  BY AdcDmaAssumption
<1>1. Len(Ring(t, n, r)) = n  BY <1>0 DEF Ring
<1>2. Head(Ring(t, n, r)) = r[t]
  <2>1. t + 1 - 1 = t /\ 1 \in 1..n  BY <1>0
  <2>2. t \in 0..2 * Slots - 1  BY <1>0
  <2>3. t % Slots = t  BY <1>0, <2>2, Wraps
  <2>4. Ring(t, n, r)[1] = r[t]  BY <2>1, <2>3 DEF Ring
  <2>. QED  BY <2>4
<1>3. Tail(Ring(t, n, r)) = [i \in 1..n - 1 |-> Ring(t, n, r)[i + 1]]
  <2>1. Ring(t, n, r) = [i \in 1..n |-> Ring(t, n, r)[i]]  BY DEF Ring
  <2>. QED  BY <1>0, <1>1, <2>1
<1>4. ASSUME NEW i \in 1..n - 1
      PROVE  Ring(t, n, r)[i + 1] = r[(((t + 1) % Slots) + i - 1) % Slots]
  <2>1. i + 1 \in 1..n /\ i - 1 \in 0..Slots - 1 /\ t + (i + 1) - 1 = t + 1 + (i - 1)
    BY <1>0
  <2>2. (((t + 1) % Slots) + (i - 1)) % Slots = (t + 1 + (i - 1)) % Slots  BY <2>1, NextSlot
  <2>3. (t + 1) % Slots \in Nat  BY <1>0
  <2>4. ((t + 1) % Slots) + i - 1 = ((t + 1) % Slots) + (i - 1)  BY <2>1, <2>3, <1>0
  <2>. QED  BY <2>1, <2>2, <2>4 DEF Ring
<1>5. Ring((t + 1) % Slots, n - 1, r)
        = [i \in 1..n - 1 |-> r[(((t + 1) % Slots) + i - 1) % Slots]]
  BY DEF Ring
<1>6. Ring(t, n, r) # <<>>  BY <1>0, <1>1
<1>7. [i \in 1..n - 1 |-> Ring(t, n, r)[i + 1]]
        = [i \in 1..n - 1 |-> r[(((t + 1) % Slots) + i - 1) % Slots]]
  BY <1>4
<1>. QED  BY <1>2, <1>3, <1>5, <1>6, <1>7
-----------------------------------------------------------------------------
(* What the transfer on the bus will fill.                                 *)

\* Outside the windows: the transfer on the bus goes unspoiled to the free slot, the
\* superloop starts one there, and it reads another slot.
Placed ==
  ~raced =>
    /\ bus # Idle => bus.slot = FreeSlot(count) /\ ~bus.spoiled
    /\ pc \in {"clearSlot", "clearError", "setBusy", "launch"} => slot = FreeSlot(count)
    /\ pc = "parse" /\ bus # Idle => bus.slot # slot

LEMMA PlacedInit == Init => Placed
  BY DEF Init, Placed

\* What comes of an interrupt outside the windows, when its handler leaves n frames
\* ready in the buffers r and the bus free or not.
Tried(n, r, free) ==
  /\ ~raced /\ UNCHANGED <<pc, slot, tail, taken, raced>> /\ count' = n
  /\ \/ rx' = r /\ next' = next /\ bus' = IF free THEN Idle ELSE bus
     \/ /\ n < Slots /\ free /\ rx' = [r EXCEPT ![FreeSlot(n)] = Junk]
        /\ Launched(FreeSlot(n)) /\ ~Window(FreeSlot(n)) /\ pc # "launch"

LEMMA TryStartCases ==
  ASSUME Base, Quiet,
         NEW p, NEW b \in BOOLEAN, NEW e \in BOOLEAN, NEW n \in 0..Slots, NEW r,
         NEW free \in BOOLEAN,
         TryStart(p, b, e, n, r, free), ~raced',
         \/ (free <=> bus = Idle) /\ (b <=> busy) /\ n = count
         \/ bus # Idle /\ free
  PROVE  Tried(n, r, free)
<1>. USE DEF Tried
<1>1. UNCHANGED <<pc, slot, tail, taken>> /\ count' = n
  BY DEF TryStart, loop
<1>0. raced \in BOOLEAN  BY DEF Base, TypeOK
<1>. DEFINE s == FreeSlot(n)
            wanted == sampling /\ p > 0 /\ ~b
<1>2. CASE /\ rx' = r
           /\ bus' = IF free THEN Idle ELSE bus
           /\ UNCHANGED <<next, raced>>
  BY <1>1, <1>2
<1>3. CASE /\ wanted /\ n < Slots /\ free
           /\ rx' = [r EXCEPT ![s] = Junk]
           /\ Launched(s)
           /\ raced' = (raced \/ Window(s))
  <2>1. ~raced /\ ~Window(s) /\ ~b  BY <1>3
  <2>2. pc # "launch"  BY <1>3, <2>1 DEF Quiet
  <2>3. raced' = raced  BY <1>0, <1>3, <2>1 DEF Window
  <2>. QED  BY <1>1, <1>3, <2>1, <2>2, <2>3
<1>4. CASE /\ wanted /\ ~free
           /\ raced' = (raced \/ Window(s))
  <2>1. ~raced /\ ~free /\ ~b  BY <1>4
  <2>. QED  BY <2>1 DEF Quiet
<1>. QED  BY <1>2, <1>3, <1>4 DEF TryStart

LEMMA TryStartKeepsPlaced ==
  ASSUME Base, Quiet, Placed,
         NEW p, NEW b \in BOOLEAN, NEW e \in BOOLEAN, NEW n \in 0..Slots, NEW r,
         NEW free \in BOOLEAN,
         TryStart(p, b, e, n, r, free),
         \/ (free <=> bus = Idle) /\ (b <=> busy) /\ n = count
         \/ bus # Idle /\ free
  PROVE  Placed'
<1>. SUFFICES ASSUME ~raced' PROVE Placed'  BY DEF Placed
<1>1. /\ ~raced /\ UNCHANGED <<pc, slot, tail, taken>> /\ count' = n
      /\ \/ bus' = IF free THEN Idle ELSE bus
         \/ Launched(FreeSlot(n)) /\ ~Window(FreeSlot(n)) /\ pc # "launch"
  <2>1. Tried(n, r, free)  BY TryStartCases
  <2>. QED  BY <2>1 DEF Tried
<1>2. FreeSlot(count)' = FreeSlot(n)  BY <1>1 DEF FreeSlot
<1>3. CASE bus' = IF free THEN Idle ELSE bus
  <2>1. pc \in {"clearSlot", "clearError", "setBusy", "launch"} => bus = Idle
    BY <1>1 DEF Quiet
  <2>2. bus # Idle /\ ~free => n = count  OBVIOUS
  <2>3. bus = Idle => n = count  OBVIOUS
  <2>. QED  BY <1>1, <1>2, <1>3, <2>1, <2>2, <2>3 DEF Placed
<1>4. CASE Launched(FreeSlot(n)) /\ ~Window(FreeSlot(n)) /\ pc # "launch"
  <2>1. bus'.slot = FreeSlot(n) /\ ~bus'.spoiled  BY <1>4 DEF Launched
  <2>2. pc \notin {"clearSlot", "clearError", "setBusy", "launch"}
        /\ ~(pc = "parse" /\ FreeSlot(n) = slot)
    BY <1>4 DEF Window
  <2>. QED  BY <1>1, <1>2, <2>1, <2>2 DEF Placed
<1>. QED  BY <1>1, <1>3, <1>4

LEMMA InterruptKeepsPlaced == Base /\ Quiet /\ Placed /\ Interrupt => Placed'
<1>. SUFFICES ASSUME Base, Quiet, Placed, Interrupt PROVE Placed'  OBVIOUS
<1>0. busy \in BOOLEAN /\ error \in BOOLEAN /\ count \in 0..Slots
  BY DEF Base, TypeOK
<1>1. CASE Drdy
  <2>. DEFINE free == bus = Idle
              p == pending + 1
  <2>1. TryStart(p, busy, error, count, rx, free)  BY <1>1 DEF Drdy
  <2>2. free \in BOOLEAN /\ (free <=> bus = Idle)  OBVIOUS
  <2>. HIDE DEF free, p
  <2>. QED  BY <1>0, <2>1, <2>2, TryStartKeepsPlaced
<1>. DEFINE filled == [rx EXCEPT ![bus.slot] = IF bus.spoiled THEN Junk ELSE bus.frame]
            failed == [rx EXCEPT ![bus.slot] = Junk]
<1>2. CASE DmaComplete
  <2>. DEFINE full == count >= Slots
              n == IF full THEN count ELSE count + 1
              e == error \/ full
  <2>1. bus # Idle /\ TryStart(pending, FALSE, e, n, filled, TRUE)
    BY <1>2 DEF DmaComplete
  <2>2. n \in 0..Slots /\ e \in BOOLEAN
    BY <1>0, AdcDmaAssumption
  <2>. HIDE DEF n, e, filled
  <2>. QED  BY <2>1, <2>2, TryStartKeepsPlaced
<1>3. CASE DmaError
  <2>1. bus # Idle /\ TryStart(pending, FALSE, TRUE, count, failed, TRUE)
    BY <1>3 DEF DmaError
  <2>. HIDE DEF failed
  <2>. QED  BY <1>0, <2>1, TryStartKeepsPlaced
<1>. QED  BY <1>1, <1>2, <1>3 DEF Interrupt

\* The claimed frame leaves the free slot where it is, and is not in it.
LEMMA ClaimedSlot ==
  ASSUME NEW t \in 0..Slots - 1, NEW n \in 1..Slots
  PROVE  /\ (((t + 1) % Slots) + (n - 1)) % Slots = (t + n) % Slots
         /\ n < Slots => (t + n) % Slots # t
<1>0. Slots \in Nat /\ Slots > 0 /\ n \in Nat /\ n >= 1 /\ t \in Nat  BY AdcDmaAssumption
<1>1. (((t + 1) % Slots) + (n - 1)) % Slots = (t + 1 + (n - 1)) % Slots
  <2>1. n - 1 \in 0..Slots - 1  BY <1>0
  <2>. QED  BY <2>1, NextSlot
<1>2. t + 1 + (n - 1) = t + n  BY <1>0
<1>3. ASSUME n < Slots PROVE (t + n) % Slots # t
  <2>1. (t + 0) % Slots # (t + n) % Slots
    <3>1. 0 \in 0..Slots - 1 /\ n \in 0..Slots /\ 0 < n  BY <1>0
    <3>. QED  BY <1>3, <3>1, OtherSlot
  <2>2. (t + 0) % Slots = t
    <3>1. t + 0 \in 0..2 * Slots - 1 /\ t + 0 = t  BY <1>0
    <3>. QED  BY <1>0, <3>1, Wraps
  <2>. QED  BY <2>1, <2>2
<1>. QED  BY <1>1, <1>2, <1>3

LEMMA SuperloopKeepsPlaced == Base /\ Quiet /\ Placed /\ Superloop => Placed'
<1>. SUFFICES ASSUME Base, Quiet, Placed, Superloop, ~raced' PROVE Placed'  BY DEF Placed
<1>. USE DEF Goto, loop, run, flags, fifo, hist
<1>0. ~raced /\ raced' = raced /\ UNCHANGED <<raced>>
  BY DEF Superloop, StartRead, TakeFrame, AbortReadDma, ServePending, CheckBusy, CheckCount,
     ComputeSlot, ClearSlot, ClearError, SetBusy, Launch, FailBusy, FailError, PutBack,
     TakeCheck, Claim, Parse, AbortCheck, AbortHal, AbortCs, AbortBusy, AbortTail,
     AbortCount, AbortError, NextTurn, StopRun, CloseRun, Disarm, BeginRun
<1>. USE <1>0 DEF Placed, FreeSlot
<1>1. CASE ServePending \/ CheckBusy \/ CheckCount
  BY <1>1 DEF ServePending, CheckBusy, CheckCount
<1>2. CASE ComputeSlot  BY <1>2 DEF ComputeSlot
<1>3. CASE ClearSlot
  <2>1. bus = Idle /\ bus' = Idle  BY <1>3, ClearKeepsIdle DEF Base, Quiet, ClearSlot
  <2>. QED  BY <1>3, <2>1 DEF ClearSlot
<1>4. CASE ClearError \/ SetBusy \/ FailBusy \/ FailError \/ PutBack
  BY <1>4 DEF ClearError, SetBusy, FailBusy, FailError, PutBack
<1>5. CASE Launch
  <2>1. bus = Idle /\ Launched(slot) /\ pc' = "serve" /\ pc = "launch" /\ UNCHANGED <<tail, count>>
    BY <1>5 DEF Launch, Quiet
  <2>. QED  BY <2>1 DEF Launched
<1>6. CASE TakeCheck \/ Parse  BY <1>6 DEF TakeCheck, Parse
<1>7. CASE Claim
  <2>1. /\ pc' = "parse" /\ slot' = tail /\ tail' = (tail + 1) % Slots /\ count' = count - 1
        /\ bus' = bus
    BY <1>7 DEF Claim
  <2>2. tail \in 0..Slots - 1 /\ count \in 1..Slots
    BY <1>7, AdcDmaAssumption DEF Base, TypeOK, Claim
  <2>3. (tail' + count') % Slots = (tail + count) % Slots
        /\ (count < Slots => (tail + count) % Slots # tail)
    <3>. HIDE DEF Placed, FreeSlot
    <3>. QED  BY <2>1, <2>2, ClaimedSlot
  <2>4. bus # Idle => count < Slots  BY DEF Quiet
  <2>. QED  BY <2>1, <2>3, <2>4
<1>8. CASE AbortCheck \/ AbortBusy \/ AbortError
  BY <1>8 DEF AbortCheck, AbortBusy, AbortError
<1>9. CASE AbortHal \/ AbortCs
  BY <1>9 DEF AbortHal, AbortCs, Quiet
<1>10. CASE AbortTail \/ AbortCount
  BY <1>10 DEF AbortTail, AbortCount, Quiet
<1>11. CASE NextTurn \/ StopRun \/ CloseRun \/ Disarm \/ BeginRun
  BY <1>11 DEF NextTurn, StopRun, CloseRun, Disarm, BeginRun
<1>. QED
  BY <1>1, <1>2, <1>3, <1>4, <1>5, <1>6, <1>7, <1>8, <1>9, <1>10, <1>11
     DEF Superloop, StartRead, TakeFrame, AbortReadDma

LEMMA PlacedNext == Base /\ Quiet /\ Placed /\ [Next]_vars => Placed'
<1>. SUFFICES ASSUME Base, Quiet, Placed, [Next]_vars PROVE Placed'  OBVIOUS
<1>1. CASE UNCHANGED vars
  BY <1>1 DEF vars, Placed, FreeSlot, loop, run, flags, fifo, hist
<1>. QED  BY <1>1, InterruptKeepsPlaced, SuperloopKeepsPlaced DEF Next

-----------------------------------------------------------------------------
(* The driver implements the queue of frames.                              *)

LEMMA ReadyIs ==
  /\ pc # "abortCount" => Ready = Ring(tail, count, rx)
  /\ pc = "abortCount" => Ready = <<>>
  /\ pc' # "abortCount" => Ready' = Ring(tail', count', rx')
  /\ pc' = "abortCount" => Ready' = <<>>
BY DEF Ready, Ring

LEMMA DeliveredIs ==
  /\ Delivered = IF pc = "parse" THEN Append(taken, rx[slot]) ELSE taken
  /\ Delivered' = IF pc' = "parse" THEN Append(taken', rx'[slot']) ELSE taken'
BY DEF Delivered

\* What is started is the next transfer, on a bus that carried none.
LEMMA LaunchedIs ==
  ASSUME Base, NEW s, Launched(s)
  PROVE  bus'.frame = (next - 1) + 1 /\ next' - 1 = (next - 1) + 1
<1>1. next \in Nat /\ next >= 1  BY AdcDmaAssumption DEF Base, TypeOK
<1>. QED  BY <1>1 DEF Launched

\* An interrupt that finds the ring as it is: a start, or nothing.
LEMMA EdgeImplements ==
  ASSUME Base, Quiet, Placed, ~raced', Tried(count, rx, bus = Idle)
  PROVE  Fifo!Start \/ UNCHANGED Fifo!vars
<1>0. /\ tail \in 0..Slots - 1 /\ count \in 0..Slots /\ rx \in [0..Slots - 1 -> Frames]
      /\ raced' = raced
  <2>1. raced' = raced  BY DEF Tried
  <2>. QED  BY <2>1 DEF Base, TypeOK
<1>1. CASE rx' = rx /\ next' = next /\ bus' = IF bus = Idle THEN Idle ELSE bus
  <2>1. bus' = bus  BY <1>1
  <2>2. UNCHANGED <<pc, slot, tail, count, rx, next, taken, raced>>  BY <1>1 DEF Tried
  <2>3. Ready' = Ready /\ Delivered' = Delivered  BY <2>2 DEF Ready, Delivered
  <2>. QED  BY <2>1, <2>2, <2>3 DEF Fifo!vars
<1>2. CASE /\ count < Slots /\ bus = Idle /\ rx' = [rx EXCEPT ![FreeSlot(count)] = Junk]
           /\ Launched(FreeSlot(count)) /\ ~Window(FreeSlot(count))
  <2>1. pc # "abortCount" /\ UNCHANGED <<pc, slot, tail, count, taken>>
    BY <1>2 DEF Window, Tried
  <2>2. Ready' = Ready /\ Len(Ready) = count
    <3>1. Ready = Ring(tail, count, rx) /\ Ready' = Ring(tail, count, rx')
      BY <2>1, ReadyIs
    <3>2. count \in 0..Slots - 1  BY <1>0, <1>2, AdcDmaAssumption
    <3>3. Ring(tail, count, rx') = Ring(tail, count, rx)
      <4>1. \A s \in 0..Slots - 1 : s # (tail + count) % Slots => rx'[s] = rx[s]
        BY <1>0, <1>2 DEF FreeSlot
      <4>2. PICK q : q = rx'  OBVIOUS
      <4>3. Ring(tail, count, q) = Ring(tail, count, rx)
        BY <1>0, <3>2, <4>1, <4>2, RingFree, ZenonT(40)
      <4>. QED  BY <4>2, <4>3
    <3>. QED  BY <1>0, <3>1, <3>3, RingType
  <2>3. Delivered' = Delivered
    <3>1. pc = "parse" => FreeSlot(count) # slot  BY <1>2 DEF Window
    <3>2. slot \in 0..Slots - 1  BY DEF Base, TypeOK
    <3>3. pc = "parse" => rx'[slot] = rx[slot]  BY <1>0, <1>2, <3>1, <3>2
    <3>. QED  BY <2>1, <3>3, DeliveredIs
  <2>. QED  BY <1>0, <1>2, <2>2, <2>3, LaunchedIs DEF Fifo!Start, Idle
<1>. QED  BY <1>1, <1>2 DEF Tried

\* The end of a transfer.  What it has left in its slot is w: the frame becomes the
\* newest that is ready, or the bus is free and nothing else has changed; then the next
\* transfer may start.
LEMMA EndImplements ==
  ASSUME Base, Quiet, Placed, ~raced', bus # Idle,
         NEW w \in Frames, NEW n \in {count, count + 1},
         n = count + 1 => w = bus.frame,
         Tried(n, [rx EXCEPT ![bus.slot] = w], TRUE)
  PROVE  Fifo!Complete \/ Fifo!Cancel \/ Fifo!Chain
<1>0. /\ tail \in 0..Slots - 1 /\ count \in 0..Slots /\ rx \in [0..Slots - 1 -> Frames]
      /\ raced' = raced /\ ~raced /\ slot \in 0..Slots - 1
      /\ bus.slot \in 0..Slots - 1 /\ bus.frame # 0 /\ Slots \in Nat /\ Slots > 0
  <2>1. raced' = raced /\ ~raced  BY DEF Tried
  <2>. QED  BY <2>1, AdcDmaAssumption DEF Base, TypeOK
<1>1. /\ count \in 0..Slots - 1 /\ pc # "abortCount" /\ bus.slot = (tail + count) % Slots
      /\ pc = "parse" => bus.slot # slot
  <2>1. count < Slots  BY <1>0 DEF Quiet
  <2>2. pc # "abortCount"  BY <1>0 DEF Quiet
  <2>3. bus.slot = (tail + count) % Slots  BY <1>0 DEF Placed, FreeSlot
  <2>4. pc = "parse" => bus.slot # slot  BY <1>0 DEF Placed
  <2>. QED  BY <1>0, <2>1, <2>2, <2>3, <2>4
<1>. DEFINE r == [rx EXCEPT ![bus.slot] = w]
<1>2. r \in [0..Slots - 1 -> Frames]  BY <1>0
<1>3. UNCHANGED <<pc, slot, tail, taken>> /\ count' = n  BY DEF Tried
<1>4. Ready = Ring(tail, count, rx) /\ Ready' = Ring(tail, n, rx')
  BY <1>1, <1>3, ReadyIs
\* before the next transfer starts
<1>5. Ring(tail, n, r) = IF n = count THEN Ready ELSE Append(Ready, bus.frame)
  <2>1. Ring(tail, count, r) = Ring(tail, count, rx)
    <3>1. \A s \in 0..Slots - 1 : s # (tail + count) % Slots => r[s] = rx[s]
      BY <1>0, <1>1
    <3>. HIDE DEF r
    <3>. QED  BY <1>0, <1>1, <3>1, RingFree
  <2>2. Ring(tail, count + 1, r) = Append(Ring(tail, count, r), r[bus.slot])
    BY <1>0, <1>1, <1>2, RingAppend
  <2>3. r[bus.slot] = w  BY <1>0
  <2>4. CASE n = count  BY <1>4, <2>1, <2>4
  <2>5. CASE n # count
    <3>1. n = count + 1  BY <2>5
    <3>. HIDE DEF r
    <3>. QED  BY <1>4, <2>1, <2>2, <2>3, <2>5, <3>1
  <2>. QED  BY <2>4, <2>5
<1>6. pc = "parse" => r[slot] = rx[slot]  BY <1>0, <1>1
<1>. HIDE DEF r
<1>7. Tried(n, r, TRUE)  BY DEF r
<1>8. CASE rx' = r /\ next' = next /\ bus' = Idle
  <2>1. Delivered' = Delivered  BY <1>3, <1>6, <1>8, DeliveredIs
  <2>2. bus'.frame = 0  BY <1>8 DEF Idle
  <2>3. Ready' = IF n = count THEN Ready ELSE Append(Ready, bus.frame)
    BY <1>4, <1>5, <1>8
  <2>. QED  BY <1>0, <1>8, <2>1, <2>2, <2>3 DEF Fifo!Complete, Fifo!Cancel
<1>9. CASE /\ n < Slots /\ rx' = [r EXCEPT ![FreeSlot(n)] = Junk]
           /\ Launched(FreeSlot(n)) /\ ~Window(FreeSlot(n))
  <2>1. n \in 0..Slots - 1 /\ n \in 0..Slots  BY <1>0, <1>9
  <2>2. Ready' = Ring(tail, n, r) /\ Len(Ready') = n
    <3>1. \A s \in 0..Slots - 1 : s # (tail + n) % Slots => rx'[s] = r[s]
      BY <1>2, <1>9 DEF FreeSlot
    <3>2. Ring(tail, n, rx') = Ring(tail, n, r)  BY <1>0, <2>1, <3>1, RingFree
    <3>3. Len(Ring(tail, n, r)) = n  BY <1>0, <1>2, <2>1, RingType
    <3>. QED  BY <1>4, <3>2, <3>3
  <2>3. Delivered' = Delivered
    <3>1. pc = "parse" => FreeSlot(n) # slot  BY <1>9 DEF Window
    <3>2. pc = "parse" => rx'[slot] = r[slot]  BY <1>0, <1>2, <1>9, <3>1
    <3>. QED  BY <1>3, <1>6, <3>2, DeliveredIs
  <2>4. Ready' \in {Ready, Append(Ready, bus.frame)}  BY <1>5, <2>2
  <2>. QED  BY <1>0, <1>9, <2>2, <2>3, <2>4, LaunchedIs DEF Fifo!Chain
<1>. QED  BY <1>7, <1>8, <1>9 DEF Tried

LEMMA InterruptImplements ==
  Base /\ Quiet /\ Placed /\ Interrupt => [Fifo!Next]_(Fifo!vars)
<1>. SUFFICES ASSUME Base, Quiet, Placed, Interrupt, ~raced'
              PROVE  Fifo!Next \/ UNCHANGED Fifo!vars
  BY DEF Fifo!Next, Fifo!Break
<1>0. /\ busy \in BOOLEAN /\ error \in BOOLEAN /\ count \in 0..Slots /\ raced \in BOOLEAN
      /\ bus.frame \in Frames /\ Junk \in Frames
  BY AdcDmaAssumption DEF Base, TypeOK, Frames, Junk
<1>1. CASE Drdy
  <2>. DEFINE free == bus = Idle
              p == pending + 1
  <2>1. TryStart(p, busy, error, count, rx, free)  BY <1>1 DEF Drdy
  <2>2. free \in BOOLEAN /\ (free <=> bus = Idle)  OBVIOUS
  <2>3. Tried(count, rx, free)
    <3>. HIDE DEF free, p
    <3>. QED  BY <1>0, <2>1, <2>2, TryStartCases
  <2>. QED  BY <2>3, EdgeImplements DEF Fifo!Next
<1>. DEFINE filled == [rx EXCEPT ![bus.slot] = IF bus.spoiled THEN Junk ELSE bus.frame]
            failed == [rx EXCEPT ![bus.slot] = Junk]
<1>2. CASE DmaComplete
  <2>. DEFINE full == count >= Slots
              m == IF full THEN count ELSE count + 1
              e == error \/ full
  <2>1. bus # Idle /\ TryStart(pending, FALSE, e, m, filled, TRUE)
    BY <1>2 DEF DmaComplete
  <2>2. m \in 0..Slots /\ e \in BOOLEAN
    BY <1>0, AdcDmaAssumption
  <2>3. Tried(m, filled, TRUE)
    <3>. HIDE DEF m, e, filled
    <3>. QED  BY <2>1, <2>2, TryStartCases
  <2>4. ~raced  BY <2>3 DEF Tried
  <2>5. m = count + 1 /\ ~bus.spoiled
    <3>1. count < Slots  BY <1>0, <2>1, <2>4 DEF Quiet
    <3>2. ~bus.spoiled  BY <2>1, <2>4 DEF Placed
    <3>. QED  BY <1>0, <3>1, <3>2, AdcDmaAssumption
  <2>6. Tried(count + 1, [rx EXCEPT ![bus.slot] = bus.frame], TRUE)
    BY <2>3, <2>5
  <2>. QED  BY <1>0, <2>1, <2>6, EndImplements DEF Fifo!Next
<1>3. CASE DmaError
  <2>1. bus # Idle /\ TryStart(pending, FALSE, TRUE, count, failed, TRUE)
    BY <1>3 DEF DmaError
  <2>2. Tried(count, failed, TRUE)
    <3>. HIDE DEF failed
    <3>. QED  BY <1>0, <2>1, TryStartCases
  <2>3. count # count + 1  BY <1>0, AdcDmaAssumption
  <2>. QED  BY <1>0, <2>1, <2>2, <2>3, EndImplements DEF Fifo!Next
<1>. QED  BY <1>1, <1>2, <1>3 DEF Interrupt

LEMMA SuperloopImplements ==
  Base /\ Quiet /\ Placed /\ Superloop => [Fifo!Next]_(Fifo!vars)
<1>. SUFFICES ASSUME Base, Quiet, Placed, Superloop, ~raced'
              PROVE  Fifo!Next \/ UNCHANGED Fifo!vars
  BY DEF Fifo!Next, Fifo!Break
<1>. USE DEF Goto, loop, run, flags, fifo, hist
<1>0. ~raced /\ raced' = raced
  BY DEF Superloop, StartRead, TakeFrame, AbortReadDma, ServePending, CheckBusy, CheckCount,
     ComputeSlot, ClearSlot, ClearError, SetBusy, Launch, FailBusy, FailError, PutBack,
     TakeCheck, Claim, Parse, AbortCheck, AbortHal, AbortCs, AbortBusy, AbortTail,
     AbortCount, AbortError, NextTurn, StopRun, CloseRun, Disarm, BeginRun
<1>1. /\ tail \in 0..Slots - 1 /\ count \in 0..Slots /\ rx \in [0..Slots - 1 -> Frames]
      /\ slot \in 0..Slots - 1 /\ Slots \in Nat /\ Slots > 0
  BY AdcDmaAssumption DEF Base, TypeOK
\* Steps that neither touch the frames nor come to or from a place where they are held.
<1>2. ASSUME UNCHANGED <<tail, count, rx, next, taken>>, bus'.frame = bus.frame,
             pc \notin {"abortCount", "parse"}, pc' \notin {"abortCount", "parse"}
      PROVE  UNCHANGED Fifo!vars
  BY <1>0, <1>2 DEF Fifo!vars, Ready, Delivered
<1>3. CASE ServePending \/ CheckBusy \/ CheckCount \/ ComputeSlot
  BY <1>2, <1>3 DEF ServePending, CheckBusy, CheckCount, ComputeSlot
<1>4. CASE ClearError \/ SetBusy \/ FailBusy \/ FailError \/ PutBack
  BY <1>2, <1>4 DEF ClearError, SetBusy, FailBusy, FailError, PutBack
<1>5. CASE TakeCheck \/ AbortCheck \/ AbortBusy
  BY <1>2, <1>5 DEF TakeCheck, AbortCheck, AbortBusy
<1>6. CASE NextTurn \/ StopRun \/ CloseRun \/ Disarm \/ BeginRun
  BY <1>2, <1>6 DEF NextTurn, StopRun, CloseRun, Disarm, BeginRun
<1>7. CASE AbortCs
  <2>1. bus = Idle  BY <1>0, <1>7 DEF AbortCs, Quiet
  <2>. QED  BY <1>2, <1>7, <2>1 DEF AbortCs
<1>8. CASE AbortError  BY <1>2, <1>8 DEF AbortError
<1>9. CASE ClearSlot
  <2>1. bus = Idle /\ bus' = Idle /\ slot = FreeSlot(count) /\ count < Slots
    BY <1>0, <1>9, ClearKeepsIdle DEF Base, Quiet, Placed, ClearSlot
  <2>2. /\ UNCHANGED <<tail, count, next, taken>> /\ rx' = [rx EXCEPT ![slot] = Junk]
        /\ pc = "clearSlot" /\ pc' = "clearError"
    BY <1>9 DEF ClearSlot
  <2>3. Ready' = Ready
    <3>1. Ready = Ring(tail, count, rx) /\ Ready' = Ring(tail, count, rx')
      BY <2>2, ReadyIs
    <3>2. count \in 0..Slots - 1  BY <1>1, <2>1
    <3>3. \A s \in 0..Slots - 1 : s # (tail + count) % Slots => rx'[s] = rx[s]
      BY <1>1, <2>1, <2>2 DEF FreeSlot
    <3>4. Ring(tail, count, rx') = Ring(tail, count, rx)
      BY <1>1, <3>2, <3>3, RingFree
    <3>. QED  BY <3>1, <3>4
  <2>4. Delivered' = Delivered  BY <2>2, DeliveredIs
  <2>. QED  BY <1>0, <2>1, <2>2, <2>3, <2>4 DEF Fifo!vars
<1>10. CASE Launch
  <2>1. /\ bus = Idle /\ Launched(slot) /\ count < Slots /\ pc' = "serve" /\ pc = "launch"
        /\ UNCHANGED <<tail, count, rx, taken>>
    BY <1>0, <1>10 DEF Launch, Quiet
  <2>2. Ready' = Ready /\ Len(Ready) = count /\ Delivered' = Delivered
    BY <1>1, <2>1, ReadyIs, DeliveredIs, RingType
  <2>3. Fifo!Start  BY <1>0, <2>1, <2>2, LaunchedIs DEF Fifo!Start, Idle
  <2>. QED  BY <2>3 DEF Fifo!Next
<1>11. CASE Claim
  <2>1. /\ pc = "claim" /\ pc' = "parse" /\ slot' = tail /\ tail' = (tail + 1) % Slots
        /\ count' = count - 1 /\ UNCHANGED <<bus, rx, next, taken>> /\ count > 0
    BY <1>11 DEF Claim, Base
  <2>2. Ready = Ring(tail, count, rx) /\ Ready' = Ring((tail + 1) % Slots, count - 1, rx)
    BY <2>1, ReadyIs
  <2>3. count \in 1..Slots  BY <1>1, <2>1
  <2>4. Ready # <<>> /\ Head(Ready) = rx[tail] /\ Tail(Ready) = Ready'
    BY <1>1, <2>2, <2>3, RingTake
  <2>5. Delivered' = Append(Delivered, rx[tail])  BY <2>1, DeliveredIs
  <2>6. Fifo!Take  BY <1>0, <2>1, <2>4, <2>5 DEF Fifo!Take
  <2>. QED  BY <2>6 DEF Fifo!Next
<1>12. CASE Parse
  <2>1. /\ pc = "parse" /\ pc' = "take" /\ taken' = Append(taken, rx[slot])
        /\ UNCHANGED <<tail, count, rx, bus, next>>
    BY <1>12 DEF Parse
  <2>2. Delivered' = Delivered /\ Ready' = Ready  BY <2>1, DeliveredIs, ReadyIs
  <2>. QED  BY <1>0, <2>1, <2>2 DEF Fifo!vars
<1>13. CASE AbortHal
  <2>1. /\ bus' = Idle /\ pc = "abortHal" /\ pc' = "abortCs"
        /\ UNCHANGED <<tail, count, rx, next, taken>>
    BY <1>13 DEF AbortHal
  <2>2. Delivered' = Delivered /\ Ready' = Ready  BY <2>1, DeliveredIs, ReadyIs
  <2>3. Fifo!Cancel  BY <1>0, <2>1, <2>2 DEF Fifo!Cancel, Idle
  <2>. QED  BY <2>3 DEF Fifo!Next
<1>14. CASE AbortTail
  <2>1. /\ pc = "abortTail" /\ pc' = "abortCount" /\ UNCHANGED <<bus, next, taken>>
    BY <1>14 DEF AbortTail
  <2>2. Delivered' = Delivered /\ Ready' = <<>>  BY <2>1, DeliveredIs, ReadyIs
  <2>3. Fifo!Clear  BY <1>0, <2>1, <2>2 DEF Fifo!Clear
  <2>. QED  BY <2>3 DEF Fifo!Next
<1>15. CASE AbortCount
  <2>1. /\ pc = "abortCount" /\ pc' = "abortError" /\ UNCHANGED <<tail, rx, bus, next, taken>>
        /\ count' = 0
    BY <1>15 DEF AbortCount
  <2>2. Ring(tail, 0, rx) = <<>>
    <3>1. 0 \in 0..Slots  BY <1>1
    <3>2. Ring(tail, 0, rx) \in Seq(Frames) /\ Len(Ring(tail, 0, rx)) = 0
      BY <1>1, <3>1, RingType
    <3>. QED  BY <3>2, EmptySeq
  <2>3. Ready = <<>> /\ Ready' = Ring(tail, 0, rx)  BY <2>1, ReadyIs
  <2>4. Delivered' = Delivered  BY <2>1, DeliveredIs
  <2>. QED  BY <1>0, <2>1, <2>2, <2>3, <2>4 DEF Fifo!vars
<1>. QED
  BY <1>3, <1>4, <1>5, <1>6, <1>7, <1>8, <1>9, <1>10, <1>11, <1>12, <1>13, <1>14, <1>15
     DEF Superloop, StartRead, TakeFrame, AbortReadDma

LEMMA FifoInit == Init => Fifo!Init
<1>. SUFFICES ASSUME Init PROVE Fifo!Init  OBVIOUS
<1>1. 1..0 = {}  OBVIOUS
<1>2. Ready = <<>>  BY <1>1 DEF Init, Ready
<1>3. Delivered = <<>>  BY DEF Init, Delivered
<1>. QED  BY <1>2, <1>3 DEF Init, Fifo!Init, Idle

\* Load by load and store by store, and with interrupts in between, the driver is the
\* bounded queue of frames that the engine takes it for: nothing is started without a
\* free slot, nothing taken twice, out of order or unfilled; until an interrupt starts a
\* transfer in one of the windows.
THEOREM FifoImplemented == Spec => ImplementsFifo
<1>1. Init => Base /\ Quiet /\ Placed /\ Fifo!Init
  BY BaseInit, QuietInit, PlacedInit, FifoInit
<1>2. Base /\ Quiet /\ Placed /\ [Next]_vars => Base' /\ Quiet' /\ Placed'
  BY BaseNext, QuietNext, PlacedNext
<1>3. Base /\ Quiet /\ Placed /\ [Next]_vars => [Fifo!Next]_(Fifo!vars)
  <2>. SUFFICES ASSUME Base, Quiet, Placed, [Next]_vars PROVE [Fifo!Next]_(Fifo!vars)
    OBVIOUS
  <2>1. CASE UNCHANGED vars
    BY <2>1 DEF vars, Fifo!vars, Ready, Delivered, loop, run, flags, fifo, hist
  <2>. QED  BY <2>1, InterruptImplements, SuperloopImplements DEF Next
<1>. QED  BY <1>1, <1>2, <1>3, PTL DEF Spec, ImplementsFifo, Fifo!Spec
=============================================================================

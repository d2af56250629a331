------------------------------- MODULE AdcDma -------------------------------
(***************************************************************************)
(* The DMA driver of the ADC (ads131m08.c) and its two users: the          *)
(* superloop, through DAQ_ServiceAdcPending, DAQ_ServiceCapturedSamples    *)
(* and DAQ_Shutdown, and the interrupts, through DAQ_TryStartAdcDmaFromIsr.*)
(*                                                                         *)
(* DaqEngine takes the driver's operations as single steps.  Here the      *)
(* superloop executes them one load or store of a shared variable at a     *)
(* time, and an interrupt may run before each: "pc" names the one that     *)
(* comes next.  All interrupts have the same priority, so that a handler   *)
(* is one step.  Only the superloop writes s_dma_ready_tail.               *)
(*                                                                         *)
(* A transfer is its number.  A slot holds the number of the transfer      *)
(* that filled it, or Junk: zeros, part of a frame, a frame cut short.     *)
(***************************************************************************)
EXTENDS Naturals, Sequences

CONSTANTS
  Slots,     \* ADS131M08_DMA_FRAME_SLOTS (8)
  MaxEdges   \* bound of the model: DRDY edges that count, transfers of a behaviour

ASSUME AdcDmaAssumption == Slots \in Nat \ {0} /\ MaxEdges \in Nat

Junk == 0
Idle == [frame |-> 0, slot |-> 0, spoiled |-> FALSE]    \* HAL_SPI_STATE_READY

\* ADS131M08_StartReadAllChannelDataDma, called by the superloop
StartLocations == {"busyCheck", "countCheck", "slot", "clearSlot", "clearError", "setBusy",
                   "launch", "failBusy", "failError", "putBack"}
\* ADS131M08_AbortReadDma
AbortLocations == {"abort", "abortHal", "abortCs", "abortBusy", "abortTail", "abortCount",
                   "abortError"}
Locations == {"serve", "take", "claim", "parse", "turn", "off"}
               \cup StartLocations \cup AbortLocations

VARIABLES
  pc,        \* the superloop's next access to the shared variables
  slot,      \* its local variable of that name, in a start or a take
  sampling,  \* is_adc_armed, and the state is ACQUIRING
  closing,   \* DAQ_Shutdown is running
  pending,   \* g_daq_ctx.adc_ready_pending
  busy,      \* s_dma_busy
  error,     \* s_dma_error
  tail,      \* s_dma_ready_tail
  count,     \* s_dma_ready_count
  rx,        \* s_dma_rx_buffer
  bus,       \* the transfer the SPI and its DMA streams carry out
  next,      \* the number of the next transfer
  taken,     \* history: the frames TakeDmaFrame returned
  edges,     \* history: DRDY edges counted since the reset, and transfers before it
  raced      \* history: an interrupt has started a transfer in a window

loop  == <<pc, slot>>
run   == <<sampling, closing>>
flags == <<busy, error>>
fifo  == <<tail, count, rx>>
hist  == <<taken, edges, raced>>
vars  == <<loop, run, pending, flags, fifo, bus, next, hist>>

Init ==
  /\ pc = "off" /\ slot = 0
  /\ sampling = FALSE /\ closing = FALSE
  /\ pending = 0
  /\ busy = FALSE /\ error = FALSE
  /\ tail = 0 /\ count = 0 /\ rx = [s \in 0..Slots - 1 |-> Junk]
  /\ bus = Idle
  /\ next = 1
  /\ taken = <<>> /\ edges = 0 /\ raced = FALSE

Goto(l) == pc' = l /\ UNCHANGED slot

-----------------------------------------------------------------------------
(* The interrupts.                                                         *)

\* The places where a transfer started by an interrupt in slot s breaks what
\* the superloop is doing: it has found the bus free and has not said so yet;
\* it is about to clear busy, tail or count; it is reading that slot.
Window(s) ==
  \/ pc \in {"countCheck", "slot", "clearSlot", "clearError", "setBusy"}
  \/ pc \in {"abortCs", "abortBusy", "abortTail", "abortCount"}
  \/ pc = "parse" /\ s = slot

\* The slot the next transfer goes to, with n frames ready.
FreeSlot(n) == (tail + n) % Slots

\* HAL_SPI_TransmitReceive_DMA, and what the start does with its answer.  A
\* refusal raises the chip select under the transfer that is on the bus.
Launched(s) ==
  /\ bus' = [frame |-> next, slot |-> s, spoiled |-> FALSE]
  /\ next' = next + 1

Refused ==
  /\ bus' = [bus EXCEPT !.spoiled = TRUE]
  /\ UNCHANGED next

\* DAQ_TryStartAdcDmaFromIsr, after a handler that leaves p edges pending, the
\* flags b and e, n frames ready in buffers r, and the bus free or not.
TryStart(p, b, e, n, r, free) ==
  LET s == FreeSlot(n)
      wanted == sampling /\ p > 0 /\ ~b
  IN
  /\ count' = n
  /\ \/ /\ ~wanted \/ n >= Slots
        /\ pending' = p /\ busy' = b /\ error' = e /\ rx' = r
        /\ bus' = IF free THEN Idle ELSE bus
        /\ UNCHANGED <<next, raced>>
     \/ /\ wanted /\ n < Slots /\ free
        /\ pending' = p - 1 /\ busy' = TRUE /\ error' = FALSE /\ rx' = [r EXCEPT ![s] = Junk]
        /\ Launched(s)
        /\ raced' = (raced \/ Window(s))
     \/ /\ wanted /\ n < Slots /\ ~free
        /\ pending' = p /\ busy' = FALSE /\ error' = TRUE /\ rx' = [r EXCEPT ![s] = Junk]
        /\ Refused
        /\ raced' = (raced \/ Window(s))
  /\ UNCHANGED <<loop, run, tail, taken>>

\* DAQ_OnAdcDrdyFromIsr
Drdy ==
  /\ sampling /\ edges < MaxEdges
  /\ edges' = edges + 1
  /\ TryStart(pending + 1, busy, error, count, rx, bus = Idle)

\* Mutant: the count is not held at the number of slots.
DmaComplete_NoLimit ==
  /\ bus # Idle
  /\ TryStart(pending, FALSE, error, count + 1,
              [rx EXCEPT ![bus.slot] = IF bus.spoiled THEN Junk ELSE bus.frame], TRUE)
  /\ UNCHANGED edges

\* ADS131M08_DmaTxRxCpltCallback and DAQ_OnAdcDmaCompleteFromIsr
DmaComplete ==
  LET full == count >= Slots IN
  /\ bus # Idle
  /\ TryStart(pending, FALSE, error \/ full, IF full THEN count ELSE count + 1,
              [rx EXCEPT ![bus.slot] = IF bus.spoiled THEN Junk ELSE bus.frame], TRUE)
  /\ UNCHANGED edges

\* Mutant: an error leaves the driver busy.
DmaError_StaysBusy ==
  /\ bus # Idle
  /\ TryStart(pending, busy, TRUE, count, [rx EXCEPT ![bus.slot] = Junk], TRUE)
  /\ UNCHANGED edges

\* ADS131M08_DmaErrorCallback and DAQ_OnAdcDmaErrorFromIsr
DmaError ==
  /\ bus # Idle
  /\ TryStart(pending, FALSE, TRUE, count, [rx EXCEPT ![bus.slot] = Junk], TRUE)
  /\ UNCHANGED edges

Interrupt == Drdy \/ DmaComplete \/ DmaError

-----------------------------------------------------------------------------
(* DAQ_ServiceAdcPending: an edge is taken from the counter with interrupts *)
(* disabled, then the transfer is started with interrupts enabled.          *)

ServePending ==
  /\ pc = "serve"
  /\ IF pending > 0
       THEN pending' = pending - 1 /\ Goto("busyCheck")
       ELSE Goto("take") /\ UNCHANGED pending
  /\ UNCHANGED <<run, flags, fifo, bus, next, hist>>

CheckBusy ==
  /\ pc = "busyCheck"
  /\ Goto(IF busy THEN "putBack" ELSE "countCheck")
  /\ UNCHANGED <<run, pending, flags, fifo, bus, next, hist>>

\* Mutant: the ring is full one frame too late.
CheckCount_OffByOne ==
  /\ pc = "countCheck"
  /\ Goto(IF count > Slots THEN "putBack" ELSE "slot")
  /\ UNCHANGED <<run, pending, flags, fifo, bus, next, hist>>

CheckCount ==
  /\ pc = "countCheck"
  /\ Goto(IF count >= Slots THEN "putBack" ELSE "slot")
  /\ UNCHANGED <<run, pending, flags, fifo, bus, next, hist>>

ComputeSlot ==
  /\ pc = "slot"
  /\ slot' = FreeSlot(count) /\ pc' = "clearSlot"
  /\ UNCHANGED <<run, pending, flags, fifo, bus, next, hist>>

\* memset of the slot's buffers, maybe under a transfer into them
ClearSlot ==
  /\ pc = "clearSlot"
  /\ rx' = [rx EXCEPT ![slot] = Junk]
  /\ bus' = [bus EXCEPT !.spoiled = @ \/ (bus # Idle /\ bus.slot = slot)]
  /\ Goto("clearError")
  /\ UNCHANGED <<run, pending, flags, tail, count, next, hist>>

ClearError ==
  /\ pc = "clearError"
  /\ error' = FALSE
  /\ Goto("setBusy")
  /\ UNCHANGED <<run, pending, busy, fifo, bus, next, hist>>

SetBusy ==
  /\ pc = "setBusy"
  /\ busy' = TRUE
  /\ Goto("launch")
  /\ UNCHANGED <<run, pending, error, fifo, bus, next, hist>>

Launch ==
  /\ pc = "launch"
  /\ \/ bus = Idle /\ Launched(slot) /\ Goto("serve")
     \/ bus # Idle /\ Refused /\ Goto("failBusy")
  /\ UNCHANGED <<run, pending, flags, fifo, hist>>

FailBusy ==
  /\ pc = "failBusy"
  /\ busy' = FALSE
  /\ Goto("failError")
  /\ UNCHANGED <<run, pending, error, fifo, bus, next, hist>>

FailError ==
  /\ pc = "failError"
  /\ error' = TRUE
  /\ Goto("putBack")
  /\ UNCHANGED <<run, pending, busy, fifo, bus, next, hist>>

\* Mutant: a start that fails forgets the edge.
PutBack_Forgotten ==
  /\ pc = "putBack"
  /\ Goto("take")
  /\ UNCHANGED <<run, pending, flags, fifo, bus, next, hist>>

PutBack ==
  /\ pc = "putBack"
  /\ pending' = pending + 1
  /\ Goto("take")
  /\ UNCHANGED <<run, flags, fifo, bus, next, hist>>

StartRead ==
  \/ ServePending \/ CheckBusy \/ CheckCount \/ ComputeSlot \/ ClearSlot
  \/ ClearError \/ SetBusy \/ Launch \/ FailBusy \/ FailError \/ PutBack

-----------------------------------------------------------------------------
(* DAQ_ServiceCapturedSamples: ADS131M08_TakeDmaFrame until it has none.   *)

\* Two loads; the count cannot have gone back to 0 when the error is read.
TakeCheck ==
  /\ pc = "take"
  /\ Goto(IF count > 0 /\ ~error THEN "claim" ELSE "turn")
  /\ UNCHANGED <<run, pending, flags, fifo, bus, next, hist>>

\* With interrupts disabled.  The count can only have grown since the check.
Claim ==
  /\ pc = "claim"
  /\ slot' = tail /\ pc' = "parse"
  /\ tail' = (tail + 1) % Slots
  /\ count' = count - 1
  /\ UNCHANGED <<run, pending, flags, rx, bus, next, hist>>

\* With interrupts enabled again.
Parse ==
  /\ pc = "parse"
  /\ taken' = Append(taken, rx[slot])
  /\ Goto("take")
  /\ UNCHANGED <<run, pending, flags, fifo, bus, next, edges, raced>>

TakeFrame == TakeCheck \/ Claim \/ Parse

-----------------------------------------------------------------------------
(* DAQ_Shutdown.                                                           *)

AbortCheck ==
  /\ pc = "abort"
  /\ Goto(IF busy THEN "abortHal" ELSE "abortCs")
  /\ UNCHANGED <<run, pending, flags, fifo, bus, next, hist>>

\* HAL_SPI_Abort
AbortHal ==
  /\ pc = "abortHal"
  /\ bus' = Idle
  /\ Goto("abortCs")
  /\ UNCHANGED <<run, pending, flags, fifo, next, hist>>

\* Raising the chip select cuts short what is on the bus.
AbortCs ==
  /\ pc = "abortCs"
  /\ bus' = IF bus = Idle THEN Idle ELSE [bus EXCEPT !.spoiled = TRUE]
  /\ Goto("abortBusy")
  /\ UNCHANGED <<run, pending, flags, fifo, next, hist>>

AbortBusy ==
  /\ pc = "abortBusy"
  /\ busy' = FALSE
  /\ Goto("abortTail")
  /\ UNCHANGED <<run, pending, error, fifo, bus, next, hist>>

AbortTail ==
  /\ pc = "abortTail"
  /\ tail' = 0
  /\ Goto("abortCount")
  /\ UNCHANGED <<run, pending, flags, count, rx, bus, next, hist>>

\* Mutant: the completed frames survive an abort.
AbortCount_Kept ==
  /\ pc = "abortCount"
  /\ Goto("abortError")
  /\ UNCHANGED <<run, pending, flags, fifo, bus, next, hist>>

AbortCount ==
  /\ pc = "abortCount"
  /\ count' = 0
  /\ Goto("abortError")
  /\ UNCHANGED <<run, pending, flags, tail, rx, bus, next, hist>>

\* The drain that follows is a take.
AbortError ==
  /\ pc = "abortError"
  /\ error' = FALSE
  /\ Goto("take")
  /\ UNCHANGED <<run, pending, busy, fifo, bus, next, hist>>

AbortReadDma ==
  \/ AbortCheck \/ AbortHal \/ AbortCs \/ AbortBusy \/ AbortTail \/ AbortCount \/ AbortError

-----------------------------------------------------------------------------
(* The superloop around the driver.                                        *)

NextTurn ==
  /\ pc = "turn" /\ ~closing
  /\ Goto("serve")
  /\ UNCHANGED <<run, pending, flags, fifo, bus, next, hist>>

\* ACQUIRING becomes STOPPING, or the calibration disarms: then DAQ_Shutdown.
StopRun ==
  /\ pc = "turn" /\ ~closing
  /\ sampling' = FALSE /\ closing' = TRUE
  /\ Goto("abort")
  /\ UNCHANGED <<pending, flags, fifo, bus, next, hist>>

\* DAQ_StopAndClose calls DAQ_Shutdown at once, during a run or in FINALIZING.
CloseRun ==
  /\ pc \in {"turn", "off"} /\ ~closing
  /\ closing' = TRUE
  /\ Goto("abort")
  /\ UNCHANGED <<sampling, pending, flags, fifo, bus, next, hist>>

\* is_adc_armed = 0 at the end of DAQ_Shutdown
Disarm ==
  /\ pc = "turn" /\ closing
  /\ sampling' = FALSE /\ closing' = FALSE
  /\ Goto("off")
  /\ UNCHANGED <<pending, flags, fifo, bus, next, hist>>

\* A start command resets the edge counter; the run is sampled from ACQUIRING on.
BeginRun ==
  /\ pc = "off"
  /\ sampling' = TRUE
  /\ pending' = 0 /\ edges' = next - 1
  /\ Goto("serve")
  /\ UNCHANGED <<closing, flags, fifo, bus, next, taken, raced>>

Superloop ==
  \/ StartRead \/ TakeFrame \/ AbortReadDma
  \/ NextTurn \/ StopRun \/ CloseRun \/ Disarm \/ BeginRun

Next == Interrupt \/ Superloop

Spec == Init /\ [][Next]_vars

-----------------------------------------------------------------------------
(* Properties.                                                             *)

Frames == 0..MaxEdges

\* The variables keep their types; no more frames are ready than there are
\* slots, whoever starts a transfer while it is being done.
TypeOK ==
  /\ pc \in Locations /\ slot \in 0..Slots - 1
  /\ sampling \in BOOLEAN /\ closing \in BOOLEAN
  /\ pending \in 0..MaxEdges
  /\ busy \in BOOLEAN /\ error \in BOOLEAN
  /\ tail \in 0..Slots - 1 /\ count \in 0..Slots /\ rx \in [0..Slots - 1 -> Frames]
  /\ bus \in [frame : Frames, slot : 0..Slots - 1, spoiled : BOOLEAN]
  /\ next \in 1..MaxEdges + 1
  /\ taken \in Seq(Frames) /\ edges \in 0..MaxEdges /\ raced \in BOOLEAN

\* The driver never stays busy without a transfer that will end it, whichever
\* of a start, an abort and the interrupts wrote s_dma_busy last.
BusyIsServed ==
  busy => bus # Idle \/ pc \in {"launch", "failBusy", "abortCs", "abortBusy"}

\* Every DRDY edge since the counter was reset has led to one transfer, waits
\* in adc_ready_pending, or is in the hands of the superloop: none is lost or
\* served twice between the superloop and the interrupts.
EdgesConserved ==
  edges = pending + (next - 1) + IF pc \in StartLocations THEN 1 ELSE 0

\* The frames ready to be taken; an abort that has reset the tail has none.
Ready ==
  IF pc = "abortCount" THEN <<>> ELSE [i \in 1..count |-> rx[(tail + i - 1) % Slots]]

\* What TakeDmaFrame has returned and is about to return.
Delivered == IF pc = "parse" THEN Append(taken, rx[slot]) ELSE taken

\* A ring that is full can be emptied: an error is only pending while there is
\* room for the transfer that clears it.  It holds outside the windows.
WedgedOnlyByRace == ~raced => ~(error /\ count = Slots)
=============================================================================

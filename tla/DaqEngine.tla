------------------------------ MODULE DaqEngine ------------------------------
(***************************************************************************)
(* The acquisition engine of the Cortex-M4 core: the DAQ state machine     *)
(* (statemachine.c), the sample pipeline and the commands of daq_engine.c, *)
(* and the DMA frame ring of ads131m08.c that feeds it.                    *)
(*                                                                         *)
(* A frame, once converted by the ADC, travels                             *)
(*                                                                         *)
(*   dma -> ring -> aggr -> queue -> out                                   *)
(*                                                                         *)
(* where "out" is the raw log file in LOG mode and the shared-memory       *)
(* blocks handed to the other core in STREAM mode.  The superloop of       *)
(* main.c is a sequential process whose location is "pc"; the ADC          *)
(* interrupts (Drdy, DmaComplete, DmaError) may run between any two of its *)
(* steps, and the commands of the other core are served at pc = "poll".    *)
(***************************************************************************)
EXTENDS Naturals, Sequences

CONSTANTS
  QueueDepth,     \* DAQ_WRITE_QUEUE_DEPTH: blocks waiting to be written (8)
  RingSlots,      \* ADS131M08_DMA_FRAME_SLOTS: completed DMA frames (8)
  AggrMax,        \* DAQ_AGGR_SAMPLES_PER_BLOCK: samples in one block (128)
  ChannelCounts,  \* how many channels a legal channel_mask may select
  ReadLens,       \* max_len of a shared-memory read, in bytes
  CalCounts,      \* how many samples a calibration run may average, or drop
  StartStates,    \* the states in which the client issues a start command
  MaxFrames       \* bound of the model: conversions in one behaviour

States == {"IDLE", "PREPARING", "ACQUIRING", "STOPPING", "FINALIZING"}
Modes  == {"IDLE", "LOG", "STREAM"}
Events == {"START", "STOP"}
Locations == {"run", "samples", "write", "finalize", "poll",
              "abort", "drain", "flush", "drainWrites", "closeLog"}

ASSUME ConstantsAssumption ==
  /\ QueueDepth \in Nat \ {0}
  /\ RingSlots \in Nat \ {0}
  /\ AggrMax \in Nat \ {0}
  /\ ChannelCounts \subseteq 1..8 /\ 8 \in ChannelCounts
  /\ ReadLens \subseteq Nat
  /\ CalCounts \subseteq Nat
  /\ StartStates \subseteq States
  /\ MaxFrames \in Nat

Configs == [ch : ChannelCounts, blk : 1..AggrMax]  \* what DAQ_ValidateConfig admits

FrameBytes   == 36   \* sizeof(DaqSampleFrame_t)
ChannelBytes == 4    \* sizeof(int32_t)

NoError    == 0
WriteOpen  == 10     \* DAQ_ERROR_WRITE_OPEN
WriteData  == 11     \* DAQ_ERROR_WRITE_DATA

NoTransfer == 0      \* no SPI DMA transfer in flight; frames are numbered from 1

VARIABLES
  pc,            \* where the superloop is
  closing,       \* DAQ_StopAndClose is running
  state,         \* g_daq_ctx.state
  events,        \* g_daq_ctx.events
  mode,          \* g_daq_mode
  armed,         \* g_daq_ctx.is_adc_armed
  cfg,           \* g_daq_cfg: selected channels and samples per block
  dma,           \* the conversion being transferred (s_dma_busy)
  dmaError,      \* s_dma_error
  ring,          \* completed DMA frames, oldest first
  next,          \* the number of the next conversion
  aggr,          \* aggr_block
  queue,         \* write_queue, oldest block first
  logOpen,       \* EmmcFs_IsRawLogOpen
  captured,      \* g_daq_ctx.samples_captured
  dropped,       \* g_daq_ctx.dropped_buffers
  bytesQueued,   \* g_daq_ctx.bytes_queued
  bytesWritten,  \* g_daq_ctx.bytes_written
  lastError,     \* g_daq_ctx.last_error
  out,           \* history: the frames the current run has put out
  run            \* history: what the counters are about

loop   == <<pc, closing>>
ctl    == <<state, events, mode, armed>>
capt   == <<dma, dmaError, ring, next>>
buf    == <<aggr, queue, bytesQueued>>
counts == <<captured, dropped, bytesWritten, lastError>>
output == <<logOpen, out>>
vars   == <<loop, ctl, cfg, capt, buf, counts, output, run>>

-----------------------------------------------------------------------------
(* Helpers shared by the actions below. *)

\* DAQ_ResetSoftwareBuffers
ResetSoftwareBuffers ==
  /\ aggr' = <<>>
  /\ queue' = <<>>
  /\ bytesQueued' = 0

\* Mutant: both modes account for full frames.
QueuedBytes_AllFrames(n) == n * FrameBytes

\* DAQ_GetQueuedBytes
QueuedBytes(n) == IF mode = "LOG" THEN n * cfg.ch * ChannelBytes ELSE n * FrameBytes

\* The clamped subtraction both output paths use for bytes_queued.
Unqueue(n) == bytesQueued' = IF bytesQueued >= n THEN bytesQueued - n ELSE 0

\* Mutant: the queue is a stack.
QueuePush_AtTail(blk) ==
  /\ queue' = <<blk>> \o queue
  /\ bytesQueued' = bytesQueued + QueuedBytes(Len(blk))

\* DAQ_QueuePush of a block known to fit
QueuePush(blk) ==
  /\ queue' = Append(queue, blk)
  /\ bytesQueued' = bytesQueued + QueuedBytes(Len(blk))

QueueFull == Len(queue) >= QueueDepth

-----------------------------------------------------------------------------
Init ==
  /\ pc = "run" /\ closing = FALSE
  /\ state = "IDLE" /\ events = {} /\ mode = "IDLE" /\ armed = FALSE
  /\ cfg = [ch |-> 8, blk |-> AggrMax]
  /\ dma = NoTransfer /\ dmaError = FALSE /\ ring = <<>> /\ next = 1
  /\ aggr = <<>> /\ queue = <<>> /\ bytesQueued = 0
  /\ logOpen = FALSE /\ out = <<>>
  /\ captured = 0 /\ dropped = 0 /\ bytesWritten = 0 /\ lastError = NoError
  /\ run = "none"

-----------------------------------------------------------------------------
(* Interrupts.  A DRDY edge that finds the bus busy only raises            *)
(* adc_ready_pending, which the completion interrupt or the superloop      *)
(* turns into a later start: here it is a DRDY edge that arrives later.    *)

IsrMaySample == armed /\ state = "ACQUIRING" /\ dma = NoTransfer /\ next <= MaxFrames

\* Mutant: the transfer starts without a free slot.
DrdyStart_NoSlotCheck ==
  /\ IsrMaySample
  /\ dma' = next
  /\ next' = next + 1
  /\ dmaError' = FALSE
  /\ UNCHANGED <<loop, ctl, cfg, ring, buf, counts, output, run>>

DrdyStart ==
  /\ IsrMaySample
  /\ Len(ring) < RingSlots
  /\ dma' = next
  /\ next' = next + 1
  /\ dmaError' = FALSE
  /\ UNCHANGED <<loop, ctl, cfg, ring, buf, counts, output, run>>

\* Every slot of the ring is taken: the transfer cannot start.
DrdyOverrun ==
  /\ IsrMaySample
  /\ Len(ring) >= RingSlots
  /\ next' = next + 1
  /\ dropped' = dropped + 1
  /\ UNCHANGED <<loop, ctl, cfg, dma, dmaError, ring, buf, captured, bytesWritten,
                 lastError, output, run>>

DmaComplete ==
  /\ dma # NoTransfer
  /\ ring' = Append(ring, dma)
  /\ dma' = NoTransfer
  /\ UNCHANGED <<loop, ctl, cfg, dmaError, next, buf, counts, output, run>>

DmaError ==
  /\ dma # NoTransfer
  /\ dma' = NoTransfer
  /\ dmaError' = TRUE
  /\ dropped' = dropped + 1
  /\ UNCHANGED <<loop, ctl, cfg, ring, next, buf, captured, bytesWritten, lastError,
                 output, run>>

Interrupt == DrdyStart \/ DrdyOverrun \/ DmaComplete \/ DmaError

-----------------------------------------------------------------------------
(* DAQ_StateMachine_Run.  DAQ_Startup always leaves the ADC armed, so the  *)
(* ERROR state and its handler are unreachable and left out.               *)

RunIdle ==
  /\ pc = "run" /\ state = "IDLE"
  /\ IF "START" \in events
       THEN events' = events \ {"START"} /\ state' = "PREPARING"
       ELSE events' = {} /\ UNCHANGED state
  /\ pc' = "poll"
  /\ UNCHANGED <<closing, mode, armed, cfg, capt, buf, counts, output, run>>

\* Mutant: commands that arrived while preparing are forgotten.
RunPreparing_ClearsEvents ==
  /\ pc = "run" /\ state = "PREPARING"
  /\ armed' = TRUE
  /\ aggr' = <<>>
  /\ state' = "ACQUIRING" /\ events' = {}
  /\ pc' = "poll"
  /\ UNCHANGED <<closing, mode, cfg, capt, queue, bytesQueued, counts, output, run>>

RunPreparing ==
  /\ pc = "run" /\ state = "PREPARING"
  /\ armed' = TRUE
  /\ aggr' = <<>>
  /\ state' = "ACQUIRING"
  /\ pc' = "poll"
  /\ UNCHANGED <<closing, events, mode, cfg, capt, queue, bytesQueued, counts, output, run>>

RunAcquiring ==
  /\ pc = "run" /\ state = "ACQUIRING"
  /\ IF "STOP" \in events
       THEN events' = events \ {"STOP"} /\ state' = "STOPPING" /\ pc' = "poll"
       ELSE pc' = "samples" /\ UNCHANGED <<events, state>>
  /\ UNCHANGED <<closing, mode, armed, cfg, capt, buf, counts, output, run>>

RunStopping ==
  /\ pc = "run" /\ state = "STOPPING"
  /\ pc' = "abort"
  /\ UNCHANGED <<closing, ctl, cfg, capt, buf, counts, output, run>>

RunFinalizing ==
  /\ pc = "run" /\ state = "FINALIZING"
  /\ pc' = "write"
  /\ UNCHANGED <<closing, ctl, cfg, capt, buf, counts, output, run>>

-----------------------------------------------------------------------------
(* DAQ_ServiceCapturedSamples, one frame per step.                         *)

\* The frame's response word reads 0xFFFF.
RejectFrame ==
  /\ dropped' = dropped + 1
  /\ UNCHANGED <<buf, captured>>

\* Mutant: a block the queue has no room for vanishes without being counted.
CompleteBlock_SilentDrop(blk) ==
  /\ aggr' = <<>>
  /\ captured' = captured + 1
  /\ UNCHANGED dropped
  /\ IF QueueFull THEN UNCHANGED <<queue, bytesQueued>> ELSE QueuePush(blk)

\* A block that is full: the queue takes it, or it is dropped whole and its
\* last sample is not counted as captured.
CompleteBlock(blk) ==
  /\ aggr' = <<>>
  /\ IF QueueFull
       THEN dropped' = dropped + 1 /\ UNCHANGED <<queue, bytesQueued, captured>>
       ELSE QueuePush(blk) /\ captured' = captured + 1 /\ UNCHANGED dropped

\* Mutant: a block is complete only at exactly block_samples.
StoreFrame_ExactSize(frame) ==
  LET blk == Append(aggr, frame) IN
  \/ /\ Len(blk) # cfg.blk
     /\ aggr' = blk
     /\ captured' = captured + 1
     /\ UNCHANGED <<queue, bytesQueued, dropped>>
  \/ /\ Len(blk) = cfg.blk
     /\ CompleteBlock(blk)

\* DAQ_StoreSampleFrame
StoreFrame(frame) ==
  LET blk == Append(aggr, frame) IN
  \/ /\ Len(blk) < cfg.blk
     /\ aggr' = blk
     /\ captured' = captured + 1
     /\ UNCHANGED <<queue, bytesQueued, dropped>>
  \/ /\ Len(blk) >= cfg.blk
     /\ CompleteBlock(blk)

FrameReady == ring # <<>> /\ ~dmaError

ServiceSample ==
  /\ pc \in {"samples", "drain"}
  /\ FrameReady
  /\ ring' = Tail(ring)
  /\ RejectFrame \/ StoreFrame(Head(ring))
  /\ UNCHANGED <<loop, ctl, cfg, dma, dmaError, next, bytesWritten, lastError, output, run>>

SamplesDone ==
  /\ pc \in {"samples", "drain"}
  /\ ~FrameReady
  /\ pc' = IF pc = "samples" THEN "write" ELSE "flush"
  /\ UNCHANGED <<closing, ctl, cfg, capt, buf, counts, output, run>>

-----------------------------------------------------------------------------
(* DAQ_ServicePendingWrites and DAQ_HasPendingWrites.                      *)

BlockToWrite == mode = "LOG" /\ queue # <<>>

\* Mutant: a block whose write failed stays at the head of the queue.
WriteBlock_Retry ==
  LET blk == Head(queue)
      n   == Len(blk) * cfg.ch * ChannelBytes
  IN
  /\ BlockToWrite
  /\ \/ /\ logOpen
        /\ queue' = Tail(queue)
        /\ out' = out \o blk
        /\ Unqueue(n)
        /\ bytesWritten' = bytesWritten + n
        /\ UNCHANGED <<dropped, lastError>>
     \/ /\ lastError' = WriteData
        /\ UNCHANGED <<queue, out, dropped, bytesQueued, bytesWritten>>
  /\ UNCHANGED <<ctl, cfg, capt, aggr, captured, logOpen, run>>

\* The oldest block is packed and written.  A failing write may still have
\* put a prefix of the block into the file, and leaves bytes_queued alone.
WriteBlock ==
  LET blk == Head(queue)
      n   == Len(blk) * cfg.ch * ChannelBytes
  IN
  /\ BlockToWrite
  /\ queue' = Tail(queue)
  /\ \/ /\ logOpen
        /\ out' = out \o blk
        /\ Unqueue(n)
        /\ bytesWritten' = bytesWritten + n
        /\ UNCHANGED <<dropped, lastError>>
     \/ /\ \/ ~logOpen /\ UNCHANGED out
           \/ logOpen /\ \E k \in 0..Len(blk) - 1 : out' = out \o SubSeq(blk, 1, k)
        /\ lastError' = WriteData
        /\ dropped' = dropped + 1
        /\ UNCHANGED <<bytesQueued, bytesWritten>>
  /\ UNCHANGED <<ctl, cfg, capt, aggr, captured, logOpen, run>>

AfterWrite == pc' = IF state = "ACQUIRING" THEN "poll" ELSE "finalize"

ServiceWrite ==
  /\ pc = "write"
  /\ WriteBlock
  /\ AfterWrite
  /\ UNCHANGED closing

NothingToWrite ==
  /\ pc = "write"
  /\ ~BlockToWrite
  /\ AfterWrite
  /\ UNCHANGED <<closing, ctl, cfg, capt, buf, counts, output, run>>

\* EmmcFs_CloseRawLog: the handle is closed even when f_close reports an error.
CloseLog ==
  /\ logOpen' = FALSE
  /\ \/ UNCHANGED lastError
     \/ logOpen /\ lastError' = WriteData

FinalizeStream ==
  /\ pc = "finalize"
  /\ mode = "STREAM" /\ ~armed
  /\ ResetSoftwareBuffers
  /\ mode' = "IDLE" /\ state' = "IDLE"
  /\ pc' = "poll"
  /\ UNCHANGED <<closing, events, armed, cfg, capt, counts, output, run>>

PipelineEmpty == queue = <<>> /\ aggr = <<>>

FinalizeLog ==
  /\ pc = "finalize"
  /\ mode # "STREAM" /\ ~armed
  /\ PipelineEmpty
  /\ CloseLog
  /\ mode' = "IDLE" /\ state' = "IDLE"
  /\ pc' = "poll"
  /\ UNCHANGED <<closing, events, armed, cfg, capt, buf, captured, dropped, bytesWritten,
                 out, run>>

FinalizeWait ==
  /\ pc = "finalize"
  /\ mode # "STREAM" /\ ~PipelineEmpty
  /\ pc' = "poll"
  /\ UNCHANGED <<closing, ctl, cfg, capt, buf, counts, output, run>>

-----------------------------------------------------------------------------
(* DAQ_Shutdown, from the STOPPING state or from DAQ_StopAndClose.         *)

\* ADS131M08_AbortReadDma
AbortReadDma == dma' = NoTransfer /\ dmaError' = FALSE /\ ring' = <<>>

ShutdownAbort ==
  /\ pc = "abort"
  /\ AbortReadDma
  /\ pc' = "drain"
  /\ UNCHANGED <<closing, ctl, cfg, next, buf, counts, output, run>>

\* The partial block is queued, or dropped whole.
FlushPartial ==
  /\ \/ /\ aggr = <<>>
        /\ UNCHANGED <<queue, bytesQueued, dropped>>
     \/ /\ aggr # <<>> /\ ~QueueFull
        /\ QueuePush(aggr)
        /\ UNCHANGED dropped
     \/ /\ aggr # <<>> /\ QueueFull
        /\ dropped' = dropped + 1
        /\ UNCHANGED <<queue, bytesQueued>>
  /\ aggr' = <<>>

\* The ADC clock is stopped and the ADC disarmed.
ShutdownFlush ==
  /\ pc = "flush"
  /\ FlushPartial
  /\ armed' = FALSE
  /\ IF closing THEN pc' = "drainWrites" /\ UNCHANGED state
                ELSE pc' = "poll" /\ state' = "FINALIZING"
  /\ UNCHANGED <<closing, events, mode, cfg, capt, captured, bytesWritten, lastError,
                 output, run>>

-----------------------------------------------------------------------------
(* The commands of the other core, served by OpenAmpFs_RemotePoll.  One    *)
(* poll may find any number of them in the mailbox.                        *)

PollDone ==
  /\ pc = "poll"
  /\ pc' = "run"
  /\ UNCHANGED <<closing, ctl, cfg, capt, buf, counts, output, run>>

\* What DAQ_StartLogging and DAQ_StartStreaming have in common.
BeginRun(m, kind) ==
  /\ mode' = m
  /\ ResetSoftwareBuffers
  /\ captured' = 0 /\ dropped' = 0 /\ bytesWritten' = 0 /\ lastError' = NoError
  /\ events' = {"START"}
  /\ out' = <<>>
  /\ run' = kind
  /\ UNCHANGED <<loop, state, armed, capt>>

StartLogging(c) ==
  /\ pc = "poll" /\ state \in StartStates
  /\ cfg' = c
  /\ logOpen' = TRUE
  /\ BeginRun("LOG", "log")

\* EmmcFs_OpenRawLog fails after the previous log was closed.
StartLoggingFails(c) ==
  /\ pc = "poll" /\ state \in StartStates
  /\ cfg' = c
  /\ logOpen' = FALSE
  /\ lastError' = WriteOpen
  /\ UNCHANGED <<loop, ctl, capt, buf, captured, dropped, bytesWritten, out, run>>

StartStreaming(c) ==
  /\ pc = "poll" /\ state \in StartStates
  /\ cfg' = c
  /\ logOpen' = FALSE
  /\ BeginRun("STREAM", "stream")

Stop ==
  /\ pc = "poll"
  /\ IF state = "IDLE"
       THEN /\ ResetSoftwareBuffers
            /\ events' = {} /\ armed' = FALSE /\ mode' = "IDLE"
            /\ UNCHANGED state
       ELSE /\ events' = {"STOP"}
            /\ UNCHANGED <<state, armed, mode, buf>>
  /\ UNCHANGED <<loop, cfg, capt, counts, output, run>>

\* DAQ_StopAndClose: shut down, drain the queue, close, reset.
StopAndClose ==
  /\ pc = "poll"
  /\ closing' = TRUE
  /\ pc' = IF state = "IDLE" THEN "drainWrites" ELSE "abort"
  /\ UNCHANGED <<ctl, cfg, capt, buf, counts, output, run>>

DrainWrites ==
  /\ pc = "drainWrites"
  /\ WriteBlock
  /\ UNCHANGED loop

\* A partial block found after the drain, which only a calibration run can
\* have left, is queued and drained like the others.
DrainPartial ==
  /\ pc = "drainWrites"
  /\ ~BlockToWrite /\ aggr # <<>>
  /\ FlushPartial
  /\ UNCHANGED <<loop, ctl, cfg, capt, captured, bytesWritten, lastError, output, run>>

\* Mutant: the queue is not drained to the end.
DrainDone_Early ==
  /\ pc = "drainWrites"
  /\ pc' = "closeLog"
  /\ UNCHANGED <<closing, ctl, cfg, capt, buf, counts, output, run>>

DrainDone ==
  /\ pc = "drainWrites"
  /\ ~BlockToWrite /\ aggr = <<>>
  /\ pc' = "closeLog"
  /\ UNCHANGED <<closing, ctl, cfg, capt, buf, counts, output, run>>

CloseAndReset ==
  /\ pc = "closeLog"
  /\ CloseLog
  /\ events' = {} /\ armed' = FALSE /\ state' = "IDLE" /\ mode' = "IDLE"
  /\ ResetSoftwareBuffers
  /\ closing' = FALSE
  /\ pc' = "poll"
  /\ UNCHANGED <<cfg, capt, captured, dropped, bytesWritten, out, run>>

\* DAQ_ReadStreamBlockShared: a block longer than the reader's limit is lost.
ReadStreamBlock(len) ==
  LET blk == Head(queue)
      n   == Len(blk) * FrameBytes
  IN
  /\ pc = "poll" /\ mode = "STREAM" /\ queue # <<>> /\ len >= FrameBytes
  /\ queue' = Tail(queue)
  /\ \/ /\ n <= len
        /\ out' = out \o blk
        /\ Unqueue(n)
        /\ bytesWritten' = bytesWritten + n
        /\ UNCHANGED dropped
     \/ /\ n > len
        /\ dropped' = dropped + 1
        /\ UNCHANGED <<out, bytesQueued, bytesWritten>>
  /\ UNCHANGED <<loop, ctl, cfg, capt, aggr, captured, lastError, logOpen, run>>

\* What both forms of a calibration run leave of the pipeline: the frames
\* that arrive after the accumulator has closed are stored as samples.
CalibrationRun(n) ==
  /\ pc = "poll" /\ state = "IDLE"
  /\ AbortReadDma
  /\ queue' = <<>> /\ bytesQueued' = 0
  /\ \E late \in 0..AggrMax - 1 :
        /\ next + late <= MaxFrames + 1
        /\ aggr' = [i \in 1..late |-> next + (i - 1)]
        /\ next' = next + late
        /\ captured' = n + late
  /\ dropped' \in CalCounts
  /\ bytesWritten' = 0 /\ lastError' = NoError
  /\ armed' = FALSE
  /\ events' = IF n = 0 THEN events ELSE {}
  /\ run' = "calibration"
  /\ UNCHANGED <<loop, state, cfg, output>>

\* Mutant: the early return does not put the mode back.
RunOffsetCalibration_ModeLost(n) ==
  /\ CalibrationRun(n)
  /\ mode' = IF n = 0 THEN "IDLE" ELSE mode

\* DAQ_RunOffsetCalibration busy-waits with its own acquisition loop, whose
\* frames go to the accumulators; mode and configuration are put back, and a
\* run that averaged nothing returns early, before the events are cleared.
RunOffsetCalibration(n) ==
  /\ CalibrationRun(n)
  /\ UNCHANGED mode

Command ==
  \/ \E c \in Configs : StartLogging(c) \/ StartLoggingFails(c) \/ StartStreaming(c)
  \/ Stop
  \/ StopAndClose
  \/ \E len \in ReadLens : ReadStreamBlock(len)
  \/ \E n \in CalCounts : RunOffsetCalibration(n)

-----------------------------------------------------------------------------
Superloop ==
  \/ RunIdle \/ RunPreparing \/ RunAcquiring \/ RunStopping \/ RunFinalizing
  \/ ServiceSample \/ SamplesDone \/ ServiceWrite \/ NothingToWrite
  \/ FinalizeStream \/ FinalizeLog \/ FinalizeWait
  \/ ShutdownAbort \/ ShutdownFlush
  \/ DrainWrites \/ DrainPartial \/ DrainDone \/ CloseAndReset
  \/ PollDone

Next == Interrupt \/ Superloop \/ Command

Spec == Init /\ [][Next]_vars

\* The superloop never blocks: no command, interrupt or ADC frame is owed.
FairSpec == Spec /\ WF_vars(Superloop)

-----------------------------------------------------------------------------
(* Type correctness: what each variable may hold, the capacities of the    *)
(* ring and of the queue included.                                         *)

Frames == Nat \ {0}

TypeOK ==
  /\ pc \in Locations /\ closing \in BOOLEAN
  /\ state \in States /\ events \in SUBSET Events /\ mode \in Modes /\ armed \in BOOLEAN
  /\ cfg \in Configs
  /\ dma \in Nat /\ dmaError \in BOOLEAN /\ next \in Frames
  /\ ring \in Seq(Frames) /\ Len(ring) <= RingSlots
  /\ aggr \in Seq(Frames)
  /\ queue \in Seq(Seq(Frames)) /\ Len(queue) <= QueueDepth
  /\ logOpen \in BOOLEAN /\ out \in Seq(Frames)
  /\ captured \in Nat /\ dropped \in Nat /\ bytesQueued \in Nat /\ bytesWritten \in Nat
  /\ lastError \in {NoError, WriteOpen, WriteData}
  /\ run \in {"none", "log", "stream", "calibration"}

-----------------------------------------------------------------------------
(* Safety, whatever the client sends and when.                             *)

Ascending(s) == \A i, j \in DOMAIN s : i < j => s[i] < s[j]
Precedes(s, t) == \A i \in DOMAIN s, j \in DOMAIN t : s[i] < t[j]

\* The output holds frames in the order the ADC converted them, none twice,
\* across reconfigurations, overruns, aborted transfers and failed writes.
OutputInOrder == Ascending(out)

\* No block outgrows the arrays it is built and packed in: aggr_block.sample
\* is indexed by sample_count before the comparison with block_samples, a
\* bound the start commands may lower while a block is being filled.
BlocksFit ==
  /\ Len(aggr) < AggrMax
  /\ \A i \in DOMAIN queue : Len(queue[i]) \in 1..AggrMax

\* The ADC is armed exactly while a run samples, up to the end of a shutdown.
ArmedWhileSampling ==
  armed <=> /\ state \in {"ACQUIRING", "STOPPING"}
            /\ pc \notin {"drainWrites", "closeLog"}

\* A run that ends leaves its log file closed.
SettledLogIsClosed ==
  [][state = "FINALIZING" /\ state' = "IDLE" => ~logOpen']_vars

-----------------------------------------------------------------------------
(* Safety for a client that starts a run only when the engine is IDLE.     *)

\* The samples of a sequence of blocks, in a row.
Flat(q) ==
  LET flat[i \in 0..Len(q)] == IF i = 0 THEN <<>> ELSE flat[i - 1] \o q[i]
  IN  flat[Len(q)]

QueuedSamples == Len(Flat(queue))

\* The samples that are still in the pipeline, or were put out.
SamplesAccounted == Len(out) + QueuedSamples + Len(aggr)

Logging == run = "log"

\* samples_captured and dropped_buffers account for every sample: what is counted is
\* in the pipeline, in the file, or in a block that dropped_buffers counts, and what
\* is held has been counted.  A run that reports no dropped buffer has lost nothing,
\* and one that reports n has lost at most n blocks.
LossIsReported ==
  Logging => captured \in SamplesAccounted..SamplesAccounted + AggrMax * dropped

\* In a run without drops or errors the byte counters of the status reply are
\* exact: bytes_queued is what waits, bytes_written is the size of the file.
ByteCountersExact ==
  Logging /\ dropped = 0 /\ lastError = NoError =>
    /\ bytesQueued = QueuedSamples * cfg.ch * ChannelBytes
    /\ bytesWritten = Len(out) * cfg.ch * ChannelBytes

\* DAQ_StopAndClose resets the buffers of a logging run only when everything
\* in them has been written or counted as dropped.
StopAndCloseDrains ==
  pc = "closeLog" /\ Logging => PipelineEmpty

\* While samples are taken, something will consume them.
AcquisitionHasSink ==
  state \in {"PREPARING", "ACQUIRING", "STOPPING"} => mode # "IDLE"

-----------------------------------------------------------------------------
(* Liveness. *)

\* A stop request ends the run: DAQ_Stop outside IDLE leads back to IDLE.
StopReachesIdle == "STOP" \in events ~> state = "IDLE"

Queued(f) == \E i \in DOMAIN queue : \E j \in DOMAIN queue[i] : queue[i][j] = f

\* No block of a logging run waits for ever: with each turn the superloop takes
\* the oldest one off the queue, written or dropped, whatever comes in behind
\* it.  A block is known by the frames in it.
BlocksLeaveQueue ==
  \A f \in 1..MaxFrames : mode = "LOG" /\ Queued(f) ~> ~Queued(f)

=============================================================================

--------------------------- MODULE DaqEngineProofs ---------------------------
(***************************************************************************)
(* Proofs about DaqEngine, for every size of the buffers: the types, the   *)
(* safety of any client, and what holds for a client that starts runs in   *)
(* IDLE only, up to the implementation of RecordingSession.                *)
(***************************************************************************)
EXTENDS DaqRefinement, SequenceTheorems, WellFoundedInduction, TLAPS

-----------------------------------------------------------------------------
(* Type correctness.  The capacity of the ring holds because a transfer is *)
(* started only when a slot is free, and no other can be in flight.        *)

SlotReserved == dma # NoTransfer => Len(ring) < RingSlots

TypeInv == TypeOK /\ SlotReserved

\* The byte counts of a block are natural numbers.
LEMMA ByteCount ==
  ASSUME NEW n \in Nat, NEW c \in 1..8
  PROVE  n * c * ChannelBytes \in Nat /\ n * FrameBytes \in Nat
BY DEF ChannelBytes, FrameBytes

\* What DAQ_GetQueuedBytes computes is a natural number.
LEMMA QueuedBytesNat ==
  ASSUME TypeOK, NEW n \in Nat
  PROVE  QueuedBytes(n) \in Nat
<1>1. cfg.ch \in 1..8  BY ConstantsAssumption DEF TypeOK, Configs
<1>2. n * cfg.ch * ChannelBytes \in Nat /\ n * FrameBytes \in Nat  BY <1>1, ByteCount
<1>. QED  BY <1>2 DEF QueuedBytes

\* Pushing a block of frames on a queue that is not full keeps its type.
LEMMA PushType ==
  ASSUME TypeOK, NEW blk \in Seq(Frames), ~QueueFull, QueuePush(blk)
  PROVE  /\ queue' \in Seq(Seq(Frames))
         /\ Len(queue') <= QueueDepth
         /\ bytesQueued' \in Nat
<1>1. Len(blk) \in Nat  BY LenProperties
<1>2. QueuedBytes(Len(blk)) \in Nat  BY <1>1, QueuedBytesNat
<1>3. queue \in Seq(Seq(Frames)) /\ Len(queue) < QueueDepth
  <2>1. queue \in Seq(Seq(Frames)) /\ Len(queue) \in Nat  BY LenProperties DEF TypeOK
  <2>. QED  BY <2>1, ConstantsAssumption DEF QueueFull
<1>4. queue' = Append(queue, blk)  BY DEF QueuePush
<1>5. queue' \in Seq(Seq(Frames)) /\ Len(queue') = Len(queue) + 1  BY <1>3, <1>4, AppendProperties
<1>. QED
  BY <1>2, <1>3, <1>5, LenProperties, ConstantsAssumption DEF QueuePush, TypeOK

LEMMA InitType == Init => TypeInv
<1>. SUFFICES ASSUME Init PROVE TypeInv  OBVIOUS
<1>1. <<>> \in Seq(Frames) /\ <<>> \in Seq(Seq(Frames)) /\ Len(<<>>) = 0
  BY EmptySeq
<1>2. QueueDepth \in Nat /\ RingSlots \in Nat  BY ConstantsAssumption
<1>3. cfg \in Configs
  <2>1. 8 \in ChannelCounts /\ AggrMax \in 1..AggrMax  BY ConstantsAssumption
  <2>. QED  BY <2>1 DEF Init, Configs
<1>4. pc \in Locations /\ state \in States /\ mode \in Modes /\ events \in SUBSET Events
  BY DEF Init, Locations, States, Modes
<1>5. next \in Frames /\ dma = NoTransfer  BY DEF Init, Frames
<1>6. ring \in Seq(Frames) /\ Len(ring) <= RingSlots /\ aggr \in Seq(Frames)
      /\ queue \in Seq(Seq(Frames)) /\ Len(queue) <= QueueDepth /\ out \in Seq(Frames)
  BY <1>1, <1>2 DEF Init
<1>7. /\ closing \in BOOLEAN /\ armed \in BOOLEAN /\ dmaError \in BOOLEAN
      /\ logOpen \in BOOLEAN /\ run \in {"none", "log", "stream", "calibration"}
      /\ lastError \in {NoError, WriteOpen, WriteData}
  BY DEF Init
<1>8. /\ captured \in Nat /\ dropped \in Nat /\ bytesQueued \in Nat /\ bytesWritten \in Nat
      /\ dma \in Nat
  BY <1>5 DEF Init, NoTransfer
<1>9. TypeOK
  BY <1>3, <1>4, <1>5, <1>6, <1>7, <1>8 DEF TypeOK
<1>. QED
  BY <1>5, <1>9 DEF TypeInv, SlotReserved

\* The steps of the superloop that touch neither the pipeline nor the ring.
ControlStep ==
  \/ RunIdle \/ RunAcquiring \/ RunStopping \/ RunFinalizing \/ SamplesDone
  \/ NothingToWrite \/ FinalizeWait \/ PollDone \/ StopAndClose \/ DrainDone

LEMMA ControlType == TypeInv /\ ControlStep => TypeInv'
<1>. SUFFICES ASSUME TypeInv, ControlStep PROVE TypeInv'  OBVIOUS
<1>. USE DEF TypeInv, TypeOK, SlotReserved, Locations, States, Events, Modes, loop, ctl, capt,
             buf, counts, output
<1>1. CASE RunIdle  BY <1>1, ZenonT(40) DEF RunIdle
<1>2. CASE RunAcquiring  BY <1>2, ZenonT(40) DEF RunAcquiring
<1>3. CASE RunStopping  BY <1>3 DEF RunStopping
<1>4. CASE RunFinalizing  BY <1>4 DEF RunFinalizing
<1>5. CASE SamplesDone  BY <1>5 DEF SamplesDone
<1>6. CASE NothingToWrite  BY <1>6 DEF NothingToWrite, AfterWrite
<1>7. CASE FinalizeWait  BY <1>7 DEF FinalizeWait
<1>8. CASE PollDone  BY <1>8 DEF PollDone
<1>9. CASE StopAndClose  BY <1>9 DEF StopAndClose
<1>10. CASE DrainDone  BY <1>10 DEF DrainDone
<1>. QED  BY <1>1, <1>2, <1>3, <1>4, <1>5, <1>6, <1>7, <1>8, <1>9, <1>10 DEF ControlStep

LEMMA InterruptType == TypeInv /\ Interrupt => TypeInv'
<1>. SUFFICES ASSUME TypeInv, Interrupt PROVE TypeInv'  OBVIOUS
<1>. USE DEF TypeInv, TypeOK, SlotReserved, NoTransfer, loop, ctl, buf, counts, output
<1>1. CASE DrdyStart
  <2>1. next \in Frames /\ next + 1 \in Frames /\ next \in Nat  BY DEF Frames
  <2>. QED  BY <1>1, <2>1 DEF DrdyStart
<1>2. CASE DrdyOverrun
  <2>1. next + 1 \in Frames  BY DEF Frames
  <2>. QED  BY <1>2, <2>1 DEF DrdyOverrun, IsrMaySample
<1>3. CASE DmaComplete
  <2>1. dma \in Frames /\ ring \in Seq(Frames) /\ Len(ring) < RingSlots
    BY <1>3 DEF DmaComplete, Frames
  <2>2. ring' \in Seq(Frames) /\ Len(ring') = Len(ring) + 1
    BY <1>3, <2>1, AppendProperties DEF DmaComplete
  <2>3. Len(ring') <= RingSlots
    BY <2>1, <2>2, LenProperties, ConstantsAssumption
  <2>. QED  BY <1>3, <2>2, <2>3 DEF DmaComplete
<1>4. CASE DmaError  BY <1>4 DEF DmaError
<1>. QED  BY <1>1, <1>2, <1>3, <1>4 DEF Interrupt

-----------------------------------------------------------------------------
(* The steps of the superloop that move frames. *)

\* Taking the oldest element keeps the type of a sequence and shortens it.
LEMMA TailType ==
  ASSUME NEW S, NEW s \in Seq(S), s # <<>>
  PROVE  Head(s) \in S /\ Tail(s) \in Seq(S) /\ Len(Tail(s)) < Len(s) /\ Len(s) \in Nat
<1>1. Head(s) \in S /\ Tail(s) \in Seq(S) /\ Len(Tail(s)) = Len(s) - 1
  BY HeadTailProperties
<1>. QED  BY <1>1, LenProperties

\* The reset of the software buffers keeps their type.
LEMMA ResetType ==
  ASSUME ResetSoftwareBuffers
  PROVE  /\ aggr' \in Seq(Frames)
         /\ queue' \in Seq(Seq(Frames)) /\ Len(queue') <= QueueDepth
         /\ bytesQueued' \in Nat
BY EmptySeq, ConstantsAssumption DEF ResetSoftwareBuffers

\* So does the end of an aggregated block,
LEMMA CompleteType ==
  ASSUME TypeOK, NEW blk \in Seq(Frames), CompleteBlock(blk)
  PROVE  /\ aggr' \in Seq(Frames)
         /\ queue' \in Seq(Seq(Frames)) /\ Len(queue') <= QueueDepth
         /\ bytesQueued' \in Nat /\ captured' \in Nat /\ dropped' \in Nat
<1>1. aggr' \in Seq(Frames)  BY EmptySeq DEF CompleteBlock
<1>2. captured' \in Nat /\ dropped' \in Nat  BY DEF CompleteBlock, TypeOK
<1>3. CASE QueueFull  BY <1>1, <1>2, <1>3 DEF CompleteBlock, TypeOK
<1>4. CASE ~QueueFull
  <2>1. QueuePush(blk)  BY <1>4 DEF CompleteBlock
  <2>. QED  BY <1>1, <1>2, <1>4, <2>1, PushType
<1>. QED  BY <1>3, <1>4

\* the flush of a partial one,
LEMMA FlushType ==
  ASSUME TypeOK, FlushPartial
  PROVE  /\ aggr' \in Seq(Frames)
         /\ queue' \in Seq(Seq(Frames)) /\ Len(queue') <= QueueDepth
         /\ bytesQueued' \in Nat /\ dropped' \in Nat
<1>1. aggr' \in Seq(Frames)  BY EmptySeq DEF FlushPartial
<1>2. dropped' \in Nat  BY DEF FlushPartial, TypeOK
<1>3. CASE QueuePush(aggr) /\ ~QueueFull
  BY <1>1, <1>2, <1>3, PushType DEF TypeOK
<1>4. CASE UNCHANGED <<queue, bytesQueued>>
  BY <1>1, <1>2, <1>4 DEF TypeOK
<1>. QED  BY <1>3, <1>4 DEF FlushPartial

\* and the clamped subtraction from bytes_queued.
LEMMA UnqueueType ==
  ASSUME TypeOK, NEW n \in Nat, Unqueue(n)
  PROVE  bytesQueued' \in Nat
BY DEF Unqueue, TypeOK

\* The oldest block of the queue, and the room behind it.
LEMMA HeadBlock ==
  ASSUME TypeOK, queue # <<>>
  PROVE  /\ Head(queue) \in Seq(Frames) /\ Len(Head(queue)) \in Nat
         /\ Tail(queue) \in Seq(Seq(Frames)) /\ Len(Tail(queue)) <= QueueDepth
<1>1. queue \in Seq(Seq(Frames)) /\ Len(queue) <= QueueDepth  BY DEF TypeOK
<1>2. /\ Head(queue) \in Seq(Frames) /\ Tail(queue) \in Seq(Seq(Frames))
      /\ Len(Tail(queue)) < Len(queue) /\ Len(queue) \in Nat
  BY <1>1, TailType
<1>3. Len(Head(queue)) \in Nat  BY <1>2, LenProperties
<1>4. Len(Tail(queue)) \in Nat  BY <1>2, LenProperties
<1>. QED  BY <1>1, <1>2, <1>3, <1>4, ConstantsAssumption

LEMMA WriteType ==
  ASSUME TypeOK, WriteBlock
  PROVE  /\ queue' \in Seq(Seq(Frames)) /\ Len(queue') <= QueueDepth
         /\ out' \in Seq(Frames)
         /\ bytesQueued' \in Nat /\ bytesWritten' \in Nat /\ dropped' \in Nat
         /\ lastError' \in {NoError, WriteOpen, WriteData}
<1>. DEFINE blk == Head(queue)
            n   == Len(blk) * cfg.ch * ChannelBytes
<1>1. queue # <<>>  BY DEF WriteBlock, BlockToWrite
<1>2. /\ blk \in Seq(Frames) /\ Len(blk) \in Nat
      /\ Tail(queue) \in Seq(Seq(Frames)) /\ Len(Tail(queue)) <= QueueDepth
  BY <1>1, HeadBlock
<1>3. n \in Nat
  <2>1. cfg.ch \in 1..8  BY ConstantsAssumption DEF TypeOK, Configs
  <2>. QED  BY <1>2, <2>1, ByteCount
<1>4. queue' = Tail(queue)  BY DEF WriteBlock
<1>5. out \in Seq(Frames)  BY DEF TypeOK
<1>6. lastError' \in {NoError, WriteOpen, WriteData} /\ dropped' \in Nat
  BY DEF WriteBlock, TypeOK
<1>7. CASE out' = out \o blk /\ Unqueue(n) /\ bytesWritten' = bytesWritten + n
  <2>1. out' \in Seq(Frames)  BY <1>2, <1>5, <1>7, ConcatProperties
  <2>2. bytesQueued' \in Nat  BY <1>3, <1>7, UnqueueType
  <2>3. bytesWritten' \in Nat  BY <1>3, <1>7 DEF TypeOK
  <2>. QED  BY <1>2, <1>4, <1>6, <2>1, <2>2, <2>3
<1>8. CASE UNCHANGED <<out, bytesQueued, bytesWritten>>
  BY <1>2, <1>4, <1>6, <1>8 DEF TypeOK
<1>9. CASE /\ \E k \in 0..Len(blk) - 1 : out' = out \o SubSeq(blk, 1, k)
           /\ UNCHANGED <<bytesQueued, bytesWritten>>
  <2>1. PICK k \in 0..Len(blk) - 1 : out' = out \o SubSeq(blk, 1, k)  BY <1>9
  <2>2. SubSeq(blk, 1, k) \in Seq(Frames)
    <3>1. \A i \in 1..k : blk[i] \in Frames  BY <1>2, <2>1, ElementOfSeq
    <3>. QED  BY <1>2, <2>1, <3>1, SubSeqProperties
  <2>3. out' \in Seq(Frames)  BY <1>5, <2>1, <2>2, ConcatProperties
  <2>. QED  BY <1>2, <1>4, <1>6, <1>9, <2>3 DEF TypeOK
<1>. QED  BY <1>7, <1>8, <1>9 DEF WriteBlock

PipelineStep ==
  \/ RunPreparing \/ ServiceSample \/ ServiceWrite \/ FinalizeStream \/ FinalizeLog
  \/ ShutdownAbort \/ ShutdownFlush \/ DrainWrites \/ DrainPartial \/ CloseAndReset

LEMMA PipelineType == TypeInv /\ PipelineStep => TypeInv'
<1>. SUFFICES ASSUME TypeInv, PipelineStep PROVE TypeInv'  OBVIOUS
<1>. USE DEF TypeInv, SlotReserved, loop, ctl, capt, buf, counts, output
<1>. TypeOK  OBVIOUS
<1>1. CASE RunPreparing
  <2>1. aggr' \in Seq(Frames)  BY <1>1, EmptySeq DEF RunPreparing
  <2>. QED  BY <1>1, <2>1 DEF RunPreparing, TypeOK, States, Locations
<1>2. CASE ServiceSample
  <2>1. ring # <<>> /\ ring \in Seq(Frames) /\ ring' = Tail(ring)
    BY <1>2 DEF ServiceSample, FrameReady, TypeOK
  <2>2. /\ Head(ring) \in Frames /\ ring' \in Seq(Frames)
        /\ Len(ring') < Len(ring) /\ Len(ring) \in Nat
    BY <2>1, TailType
  <2>3. Len(ring') <= RingSlots /\ Len(ring') < RingSlots
    BY <2>2, LenProperties, ConstantsAssumption DEF TypeOK
  <2>4. /\ aggr' \in Seq(Frames)
        /\ queue' \in Seq(Seq(Frames)) /\ Len(queue') <= QueueDepth
        /\ bytesQueued' \in Nat /\ captured' \in Nat /\ dropped' \in Nat
    <3>1. CASE RejectFrame  BY <3>1 DEF RejectFrame, TypeOK
    <3>2. CASE StoreFrame(Head(ring))
      <4>. DEFINE blk == Append(aggr, Head(ring))
      <4>1. blk \in Seq(Frames)  BY <2>2, AppendProperties DEF TypeOK
      <4>2. CASE CompleteBlock(blk)  BY <4>1, <4>2, CompleteType
      <4>3. CASE aggr' = blk /\ captured' = captured + 1
                 /\ UNCHANGED <<queue, bytesQueued, dropped>>
        BY <4>1, <4>3 DEF TypeOK
      <4>. QED  BY <3>2, <4>2, <4>3 DEF StoreFrame
    <3>. QED  BY <1>2, <3>1, <3>2 DEF ServiceSample
  <2>. QED  BY <1>2, <2>2, <2>3, <2>4 DEF ServiceSample, TypeOK
<1>3. CASE ServiceWrite
  <2>1. WriteBlock  BY <1>3 DEF ServiceWrite
  <2>2. pc' \in Locations  BY <1>3 DEF ServiceWrite, AfterWrite, Locations
  <2>. QED  BY <1>3, <2>1, <2>2, WriteType DEF ServiceWrite, WriteBlock, TypeOK
<1>4. CASE FinalizeStream
  BY <1>4, ResetType DEF FinalizeStream, TypeOK, States, Modes, Locations
<1>5. CASE FinalizeLog
  BY <1>5 DEF FinalizeLog, CloseLog, TypeOK, States, Modes, Locations
<1>6. CASE ShutdownAbort
  <2>1. ring' \in Seq(Frames) /\ Len(ring') <= RingSlots
    BY <1>6, EmptySeq, ConstantsAssumption DEF ShutdownAbort, AbortReadDma
  <2>. QED  BY <1>6, <2>1 DEF ShutdownAbort, AbortReadDma, TypeOK, NoTransfer, Locations
<1>7. CASE ShutdownFlush
  <2>1. FlushPartial  BY <1>7 DEF ShutdownFlush
  <2>. QED  BY <1>7, <2>1, FlushType, ZenonT(40) DEF ShutdownFlush, TypeOK, States, Locations
<1>8. CASE DrainWrites
  <2>1. WriteBlock  BY <1>8 DEF DrainWrites
  <2>. QED  BY <1>8, <2>1, WriteType DEF DrainWrites, WriteBlock, TypeOK
<1>9. CASE DrainPartial
  <2>1. FlushPartial  BY <1>9 DEF DrainPartial
  <2>. QED  BY <1>9, <2>1, FlushType DEF DrainPartial, TypeOK
<1>10. CASE CloseAndReset
  BY <1>10, ResetType DEF CloseAndReset, CloseLog, TypeOK, States, Modes, Locations
<1>. QED
  BY <1>1, <1>2, <1>3, <1>4, <1>5, <1>6, <1>7, <1>8, <1>9, <1>10 DEF PipelineStep

-----------------------------------------------------------------------------
(* The commands that change the pipeline; StopAndClose is a control step.  *)

\* What the two start commands have in common.
LEMMA BeginType ==
  ASSUME TypeInv, pc' = pc, NEW c \in Configs, cfg' = c, logOpen' \in BOOLEAN,
         NEW m \in Modes, NEW kind \in {"log", "stream"}, BeginRun(m, kind)
  PROVE  TypeInv'
<1>1. out' \in Seq(Frames)  BY EmptySeq DEF BeginRun
<1>2. events' \in SUBSET Events /\ mode' \in Modes /\ run' \in {"none", "log", "stream", "calibration"}
  BY DEF BeginRun, Events
<1>3. ResetSoftwareBuffers  BY DEF BeginRun
<1>. QED
  BY <1>1, <1>2, <1>3, ResetType DEF BeginRun, TypeInv, TypeOK, SlotReserved, loop, capt

LEMMA CommandType == TypeInv /\ Command => TypeInv'
<1>. SUFFICES ASSUME TypeInv, Command PROVE TypeInv'  OBVIOUS
<1>. TypeOK  BY DEF TypeInv
<1>1. ASSUME NEW c \in Configs, StartLogging(c) PROVE TypeInv'
  BY <1>1, BeginType DEF StartLogging, BeginRun, loop, Modes
<1>2. ASSUME NEW c \in Configs, StartLoggingFails(c) PROVE TypeInv'
  BY <1>2 DEF StartLoggingFails, TypeInv, TypeOK, SlotReserved, loop, ctl, capt, buf
<1>3. ASSUME NEW c \in Configs, StartStreaming(c) PROVE TypeInv'
  BY <1>3, BeginType DEF StartStreaming, BeginRun, loop, Modes
<1>4. CASE Stop
  <2>1. CASE state = "IDLE"
    BY <1>4, <2>1, ResetType
    DEF Stop, TypeInv, TypeOK, SlotReserved, Modes, loop, capt, counts, output
  <2>2. CASE state # "IDLE"
    BY <1>4, <2>2 DEF Stop, TypeInv, TypeOK, SlotReserved, Events, loop, capt, buf, counts, output
  <2>. QED  BY <2>1, <2>2
<1>5. CASE StopAndClose  BY <1>5, ControlType DEF ControlStep
<1>6. ASSUME NEW len \in ReadLens, ReadStreamBlock(len) PROVE TypeInv'
  <2>. DEFINE blk == Head(queue)
              n   == Len(blk) * FrameBytes
  <2>1. /\ blk \in Seq(Frames) /\ Len(blk) \in Nat
        /\ Tail(queue) \in Seq(Seq(Frames)) /\ Len(Tail(queue)) <= QueueDepth
    BY <1>6, HeadBlock DEF ReadStreamBlock
  <2>2. n \in Nat  BY <2>1 DEF FrameBytes
  <2>3. /\ out' \in Seq(Frames) /\ bytesQueued' \in Nat /\ bytesWritten' \in Nat
        /\ dropped' \in Nat
    <3>1. CASE /\ out' = out \o blk /\ Unqueue(n) /\ bytesWritten' = bytesWritten + n
               /\ UNCHANGED dropped
      <4>1. out' \in Seq(Frames)  BY <2>1, <3>1, ConcatProperties DEF TypeOK
      <4>2. bytesQueued' \in Nat  BY <2>2, <3>1, UnqueueType
      <4>. QED  BY <2>2, <3>1, <4>1, <4>2 DEF TypeOK
    <3>2. CASE dropped' = dropped + 1 /\ UNCHANGED <<out, bytesQueued, bytesWritten>>
      BY <3>2 DEF TypeOK
    <3>. QED  BY <1>6, <3>1, <3>2 DEF ReadStreamBlock
  <2>. QED
    BY <1>6, <2>1, <2>3 DEF ReadStreamBlock, TypeInv, TypeOK, SlotReserved, loop, ctl, capt
<1>7. ASSUME NEW n \in CalCounts, RunOffsetCalibration(n) PROVE TypeInv'
  <2>1. n \in Nat /\ dropped' \in Nat
    BY <1>7, ConstantsAssumption DEF RunOffsetCalibration, CalibrationRun
  <2>2. PICK late \in 0..AggrMax - 1 :
          /\ aggr' = [i \in 1..late |-> next + (i - 1)]
          /\ next' = next + late
          /\ captured' = n + late
    BY <1>7 DEF RunOffsetCalibration, CalibrationRun
  <2>3. late \in Nat  BY <2>2, ConstantsAssumption
  <2>4. \A i \in 1..late : next + (i - 1) \in Frames  BY <2>3 DEF TypeOK, Frames
  <2>5. aggr' \in Seq(Frames)  BY <2>2, <2>3, <2>4, IsASeq
  <2>6. next' \in Frames /\ captured' \in Nat
    BY <2>1, <2>2, <2>3 DEF TypeOK, Frames
  <2>7. /\ ring' \in Seq(Frames) /\ Len(ring') <= RingSlots
        /\ queue' \in Seq(Seq(Frames)) /\ Len(queue') <= QueueDepth
    BY <1>7, EmptySeq, ConstantsAssumption
    DEF RunOffsetCalibration, CalibrationRun, AbortReadDma
  <2>. QED
    BY <1>7, <2>1, <2>5, <2>6, <2>7
    DEF RunOffsetCalibration, CalibrationRun, AbortReadDma, TypeInv, TypeOK, SlotReserved,
        NoTransfer, loop, output, Modes, Events
<1>. QED  BY <1>1, <1>2, <1>3, <1>4, <1>5, <1>6, <1>7 DEF Command

LEMMA StepType == TypeInv /\ [Next]_vars => TypeInv'
<1>. SUFFICES ASSUME TypeInv, [Next]_vars PROVE TypeInv'  OBVIOUS
<1>1. CASE Interrupt  BY <1>1, InterruptType
<1>2. CASE Superloop
  BY <1>2, ControlType, PipelineType DEF Superloop, ControlStep, PipelineStep
<1>3. CASE Command  BY <1>3, CommandType
<1>4. CASE UNCHANGED vars
  BY <1>4 DEF vars, loop, ctl, capt, buf, counts, output, TypeInv, TypeOK, SlotReserved
<1>. QED  BY <1>1, <1>2, <1>3, <1>4 DEF Next

\* Every variable keeps its type, the frame ring and the write queue never hold
\* more than they have room for, whatever the commands and the interrupts.
THEOREM TypeCorrect == Spec => []TypeOK
<1>1. Init => TypeInv  BY InitType
<1>2. TypeInv /\ [Next]_vars => TypeInv'  BY StepType
<1>3. TypeInv => TypeOK  BY DEF TypeInv
<1>. QED  BY <1>1, <1>2, <1>3, PTL DEF Spec

-----------------------------------------------------------------------------
(* Where the superloop may be in which state.                              *)

Shutdown == {"abort", "drain", "flush"}
Closing  == {"drainWrites", "closeLog"}

ControlInv ==
  /\ pc = "samples" => state = "ACQUIRING"
  /\ pc = "write" => state \in {"ACQUIRING", "FINALIZING"}
  /\ pc = "finalize" => state = "FINALIZING"
  /\ pc \in Shutdown => state # "IDLE" /\ (~closing => state = "STOPPING")
  /\ closing => pc \in Shutdown \cup Closing
  /\ ArmedWhileSampling

LEMMA ControlInit == Init => ControlInv
BY DEF Init, ControlInv, ArmedWhileSampling, Shutdown, Closing

LEMMA ControlSuperloop == TypeOK /\ ControlInv /\ Superloop => ControlInv'
<1>. SUFFICES ASSUME TypeOK, ControlInv, Superloop PROVE ControlInv'  OBVIOUS
<1>. USE DEF ControlInv, ArmedWhileSampling, Shutdown, Closing, loop, ctl
<1>1. CASE RunIdle  BY <1>1 DEF RunIdle
<1>2. CASE RunPreparing  BY <1>2 DEF RunPreparing
<1>3. CASE RunAcquiring  BY <1>3 DEF RunAcquiring
<1>4. CASE RunStopping  BY <1>4 DEF RunStopping
<1>5. CASE RunFinalizing  BY <1>5 DEF RunFinalizing
<1>6. CASE ServiceSample  BY <1>6 DEF ServiceSample
<1>7. CASE SamplesDone  BY <1>7 DEF SamplesDone
<1>8. CASE ServiceWrite  BY <1>8 DEF ServiceWrite, WriteBlock, AfterWrite
<1>9. CASE NothingToWrite  BY <1>9 DEF NothingToWrite, AfterWrite
<1>10. CASE FinalizeStream  BY <1>10 DEF FinalizeStream
<1>11. CASE FinalizeLog  BY <1>11 DEF FinalizeLog
<1>12. CASE FinalizeWait  BY <1>12 DEF FinalizeWait
<1>13. CASE ShutdownAbort  BY <1>13 DEF ShutdownAbort
<1>14. CASE ShutdownFlush  BY <1>14 DEF ShutdownFlush
<1>15. CASE DrainWrites  BY <1>15 DEF DrainWrites, WriteBlock
<1>16. CASE DrainPartial  BY <1>16 DEF DrainPartial
<1>17. CASE DrainDone  BY <1>17 DEF DrainDone
<1>18. CASE CloseAndReset  BY <1>18 DEF CloseAndReset
<1>19. CASE PollDone  BY <1>19 DEF PollDone
<1>. QED
  BY <1>1, <1>2, <1>3, <1>4, <1>5, <1>6, <1>7, <1>8, <1>9, <1>10, <1>11, <1>12, <1>13,
     <1>14, <1>15, <1>16, <1>17, <1>18, <1>19 DEF Superloop

LEMMA ControlCommand == ControlInv /\ Command => ControlInv'
<1>. SUFFICES ASSUME ControlInv, Command PROVE ControlInv'  OBVIOUS
<1>. USE DEF ControlInv, ArmedWhileSampling, Shutdown, Closing, loop, ctl
<1>1. ASSUME NEW c \in Configs, StartLogging(c) PROVE ControlInv'
  BY <1>1 DEF StartLogging, BeginRun
<1>2. ASSUME NEW c \in Configs, StartLoggingFails(c) PROVE ControlInv'
  BY <1>2 DEF StartLoggingFails
<1>3. ASSUME NEW c \in Configs, StartStreaming(c) PROVE ControlInv'
  BY <1>3 DEF StartStreaming, BeginRun
<1>4. CASE Stop  BY <1>4 DEF Stop
<1>5. CASE StopAndClose  BY <1>5 DEF StopAndClose
<1>6. ASSUME NEW len \in ReadLens, ReadStreamBlock(len) PROVE ControlInv'
  BY <1>6 DEF ReadStreamBlock
<1>7. ASSUME NEW n \in CalCounts, RunOffsetCalibration(n) PROVE ControlInv'
  BY <1>7 DEF RunOffsetCalibration, CalibrationRun
<1>. QED  BY <1>1, <1>2, <1>3, <1>4, <1>5, <1>6, <1>7 DEF Command

LEMMA ControlNext == TypeOK /\ ControlInv /\ [Next]_vars => ControlInv'
<1>. SUFFICES ASSUME TypeOK, ControlInv, [Next]_vars PROVE ControlInv'  OBVIOUS
<1>1. CASE Interrupt
  BY <1>1 DEF Interrupt, DrdyStart, DrdyOverrun, DmaComplete, DmaError, loop, ctl,
              ControlInv, ArmedWhileSampling
<1>2. CASE Superloop  BY <1>2, ControlSuperloop
<1>3. CASE Command  BY <1>3, ControlCommand
<1>4. CASE UNCHANGED vars  BY <1>4 DEF vars, loop, ctl, ControlInv, ArmedWhileSampling
<1>. QED  BY <1>1, <1>2, <1>3, <1>4 DEF Next

\* The ADC is armed exactly while a run samples: DAQ_Startup arms it on the
\* way into ACQUIRING, and no path out of a shutdown leaves it armed.
THEOREM ArmedCorrect == Spec => []ArmedWhileSampling
<1>1. Init => ControlInv  BY ControlInit
<1>2. TypeOK /\ ControlInv /\ [Next]_vars => ControlInv'  BY ControlNext
<1>3. ControlInv => ArmedWhileSampling  BY DEF ControlInv
<1>. QED  BY <1>1, <1>2, <1>3, TypeCorrect, PTL DEF Spec

-----------------------------------------------------------------------------
(* A client that starts a run only when the engine is IDLE.                *)

\* A start that waits keeps the sink it chose until the state machine takes it.
SinkInv ==
  /\ AcquisitionHasSink
  /\ "START" \in events => state = "IDLE" /\ mode # "IDLE"

LEMMA SinkSuperloop == TypeOK /\ ControlInv /\ SinkInv /\ Superloop => SinkInv'
<1>. SUFFICES ASSUME TypeOK, ControlInv, SinkInv, Superloop PROVE SinkInv'  OBVIOUS
<1>. USE DEF SinkInv, AcquisitionHasSink, loop, ctl
<1>1. CASE RunIdle  BY <1>1 DEF RunIdle
<1>2. CASE RunPreparing  BY <1>2 DEF RunPreparing
<1>3. CASE RunAcquiring  BY <1>3 DEF RunAcquiring
<1>4. CASE FinalizeStream  BY <1>4 DEF FinalizeStream, ControlInv
<1>5. CASE FinalizeLog  BY <1>5 DEF FinalizeLog, ControlInv
<1>6. CASE ShutdownFlush  BY <1>6 DEF ShutdownFlush, ControlInv, Shutdown
<1>7. CASE CloseAndReset  BY <1>7 DEF CloseAndReset
<1>8. CASE UNCHANGED ctl  BY <1>8
<1>9. ServiceSample \/ SamplesDone \/ ServiceWrite \/ NothingToWrite \/ FinalizeWait
      \/ RunStopping \/ RunFinalizing \/ ShutdownAbort \/ DrainWrites \/ DrainPartial
      \/ DrainDone \/ PollDone => UNCHANGED ctl
  BY DEF ServiceSample, SamplesDone, ServiceWrite, WriteBlock, NothingToWrite, FinalizeWait,
         RunStopping, RunFinalizing, ShutdownAbort, DrainWrites, DrainPartial, DrainDone, PollDone
<1>. QED
  BY <1>1, <1>2, <1>3, <1>4, <1>5, <1>6, <1>7, <1>8, <1>9 DEF Superloop

LEMMA SinkCommand ==
  ASSUME StartStates = {"IDLE"}, TypeOK, SinkInv, Command
  PROVE  SinkInv'
<1>. USE DEF SinkInv, AcquisitionHasSink, loop, ctl
<1>1. ASSUME NEW c \in Configs, StartLogging(c) PROVE SinkInv'
  BY <1>1 DEF StartLogging, BeginRun
<1>2. ASSUME NEW c \in Configs, StartLoggingFails(c) PROVE SinkInv'
  BY <1>2 DEF StartLoggingFails
<1>3. ASSUME NEW c \in Configs, StartStreaming(c) PROVE SinkInv'
  BY <1>3 DEF StartStreaming, BeginRun
<1>4. CASE Stop  BY <1>4 DEF Stop
<1>5. CASE StopAndClose  BY <1>5 DEF StopAndClose
<1>6. ASSUME NEW len \in ReadLens, ReadStreamBlock(len) PROVE SinkInv'
  BY <1>6 DEF ReadStreamBlock
<1>7. ASSUME NEW n \in CalCounts, RunOffsetCalibration(n) PROVE SinkInv'
  BY <1>7 DEF RunOffsetCalibration, CalibrationRun
<1>. QED  BY <1>1, <1>2, <1>3, <1>4, <1>5, <1>6, <1>7 DEF Command

LEMMA SinkNext ==
  ASSUME StartStates = {"IDLE"}, TypeOK, ControlInv, SinkInv, [Next]_vars
  PROVE  SinkInv'
<1>1. CASE Interrupt
  BY <1>1 DEF Interrupt, DrdyStart, DrdyOverrun, DmaComplete, DmaError, ctl,
              SinkInv, AcquisitionHasSink
<1>2. CASE Superloop  BY <1>2, SinkSuperloop
<1>3. CASE Command  BY <1>3, SinkCommand
<1>4. CASE UNCHANGED vars  BY <1>4 DEF vars, ctl, SinkInv, AcquisitionHasSink
<1>. QED  BY <1>1, <1>2, <1>3, <1>4 DEF Next

\* While samples are taken something consumes them, if starts are sent in IDLE
\* only: a start that has been accepted keeps its mode until it is taken up,
\* through calibrations and stops, and no run ends under it.
THEOREM SinkCorrect ==
  ASSUME StartStates = {"IDLE"}
  PROVE  Spec => []AcquisitionHasSink
<1>1. Init => ControlInv /\ SinkInv
  BY ControlInit DEF Init, SinkInv, AcquisitionHasSink
<1>2. TypeOK /\ ControlInv /\ SinkInv /\ [Next]_vars => ControlInv' /\ SinkInv'
  BY ControlNext, SinkNext
<1>3. SinkInv => AcquisitionHasSink  BY DEF SinkInv
<1>. QED  BY <1>1, <1>2, <1>3, TypeCorrect, PTL DEF Spec
-----------------------------------------------------------------------------
(* What DAQ_StopAndClose discards. *)

\* The counters are about a logging run only while its mode lasts, and after
\* that only once its pipeline is empty.
LogInv ==
  /\ Logging => \/ mode = "LOG"
                \/ mode = "IDLE" /\ state = "IDLE" /\ PipelineEmpty
  /\ StopAndCloseDrains

LEMMA LogSuperloop ==
  TypeOK /\ ControlInv /\ SinkInv /\ LogInv /\ Superloop => LogInv'
<1>. SUFFICES ASSUME TypeOK, ControlInv, SinkInv, LogInv, Superloop PROVE LogInv'  OBVIOUS
<1>. USE DEF LogInv, Logging, PipelineEmpty, StopAndCloseDrains, loop, ctl, buf
<1>1. CASE RunIdle  BY <1>1 DEF RunIdle, SinkInv
<1>2. CASE RunPreparing  BY <1>2 DEF RunPreparing
<1>3. CASE RunAcquiring  BY <1>3 DEF RunAcquiring
<1>4. CASE RunStopping  BY <1>4 DEF RunStopping
<1>5. CASE RunFinalizing  BY <1>5 DEF RunFinalizing
<1>6. CASE ServiceSample  BY <1>6 DEF ServiceSample, ControlInv, Shutdown
<1>7. CASE SamplesDone  BY <1>7 DEF SamplesDone
<1>8. CASE ServiceWrite  BY <1>8 DEF ServiceWrite, WriteBlock, BlockToWrite, AfterWrite
<1>9. CASE NothingToWrite  BY <1>9 DEF NothingToWrite, AfterWrite
<1>10. CASE FinalizeStream  BY <1>10 DEF FinalizeStream, ResetSoftwareBuffers
<1>11. CASE FinalizeLog  BY <1>11 DEF FinalizeLog
<1>12. CASE FinalizeWait  BY <1>12 DEF FinalizeWait
<1>13. CASE ShutdownAbort  BY <1>13 DEF ShutdownAbort
<1>14. CASE ShutdownFlush  BY <1>14 DEF ShutdownFlush, ControlInv, Shutdown
<1>15. CASE DrainWrites  BY <1>15 DEF DrainWrites, WriteBlock, BlockToWrite
<1>16. CASE DrainPartial  BY <1>16 DEF DrainPartial
<1>17. CASE DrainDone  BY <1>17 DEF DrainDone, BlockToWrite
<1>18. CASE CloseAndReset  BY <1>18 DEF CloseAndReset, ResetSoftwareBuffers
<1>19. CASE PollDone  BY <1>19 DEF PollDone
<1>. QED
  BY <1>1, <1>2, <1>3, <1>4, <1>5, <1>6, <1>7, <1>8, <1>9, <1>10, <1>11, <1>12, <1>13,
     <1>14, <1>15, <1>16, <1>17, <1>18, <1>19 DEF Superloop

LEMMA LogCommand == LogInv /\ Command => LogInv'
<1>. SUFFICES ASSUME LogInv, Command PROVE LogInv'  OBVIOUS
<1>. USE DEF LogInv, Logging, PipelineEmpty, StopAndCloseDrains, loop, ctl, buf
<1>1. ASSUME NEW c \in Configs, StartLogging(c) PROVE LogInv'
  BY <1>1 DEF StartLogging, BeginRun
<1>2. ASSUME NEW c \in Configs, StartLoggingFails(c) PROVE LogInv'
  BY <1>2 DEF StartLoggingFails
<1>3. ASSUME NEW c \in Configs, StartStreaming(c) PROVE LogInv'
  BY <1>3 DEF StartStreaming, BeginRun
<1>4. CASE Stop  BY <1>4 DEF Stop, ResetSoftwareBuffers
<1>5. CASE StopAndClose  BY <1>5 DEF StopAndClose
<1>6. ASSUME NEW len \in ReadLens, ReadStreamBlock(len) PROVE LogInv'
  BY <1>6 DEF ReadStreamBlock
<1>7. ASSUME NEW n \in CalCounts, RunOffsetCalibration(n) PROVE LogInv'
  BY <1>7 DEF RunOffsetCalibration, CalibrationRun
<1>. QED  BY <1>1, <1>2, <1>3, <1>4, <1>5, <1>6, <1>7 DEF Command

LEMMA LogNext ==
  ASSUME TypeOK, ControlInv, SinkInv, LogInv, [Next]_vars
  PROVE  LogInv'
<1>1. CASE Interrupt
  BY <1>1 DEF Interrupt, DrdyStart, DrdyOverrun, DmaComplete, DmaError, loop, ctl, buf,
              LogInv, Logging, PipelineEmpty, StopAndCloseDrains
<1>2. CASE Superloop  BY <1>2, LogSuperloop
<1>3. CASE Command  BY <1>3, LogCommand
<1>4. CASE UNCHANGED vars
  BY <1>4 DEF vars, loop, ctl, buf, LogInv, Logging, PipelineEmpty, StopAndCloseDrains
<1>. QED  BY <1>1, <1>2, <1>3, <1>4 DEF Next

\* DAQ_StopAndClose resets the buffers of a logging run only when everything in
\* them has been written or counted as dropped, if starts are sent in IDLE only.
THEOREM DrainsCorrect ==
  ASSUME StartStates = {"IDLE"}
  PROVE  Spec => []StopAndCloseDrains
<1>1. Init => ControlInv /\ SinkInv /\ LogInv
  BY ControlInit DEF Init, SinkInv, AcquisitionHasSink, LogInv, Logging, StopAndCloseDrains
<1>2. TypeOK /\ ControlInv /\ SinkInv /\ LogInv /\ [Next]_vars
      => ControlInv' /\ SinkInv' /\ LogInv'
  BY ControlNext, SinkNext, LogNext
<1>3. LogInv => StopAndCloseDrains  BY DEF LogInv
<1>. QED  BY <1>1, <1>2, <1>3, TypeCorrect, PTL DEF Spec

-----------------------------------------------------------------------------
(* The log file of a run that ends. *)

\* A streaming run has no log file open.
StreamHasNoLog == mode = "STREAM" => ~logOpen

LEMMA StreamNext == StreamHasNoLog /\ [Next]_vars => StreamHasNoLog'
<1>. SUFFICES ASSUME StreamHasNoLog, [Next]_vars PROVE StreamHasNoLog'  OBVIOUS
<1>. USE DEF StreamHasNoLog, ctl, output
<1>1. CASE UNCHANGED <<mode, logOpen>>  BY <1>1
<1>2. CASE mode' # "STREAM"  BY <1>2
<1>3. Interrupt => UNCHANGED <<mode, logOpen>>
  BY DEF Interrupt, DrdyStart, DrdyOverrun, DmaComplete, DmaError
<1>4. Superloop => UNCHANGED <<mode, logOpen>> \/ mode' # "STREAM"
  BY DEF Superloop, RunIdle, RunPreparing, RunAcquiring, RunStopping, RunFinalizing,
         ServiceSample, SamplesDone, ServiceWrite, NothingToWrite, FinalizeStream, FinalizeLog,
         FinalizeWait, ShutdownAbort, ShutdownFlush, DrainWrites, DrainPartial, DrainDone,
         CloseAndReset, PollDone, WriteBlock
<1>5. ASSUME Command PROVE StreamHasNoLog'
  BY <1>5 DEF Command, StartLogging, StartLoggingFails, StartStreaming, BeginRun, Stop,
         StopAndClose, ReadStreamBlock, RunOffsetCalibration, CalibrationRun
<1>6. UNCHANGED vars => UNCHANGED <<mode, logOpen>>  BY DEF vars
<1>. QED  BY <1>1, <1>2, <1>3, <1>4, <1>5, <1>6 DEF Next

\* A run that ends leaves its log file closed: a logging run closes it on the
\* way to IDLE, and a streaming run, which does not, never has one open.
THEOREM SettledCorrect == Spec => SettledLogIsClosed
<1>1. Init => StreamHasNoLog  BY DEF Init, StreamHasNoLog
<1>2. StreamHasNoLog /\ [Next]_vars => StreamHasNoLog'  BY StreamNext
<1>3. StreamHasNoLog /\ [Next]_vars
      => [state = "FINALIZING" /\ state' = "IDLE" => ~logOpen']_vars
  <2>. SUFFICES ASSUME StreamHasNoLog, Next, state = "FINALIZING", state' = "IDLE"
                PROVE  ~logOpen'
    OBVIOUS
  <2>1. CASE FinalizeStream  BY <2>1 DEF FinalizeStream, StreamHasNoLog, output
  <2>2. CASE FinalizeLog  BY <2>2 DEF FinalizeLog, CloseLog
  <2>3. CASE CloseAndReset  BY <2>3 DEF CloseAndReset, CloseLog
  <2>4. Interrupt => state' = state
    BY DEF Interrupt, DrdyStart, DrdyOverrun, DmaComplete, DmaError, ctl
  <2>5. Superloop /\ ~FinalizeStream /\ ~FinalizeLog /\ ~CloseAndReset => state' # "IDLE" \/ state' = state
    BY DEF Superloop, RunIdle, RunPreparing, RunAcquiring, RunStopping, RunFinalizing,
           ServiceSample, SamplesDone, ServiceWrite, NothingToWrite, FinalizeWait, ShutdownAbort,
           ShutdownFlush, DrainWrites, DrainPartial, DrainDone, PollDone, WriteBlock, ctl
  <2>6. Command => state' = state
    BY DEF Command, StartLogging, StartLoggingFails, StartStreaming, BeginRun, Stop,
           StopAndClose, ReadStreamBlock, RunOffsetCalibration, CalibrationRun, ctl
  <2>. QED  BY <2>1, <2>2, <2>3, <2>4, <2>5, <2>6 DEF Next
<1>. QED  BY <1>1, <1>2, <1>3, PTL DEF Spec, SettledLogIsClosed

-----------------------------------------------------------------------------
(* Block sizes. *)

\* A queue of blocks of legal size stays one when a block of legal size is pushed
LEMMA FitPush ==
  ASSUME TypeOK, BlocksFit, NEW blk \in Seq(Frames), Len(blk) \in 1..AggrMax, QueuePush(blk)
  PROVE  \A i \in DOMAIN queue' : Len(queue'[i]) \in 1..AggrMax
<1>1. queue \in Seq(Seq(Frames)) /\ queue' = Append(queue, blk)  BY DEF TypeOK, QueuePush
<1>2. /\ queue' \in Seq(Seq(Frames)) /\ Len(queue') = Len(queue) + 1 /\ Len(queue) \in Nat
      /\ DOMAIN queue = 1..Len(queue) /\ DOMAIN queue' = 1..Len(queue')
      /\ \A i \in 1..Len(queue) : queue'[i] = queue[i]
      /\ queue'[Len(queue) + 1] = blk
  BY <1>1, AppendProperties, LenProperties
<1>3. SUFFICES ASSUME NEW i \in 1..Len(queue) + 1 PROVE Len(queue'[i]) \in 1..AggrMax
  BY <1>2
<1>4. CASE i \in 1..Len(queue)
  <2>1. queue'[i] = queue[i] /\ i \in DOMAIN queue  BY <1>2, <1>4
  <2>. QED  BY <2>1 DEF BlocksFit
<1>5. CASE i = Len(queue) + 1  BY <1>2, <1>5
<1>. QED  BY <1>2, <1>3, <1>4, <1>5

\* or when its oldest is taken.
LEMMA FitPop ==
  ASSUME TypeOK, BlocksFit, queue # <<>>, queue' = Tail(queue)
  PROVE  \A i \in DOMAIN queue' : Len(queue'[i]) \in 1..AggrMax
<1>1. queue \in Seq(Seq(Frames))  BY DEF TypeOK
<1>2. /\ queue' \in Seq(Seq(Frames)) /\ Len(queue') = Len(queue) - 1 /\ Len(queue) \in Nat
      /\ DOMAIN queue = 1..Len(queue) /\ DOMAIN queue' = 1..Len(queue')
      /\ \A i \in 1..Len(queue') : queue'[i] = queue[i + 1]
  BY <1>1, HeadTailProperties, LenProperties
<1>. QED  BY <1>2 DEF BlocksFit

LEMMA FitFlush ==
  ASSUME TypeOK, BlocksFit, FlushPartial
  PROVE  BlocksFit'
<1>1. aggr' = <<>> /\ Len(aggr') < AggrMax
  BY EmptySeq, ConstantsAssumption DEF FlushPartial
<1>2. CASE aggr # <<>> /\ QueuePush(aggr)
  <2>1. aggr \in Seq(Frames) /\ Len(aggr) \in 1..AggrMax
    BY <1>2, EmptySeq, ConstantsAssumption DEF TypeOK, BlocksFit
  <2>. QED  BY <1>1, <1>2, <2>1, FitPush DEF BlocksFit
<1>3. CASE UNCHANGED queue  BY <1>1, <1>3 DEF BlocksFit
<1>. QED  BY <1>2, <1>3 DEF FlushPartial

LEMMA FitStore ==
  ASSUME TypeOK, BlocksFit, NEW f \in Frames, StoreFrame(f)
  PROVE  BlocksFit'
<1>. DEFINE blk == Append(aggr, f)
<1>1. blk \in Seq(Frames) /\ Len(blk) = Len(aggr) + 1 /\ Len(aggr) \in Nat
  BY AppendProperties, LenProperties DEF TypeOK
<1>2. cfg.blk \in 1..AggrMax  BY DEF TypeOK, Configs
<1>3. Len(blk) \in 1..AggrMax  BY <1>1, ConstantsAssumption DEF BlocksFit
<1>4. CASE Len(blk) < cfg.blk /\ aggr' = blk /\ UNCHANGED queue
  BY <1>2, <1>3, <1>4, ConstantsAssumption DEF BlocksFit
<1>5. CASE CompleteBlock(blk)
  <2>1. aggr' = <<>> /\ Len(aggr') < AggrMax
    BY <1>5, EmptySeq, ConstantsAssumption DEF CompleteBlock
  <2>2. CASE QueuePush(blk)  BY <1>1, <1>3, <2>1, <2>2, FitPush DEF BlocksFit
  <2>3. CASE UNCHANGED queue  BY <2>1, <2>3 DEF BlocksFit
  <2>. QED  BY <1>5, <2>2, <2>3 DEF CompleteBlock
<1>. QED  BY <1>4, <1>5 DEF StoreFrame

LEMMA FitReset == ResetSoftwareBuffers => BlocksFit'
<1>. SUFFICES ASSUME ResetSoftwareBuffers PROVE BlocksFit'  OBVIOUS
<1>1. aggr' = <<>> /\ queue' = <<>> /\ Len(aggr') = 0 /\ DOMAIN queue' = {}
  BY EmptySeq DEF ResetSoftwareBuffers
<1>. QED  BY <1>1, ConstantsAssumption DEF BlocksFit

LEMMA FitNext == TypeOK /\ BlocksFit /\ [Next]_vars => BlocksFit'
<1>. SUFFICES ASSUME TypeOK, BlocksFit, [Next]_vars PROVE BlocksFit'  OBVIOUS
<1>1. CASE UNCHANGED <<aggr, queue>>  BY <1>1 DEF BlocksFit
<1>2. CASE RunPreparing
  BY <1>2, EmptySeq, ConstantsAssumption DEF RunPreparing, BlocksFit
<1>3. CASE ServiceSample
  <2>1. Head(ring) \in Frames  BY <1>3, TailType DEF ServiceSample, FrameReady, TypeOK
  <2>2. CASE RejectFrame  BY <1>1, <2>2 DEF RejectFrame, buf
  <2>. QED  BY <1>3, <2>1, <2>2, FitStore DEF ServiceSample
<1>4. CASE WriteBlock
  BY <1>4, FitPop DEF WriteBlock, BlockToWrite, BlocksFit
<1>5. CASE FlushPartial  BY <1>5, FitFlush
<1>6. CASE ResetSoftwareBuffers  BY <1>6, FitReset
<1>7. ASSUME NEW len \in ReadLens, ReadStreamBlock(len) PROVE BlocksFit'
  BY <1>7, FitPop DEF ReadStreamBlock, BlocksFit
<1>8. ASSUME NEW n \in CalCounts, RunOffsetCalibration(n) PROVE BlocksFit'
  <2>1. PICK late \in 0..AggrMax - 1 : aggr' = [i \in 1..late |-> next + (i - 1)]
    BY <1>8 DEF RunOffsetCalibration, CalibrationRun
  <2>2. late \in Nat /\ Len(aggr') = late  BY <2>1, ConstantsAssumption
  <2>3. queue' = <<>> /\ DOMAIN queue' = {}
    BY <1>8 DEF RunOffsetCalibration, CalibrationRun
  <2>. QED  BY <2>1, <2>2, <2>3, ConstantsAssumption DEF BlocksFit
<1>9. CASE Interrupt
  BY <1>1, <1>9 DEF Interrupt, DrdyStart, DrdyOverrun, DmaComplete, DmaError, buf
<1>10. CASE Superloop
  <2>1. RunIdle \/ RunAcquiring \/ RunStopping \/ RunFinalizing \/ SamplesDone \/ NothingToWrite
        \/ FinalizeLog \/ FinalizeWait \/ ShutdownAbort \/ DrainDone \/ PollDone
        => UNCHANGED <<aggr, queue>>
    BY DEF RunIdle, RunAcquiring, RunStopping, RunFinalizing, SamplesDone, NothingToWrite,
           FinalizeLog, FinalizeWait, ShutdownAbort, DrainDone, PollDone, buf
  <2>2. ServiceWrite \/ DrainWrites => WriteBlock  BY DEF ServiceWrite, DrainWrites
  <2>3. ShutdownFlush \/ DrainPartial => FlushPartial  BY DEF ShutdownFlush, DrainPartial
  <2>4. FinalizeStream \/ CloseAndReset => ResetSoftwareBuffers
    BY DEF FinalizeStream, CloseAndReset
  <2>. QED
    BY <1>1, <1>2, <1>3, <1>4, <1>5, <1>6, <1>10, <2>1, <2>2, <2>3, <2>4 DEF Superloop
<1>11. CASE Command
  <2>1. ASSUME NEW c \in Configs, StartLogging(c) \/ StartLoggingFails(c) \/ StartStreaming(c)
        PROVE  ResetSoftwareBuffers \/ UNCHANGED <<aggr, queue>>
    BY <2>1 DEF StartLogging, StartLoggingFails, StartStreaming, BeginRun, buf
  <2>2. Stop \/ StopAndClose => ResetSoftwareBuffers \/ UNCHANGED <<aggr, queue>>
    BY DEF Stop, StopAndClose, buf
  <2>. QED  BY <1>1, <1>6, <1>7, <1>8, <1>11, <2>1, <2>2 DEF Command
<1>12. CASE UNCHANGED vars  BY <1>1, <1>12 DEF vars, buf
<1>. QED  BY <1>9, <1>10, <1>11, <1>12 DEF Next

\* No block outgrows its array, although a start command may lower
\* block_samples while a block is being filled.
THEOREM BlocksFitCorrect == Spec => []BlocksFit
<1>1. Init => BlocksFit
  BY EmptySeq, ConstantsAssumption DEF Init, BlocksFit
<1>2. TypeOK /\ BlocksFit /\ [Next]_vars => BlocksFit'  BY FitNext
<1>. QED  BY <1>1, <1>2, TypeCorrect, PTL DEF Spec

-----------------------------------------------------------------------------
(* The order of the output.  What OutputInOrder says of the frames put out *)
(* is inductive only together with all the places a frame passes on its    *)
(* way: the next conversion (n), the transfer in flight (f), the ring (r), *)
(* the block being filled (a), the queue (q) and the output (o).  The      *)
(* lemmas about Order say, without a state, that each move of a frame      *)
(* keeps the six in order; the actions are then sequences of such moves.   *)

Order(o, q, a, r, f, n) ==
  /\ Ascending(o) /\ Ascending(a) /\ Ascending(r)
  /\ \A i \in DOMAIN q : Ascending(q[i])
  /\ \A i, j \in DOMAIN q : i < j => Precedes(q[i], q[j])
  /\ \A i \in DOMAIN q : /\ Precedes(o, q[i]) /\ Precedes(q[i], a) /\ Precedes(q[i], r)
                         /\ Precedes(q[i], f) /\ Precedes(q[i], n)
  /\ Precedes(o, a) /\ Precedes(o, r) /\ Precedes(o, f) /\ Precedes(o, n)
  /\ Precedes(a, r) /\ Precedes(a, f) /\ Precedes(a, n)
  /\ Precedes(r, f) /\ Precedes(r, n) /\ Precedes(f, n)

Flight == IF dma = NoTransfer THEN <<>> ELSE <<dma>>

PipelineInOrder == Order(out, queue, aggr, ring, Flight, <<next>>)

-----------------------------------------------------------------------------
(* Order of concatenations and of parts of sequences. *)

LEMMA PrecedesEmpty == \A s : Precedes(<<>>, s) /\ Precedes(s, <<>>)
<1>1. DOMAIN <<>> = {}  OBVIOUS
<1>. QED  BY <1>1 DEF Precedes

LEMMA AscendingEmpty == Ascending(<<>>)
<1>1. DOMAIN <<>> = {}  OBVIOUS
<1>. QED  BY <1>1 DEF Ascending

LEMMA PrecedesSingle ==
  ASSUME NEW s, NEW x
  PROVE  Precedes(s, <<x>>) <=> \A i \in DOMAIN s : s[i] < x
<1>1. DOMAIN <<x>> = {1} /\ <<x>>[1] = x  OBVIOUS
<1>. QED  BY <1>1 DEF Precedes

LEMMA ConcatOrder ==
  ASSUME NEW s \in Seq(Frames), NEW t \in Seq(Frames)
  PROVE  /\ \A u : Precedes(s, u) /\ Precedes(t, u) => Precedes(s \o t, u)
         /\ \A u : Precedes(u, s) /\ Precedes(u, t) => Precedes(u, s \o t)
         /\ Ascending(s) /\ Ascending(t) /\ Precedes(s, t) => Ascending(s \o t)
<1>. DEFINE c == s \o t
            m == Len(s)
<1>1. /\ c \in Seq(Frames) /\ m \in Nat /\ Len(t) \in Nat
      /\ DOMAIN s = 1..m /\ DOMAIN t = 1..Len(t) /\ DOMAIN c = 1..m + Len(t)
      /\ \A i \in 1..m + Len(t) : c[i] = IF i <= m THEN s[i] ELSE t[i - m]
  BY ConcatProperties, LenProperties
<1>2. \A i \in DOMAIN c : \/ i \in DOMAIN s /\ c[i] = s[i]
                          \/ i > m /\ i - m \in DOMAIN t /\ c[i] = t[i - m]
  BY <1>1
<1>3. \A u : Precedes(s, u) /\ Precedes(t, u) => Precedes(c, u)
  BY <1>2 DEF Precedes
<1>4. \A u : Precedes(u, s) /\ Precedes(u, t) => Precedes(u, c)
  BY <1>2 DEF Precedes
<1>5. ASSUME Ascending(s), Ascending(t), Precedes(s, t) PROVE Ascending(c)
  <2>. SUFFICES ASSUME NEW i \in DOMAIN c, NEW j \in DOMAIN c, i < j PROVE c[i] < c[j]
    BY DEF Ascending
  <2>1. i \in Nat /\ j \in Nat  BY <1>1
  <2>2. CASE j \in DOMAIN s /\ c[j] = s[j]
    <3>1. i \in DOMAIN s /\ c[i] = s[i]  BY <1>1, <2>1, <2>2
    <3>. QED  BY <1>5, <2>2, <3>1 DEF Ascending
  <2>3. CASE j > m /\ j - m \in DOMAIN t /\ c[j] = t[j - m]
    <3>1. CASE i \in DOMAIN s /\ c[i] = s[i]  BY <1>5, <2>3, <3>1 DEF Precedes
    <3>2. CASE i > m /\ i - m \in DOMAIN t /\ c[i] = t[i - m]
      <4>1. i - m < j - m  BY <1>1, <2>1
      <4>. QED  BY <1>5, <2>3, <3>2, <4>1 DEF Ascending
    <3>. QED  BY <1>2, <3>1, <3>2
  <2>. QED  BY <1>2, <2>2, <2>3
<1>. QED  BY <1>3, <1>4, <1>5

\* A sequence and what is left of it when its first element is taken.
LEMMA TailOrder ==
  ASSUME NEW s \in Seq(Frames), s # <<>>
  PROVE  /\ \A u : Precedes(s, u) => Precedes(Tail(s), u) /\ Precedes(<<Head(s)>>, u)
         /\ \A u : Precedes(u, s) => Precedes(u, Tail(s)) /\ Precedes(u, <<Head(s)>>)
         /\ Ascending(s) => Ascending(Tail(s)) /\ Precedes(<<Head(s)>>, Tail(s))
         /\ <<Head(s)>> \in Seq(Frames) /\ Ascending(<<Head(s)>>)
<1>. DEFINE t == Tail(s)
            h == Head(s)
<1>1. /\ h \in Frames /\ t \in Seq(Frames) /\ Len(s) \in Nat /\ Len(s) # 0
      /\ Len(t) = Len(s) - 1 /\ DOMAIN s = 1..Len(s) /\ DOMAIN t = 1..Len(t)
      /\ \A i \in 1..Len(t) : t[i] = s[i + 1]
  BY HeadTailProperties, LenProperties, EmptySeq
<1>2. h = s[1] /\ 1 \in DOMAIN s  BY <1>1
<1>3. \A i \in DOMAIN t : i \in Nat /\ i + 1 \in DOMAIN s /\ 1 < i + 1 /\ t[i] = s[i + 1]
  BY <1>1
<1>4. <<h>> \in Seq(Frames) /\ DOMAIN <<h>> = {1} /\ <<h>>[1] = h  BY <1>1
<1>5. Ascending(<<h>>)  BY <1>4 DEF Ascending
<1>6. \A u : Precedes(s, u) => Precedes(t, u) /\ Precedes(<<h>>, u)
  BY <1>2, <1>3, <1>4 DEF Precedes
<1>7. \A u : Precedes(u, s) => Precedes(u, t) /\ Precedes(u, <<h>>)
  BY <1>2, <1>3, <1>4 DEF Precedes
<1>8. ASSUME Ascending(s) PROVE Ascending(t) /\ Precedes(<<h>>, t)
  <2>1. Ascending(t)
    <3>. SUFFICES ASSUME NEW i \in DOMAIN t, NEW j \in DOMAIN t, i < j PROVE t[i] < t[j]
      BY DEF Ascending
    <3>1. i + 1 < j + 1  BY <1>3
    <3>. QED  BY <1>3, <1>8, <3>1 DEF Ascending
  <2>2. Precedes(<<h>>, t)  BY <1>2, <1>3, <1>4, <1>8 DEF Ascending, Precedes
  <2>. QED  BY <2>1, <2>2
<1>. QED  BY <1>4, <1>5, <1>6, <1>7, <1>8

\* A sequence and its prefixes.
LEMMA PrefixOrder ==
  ASSUME NEW s \in Seq(Frames), NEW k \in 0..Len(s) - 1
  PROVE  /\ SubSeq(s, 1, k) \in Seq(Frames)
         /\ \A u : Precedes(s, u) => Precedes(SubSeq(s, 1, k), u)
         /\ \A u : Precedes(u, s) => Precedes(u, SubSeq(s, 1, k))
         /\ Ascending(s) => Ascending(SubSeq(s, 1, k))
<1>. DEFINE p == SubSeq(s, 1, k)
<1>1. Len(s) \in Nat /\ DOMAIN s = 1..Len(s) /\ k \in Nat  BY LenProperties
<1>2. \A i \in 1..k : s[i] \in Frames  BY <1>1, ElementOfSeq
<1>3. /\ p \in Seq(Frames) /\ Len(p) = IF 1 <= k THEN k - 1 + 1 ELSE 0
      /\ \A i \in 1..k - 1 + 1 : p[i] = s[1 + i - 1]
  BY <1>1, <1>2, SubSeqProperties
<1>4. DOMAIN p = 1..k /\ \A i \in 1..k : i \in DOMAIN s /\ p[i] = s[i]
  BY <1>1, <1>3, LenProperties
<1>. QED  BY <1>3, <1>4 DEF Precedes, Ascending

-----------------------------------------------------------------------------
(* The moves of a frame or a block through the pipeline. *)

\* A conversion is read: it is in flight, and the next one has a higher number.
LEMMA Launch ==
  ASSUME NEW o \in Seq(Frames), NEW q \in Seq(Seq(Frames)), NEW a \in Seq(Frames),
         NEW r \in Seq(Frames), NEW k \in Frames, Order(o, q, a, r, <<>>, <<k>>)
  PROVE  Order(o, q, a, r, <<k>>, <<k + 1>>)
<1>1. \A s \in Seq(Frames) : Precedes(s, <<k>>) => Precedes(s, <<k + 1>>)
  <2>. TAKE s \in Seq(Frames)
  <2>1. \A i \in DOMAIN s : s[i] \in Frames  BY ElementOfSeq, LenProperties
  <2>2. \A i \in DOMAIN s : s[i] < k => s[i] < k + 1  BY <2>1 DEF Frames
  <2>. QED  BY <2>2, PrecedesSingle
<1>2. Precedes(<<k>>, <<k + 1>>)
  <2>1. DOMAIN <<k>> = {1} /\ <<k>>[1] = k /\ k < k + 1  BY DEF Frames
  <2>. QED  BY <2>1, PrecedesSingle
<1>3. \A i \in DOMAIN q : q[i] \in Seq(Frames)  BY ElementOfSeq, LenProperties
<1>. QED  BY <1>1, <1>2, <1>3 DEF Order

\* A conversion is missed.
LEMMA Skip ==
  ASSUME NEW o \in Seq(Frames), NEW q \in Seq(Seq(Frames)), NEW a \in Seq(Frames),
         NEW r \in Seq(Frames), NEW k \in Frames, Order(o, q, a, r, <<>>, <<k>>)
  PROVE  Order(o, q, a, r, <<>>, <<k + 1>>)
<1>1. Order(o, q, a, r, <<k>>, <<k + 1>>)  BY Launch
<1>. QED  BY <1>1, PrecedesEmpty DEF Order

\* The transfer completes.
LEMMA Land ==
  ASSUME NEW o \in Seq(Frames), NEW q \in Seq(Seq(Frames)), NEW a \in Seq(Frames),
         NEW r \in Seq(Frames), NEW x \in Frames, NEW n, Order(o, q, a, r, <<x>>, n)
  PROVE  Order(o, q, a, Append(r, x), <<>>, n)
<1>1. Append(r, x) = r \o <<x>> /\ <<x>> \in Seq(Frames)  BY AppendIsConcat
<1>2. Ascending(<<x>>)
  <2>1. DOMAIN <<x>> = {1}  OBVIOUS
  <2>. QED  BY <2>1 DEF Ascending
<1>3. /\ \A u : Precedes(r, u) /\ Precedes(<<x>>, u) => Precedes(Append(r, x), u)
      /\ \A u : Precedes(u, r) /\ Precedes(u, <<x>>) => Precedes(u, Append(r, x))
      /\ Ascending(r) /\ Precedes(r, <<x>>) => Ascending(Append(r, x))
  BY <1>1, <1>2, ConcatOrder
<1>. QED  BY <1>3, PrecedesEmpty DEF Order

\* The oldest completed frame is stored in the block being filled, or rejected.
LEMMA Store ==
  ASSUME NEW o \in Seq(Frames), NEW q \in Seq(Seq(Frames)), NEW a \in Seq(Frames),
         NEW r \in Seq(Frames), NEW f, NEW n, Order(o, q, a, r, f, n), r # <<>>
  PROVE  /\ Order(o, q, Append(a, Head(r)), Tail(r), f, n)
         /\ Order(o, q, a, Tail(r), f, n)
<1>. DEFINE h == <<Head(r)>>
            t == Tail(r)
<1>1. /\ \A u : Precedes(r, u) => Precedes(t, u) /\ Precedes(h, u)
      /\ \A u : Precedes(u, r) => Precedes(u, t) /\ Precedes(u, h)
      /\ Ascending(t) /\ Precedes(h, t) /\ Ascending(h) /\ h \in Seq(Frames)
  BY TailOrder DEF Order
<1>2. Append(a, Head(r)) = a \o h  BY AppendIsConcat, HeadTailProperties
<1>3. Order(o, q, a \o h, t, f, n)
  <2>. HIDE DEF h, t
  <2>1. /\ \A u : Precedes(a, u) /\ Precedes(h, u) => Precedes(a \o h, u)
        /\ \A u : Precedes(u, a) /\ Precedes(u, h) => Precedes(u, a \o h)
        /\ Ascending(a) /\ Ascending(h) /\ Precedes(a, h) => Ascending(a \o h)
    BY <1>1, ConcatOrder
  <2>. QED  BY <1>1, <2>1 DEF Order
<1>4. Order(o, q, a, t, f, n)  BY <1>1 DEF Order
<1>. QED  BY <1>2, <1>3, <1>4

\* The block is queued,
LEMMA Enqueue ==
  ASSUME NEW o \in Seq(Frames), NEW q \in Seq(Seq(Frames)), NEW a \in Seq(Frames),
         NEW r, NEW f, NEW n, Order(o, q, a, r, f, n)
  PROVE  Order(o, Append(q, a), <<>>, r, f, n)
<1>. DEFINE p == Append(q, a)
<1>1. /\ Len(q) \in Nat /\ DOMAIN q = 1..Len(q) /\ DOMAIN p = 1..Len(q) + 1
      /\ \A i \in 1..Len(q) : p[i] = q[i]
      /\ p[Len(q) + 1] = a
  BY AppendProperties, LenProperties
<1>. HIDE DEF p
<1>2. \A i \in DOMAIN p : \/ i \in DOMAIN q /\ p[i] = q[i]
                          \/ i = Len(q) + 1 /\ p[i] = a
  BY <1>1
<1>3. \A i \in DOMAIN p : /\ Ascending(p[i]) /\ Precedes(o, p[i]) /\ Precedes(p[i], r)
                          /\ Precedes(p[i], f) /\ Precedes(p[i], n)
  BY <1>2 DEF Order
<1>4. \A i, j \in DOMAIN p : i < j => Precedes(p[i], p[j])
  <2>. SUFFICES ASSUME NEW i \in DOMAIN p, NEW j \in DOMAIN p, i < j
                PROVE  Precedes(p[i], p[j])
    OBVIOUS
  <2>1. i \in DOMAIN q /\ p[i] = q[i]  BY <1>1
  <2>. QED  BY <1>2, <2>1 DEF Order
<1>5. Order(o, p, <<>>, r, f, n)  BY <1>3, <1>4, PrecedesEmpty, AscendingEmpty DEF Order
<1>. QED  BY <1>5 DEF p

\* or dropped.
LEMMA DropBlock ==
  ASSUME NEW o, NEW q, NEW a, NEW r, NEW f, NEW n, Order(o, q, a, r, f, n)
  PROVE  Order(o, q, <<>>, r, f, n)
BY PrecedesEmpty, AscendingEmpty DEF Order

\* The oldest block is put out, in part or whole, or dropped.
LEMMA Dequeue ==
  ASSUME NEW o \in Seq(Frames), NEW q \in Seq(Seq(Frames)), NEW a, NEW r, NEW f, NEW n,
         Order(o, q, a, r, f, n), q # <<>>
  PROVE  /\ Order(o, Tail(q), a, r, f, n)
         /\ Order(o \o Head(q), Tail(q), a, r, f, n)
         /\ \A k \in 0..Len(Head(q)) - 1 :
              Order(o \o SubSeq(Head(q), 1, k), Tail(q), a, r, f, n)
<1>. DEFINE t == Tail(q)
<1>1. /\ Head(q) \in Seq(Frames) /\ t \in Seq(Seq(Frames)) /\ Len(q) \in Nat \ {0}
      /\ Len(t) = Len(q) - 1 /\ DOMAIN q = 1..Len(q) /\ DOMAIN t = 1..Len(t)
      /\ \A i \in 1..Len(t) : t[i] = q[i + 1]
      /\ Head(q) = q[1]
  BY HeadTailProperties, LenProperties, EmptySeq
<1>2. 1 \in DOMAIN q /\ \A i \in DOMAIN t : i \in Nat /\ i + 1 \in DOMAIN q /\ 1 < i + 1
                                          /\ t[i] = q[i + 1]
  BY <1>1
<1>3. Order(o, t, a, r, f, n)
  <2>1. \A i \in DOMAIN t : /\ Ascending(t[i]) /\ Precedes(o, t[i]) /\ Precedes(t[i], a)
                            /\ Precedes(t[i], r) /\ Precedes(t[i], f) /\ Precedes(t[i], n)
    BY <1>2 DEF Order
  <2>2. \A i, j \in DOMAIN t : i < j => Precedes(t[i], t[j])
    <3>. SUFFICES ASSUME NEW i \in DOMAIN t, NEW j \in DOMAIN t, i < j
                  PROVE  Precedes(t[i], t[j])
      OBVIOUS
    <3>1. i + 1 < j + 1  BY <1>2
    <3>. QED  BY <1>2, <3>1 DEF Order
  <2>. QED  BY <2>1, <2>2 DEF Order
<1>4. ASSUME NEW b \in Seq(Frames), Ascending(b),
             \A u : Precedes(q[1], u) => Precedes(b, u),
             \A u : Precedes(u, q[1]) => Precedes(u, b)
      PROVE  Order(o \o b, t, a, r, f, n)
  <2>1. /\ Precedes(o, b) /\ Precedes(b, a) /\ Precedes(b, r) /\ Precedes(b, f) /\ Precedes(b, n)
    BY <1>2, <1>4 DEF Order
  <2>2. \A i \in DOMAIN t : Precedes(b, t[i])  BY <1>2, <1>4 DEF Order
  <2>3. /\ \A u : Precedes(o, u) /\ Precedes(b, u) => Precedes(o \o b, u)
        /\ Ascending(o) /\ Ascending(b) /\ Precedes(o, b) => Ascending(o \o b)
    BY <1>4, ConcatOrder
  <2>. QED  BY <1>3, <1>4, <2>1, <2>2, <2>3 DEF Order
<1>5. Ascending(q[1])  BY <1>2 DEF Order
<1>6. Order(o \o Head(q), t, a, r, f, n)  BY <1>1, <1>4, <1>5
<1>7. ASSUME NEW k \in 0..Len(Head(q)) - 1
      PROVE  Order(o \o SubSeq(Head(q), 1, k), t, a, r, f, n)
  BY <1>1, <1>4, <1>5, PrefixOrder
<1>. QED  BY <1>3, <1>6, <1>7

\* Stages of the pipeline may be emptied.
LEMMA Clear ==
  ASSUME NEW o, NEW q, NEW a, NEW r, NEW f, NEW n, Order(o, q, a, r, f, n)
  PROVE  /\ Order(o, <<>>, <<>>, r, f, n)
         /\ Order(<<>>, <<>>, <<>>, r, f, n)
         /\ Order(o, q, a, <<>>, <<>>, n)
         /\ Order(o, q, a, r, <<>>, n)
<1>1. DOMAIN <<>> = {}  OBVIOUS
<1>. QED  BY <1>1, PrecedesEmpty, AscendingEmpty DEF Order

\* A calibration run leaves conversions of its own in the block.
LEMMA Calibrated ==
  ASSUME NEW o \in Seq(Frames), NEW q, NEW a, NEW r, NEW f, NEW k \in Frames,
         Order(o, q, a, r, f, <<k>>), NEW late \in Nat
  PROVE  Order(o, <<>>, [i \in 1..late |-> k + (i - 1)], <<>>, <<>>, <<k + late>>)
<1>. DEFINE b == [i \in 1..late |-> k + (i - 1)]
<1>1. Ascending(b)  BY DEF Ascending, Frames
<1>2. Precedes(b, <<k + late>>)  BY DEF Precedes, Frames
<1>3. \A i \in DOMAIN o : o[i] \in Frames /\ o[i] < k
  BY ElementOfSeq, LenProperties DEF Order, Precedes
<1>4. Precedes(o, b) /\ Precedes(o, <<k + late>>)  BY <1>3 DEF Precedes, Frames
<1>5. DOMAIN <<>> = {}  OBVIOUS
<1>. QED  BY <1>1, <1>2, <1>4, <1>5, PrecedesEmpty, AscendingEmpty DEF Order

-----------------------------------------------------------------------------
(* The steps of the engine. *)

LEMMA InitOrder == Init => PipelineInOrder
<1>. SUFFICES ASSUME Init PROVE PipelineInOrder  OBVIOUS
<1>1. out = <<>> /\ queue = <<>> /\ aggr = <<>> /\ ring = <<>> /\ Flight = <<>>
  BY DEF Init, Flight
<1>2. DOMAIN <<>> = {}  OBVIOUS
<1>. QED  BY <1>1, <1>2, PrecedesEmpty, AscendingEmpty DEF PipelineInOrder, Order

LEMMA StutterOrder ==
  PipelineInOrder /\ UNCHANGED <<out, queue, aggr, capt>> => PipelineInOrder'
BY DEF PipelineInOrder, Flight, capt

LEMMA InterruptOrder == TypeOK /\ PipelineInOrder /\ Interrupt => PipelineInOrder'
<1>. SUFFICES ASSUME TypeOK, PipelineInOrder, Interrupt PROVE PipelineInOrder'  OBVIOUS
<1>. USE DEF PipelineInOrder
<1>0. /\ out \in Seq(Frames) /\ queue \in Seq(Seq(Frames)) /\ aggr \in Seq(Frames)
      /\ ring \in Seq(Frames) /\ next \in Frames /\ dma \in Nat
  BY DEF TypeOK
<1>1. CASE DrdyStart
  <2>1. Flight = <<>> /\ Flight' = <<next>> /\ next' = next + 1
    BY <1>0, <1>1 DEF DrdyStart, IsrMaySample, Flight, NoTransfer, Frames
  <2>2. Order(out, queue, aggr, ring, <<next>>, <<next + 1>>)  BY <1>0, <2>1, Launch
  <2>. QED  BY <1>1, <2>1, <2>2 DEF DrdyStart, buf, output
<1>2. CASE DrdyOverrun
  <2>1. Flight = <<>> /\ Flight' = <<>> /\ next' = next + 1
    BY <1>2 DEF DrdyOverrun, IsrMaySample, Flight
  <2>2. Order(out, queue, aggr, ring, <<>>, <<next + 1>>)  BY <1>0, <2>1, Skip
  <2>. QED  BY <1>2, <2>1, <2>2 DEF DrdyOverrun, buf, output
<1>3. CASE DmaComplete
  <2>1. Flight = <<dma>> /\ Flight' = <<>> /\ ring' = Append(ring, dma) /\ dma \in Frames
    BY <1>0, <1>3 DEF DmaComplete, Flight, NoTransfer, Frames
  <2>2. Order(out, queue, aggr, Append(ring, dma), <<>>, <<next>>)  BY <1>0, <2>1, Land
  <2>. QED  BY <1>3, <2>1, <2>2 DEF DmaComplete, buf, output
<1>4. CASE DmaError
  <2>1. Flight' = <<>>  BY <1>4 DEF DmaError, Flight
  <2>2. Order(out, queue, aggr, ring, <<>>, <<next>>)  BY Clear
  <2>. QED  BY <1>4, <2>1, <2>2 DEF DmaError, buf, output
<1>. QED  BY <1>1, <1>2, <1>3, <1>4 DEF Interrupt

LEMMA SampleOrder ==
  ASSUME TypeOK, PipelineInOrder, ServiceSample
  PROVE  PipelineInOrder'
<1>. USE DEF PipelineInOrder
<1>. DEFINE blk == Append(aggr, Head(ring))
<1>0. /\ out \in Seq(Frames) /\ queue \in Seq(Seq(Frames)) /\ aggr \in Seq(Frames)
      /\ ring \in Seq(Frames)
  BY DEF TypeOK
<1>1. ring # <<>> /\ ring' = Tail(ring) /\ out' = out /\ next' = next /\ Flight' = Flight
  BY DEF ServiceSample, FrameReady, output, Flight
<1>2. /\ Order(out, queue, blk, Tail(ring), Flight, <<next>>)
      /\ Order(out, queue, aggr, Tail(ring), Flight, <<next>>)
  BY <1>0, <1>1, Store
<1>3. blk \in Seq(Frames)  BY <1>0, <1>1, HeadTailProperties, AppendProperties
<1>4. CASE RejectFrame  BY <1>1, <1>2, <1>4 DEF RejectFrame, buf
<1>5. CASE StoreFrame(Head(ring))
  <2>1. CASE aggr' = blk /\ UNCHANGED queue  BY <1>1, <1>2, <2>1
  <2>2. CASE CompleteBlock(blk)
    <3>1. aggr' = <<>>  BY <2>2 DEF CompleteBlock
    <3>2. CASE QueueFull
      <4>1. queue' = queue  BY <2>2, <3>2 DEF CompleteBlock
      <4>2. Order(out, queue, <<>>, Tail(ring), Flight, <<next>>)  BY <1>2, DropBlock
      <4>. QED  BY <1>1, <3>1, <4>1, <4>2
    <3>3. CASE ~QueueFull
      <4>1. queue' = Append(queue, blk)  BY <2>2, <3>3 DEF CompleteBlock, QueuePush
      <4>2. Order(out, Append(queue, blk), <<>>, Tail(ring), Flight, <<next>>)
        BY <1>0, <1>2, <1>3, Enqueue
      <4>. QED  BY <1>1, <3>1, <4>1, <4>2
    <3>. QED  BY <3>2, <3>3
  <2>. QED  BY <1>5, <2>1, <2>2 DEF StoreFrame
<1>. QED  BY <1>4, <1>5 DEF ServiceSample

LEMMA FlushOrder ==
  ASSUME TypeOK, PipelineInOrder, FlushPartial, UNCHANGED <<out, capt>>
  PROVE  PipelineInOrder'
<1>. USE DEF PipelineInOrder
<1>0. out \in Seq(Frames) /\ queue \in Seq(Seq(Frames)) /\ aggr \in Seq(Frames)
  BY DEF TypeOK
<1>1. aggr' = <<>> /\ ring' = ring /\ out' = out /\ next' = next /\ Flight' = Flight
  BY DEF FlushPartial, Flight, capt
<1>2. CASE queue' = queue
  <2>1. Order(out, queue, <<>>, ring, Flight, <<next>>)  BY DropBlock
  <2>. QED  BY <1>1, <1>2, <2>1
<1>3. CASE queue' = Append(queue, aggr)
  <2>1. Order(out, Append(queue, aggr), <<>>, ring, Flight, <<next>>)  BY <1>0, Enqueue
  <2>. QED  BY <1>1, <1>3, <2>1
<1>. QED  BY <1>2, <1>3 DEF FlushPartial, QueuePush

LEMMA WriteOrder ==
  ASSUME TypeOK, PipelineInOrder, WriteBlock
  PROVE  PipelineInOrder'
<1>. USE DEF PipelineInOrder
<1>0. out \in Seq(Frames) /\ queue \in Seq(Seq(Frames))  BY DEF TypeOK
<1>1. /\ queue # <<>> /\ queue' = Tail(queue) /\ aggr' = aggr /\ ring' = ring
      /\ next' = next /\ Flight' = Flight
  BY DEF WriteBlock, BlockToWrite, Flight, capt
<1>2. /\ Order(out, Tail(queue), aggr, ring, Flight, <<next>>)
      /\ Order(out \o Head(queue), Tail(queue), aggr, ring, Flight, <<next>>)
      /\ \A k \in 0..Len(Head(queue)) - 1 :
           Order(out \o SubSeq(Head(queue), 1, k), Tail(queue), aggr, ring, Flight, <<next>>)
  BY <1>0, <1>1, Dequeue
<1>3. \/ out' = out \/ out' = out \o Head(queue)
      \/ \E k \in 0..Len(Head(queue)) - 1 : out' = out \o SubSeq(Head(queue), 1, k)
  BY DEF WriteBlock
<1>. QED  BY <1>1, <1>2, <1>3

LEMMA ReadOrder ==
  ASSUME TypeOK, PipelineInOrder, NEW len \in ReadLens, ReadStreamBlock(len)
  PROVE  PipelineInOrder'
<1>. USE DEF PipelineInOrder
<1>0. out \in Seq(Frames) /\ queue \in Seq(Seq(Frames))  BY DEF TypeOK
<1>1. /\ queue # <<>> /\ queue' = Tail(queue) /\ aggr' = aggr /\ ring' = ring
      /\ next' = next /\ Flight' = Flight /\ (out' = out \/ out' = out \o Head(queue))
  BY DEF ReadStreamBlock, Flight, capt
<1>2. /\ Order(out, Tail(queue), aggr, ring, Flight, <<next>>)
      /\ Order(out \o Head(queue), Tail(queue), aggr, ring, Flight, <<next>>)
  BY <1>0, <1>1, Dequeue
<1>. QED  BY <1>1, <1>2

LEMMA ResetOrder ==
  ASSUME PipelineInOrder, ResetSoftwareBuffers, UNCHANGED capt, out' = out \/ out' = <<>>
  PROVE  PipelineInOrder'
<1>. USE DEF PipelineInOrder
<1>1. /\ Order(out, <<>>, <<>>, ring, Flight, <<next>>)
      /\ Order(<<>>, <<>>, <<>>, ring, Flight, <<next>>)
  BY Clear
<1>2. queue' = <<>> /\ aggr' = <<>> /\ ring' = ring /\ next' = next /\ Flight' = Flight
  BY DEF ResetSoftwareBuffers, Flight, capt
<1>. QED  BY <1>1, <1>2

LEMMA CalibrationOrder ==
  ASSUME TypeOK, PipelineInOrder, NEW n \in CalCounts, RunOffsetCalibration(n)
  PROVE  PipelineInOrder'
<1>. USE DEF PipelineInOrder
<1>1. PICK late \in 0..AggrMax - 1 :
        aggr' = [i \in 1..late |-> next + (i - 1)] /\ next' = next + late
  BY DEF RunOffsetCalibration, CalibrationRun
<1>2. late \in Nat /\ out \in Seq(Frames) /\ next \in Frames
  BY <1>1, ConstantsAssumption DEF TypeOK
<1>3. queue' = <<>> /\ ring' = <<>> /\ Flight' = <<>> /\ out' = out
  BY DEF RunOffsetCalibration, CalibrationRun, AbortReadDma, Flight, output
<1>4. Order(out, <<>>, [i \in 1..late |-> next + (i - 1)], <<>>, <<>>, <<next + late>>)
  BY <1>2, Calibrated
<1>. QED  BY <1>1, <1>3, <1>4

LEMMA SuperloopOrder == TypeOK /\ PipelineInOrder /\ Superloop => PipelineInOrder'
<1>. SUFFICES ASSUME TypeOK, PipelineInOrder, Superloop PROVE PipelineInOrder'  OBVIOUS
<1>1. CASE UNCHANGED <<out, queue, aggr, capt>>  BY <1>1, StutterOrder
<1>2. RunIdle \/ RunAcquiring \/ RunStopping \/ RunFinalizing \/ SamplesDone \/ NothingToWrite
      \/ FinalizeLog \/ FinalizeWait \/ DrainDone \/ PollDone
      => UNCHANGED <<out, queue, aggr, capt>>
  BY DEF RunIdle, RunAcquiring, RunStopping, RunFinalizing, SamplesDone, NothingToWrite,
         FinalizeLog, FinalizeWait, DrainDone, PollDone, buf, output
<1>3. CASE RunPreparing
  <2>1. Order(out, queue, <<>>, ring, Flight, <<next>>)  BY DropBlock DEF PipelineInOrder
  <2>2. /\ aggr' = <<>> /\ out' = out /\ queue' = queue /\ ring' = ring /\ next' = next
        /\ Flight' = Flight
    BY <1>3 DEF RunPreparing, Flight, capt, output
  <2>. QED  BY <2>1, <2>2 DEF PipelineInOrder
<1>4. CASE ServiceSample  BY <1>4, SampleOrder
<1>5. CASE ServiceWrite \/ DrainWrites  BY <1>5, WriteOrder DEF ServiceWrite, DrainWrites
<1>6. CASE FinalizeStream \/ CloseAndReset
  BY <1>6, ResetOrder DEF FinalizeStream, CloseAndReset, output
<1>7. CASE ShutdownAbort
  <2>1. Order(out, queue, aggr, <<>>, <<>>, <<next>>)  BY Clear DEF PipelineInOrder
  <2>2. /\ aggr' = aggr /\ out' = out /\ queue' = queue /\ ring' = <<>> /\ next' = next
        /\ Flight' = <<>>
    BY <1>7 DEF ShutdownAbort, AbortReadDma, Flight, buf, output
  <2>. QED  BY <2>1, <2>2 DEF PipelineInOrder
<1>8. CASE ShutdownFlush \/ DrainPartial
  BY <1>8, FlushOrder DEF ShutdownFlush, DrainPartial, output
<1>. QED
  BY <1>1, <1>2, <1>3, <1>4, <1>5, <1>6, <1>7, <1>8 DEF Superloop

LEMMA CommandOrder == TypeOK /\ PipelineInOrder /\ Command => PipelineInOrder'
<1>. SUFFICES ASSUME TypeOK, PipelineInOrder, Command PROVE PipelineInOrder'  OBVIOUS
<1>1. ASSUME NEW c \in Configs, StartLogging(c) \/ StartStreaming(c) PROVE PipelineInOrder'
  BY <1>1, ResetOrder DEF StartLogging, StartStreaming, BeginRun
<1>2. ASSUME NEW c \in Configs, StartLoggingFails(c) PROVE PipelineInOrder'
  BY <1>2, StutterOrder DEF StartLoggingFails, buf
<1>3. CASE Stop
  <2>1. CASE state = "IDLE"  BY <1>3, <2>1, ResetOrder DEF Stop, output
  <2>2. CASE state # "IDLE"  BY <1>3, <2>2, StutterOrder DEF Stop, buf, output
  <2>. QED  BY <2>1, <2>2
<1>4. CASE StopAndClose  BY <1>4, StutterOrder DEF StopAndClose, buf, output
<1>5. ASSUME NEW len \in ReadLens, ReadStreamBlock(len) PROVE PipelineInOrder'
  BY <1>5, ReadOrder
<1>6. ASSUME NEW n \in CalCounts, RunOffsetCalibration(n) PROVE PipelineInOrder'
  BY <1>6, CalibrationOrder
<1>. QED  BY <1>1, <1>2, <1>3, <1>4, <1>5, <1>6 DEF Command

LEMMA PipelineNext == TypeOK /\ PipelineInOrder /\ [Next]_vars => PipelineInOrder'
<1>. SUFFICES ASSUME TypeOK, PipelineInOrder, [Next]_vars PROVE PipelineInOrder'  OBVIOUS
<1>1. CASE Interrupt  BY <1>1, InterruptOrder
<1>2. CASE Superloop  BY <1>2, SuperloopOrder
<1>3. CASE Command  BY <1>3, CommandOrder
<1>4. CASE UNCHANGED vars  BY <1>4, StutterOrder DEF vars, buf, output
<1>. QED  BY <1>1, <1>2, <1>3, <1>4 DEF Next

\* What is put out is in the order of conversion and holds no frame twice,
\* whatever is started, stopped, dropped, aborted or read in between.
THEOREM OutputInOrderCorrect == Spec => []OutputInOrder
<1>1. Init => PipelineInOrder  BY InitOrder
<1>2. TypeOK /\ PipelineInOrder /\ [Next]_vars => PipelineInOrder'  BY PipelineNext
<1>3. PipelineInOrder => OutputInOrder  BY DEF PipelineInOrder, Order, OutputInOrder
<1>. QED  BY <1>1, <1>2, <1>3, TypeCorrect, PTL DEF Spec

-----------------------------------------------------------------------------
(* Induction over data.  The provers instantiate the induction theorems of *)
(* the library only where those speak of sets: a set of counterexamples    *)
(* that is not empty has a least element.                                  *)

LEMMA LeastNumber ==
  ASSUME NEW T \in SUBSET Nat, T # {}
  PROVE  \E m \in T : \A k \in T : m <= k
<1>. DEFINE R == OpToRel(<, Nat)
<1>1. IsWellFoundedOn(R, Nat)  BY NatLessThanWellFounded
<1>2. \A x, y \in Nat : x < y => <<x, y>> \in R  BY DEF OpToRel
<1>. HIDE DEF R
<1>3. PICK m \in T : \A k \in T : <<k, m>> \notin R  BY <1>1, WFMin
<1>4. \A k \in T : ~(k < m)  BY <1>2, <1>3
<1>5. \A k \in T : m <= k  BY <1>4
<1>. QED  BY <1>5

\* A set that holds 0, and n + 1 with n as long as n < m, holds all of 0..m.
LEMMA UpTo ==
  ASSUME NEW m \in Nat, NEW G, 0 \in G,
         \A n \in 0..m : n < m /\ n \in G => n + 1 \in G
  PROVE  0..m \subseteq G
<1>. DEFINE Bad == 0..m \ G
<1>. SUFFICES ASSUME Bad # {} PROVE FALSE  OBVIOUS
<1>1. PICK b \in Bad : \A k \in Bad : b <= k
  <2>1. Bad \in SUBSET Nat  OBVIOUS
  <2>. HIDE DEF Bad
  <2>. QED  BY <2>1, LeastNumber
<1>2. b \in 0..m /\ b # 0  OBVIOUS
<1>3. b - 1 \in 0..m /\ b - 1 < m /\ b - 1 < b  BY <1>2
<1>4. b - 1 \in G  BY <1>1, <1>3
<1>5. (b - 1) + 1 \in G  BY <1>3, <1>4
<1>. QED  BY <1>2, <1>5

-----------------------------------------------------------------------------
(* What Flat computes. *)

Unfolds(g, q, m) ==
  /\ g[0] = <<>>
  /\ \A k \in 1..m : g[k] = g[k - 1] \o q[k]

LEMMA UnfoldsStep ==
  ASSUME NEW g, NEW q, NEW m \in Nat, NEW k \in 0..m, k < m, Unfolds(g, q, m)
  PROVE  g[k + 1] = g[k] \o q[k + 1]
<1>1. k + 1 \in 1..m /\ (k + 1) - 1 = k  OBVIOUS
<1>2. g[k + 1] = g[(k + 1) - 1] \o q[k + 1]  BY <1>1 DEF Unfolds
<1>. QED  BY <1>1, <1>2

LEMMA UnfoldsExists ==
  ASSUME NEW q, NEW m \in Nat
  PROVE  \E g : Unfolds(g, q, m)
<1>. DEFINE G == {n \in 0..m : \E g : Unfolds(g, q, n)}
<1>1. 0 \in G
  <2>1. Unfolds([i \in 0..0 |-> <<>>], q, 0)  BY DEF Unfolds
  <2>. QED  BY <2>1
<1>2. ASSUME NEW n \in 0..m, n < m, n \in G PROVE n + 1 \in G
  <2>1. PICK g : Unfolds(g, q, n)  BY <1>2
  <2>. DEFINE h == [i \in 0..n + 1 |-> IF i = n + 1 THEN g[n] \o q[n + 1] ELSE g[i]]
  <2>2. n \in Nat /\ \A i \in 0..n : h[i] = g[i]
    <3>1. n \in Nat  OBVIOUS
    <3>2. ASSUME NEW i \in 0..n PROVE h[i] = g[i]
      <4>1. i \in 0..n + 1 /\ i # n + 1  BY <3>1
      <4>. QED  BY <4>1
    <3>. QED  BY <3>1, <3>2
  <2>3. h[n + 1] = g[n] \o q[n + 1]
    <3>1. n + 1 \in 0..n + 1  BY <2>2
    <3>. QED  BY <3>1
  <2>4. ASSUME NEW k \in 1..n + 1 PROVE h[k] = h[k - 1] \o q[k]
    <3>1. h[k - 1] = g[k - 1]  BY <2>2
    <3>2. CASE k = n + 1
      <4>1. k - 1 = n  BY <2>2, <3>2
      <4>. QED  BY <2>3, <3>1, <3>2, <4>1
    <3>3. CASE k # n + 1
      <4>1. k \in 1..n  BY <2>2, <3>3
      <4>2. h[k] = g[k]  BY <2>2, <4>1
      <4>3. g[k] = g[k - 1] \o q[k]  BY <2>1, <4>1 DEF Unfolds
      <4>. QED  BY <3>1, <4>2, <4>3
    <3>. QED  BY <3>2, <3>3
  <2>5. h[0] = <<>>  BY <2>1, <2>2 DEF Unfolds
  <2>. HIDE DEF h
  <2>6. Unfolds(h, q, n + 1)  BY <2>4, <2>5 DEF Unfolds
  <2>7. n + 1 \in 0..m  BY <1>2
  <2>. QED  BY <2>6, <2>7
<1>3. 0..m \subseteq G
  <2>. HIDE DEF G
  <2>. QED  BY <1>1, <1>2, UpTo
<1>4. m \in 0..m  OBVIOUS
<1>. QED  BY <1>3, <1>4

\* The recursion has one solution, and equal prefixes have equal results.
LEMMA UnfoldsUnique ==
  ASSUME NEW p, NEW q, NEW m \in Nat, NEW n \in Nat, NEW g, NEW h,
         Unfolds(g, p, m), Unfolds(h, q, n), m <= n, \A i \in 1..m : p[i] = q[i]
  PROVE  g[m] = h[m]
<1>. DEFINE G == {k \in 0..m : g[k] = h[k]}
<1>1. 0 \in G  BY DEF Unfolds
<1>2. ASSUME NEW k \in 0..m, k < m, k \in G PROVE k + 1 \in G
  <2>1. g[k + 1] = g[k] \o p[k + 1]  BY <1>2, UnfoldsStep
  <2>2. k \in 0..n /\ k < n /\ k + 1 \in 1..m  BY <1>2
  <2>3. h[k + 1] = h[k] \o q[k + 1]  BY <2>2, UnfoldsStep
  <2>4. g[k] = h[k] /\ p[k + 1] = q[k + 1]  BY <1>2, <2>2
  <2>5. g[k + 1] = h[k + 1]  BY <2>1, <2>3, <2>4
  <2>6. k + 1 \in 0..m  BY <1>2
  <2>. QED  BY <2>5, <2>6
<1>3. 0..m \subseteq G
  <2>. HIDE DEF G
  <2>. QED  BY <1>1, <1>2, UpTo
<1>4. m \in 0..m  OBVIOUS
<1>. QED  BY <1>3, <1>4

LEMMA UnfoldsType ==
  ASSUME NEW S, NEW q, NEW m \in Nat, \A k \in 1..m : q[k] \in Seq(S),
         NEW g, Unfolds(g, q, m)
  PROVE  \A k \in 0..m : g[k] \in Seq(S)
<1>. DEFINE G == {k \in 0..m : g[k] \in Seq(S)}
<1>1. 0 \in G
  <2>1. g[0] = <<>>  BY DEF Unfolds
  <2>2. g[0] \in Seq(S)  BY <2>1, EmptySeq
  <2>3. 0 \in 0..m  OBVIOUS
  <2>. QED  BY <2>2, <2>3
<1>2. ASSUME NEW k \in 0..m, k < m, k \in G PROVE k + 1 \in G
  <2>1. k + 1 \in 1..m  BY <1>2
  <2>2. g[k + 1] = g[k] \o q[k + 1]  BY <1>2, UnfoldsStep
  <2>3. g[k] \in Seq(S) /\ q[k + 1] \in Seq(S)  BY <1>2, <2>1
  <2>4. g[k + 1] \in Seq(S)  BY <2>2, <2>3, ConcatProperties
  <2>. QED  BY <2>1, <2>4
<1>3. 0..m \subseteq G
  <2>. HIDE DEF G
  <2>. QED  BY <1>1, <1>2, UpTo
<1>. QED  BY <1>3

\* The blocks but the first, put together first.
LEMMA UnfoldsTail ==
  ASSUME NEW S, NEW q \in Seq(Seq(S)), q # <<>>, NEW m \in Nat, Len(q) = m + 1,
         NEW g, NEW h, Unfolds(g, q, m + 1), Unfolds(h, Tail(q), m)
  PROVE  g[m + 1] = q[1] \o h[m]
<1>. DEFINE G == {k \in 0..m : g[k + 1] = q[1] \o h[k]}
<1>. DEFINE p == Tail(q)
<1>0. /\ m + 1 \in Nat
      /\ \A k \in 1..m + 1 : q[k] \in Seq(S)
      /\ \A k \in 1..m : p[k] = q[k + 1] /\ p[k] \in Seq(S)
  <2>1. \A k \in 1..m : k + 1 \in 1..m + 1  OBVIOUS
  <2>2. \A k \in 1..m + 1 : q[k] \in Seq(S)  BY LenProperties, ElementOfSeq
  <2>3. \A k \in 1..m : p[k] = q[k + 1]  BY HeadTailProperties
  <2>. QED  BY <2>1, <2>2, <2>3
<1>. HIDE DEF p
<1>1. 0 \in G
  <2>1. 0 \in 0..m + 1 /\ 0 < m + 1 /\ 0 + 1 = 1 /\ 1 \in 1..m + 1  OBVIOUS
  <2>2. g[0 + 1] = g[0] \o q[0 + 1]  BY <1>0, <2>1, UnfoldsStep
  <2>3. g[0] = <<>> /\ h[0] = <<>> /\ q[1] \in Seq(S)  BY <1>0, <2>1 DEF Unfolds, p
  <2>4. g[0] \o q[1] = q[1] /\ q[1] \o h[0] = q[1]  BY <2>3, ConcatEmptySeq
  <2>5. g[0 + 1] = q[1] \o h[0]  BY <2>1, <2>2, <2>4
  <2>6. 0 \in 0..m  OBVIOUS
  <2>. QED  BY <2>5, <2>6
<1>2. ASSUME NEW k \in 0..m, k < m, k \in G PROVE k + 1 \in G
  <2>1. /\ k + 1 \in 0..m + 1 /\ k + 1 < m + 1 /\ k + 1 \in 1..m /\ k + 1 \in 0..m
        /\ 1 \in 1..m + 1
    BY <1>2
  <2>2. g[(k + 1) + 1] = g[k + 1] \o q[(k + 1) + 1]  BY <1>0, <2>1, UnfoldsStep, ZenonT(40)
  <2>3. h[k + 1] = h[k] \o p[k + 1]  BY <1>2, UnfoldsStep DEF p
  <2>4. p[k + 1] = q[(k + 1) + 1] /\ p[k + 1] \in Seq(S) /\ q[1] \in Seq(S)  BY <1>0, <2>1
  <2>5. h[k] \in Seq(S)  BY <1>0, UnfoldsType DEF p
  <2>6. (q[1] \o h[k]) \o p[k + 1] = q[1] \o (h[k] \o p[k + 1])
    <3>1. PICK a \in Seq(S) : a = q[1]  BY <2>4
    <3>2. PICK b \in Seq(S) : b = h[k]  BY <2>5
    <3>3. PICK c \in Seq(S) : c = p[k + 1]  BY <2>4
    <3>4. (a \o b) \o c = a \o (b \o c)  BY ONLY ConcatAssociative, SMTT(30)
    <3>. QED  BY <3>1, <3>2, <3>3, <3>4
  <2>7. g[k + 1] = q[1] \o h[k]  BY <1>2
  <2>8. g[(k + 1) + 1] = q[1] \o h[k + 1]  BY <2>2, <2>3, <2>4, <2>6, <2>7
  <2>. QED  BY <2>1, <2>8
<1>3. 0..m \subseteq G
  <2>. HIDE DEF G
  <2>. QED  BY <1>1, <1>2, UpTo
<1>4. m \in 0..m  OBVIOUS
<1>. QED  BY <1>3, <1>4

\* Flat is the last value of a function that satisfies its recursion.
LEMMA FlatDef ==
  ASSUME NEW S, NEW q \in Seq(Seq(S))
  PROVE  /\ \E g : Unfolds(g, q, Len(q)) /\ Flat(q) = g[Len(q)]
         /\ Flat(q) \in Seq(S)
<1>0. /\ Len(q) \in Nat /\ Len(q) \in 0..Len(q)
      /\ \A k \in 1..Len(q) : q[k] \in Seq(S)
  BY LenProperties, ElementOfSeq
<1>. DEFINE Step(f, i) == IF i = 0 THEN <<>> ELSE f[i - 1] \o q[i]
            flat == CHOOSE f : f = [i \in 0..Len(q) |-> Step(f, i)]
<1>1. \E f : f = [i \in 0..Len(q) |-> Step(f, i)]
  <2>1. PICK g : Unfolds(g, q, Len(q))  BY <1>0, UnfoldsExists
  <2>. DEFINE h == [i \in 0..Len(q) |-> g[i]]
  <2>2. ASSUME NEW i \in 0..Len(q) PROVE h[i] = Step(h, i)
    <3>1. CASE i = 0  BY <2>1, <3>1 DEF Unfolds
    <3>2. CASE i # 0
      <4>1. i \in 1..Len(q) /\ i - 1 \in 0..Len(q)  BY <1>0, <3>2
      <4>2. g[i] = g[i - 1] \o q[i]  BY <2>1, <4>1 DEF Unfolds
      <4>3. h[i] = g[i] /\ h[i - 1] = g[i - 1]  BY <4>1
      <4>. QED  BY <3>2, <4>2, <4>3
    <3>. QED  BY <3>1, <3>2
  <2>3. h = [i \in 0..Len(q) |-> Step(h, i)]  BY <2>2
  <2>. QED  BY <2>3
<1>2. flat = [i \in 0..Len(q) |-> Step(flat, i)]  BY <1>1
<1>3. Flat(q) = flat[Len(q)]  BY DEF Flat
<1>. HIDE DEF flat
<1>4. Unfolds(flat, q, Len(q))
  <2>1. flat[0] = Step(flat, 0)  BY <1>0, <1>2
  <2>2. ASSUME NEW k \in 1..Len(q) PROVE flat[k] = flat[k - 1] \o q[k]
    <3>1. k \in 0..Len(q) /\ k # 0  BY <1>0
    <3>2. flat[k] = Step(flat, k)  BY <1>2, <3>1
    <3>. QED  BY <3>1, <3>2
  <2>. QED  BY <2>1, <2>2 DEF Unfolds
<1>5. flat[Len(q)] \in Seq(S)  BY <1>0, <1>4, UnfoldsType
<1>. QED  BY <1>3, <1>4, <1>5

LEMMA FlatEmpty == Flat(<<>>) = <<>>
<1>1. <<>> \in Seq(Seq({})) /\ Len(<<>>) = 0  BY EmptySeq
<1>2. PICK g : Unfolds(g, <<>>, 0) /\ Flat(<<>>) = g[0]  BY <1>1, FlatDef
<1>. QED  BY <1>2 DEF Unfolds

LEMMA FlatAppend ==
  ASSUME NEW S, NEW q \in Seq(Seq(S)), NEW b \in Seq(S)
  PROVE  Flat(Append(q, b)) = Flat(q) \o b
<1>1. PICK m \in Nat : m = Len(q)  BY LenProperties
<1>2. PICK p : p = Append(q, b)  OBVIOUS
<1>3. /\ p \in Seq(Seq(S)) /\ Len(p) = m + 1 /\ p[m + 1] = b
      /\ \A i \in 1..m : q[i] = p[i]
  BY <1>1, <1>2, LenProperties, AppendProperties
<1>4. PICK g : Unfolds(g, q, m) /\ Flat(q) = g[m]  BY <1>1, FlatDef
<1>5. PICK h : Unfolds(h, p, m + 1) /\ Flat(p) = h[m + 1]  BY <1>3, FlatDef
<1>6. m <= m + 1 /\ m + 1 \in Nat /\ m \in 0..m + 1 /\ m < m + 1  OBVIOUS
<1>7. g[m] = h[m]  BY <1>3, <1>4, <1>5, <1>6, UnfoldsUnique
<1>8. h[m + 1] = h[m] \o p[m + 1]  BY <1>5, <1>6, UnfoldsStep
<1>. QED  BY <1>2, <1>3, <1>4, <1>5, <1>7, <1>8

LEMMA FlatTail ==
  ASSUME NEW S, NEW q \in Seq(Seq(S)), q # <<>>
  PROVE  /\ Flat(q) = Head(q) \o Flat(Tail(q))
         /\ Head(q) \in Seq(S) /\ Tail(q) \in Seq(Seq(S)) /\ Flat(Tail(q)) \in Seq(S)
<1>1. PICK m \in Nat : Len(q) = m + 1
  <2>1. Len(q) \in Nat /\ Len(q) # 0  BY LenProperties, EmptySeq
  <2>2. Len(q) - 1 \in Nat /\ Len(q) = (Len(q) - 1) + 1  BY <2>1
  <2>. QED  BY <2>2
<1>2. /\ Head(q) \in Seq(S) /\ Tail(q) \in Seq(Seq(S)) /\ Len(Tail(q)) = m
      /\ Head(q) = q[1]
  BY <1>1, HeadTailProperties
<1>3. PICK g : Unfolds(g, q, m + 1) /\ Flat(q) = g[m + 1]  BY <1>1, FlatDef
<1>4. PICK h : Unfolds(h, Tail(q), m) /\ Flat(Tail(q)) = h[m]  BY <1>2, FlatDef
<1>5. g[m + 1] = q[1] \o h[m]  BY <1>1, <1>3, <1>4, UnfoldsTail
<1>6. Flat(Tail(q)) \in Seq(S)  BY <1>2, FlatDef
<1>. QED  BY <1>2, <1>3, <1>4, <1>5, <1>6

-----------------------------------------------------------------------------
(* Where nothing is left in the pipeline, for a client that starts runs in *)
(* IDLE only.                                                              *)

\* Before a run samples its pipeline is empty, but for the frames that came too
\* late for a calibration; and what a shutdown aborts there does not come back.
NothingLeft ==
  /\ state \in {"IDLE", "PREPARING"} =>
       /\ pc \notin Closing => queue = <<>>
       /\ run # "calibration" => PipelineEmpty
  /\ state = "PREPARING" /\ pc = "drain" => ring = <<>> /\ dma = NoTransfer

LEMMA NothingLeftInterrupt == NothingLeft /\ Interrupt => NothingLeft'
BY DEF Interrupt, DrdyStart, DrdyOverrun, DmaComplete, DmaError, IsrMaySample, NothingLeft,
       PipelineEmpty, Closing, loop, ctl, buf

LEMMA NothingLeftSuperloop ==
  TypeOK /\ ControlInv /\ SinkInv /\ NothingLeft /\ Superloop => NothingLeft'
<1>. SUFFICES ASSUME TypeOK, ControlInv, SinkInv, NothingLeft, Superloop PROVE NothingLeft'
  OBVIOUS
<1>. USE DEF NothingLeft, PipelineEmpty, Closing, loop, ctl, capt, buf
<1>1. CASE RunIdle  BY <1>1 DEF RunIdle
<1>2. CASE RunPreparing  BY <1>2 DEF RunPreparing
<1>3. CASE RunAcquiring  BY <1>3 DEF RunAcquiring
<1>4. CASE RunStopping  BY <1>4 DEF RunStopping
<1>5. CASE RunFinalizing  BY <1>5 DEF RunFinalizing
<1>6. CASE ServiceSample
  BY <1>6 DEF ServiceSample, FrameReady, ControlInv, Shutdown
<1>7. CASE SamplesDone  BY <1>7 DEF SamplesDone
<1>8. CASE ServiceWrite
  BY <1>8 DEF ServiceWrite, WriteBlock, BlockToWrite, AfterWrite, ControlInv
<1>9. CASE NothingToWrite  BY <1>9 DEF NothingToWrite, AfterWrite
<1>10. CASE FinalizeStream  BY <1>10 DEF FinalizeStream, ResetSoftwareBuffers
<1>11. CASE FinalizeLog  BY <1>11 DEF FinalizeLog
<1>12. CASE FinalizeWait  BY <1>12 DEF FinalizeWait
<1>13. CASE ShutdownAbort  BY <1>13 DEF ShutdownAbort, AbortReadDma
<1>14. CASE ShutdownFlush
  BY <1>14 DEF ShutdownFlush, FlushPartial, ControlInv, Shutdown
<1>15. CASE DrainWrites  BY <1>15 DEF DrainWrites, WriteBlock, BlockToWrite
<1>16. CASE DrainPartial  BY <1>16 DEF DrainPartial
<1>17. CASE DrainDone  BY <1>17 DEF DrainDone
<1>18. CASE CloseAndReset  BY <1>18 DEF CloseAndReset, ResetSoftwareBuffers
<1>19. CASE PollDone  BY <1>19 DEF PollDone
<1>. QED
  BY <1>1, <1>2, <1>3, <1>4, <1>5, <1>6, <1>7, <1>8, <1>9, <1>10, <1>11, <1>12, <1>13,
     <1>14, <1>15, <1>16, <1>17, <1>18, <1>19 DEF Superloop

LEMMA NothingLeftCommand ==
  ASSUME StartStates = {"IDLE"}, NothingLeft, Command
  PROVE  NothingLeft'
<1>. USE DEF NothingLeft, PipelineEmpty, Closing, loop, ctl, capt, buf
<1>1. ASSUME NEW c \in Configs, StartLogging(c) PROVE NothingLeft'
  BY <1>1 DEF StartLogging, BeginRun, ResetSoftwareBuffers
<1>2. ASSUME NEW c \in Configs, StartLoggingFails(c) PROVE NothingLeft'
  BY <1>2 DEF StartLoggingFails
<1>3. ASSUME NEW c \in Configs, StartStreaming(c) PROVE NothingLeft'
  BY <1>3 DEF StartStreaming, BeginRun, ResetSoftwareBuffers
<1>4. CASE Stop  BY <1>4 DEF Stop, ResetSoftwareBuffers
<1>5. CASE StopAndClose  BY <1>5 DEF StopAndClose
<1>6. ASSUME NEW len \in ReadLens, ReadStreamBlock(len) PROVE NothingLeft'
  BY <1>6 DEF ReadStreamBlock
<1>7. ASSUME NEW n \in CalCounts, RunOffsetCalibration(n) PROVE NothingLeft'
  BY <1>7 DEF RunOffsetCalibration, CalibrationRun, AbortReadDma
<1>. QED  BY <1>1, <1>2, <1>3, <1>4, <1>5, <1>6, <1>7 DEF Command

LEMMA NothingLeftNext ==
  ASSUME StartStates = {"IDLE"}, TypeOK, ControlInv, SinkInv, NothingLeft, [Next]_vars
  PROVE  NothingLeft'
<1>1. CASE Interrupt  BY <1>1, NothingLeftInterrupt
<1>2. CASE Superloop  BY <1>2, NothingLeftSuperloop
<1>3. CASE Command  BY <1>3, NothingLeftCommand
<1>4. CASE UNCHANGED vars
  BY <1>4 DEF vars, loop, ctl, capt, buf, NothingLeft, PipelineEmpty, Closing
<1>. QED  BY <1>1, <1>2, <1>3, <1>4 DEF Next

\* What holds between two runs, and up to the first sample of a run.
IdleStartInv == ControlInv /\ SinkInv /\ LogInv /\ NothingLeft

LEMMA IdleStartInit == Init => IdleStartInv
BY ControlInit DEF Init, IdleStartInv, SinkInv, AcquisitionHasSink, LogInv, Logging,
   StopAndCloseDrains, NothingLeft, PipelineEmpty, NoTransfer

LEMMA IdleStartNext ==
  ASSUME StartStates = {"IDLE"}, TypeOK, IdleStartInv, [Next]_vars
  PROVE  IdleStartInv'
BY ControlNext, SinkNext, LogNext, NothingLeftNext DEF IdleStartInv

-----------------------------------------------------------------------------
(* The accounts of a logging run.                                          *)

LEMMA QueueSamples ==
  ASSUME NEW q \in Seq(Seq(Frames))
  PROVE  /\ Len(Flat(q)) \in Nat
         /\ \A b \in Seq(Frames) : Len(Flat(Append(q, b))) = Len(Flat(q)) + Len(b)
         /\ q # <<>> => Len(Flat(q)) = Len(Head(q)) + Len(Flat(Tail(q)))
<1>1. Flat(q) \in Seq(Frames)  BY FlatDef
<1>2. ASSUME NEW b \in Seq(Frames) PROVE Len(Flat(Append(q, b))) = Len(Flat(q)) + Len(b)
  <2>1. Flat(Append(q, b)) = Flat(q) \o b  BY FlatAppend
  <2>. QED  BY <1>1, <2>1, ConcatProperties
<1>3. ASSUME q # <<>> PROVE Len(Flat(q)) = Len(Head(q)) + Len(Flat(Tail(q)))
  <2>1. /\ Flat(q) = Head(q) \o Flat(Tail(q))
        /\ Head(q) \in Seq(Frames) /\ Flat(Tail(q)) \in Seq(Frames)
    BY <1>3, FlatTail
  <2>. QED  BY <2>1, ConcatProperties
<1>. QED  BY <1>1, <1>2, <1>3, LenProperties

\* The samples a run has counted, against those it holds and the blocks it has
\* reported as dropped.
Reported(c, h, d) == c \in h..h + AggrMax * d

LEMMA ReportedLess ==
  ASSUME NEW c \in Nat, NEW h \in Nat, NEW d \in Nat, Reported(c, h, d),
         NEW g \in Nat, g <= h, h <= g + AggrMax
  PROVE  Reported(c, g, d + 1)
<1>1. AggrMax * d \in Nat /\ AggrMax * (d + 1) = AggrMax * d + AggrMax /\ AggrMax \in Nat
  BY ConstantsAssumption
<1>. QED  BY <1>1 DEF Reported

LEMMA ReportedMore ==
  ASSUME NEW c \in Nat, NEW h \in Nat, NEW d \in Nat, Reported(c, h, d)
  PROVE  Reported(c + 1, h + 1, d)
<1>1. AggrMax * d \in Nat  BY ConstantsAssumption
<1>. QED  BY <1>1 DEF Reported

Bytes(n) == n * cfg.ch * ChannelBytes

LEMMA BytesAdd ==
  ASSUME TypeOK, NEW m \in Nat, NEW n \in Nat
  PROVE  /\ Bytes(m) \in Nat /\ Bytes(0) = 0
         /\ Bytes(m + n) = Bytes(m) + Bytes(n)
<1>1. cfg.ch \in 1..8  BY ConstantsAssumption DEF TypeOK, Configs
<1>2. PICK c \in Nat : c = cfg.ch
  <2>1. cfg.ch \in Nat  BY <1>1
  <2>. QED  BY <2>1
<1>3. m * c * 4 \in Nat /\ 0 * c * 4 = 0 /\ (m + n) * c * 4 = m * c * 4 + n * c * 4
  OBVIOUS
<1>. QED  BY <1>2, <1>3 DEF Bytes, ChannelBytes

AccountInv == LossIsReported /\ ByteCountersExact

\* The two properties, in the terms of the lemmas above.
LEMMA AccountDef ==
  AccountInv <=>
    (Logging => /\ Reported(captured, Len(out) + Len(Flat(queue)) + Len(aggr), dropped)
                /\ dropped = 0 /\ lastError = NoError =>
                     bytesQueued = Bytes(Len(Flat(queue))) /\ bytesWritten = Bytes(Len(out)))
BY DEF AccountInv, LossIsReported, ByteCountersExact, SamplesAccounted, QueuedSamples,
       Reported, Bytes

LEMMA AccountDefNext ==
  AccountInv' <=>
    (Logging' => /\ Reported(captured', Len(out') + Len(Flat(queue')) + Len(aggr'), dropped')
                 /\ dropped' = 0 /\ lastError' = NoError =>
                      /\ bytesQueued' = Len(Flat(queue')) * cfg'.ch * ChannelBytes
                      /\ bytesWritten' = Len(out') * cfg'.ch * ChannelBytes)
BY DEF AccountInv, LossIsReported, ByteCountersExact, SamplesAccounted, QueuedSamples,
       Reported

LEMMA AccountSame ==
  ASSUME AccountInv, UNCHANGED <<out, queue, aggr, captured, dropped, bytesQueued,
                                 bytesWritten, run>>,
         lastError' = NoError => lastError = NoError /\ cfg' = cfg
  PROVE  AccountInv'
BY AccountDef, AccountDefNext DEF Logging, Bytes

LEMMA AccountNoLog == ~Logging' => AccountInv'
BY AccountDefNext

LEMMA Sizes ==
  ASSUME TypeOK
  PROVE  /\ Len(out) \in Nat /\ Len(Flat(queue)) \in Nat /\ Len(aggr) \in Nat
         /\ captured \in Nat /\ dropped \in Nat
         /\ bytesQueued \in Nat /\ bytesWritten \in Nat
BY QueueSamples, LenProperties DEF TypeOK

LEMMA AccountDropped ==
  ASSUME TypeOK, AccountInv, dropped' = dropped + 1, captured' = captured, run' = run,
         NEW h \in Nat, h = Len(out') + Len(Flat(queue')) + Len(aggr'),
         h <= Len(out) + Len(Flat(queue)) + Len(aggr),
         Len(out) + Len(Flat(queue)) + Len(aggr) <= h + AggrMax
  PROVE  AccountInv'
<1>. SUFFICES ASSUME Logging' PROVE AccountInv'  BY AccountNoLog
<1>1. Logging  BY DEF Logging
<1>2. Reported(captured, Len(out) + Len(Flat(queue)) + Len(aggr), dropped)  BY <1>1, AccountDef
<1>3. Len(out) + Len(Flat(queue)) + Len(aggr) \in Nat /\ captured \in Nat /\ dropped \in Nat
  BY Sizes
<1>4. Reported(captured, h, dropped + 1)  BY <1>2, <1>3, ReportedLess
<1>5. dropped' # 0  BY <1>3
<1>. QED  BY <1>4, <1>5, AccountDefNext

\* The block at hand goes to the queue.
LEMMA AccountPush ==
  ASSUME TypeOK, AccountInv, NEW blk \in Seq(Frames), QueuePush(blk), aggr' = <<>>,
         UNCHANGED <<out, dropped, cfg, bytesWritten, lastError, run>>,
         captured' = captured + (Len(blk) - Len(aggr)), Len(blk) - Len(aggr) \in {0, 1},
         Logging => mode = "LOG"
  PROVE  AccountInv'
<1>. SUFFICES ASSUME Logging' PROVE AccountInv'  BY AccountNoLog
<1>1. Logging  BY DEF Logging
<1>2. /\ Len(out) \in Nat /\ Len(Flat(queue)) \in Nat /\ Len(aggr) \in Nat
      /\ captured \in Nat /\ dropped \in Nat /\ Len(blk) \in Nat /\ Len(<<>>) = 0
  BY Sizes, LenProperties, EmptySeq
<1>3. Len(Flat(queue')) = Len(Flat(queue)) + Len(blk)
  BY QueueSamples DEF QueuePush, TypeOK
<1>. DEFINE h == Len(out) + Len(Flat(queue)) + Len(aggr)
            g == Len(out') + Len(Flat(queue')) + Len(aggr')
<1>4. Reported(captured', g, dropped')
  <2>1. Reported(captured, h, dropped)  BY <1>1, AccountDef
  <2>2. Reported(captured + 1, h + 1, dropped)  BY <1>2, <2>1, ReportedMore
  <2>3. h \in Nat /\ g = h + (Len(blk) - Len(aggr))  BY <1>2, <1>3
  <2>4. \/ captured' = captured /\ g = h
        \/ captured' = captured + 1 /\ g = h + 1
    BY <1>2, <2>3
  <2>. HIDE DEF g, h
  <2>. QED  BY <2>1, <2>2, <2>4
<1>5. ASSUME dropped' = 0, lastError' = NoError
      PROVE  bytesQueued' = Bytes(Len(Flat(queue'))) /\ bytesWritten' = Bytes(Len(out'))
  <2>1. bytesQueued = Bytes(Len(Flat(queue))) /\ bytesWritten = Bytes(Len(out))
    BY <1>1, <1>5, AccountDef
  <2>2. bytesQueued' = bytesQueued + Bytes(Len(blk))
    BY <1>1 DEF QueuePush, QueuedBytes, Bytes
  <2>3. Bytes(Len(Flat(queue'))) = Bytes(Len(Flat(queue))) + Bytes(Len(blk))
    BY <1>2, <1>3, BytesAdd
  <2>. QED  BY <2>1, <2>2, <2>3
<1>. QED  BY <1>4, <1>5, AccountDefNext DEF Bytes

LEMMA AccountSample ==
  ASSUME TypeOK, ControlInv, LogInv, BlocksFit, AccountInv, ServiceSample
  PROVE  AccountInv'
<1>. DEFINE blk == Append(aggr, Head(ring))
<1>1. /\ ring # <<>> /\ Head(ring) \in Frames /\ blk \in Seq(Frames)
      /\ Len(blk) = Len(aggr) + 1
  BY HeadTailProperties, AppendProperties DEF ServiceSample, FrameReady, TypeOK
<1>2. UNCHANGED <<out, cfg, bytesWritten, lastError, run>>  BY DEF ServiceSample, output
<1>3. Logging => mode = "LOG"
  BY DEF ServiceSample, ControlInv, Shutdown, LogInv
<1>4. /\ Len(out) \in Nat /\ Len(Flat(queue)) \in Nat /\ Len(aggr) \in Nat
      /\ captured \in Nat /\ dropped \in Nat /\ Len(<<>>) = 0
  BY Sizes, EmptySeq
<1>5. CASE RejectFrame
  <2>1. AggrMax \in Nat  BY ConstantsAssumption
  <2>2. UNCHANGED <<queue, aggr, captured>> /\ dropped' = dropped + 1
    BY <1>5 DEF RejectFrame, buf
  <2>. QED  BY <1>2, <1>4, <2>1, <2>2, AccountDropped
<1>6. CASE StoreFrame(Head(ring))
  <2>1. CASE aggr' = blk /\ captured' = captured + 1 /\ UNCHANGED <<queue, bytesQueued, dropped>>
    <3>. SUFFICES ASSUME Logging' PROVE AccountInv'  BY AccountNoLog
    <3>1. Logging  BY <1>2 DEF Logging
    <3>. DEFINE h == Len(out) + Len(Flat(queue)) + Len(aggr)
    <3>2. Reported(captured + 1, h + 1, dropped)  BY <1>4, <3>1, AccountDef, ReportedMore
    <3>3. Len(out') + Len(Flat(queue')) + Len(aggr') = h + 1  BY <1>1, <1>2, <1>4, <2>1
    <3>. HIDE DEF h
    <3>4. dropped' = 0 /\ lastError' = NoError =>
            /\ bytesQueued' = Len(Flat(queue')) * cfg'.ch * ChannelBytes
            /\ bytesWritten' = Len(out') * cfg'.ch * ChannelBytes
      BY <1>2, <2>1, <3>1, AccountDef DEF Bytes
    <3>. QED  BY <2>1, <3>2, <3>3, <3>4, AccountDefNext
  <2>2. CASE CompleteBlock(blk)
    <3>1. CASE QueueFull
      <4>1. aggr' = <<>> /\ dropped' = dropped + 1 /\ UNCHANGED <<queue, captured>>
        BY <2>2, <3>1 DEF CompleteBlock
      <4>2. Len(aggr) < AggrMax /\ AggrMax \in Nat  BY ConstantsAssumption DEF BlocksFit
      <4>3. Len(out') + Len(Flat(queue')) + Len(aggr') = Len(out) + Len(Flat(queue))
        BY <1>2, <1>4, <4>1
      <4>. QED  BY <1>2, <1>4, <4>1, <4>2, <4>3, AccountDropped
    <3>2. CASE ~QueueFull
      <4>1. QueuePush(blk) /\ aggr' = <<>> /\ captured' = captured + 1 /\ UNCHANGED dropped
        BY <2>2, <3>2 DEF CompleteBlock
      <4>2. Len(blk) - Len(aggr) = 1  BY <1>1, <1>4
      <4>. QED  BY <1>1, <1>2, <1>3, <4>1, <4>2, AccountPush
    <3>. QED  BY <3>1, <3>2
  <2>. QED  BY <1>6, <2>1, <2>2 DEF StoreFrame
<1>. QED  BY <1>5, <1>6 DEF ServiceSample

\* The block at the head of the queue and what it leaves.
LEMMA AccountHead ==
  ASSUME TypeOK, BlocksFit, queue # <<>>
  PROVE  /\ Head(queue) \in Seq(Frames) /\ Len(Head(queue)) \in 1..AggrMax
         /\ Len(Flat(queue)) = Len(Head(queue)) + Len(Flat(Tail(queue)))
         /\ Len(Flat(Tail(queue))) \in Nat
<1>1. queue \in Seq(Seq(Frames))  BY DEF TypeOK
<1>2. Head(queue) \in Seq(Frames) /\ Tail(queue) \in Seq(Seq(Frames))
  BY <1>1, HeadTailProperties
<1>3. 1 \in DOMAIN queue /\ Head(queue) = queue[1]
  <2>1. Len(queue) \in Nat /\ Len(queue) # 0 /\ DOMAIN queue = 1..Len(queue)
    BY <1>1, LenProperties, EmptySeq
  <2>. QED  BY <2>1
<1>4. Len(Head(queue)) \in 1..AggrMax  BY <1>3 DEF BlocksFit
<1>. QED  BY <1>1, <1>2, <1>4, QueueSamples

LEMMA AccountWrite ==
  ASSUME TypeOK, BlocksFit, AccountInv, WriteBlock
  PROVE  AccountInv'
<1>. DEFINE blk == Head(queue)
            n   == Len(blk) * cfg.ch * ChannelBytes
<1>1. /\ queue # <<>> /\ queue' = Tail(queue)
      /\ UNCHANGED <<cfg, aggr, captured, run>>
  BY DEF WriteBlock, BlockToWrite
<1>2. /\ blk \in Seq(Frames) /\ Len(blk) \in 1..AggrMax /\ AggrMax \in Nat
      /\ Len(Flat(queue)) = Len(blk) + Len(Flat(queue')) /\ Len(Flat(queue')) \in Nat
  BY <1>1, AccountHead, ConstantsAssumption
<1>3. /\ Len(out) \in Nat /\ Len(aggr) \in Nat /\ bytesQueued \in Nat /\ bytesWritten \in Nat
      /\ Len(blk) \in Nat /\ out \in Seq(Frames)
  BY <1>2, Sizes DEF TypeOK
<1>4. CASE /\ out' = out \o blk /\ Unqueue(n) /\ bytesWritten' = bytesWritten + n
           /\ UNCHANGED <<dropped, lastError>>
  <2>. SUFFICES ASSUME Logging' PROVE AccountInv'  BY AccountNoLog
  <2>1. Logging  BY <1>1 DEF Logging
  <2>2. Len(out') = Len(out) + Len(blk)  BY <1>2, <1>3, <1>4, ConcatProperties
  <2>3. Len(out') + Len(Flat(queue')) + Len(aggr') = Len(out) + Len(Flat(queue)) + Len(aggr)
    BY <1>1, <1>2, <1>3, <2>2
  <2>4. Reported(captured', Len(out') + Len(Flat(queue')) + Len(aggr'), dropped')
    BY <1>1, <1>4, <2>1, <2>3, AccountDef
  <2>5. ASSUME dropped' = 0, lastError' = NoError
        PROVE  bytesQueued' = Bytes(Len(Flat(queue'))) /\ bytesWritten' = Bytes(Len(out'))
    <3>1. bytesQueued = Bytes(Len(Flat(queue))) /\ bytesWritten = Bytes(Len(out))
      BY <1>4, <2>1, <2>5, AccountDef
    <3>2. n = Bytes(Len(blk))  BY DEF Bytes
    <3>3. /\ Bytes(Len(Flat(queue))) = Bytes(Len(blk)) + Bytes(Len(Flat(queue')))
          /\ Bytes(Len(out')) = Bytes(Len(out)) + Bytes(Len(blk))
          /\ Bytes(Len(blk)) \in Nat /\ Bytes(Len(Flat(queue'))) \in Nat
      <4>1. /\ Bytes(Len(blk) + Len(Flat(queue'))) = Bytes(Len(blk)) + Bytes(Len(Flat(queue')))
            /\ Bytes(Len(blk)) \in Nat /\ Bytes(Len(Flat(queue'))) \in Nat
        BY <1>2, <1>3, BytesAdd
      <4>2. Bytes(Len(out) + Len(blk)) = Bytes(Len(out)) + Bytes(Len(blk))
        BY <1>3, BytesAdd
      <4>. QED  BY <1>2, <2>2, <4>1, <4>2
    <3>. HIDE DEF n
    <3>. QED  BY <1>4, <3>1, <3>2, <3>3 DEF Unqueue
  <2>. QED  BY <1>1, <2>4, <2>5, AccountDefNext DEF Bytes
<1>5. CASE /\ dropped' = dropped + 1
           /\ out' = out \/ \E k \in 0..Len(blk) - 1 : out' = out \o SubSeq(blk, 1, k)
  <2>1. \E k \in 0..Len(blk) - 1 : Len(out') = Len(out) + k
    <3>1. CASE out' = out
      <4>1. 0 \in 0..Len(blk) - 1 /\ Len(out') = Len(out) + 0  BY <1>2, <1>3, <3>1
      <4>. QED  BY <4>1
    <3>2. ASSUME NEW k \in 0..Len(blk) - 1, out' = out \o SubSeq(blk, 1, k)
          PROVE  Len(out') = Len(out) + k
      <4>1. SubSeq(blk, 1, k) \in Seq(Frames) /\ Len(SubSeq(blk, 1, k)) = k
        <5>1. \A i \in 1..k : blk[i] \in Frames  BY <1>2, <1>3, ElementOfSeq, LenProperties
        <5>2. k \in Nat  BY <1>3
        <5>. QED  BY <5>1, <5>2, SubSeqProperties
      <4>. QED  BY <1>3, <3>2, <4>1, ConcatProperties
    <3>. QED  BY <1>5, <3>1, <3>2
  <2>2. PICK k \in 0..Len(blk) - 1 : Len(out') = Len(out) + k  BY <2>1
  <2>3. PICK h \in Nat : h = Len(out') + Len(Flat(queue')) + Len(aggr')
    BY <1>1, <1>2, <1>3, <2>2
  <2>4. /\ h <= Len(out) + Len(Flat(queue)) + Len(aggr)
        /\ Len(out) + Len(Flat(queue)) + Len(aggr) <= h + AggrMax
    BY <1>1, <1>2, <1>3, <2>2, <2>3
  <2>. QED  BY <1>1, <1>5, <2>3, <2>4, AccountDropped
<1>. QED  BY <1>4, <1>5 DEF WriteBlock

LEMMA AccountFlush ==
  ASSUME TypeOK, BlocksFit, AccountInv, FlushPartial, aggr # <<>> /\ Logging => mode = "LOG",
         UNCHANGED <<out, captured, cfg, bytesWritten, lastError, run>>
  PROVE  AccountInv'
<1>1. aggr \in Seq(Frames) /\ aggr' = <<>> /\ Len(<<>>) = 0 /\ captured \in Nat
  BY EmptySeq DEF FlushPartial, TypeOK
<1>2. /\ Len(out) \in Nat /\ Len(Flat(queue)) \in Nat /\ Len(aggr) \in Nat
      /\ Len(aggr) < AggrMax /\ AggrMax \in Nat
  BY Sizes, ConstantsAssumption DEF BlocksFit
<1>3. CASE aggr = <<>> /\ UNCHANGED <<queue, bytesQueued, dropped>>
  BY <1>1, <1>3, AccountSame
<1>4. CASE aggr # <<>> /\ QueuePush(aggr) /\ UNCHANGED dropped
  <2>1. Len(aggr) - Len(aggr) = 0 /\ captured' = captured + (Len(aggr) - Len(aggr))
    BY <1>1, <1>2
  <2>. QED  BY <1>1, <1>4, <2>1, AccountPush
<1>5. CASE dropped' = dropped + 1 /\ UNCHANGED queue
  <2>1. Len(out') + Len(Flat(queue')) + Len(aggr') = Len(out) + Len(Flat(queue))
    BY <1>1, <1>2, <1>5
  <2>. QED  BY <1>2, <1>5, <2>1, AccountDropped
<1>. QED  BY <1>3, <1>4, <1>5 DEF FlushPartial

\* Buffers that hold nothing are reset.
LEMMA AccountReset ==
  ASSUME TypeOK, AccountInv, ResetSoftwareBuffers, Logging => PipelineEmpty,
         UNCHANGED <<out, captured, dropped, bytesWritten, cfg, run>>,
         lastError' = NoError => lastError = NoError
  PROVE  AccountInv'
<1>. SUFFICES ASSUME Logging' PROVE AccountInv'  BY AccountNoLog
<1>1. Logging  BY DEF Logging
<1>2. queue = <<>> /\ aggr = <<>> /\ queue' = <<>> /\ aggr' = <<>> /\ bytesQueued' = 0
  BY <1>1 DEF PipelineEmpty, ResetSoftwareBuffers
<1>3. Flat(queue) = <<>> /\ Len(Flat(queue)) = 0  BY <1>2, FlatEmpty, EmptySeq
<1>4. Bytes(0) = 0  BY BytesAdd
<1>. QED  BY <1>1, <1>2, <1>3, <1>4, AccountDef, AccountDefNext DEF Bytes

LEMMA AccountEmpty ==
  ASSUME NEW c, c = 0, Len(<<>>) = 0
  PROVE  Reported(c, Len(<<>>) + Len(Flat(<<>>)) + Len(<<>>), 0)
<1>1. Flat(<<>>) = <<>>  BY FlatEmpty
<1>2. AggrMax * 0 = 0  BY ConstantsAssumption
<1>. QED  BY <1>1, <1>2 DEF Reported

LEMMA AccountInit == Init => AccountInv
BY AccountNoLog DEF Init, AccountInv, LossIsReported, ByteCountersExact, Logging

LEMMA AccountInterrupt == TypeOK /\ AccountInv /\ Interrupt => AccountInv'
<1>. SUFFICES ASSUME TypeOK, AccountInv, Interrupt PROVE AccountInv'  OBVIOUS
<1>. USE DEF buf, counts, output
<1>1. CASE DrdyStart  BY <1>1, AccountSame DEF DrdyStart
<1>2. CASE DmaComplete  BY <1>2, AccountSame DEF DmaComplete
<1>3. CASE DrdyOverrun \/ DmaError
  <2>1. /\ UNCHANGED <<out, queue, aggr, captured, run>> /\ dropped' = dropped + 1
    BY <1>3 DEF DrdyOverrun, DmaError
  <2>2. Len(out) \in Nat /\ Len(Flat(queue)) \in Nat /\ Len(aggr) \in Nat /\ AggrMax \in Nat
    BY Sizes, ConstantsAssumption
  <2>. QED  BY <2>1, <2>2, AccountDropped
<1>. QED  BY <1>1, <1>2, <1>3 DEF Interrupt

LEMMA AccountSuperloop ==
  TypeOK /\ BlocksFit /\ IdleStartInv /\ AccountInv /\ Superloop => AccountInv'
<1>. SUFFICES ASSUME TypeOK, BlocksFit, IdleStartInv, AccountInv, Superloop
              PROVE  AccountInv'
  OBVIOUS
<1>1. ControlInv /\ LogInv /\ NothingLeft  BY DEF IdleStartInv
<1>2. CASE RunPreparing
  <2>1. CASE Logging
    <3>1. aggr = <<>>  BY <1>1, <1>2, <2>1 DEF RunPreparing, NothingLeft, Logging, PipelineEmpty
    <3>. QED  BY <1>2, <3>1, AccountSame DEF RunPreparing, counts, output
  <2>2. CASE ~Logging  BY <1>2, <2>2, AccountNoLog DEF RunPreparing, Logging
  <2>. QED  BY <2>1, <2>2
<1>3. CASE ServiceSample  BY <1>1, <1>3, AccountSample
<1>4. CASE ServiceWrite \/ DrainWrites
  BY <1>4, AccountWrite DEF ServiceWrite, DrainWrites
<1>5. CASE FinalizeStream
  <2>1. ~Logging  BY <1>1, <1>5 DEF FinalizeStream, LogInv
  <2>. QED  BY <1>5, <2>1, AccountNoLog DEF FinalizeStream, Logging
<1>6. CASE FinalizeLog
  BY <1>6, AccountSame DEF FinalizeLog, CloseLog, NoError, WriteData, buf
<1>7. CASE ShutdownFlush
  <2>1. Logging => mode = "LOG"
    BY <1>1, <1>7 DEF ShutdownFlush, ControlInv, Shutdown, LogInv
  <2>. QED  BY <1>7, <2>1, AccountFlush DEF ShutdownFlush, output
<1>8. CASE DrainPartial
  <2>1. Logging => mode = "LOG"
    BY <1>1, <1>8 DEF DrainPartial, LogInv, PipelineEmpty
  <2>. QED  BY <1>8, <2>1, AccountFlush DEF DrainPartial, output
<1>9. CASE CloseAndReset
  <2>1. Logging => PipelineEmpty
    BY <1>1, <1>9 DEF CloseAndReset, LogInv, StopAndCloseDrains
  <2>2. lastError' = NoError => lastError = NoError
    BY <1>9 DEF CloseAndReset, CloseLog, NoError, WriteData
  <2>. QED  BY <1>9, <2>1, <2>2, AccountReset DEF CloseAndReset
<1>10. RunIdle \/ RunAcquiring \/ RunStopping \/ RunFinalizing \/ SamplesDone \/ NothingToWrite
       \/ FinalizeWait \/ ShutdownAbort \/ DrainDone \/ PollDone
       => UNCHANGED <<cfg, buf, counts, output, run>>
  BY DEF RunIdle, RunAcquiring, RunStopping, RunFinalizing, SamplesDone, NothingToWrite,
         FinalizeWait, ShutdownAbort, DrainDone, PollDone
<1>11. CASE UNCHANGED <<cfg, buf, counts, output, run>>
  BY <1>11, AccountSame DEF buf, counts, output
<1>. QED
  BY <1>2, <1>3, <1>4, <1>5, <1>6, <1>7, <1>8, <1>9, <1>10, <1>11 DEF Superloop

LEMMA AccountCommand ==
  ASSUME StartStates = {"IDLE"}, TypeOK, BlocksFit, IdleStartInv, AccountInv, Command
  PROVE  AccountInv'
<1>1. LogInv /\ NothingLeft  BY DEF IdleStartInv
<1>2. ASSUME NEW c \in Configs, StartLogging(c) PROVE AccountInv'
  <2>1. /\ out' = <<>> /\ queue' = <<>> /\ aggr' = <<>> /\ captured' = 0 /\ dropped' = 0
        /\ bytesQueued' = 0 /\ bytesWritten' = 0 /\ cfg' = c
    BY <1>2 DEF StartLogging, BeginRun, ResetSoftwareBuffers
  <2>2. Flat(<<>>) = <<>> /\ Len(<<>>) = 0  BY FlatEmpty, EmptySeq
  <2>3. Reported(0, Len(<<>>) + Len(Flat(<<>>)) + Len(<<>>), 0)  BY <2>2, AccountEmpty
  <2>4. 0 * c.ch * ChannelBytes = 0
    <3>1. c.ch \in 1..8  BY ConstantsAssumption DEF Configs
    <3>2. c.ch \in Nat  BY <3>1
    <3>. QED  BY <3>2 DEF ChannelBytes
  <2>. QED  BY <2>1, <2>2, <2>3, <2>4, AccountDefNext
<1>3. ASSUME NEW c \in Configs, StartLoggingFails(c) PROVE AccountInv'
  BY <1>3, AccountSame DEF StartLoggingFails, buf, NoError, WriteOpen
<1>4. ASSUME NEW c \in Configs, StartStreaming(c) PROVE AccountInv'
  BY <1>4, AccountNoLog DEF StartStreaming, BeginRun, Logging
<1>5. CASE Stop
  <2>1. CASE state = "IDLE"
    <3>1. Logging => PipelineEmpty
      BY <1>1, <2>1 DEF NothingLeft, Logging
    <3>. QED  BY <1>5, <2>1, <3>1, AccountReset DEF Stop, counts, output
  <2>2. CASE state # "IDLE"
    BY <1>5, <2>2, AccountSame DEF Stop, buf, counts, output
  <2>. QED  BY <2>1, <2>2
<1>6. CASE StopAndClose  BY <1>6, AccountSame DEF StopAndClose, buf, counts, output
<1>7. ASSUME NEW len \in ReadLens, ReadStreamBlock(len) PROVE AccountInv'
  <2>1. ~Logging  BY <1>1, <1>7 DEF ReadStreamBlock, LogInv
  <2>. QED  BY <1>7, <2>1, AccountNoLog DEF ReadStreamBlock, Logging
<1>8. ASSUME NEW n \in CalCounts, RunOffsetCalibration(n) PROVE AccountInv'
  BY <1>8, AccountNoLog DEF RunOffsetCalibration, CalibrationRun, Logging
<1>. QED  BY <1>2, <1>3, <1>4, <1>5, <1>6, <1>7, <1>8 DEF Command

LEMMA AccountNext ==
  ASSUME StartStates = {"IDLE"}, TypeOK, BlocksFit, IdleStartInv, AccountInv, [Next]_vars
  PROVE  AccountInv'
<1>1. CASE Interrupt  BY <1>1, AccountInterrupt
<1>2. CASE Superloop  BY <1>2, AccountSuperloop
<1>3. CASE Command  BY <1>3, AccountCommand
<1>4. CASE UNCHANGED vars  BY <1>4, AccountSame DEF vars, buf, counts, output
<1>. QED  BY <1>1, <1>2, <1>3, <1>4 DEF Next

\* samples_captured and dropped_buffers account for every sample of a logging
\* run, if starts are sent in IDLE only: what was counted is in the pipeline, in
\* the file, or in one of the blocks dropped_buffers counts, for every depth of
\* the queue, size of a block and ring.
THEOREM LossCorrect ==
  ASSUME StartStates = {"IDLE"}
  PROVE  Spec => []LossIsReported
<1>1. Init => IdleStartInv /\ AccountInv  BY IdleStartInit, AccountInit
<1>2. TypeOK /\ BlocksFit /\ IdleStartInv /\ AccountInv /\ [Next]_vars
      => IdleStartInv' /\ AccountInv'
  BY IdleStartNext, AccountNext
<1>3. AccountInv => LossIsReported  BY DEF AccountInv
<1>. QED  BY <1>1, <1>2, <1>3, TypeCorrect, BlocksFitCorrect, PTL DEF Spec

\* The byte counters of a status reply are exact while a logging run has neither
\* dropped a block nor failed, if starts are sent in IDLE only.
THEOREM BytesCorrect ==
  ASSUME StartStates = {"IDLE"}
  PROVE  Spec => []ByteCountersExact
<1>1. Init => IdleStartInv /\ AccountInv  BY IdleStartInit, AccountInit
<1>2. TypeOK /\ BlocksFit /\ IdleStartInv /\ AccountInv /\ [Next]_vars
      => IdleStartInv' /\ AccountInv'
  BY IdleStartNext, AccountNext
<1>3. AccountInv => ByteCountersExact  BY DEF AccountInv
<1>. QED  BY <1>1, <1>2, <1>3, TypeCorrect, BlocksFitCorrect, PTL DEF Spec

-----------------------------------------------------------------------------
(* The engine implements RecordingSession, step by step.                   *)

\* Both parts of a concatenation can be cut out of it again.
LEMMA Cut ==
  ASSUME NEW S, NEW s \in Seq(S), NEW t \in Seq(S)
  PROVE  /\ \A k \in 0..Len(s) : SubSeq(s \o t, 1, k) = SubSeq(s, 1, k)
         /\ SubSeq(s \o t, 1, Len(s)) = s
         /\ SubSeq(s \o t, Len(s) + 1, Len(s \o t)) = t
<1>. DEFINE c == s \o t
            m == Len(s)
            n == Len(t)
<1>1. /\ c \in Seq(S) /\ m \in Nat /\ n \in Nat /\ Len(c) = m + n
      /\ DOMAIN s = 1..m /\ DOMAIN t = 1..n
      /\ \A i \in 1..m + n : c[i] = IF i <= m THEN s[i] ELSE t[i - m]
  BY ConcatProperties, LenProperties
<1>2. /\ \A i \in 1..m : s[i] \in S
      /\ \A i \in 1..n : t[i] \in S
      /\ \A i \in 1..m + n : c[i] \in S
  BY <1>1, ElementOfSeq, LenProperties
<1>3. ASSUME NEW k \in 0..m PROVE SubSeq(c, 1, k) = SubSeq(s, 1, k)
  <2>1. k \in Int /\ \A i \in 1..k : s[i] \in S /\ c[i] \in S /\ c[i] = s[i]
    BY <1>1, <1>2
  <2>2. /\ SubSeq(s, 1, k) \in Seq(S) /\ Len(SubSeq(s, 1, k)) = k
        /\ \A i \in 1..k : SubSeq(s, 1, k)[i] = s[i]
    BY <1>1, <2>1, SubSeqProperties
  <2>3. /\ SubSeq(c, 1, k) \in Seq(S) /\ Len(SubSeq(c, 1, k)) = k
        /\ \A i \in 1..k : SubSeq(c, 1, k)[i] = c[i]
    BY <1>1, <2>1, SubSeqProperties
  <2>. QED  BY <2>1, <2>2, <2>3, SeqEqual
<1>4. SubSeq(c, 1, m) = s
  <2>1. m \in 0..m  BY <1>1
  <2>. QED  BY <1>3, <2>1, SubSeqFull
<1>5. SubSeq(c, m + 1, m + n) = t
  <2>1. m + 1 \in Int /\ m + n \in Int /\ \A i \in m + 1..m + n : c[i] \in S
    BY <1>1, <1>2
  <2>2. /\ SubSeq(c, m + 1, m + n) \in Seq(S) /\ Len(SubSeq(c, m + 1, m + n)) = n
        /\ \A i \in 1..n : SubSeq(c, m + 1, m + n)[i] = c[(m + 1) + i - 1]
    BY <1>1, <2>1, SubSeqProperties
  <2>3. \A i \in 1..n : c[(m + 1) + i - 1] = t[i]
    <3>1. ASSUME NEW i \in 1..n PROVE c[(m + 1) + i - 1] = t[i]
      <4>1. (m + 1) + i - 1 = m + i /\ m + i \in 1..m + n /\ ~(m + i <= m) /\ (m + i) - m = i
        BY <1>1
      <4>. QED  BY <1>1, <4>1
    <3>. QED  BY <3>1
  <2>. QED  BY <1>1, <2>2, <2>3, SeqEqual
<1>. QED  BY <1>1, <1>3, <1>4, <1>5

\* One more frame at the end of the backlog.
LEMMA ConcatAppend ==
  ASSUME NEW S, NEW s \in Seq(S), NEW t \in Seq(S), NEW x \in S
  PROVE  s \o Append(t, x) = Append(s \o t, x)
<1>1. Append(t, x) = t \o <<x>> /\ Append(s \o t, x) = (s \o t) \o <<x>> /\ <<x>> \in Seq(S)
  <2>1. s \o t \in Seq(S)  BY ConcatProperties
  <2>2. <<x>> \in Seq(S)  OBVIOUS
  <2>. QED  BY <2>1, <2>2, AppendIsConcat
<1>2. (s \o t) \o <<x>> = s \o (t \o <<x>>)
  <2>1. PICK u \in Seq(S) : u = <<x>>  BY <1>1
  <2>2. (s \o t) \o u = s \o (t \o u)  BY ONLY ConcatAssociative
  <2>. QED  BY <2>1, <2>2
<1>. QED  BY <1>1, <1>2

Active == state # "IDLE" \/ "START" \in events

LEMMA BacklogType ==
  ASSUME TypeOK
  PROVE  /\ out \in Seq(Frames) /\ Flat(queue) \in Seq(Frames) /\ aggr \in Seq(Frames)
         /\ Backlog \in Seq(Frames) /\ Len(Backlog) \in Nat
         /\ Len(Flat(queue)) \in 0..Len(Backlog)
<1>1. out \in Seq(Frames) /\ Flat(queue) \in Seq(Frames) /\ aggr \in Seq(Frames)
  BY FlatDef DEF TypeOK
<1>2. Backlog \in Seq(Frames) /\ Len(Backlog) = Len(Flat(queue)) + Len(aggr)
  BY <1>1, ConcatProperties DEF Backlog
<1>. QED  BY <1>1, <1>2, LenProperties

LEMMA BacklogEmpty ==
  /\ PipelineEmpty => Backlog = <<>>
  /\ queue' = <<>> /\ aggr' = <<>> => Backlog' = <<>>
<1>1. Flat(<<>>) = <<>> /\ <<>> \o <<>> = <<>>
  BY FlatEmpty
<1>. QED  BY <1>1 DEF PipelineEmpty, Backlog

Lossy == dropped # 0

LEMMA SessionStutter ==
  ASSUME UNCHANGED <<run, out, queue, aggr>>, Active' = Active, Lossy' = Lossy
  PROVE  UNCHANGED Session!vars
<1>1. Backlog' = Backlog  BY DEF Backlog
<1>. QED  BY <1>1 DEF Session!vars, Active, Lossy

LEMMA SessionAccept ==
  ASSUME NEW f \in 1..MaxFrames, Active, Active', Backlog' = Append(Backlog, f),
         UNCHANGED <<run, out, dropped>>
  PROVE  Session!Next
<1>1. Session!Accept(f)  BY DEF Session!Accept, Active
<1>. QED  BY <1>1 DEF Session!Next

\* A block that is put out, whole or in part.
LEMMA OldestBlock ==
  ASSUME TypeOK, queue # <<>>, queue' = Tail(queue), aggr' = aggr
  PROVE  /\ Len(Head(queue)) \in Nat /\ Len(Backlog) \in Nat
         /\ Len(Head(queue)) <= Len(Backlog)
         /\ \A k \in 0..Len(Head(queue)) : SubSeq(Backlog, 1, k) = SubSeq(Head(queue), 1, k)
         /\ SubSeq(Backlog, 1, Len(Head(queue))) = Head(queue)
         /\ SubSeq(Backlog, Len(Head(queue)) + 1, Len(Backlog)) = Backlog'
<1>1. queue \in Seq(Seq(Frames)) /\ aggr \in Seq(Frames)  BY DEF TypeOK
<1>2. PICK h \in Seq(Frames) : h = Head(queue)  BY <1>1, FlatTail
<1>3. PICK t \in Seq(Frames) : t = Flat(Tail(queue))  BY <1>1, FlatTail
<1>4. PICK a \in Seq(Frames) : a = aggr  BY <1>1
<1>5. PICK r \in Seq(Frames) : r = t \o a  BY ConcatProperties
<1>6. PICK n, b : n = Len(h) /\ b = h \o r  OBVIOUS
<1>7. Backlog = b
  <2>1. Flat(queue) = h \o t  BY <1>1, <1>2, <1>3, FlatTail
  <2>2. (h \o t) \o a = h \o (t \o a)  BY ONLY ConcatAssociative
  <2>. QED  BY <1>4, <1>5, <1>6, <2>1, <2>2 DEF Backlog
<1>8. Backlog' = r  BY <1>3, <1>4, <1>5 DEF Backlog
<1>9. n \in Nat /\ Len(b) \in Nat /\ n <= Len(b)
  BY <1>6, ConcatProperties, LenProperties
<1>10. /\ \A k \in 0..n : SubSeq(b, 1, k) = SubSeq(h, 1, k)
       /\ SubSeq(b, 1, n) = h
       /\ SubSeq(b, n + 1, Len(b)) = r
  <2>1. /\ \A k \in 0..Len(h) : SubSeq(h \o r, 1, k) = SubSeq(h, 1, k)
        /\ SubSeq(h \o r, 1, Len(h)) = h
        /\ SubSeq(h \o r, Len(h) + 1, Len(h \o r)) = r
    BY Cut
  <2>. QED  BY <1>6, <2>1, Zenon
<1>. QED  BY <1>2, <1>6, <1>7, <1>8, <1>9, <1>10, Zenon

LEMMA SessionPutOut ==
  ASSUME TypeOK, queue # <<>>, Len(Head(queue)) # 0, Active \/ run = "calibration",
         out' = out \o Head(queue), queue' = Tail(queue), aggr' = aggr,
         UNCHANGED <<run, dropped>>, Active' = Active
  PROVE  Session!Next
<1>1. PICK n : n = Len(Head(queue))  OBVIOUS
<1>2. /\ n \in Nat /\ n <= Len(Backlog) /\ Len(Backlog) \in Nat
      /\ SubSeq(Backlog, 1, n) = Head(queue)
      /\ SubSeq(Backlog, n + 1, Len(Backlog)) = Backlog'
  BY <1>1, OldestBlock, Zenon
<1>4. n \in 1..Len(Backlog)  BY <1>1, <1>2
<1>3. Session!PutOut(n)
  BY <1>2, <1>4 DEF Session!PutOut, Session!Recording, Active
<1>. QED  BY <1>3, <1>4 DEF Session!Next

LEMMA SessionLoseOldest ==
  ASSUME TypeOK, queue # <<>>, NEW k \in 0..Len(Head(queue)) - 1,
         out' = out \o SubSeq(Head(queue), 1, k), queue' = Tail(queue), aggr' = aggr,
         run' = run, dropped' # 0, Active' = Active
  PROVE  Session!Next
<1>1. PICK n : n = Len(Head(queue))  OBVIOUS
<1>2. n \in Nat /\ n <= Len(Backlog) /\ Len(Backlog) \in Nat
      /\ SubSeq(Backlog, n + 1, Len(Backlog)) = Backlog'
      /\ \A i \in 0..n : SubSeq(Backlog, 1, i) = SubSeq(Head(queue), 1, i)
  BY <1>1, OldestBlock, Zenon
<1>3. n \in 1..Len(Backlog) /\ k \in 0..n - 1 /\ k \in 0..n /\ k < n  BY <1>1, <1>2
<1>4. SubSeq(Backlog, 1, k) = SubSeq(Head(queue), 1, k)  BY <1>2, <1>3
<1>5. Session!LoseOldest(n, k)
  BY <1>2, <1>3, <1>4 DEF Session!LoseOldest, Active
<1>. QED  BY <1>3, <1>5 DEF Session!Next

\* The frame being converted or accepted is lost, and the backlog stays.
LEMMA SessionLoseNone ==
  ASSUME TypeOK, UNCHANGED <<run, out, queue, aggr>>, dropped' # 0, Active' = Active
  PROVE  Session!Next
<1>1. PICK n : n = Len(Backlog)  OBVIOUS
<1>2. Backlog' = Backlog  BY DEF Backlog
<1>3. n \in 0..Len(Backlog) /\ SubSeq(Backlog, 1, n) = Backlog
  BY <1>1, BacklogType, SubSeqFull
<1>4. Session!LoseNewest(n)
  BY <1>2, <1>3 DEF Session!LoseNewest, Active
<1>. QED  BY <1>3, <1>4 DEF Session!Next

\* The block being filled is lost, and the queue stays.
LEMMA SessionLoseBlock ==
  ASSUME TypeOK, UNCHANGED <<run, out, queue>>, aggr' = <<>>, dropped' # 0, Active' = Active
  PROVE  Session!Next
<1>1. PICK n : n = Len(Flat(queue))  OBVIOUS
<1>2. PICK q \in Seq(Frames) : q = Flat(queue)  BY BacklogType
<1>3. PICK a \in Seq(Frames) : a = aggr  BY BacklogType
<1>4. Backlog = q \o a /\ Backlog' = q
  <2>1. Backlog' = q \o <<>>  BY <1>2 DEF Backlog
  <2>2. q \o <<>> = q  BY ConcatEmptySeq
  <2>. QED  BY <1>2, <1>3, <2>1, <2>2 DEF Backlog
<1>5. SubSeq(q \o a, 1, Len(q)) = q  BY Cut
<1>6. n \in 0..Len(Backlog) /\ SubSeq(Backlog, 1, n) = Backlog'
  BY <1>1, <1>2, <1>4, <1>5, BacklogType
<1>7. Session!LoseNewest(n)
  BY <1>6 DEF Session!LoseNewest, Active
<1>. QED  BY <1>6, <1>7 DEF Session!Next

LEMMA SessionEnd ==
  ASSUME run = "log" => PipelineEmpty, queue' = <<>>, aggr' = <<>>, ~Active',
         UNCHANGED <<run, out, dropped>>
  PROVE  Session!Next
<1>1. Session!End
  BY BacklogEmpty DEF Session!End, Active
<1>. QED  BY <1>1 DEF Session!Next

LEMMA SessionDiscard ==
  ASSUME run = "calibration", queue' = <<>>, aggr' = <<>>, Active' = Active,
         UNCHANGED <<run, out, dropped>>
  PROVE  Session!Next
<1>1. Session!Discard
  BY BacklogEmpty DEF Session!Discard, Session!Recording, Active
<1>. QED  BY <1>1 DEF Session!Next

LEMMA SessionBegin ==
  ASSUME run # "calibration" => PipelineEmpty, run' \in {"log", "stream"}, Active',
         queue' = <<>>, aggr' = <<>>, out' = <<>>, dropped' = 0
  PROVE  Session!Next
<1>1. Session!Begin(run')
  BY BacklogEmpty DEF Session!Begin, Session!Recording, Active
<1>. QED  BY <1>1 DEF Session!Next

-----------------------------------------------------------------------------
\* Every conversion has a number in 1..MaxFrames.
Numbered == next <= MaxFrames + 1

LEMMA NumberedNext == TypeOK /\ Numbered /\ [Next]_vars => Numbered'
<1>. SUFFICES ASSUME TypeOK, Numbered, [Next]_vars PROVE Numbered'  OBVIOUS
<1>1. next \in Nat /\ MaxFrames \in Nat  BY ConstantsAssumption DEF TypeOK, Frames
<1>2. CASE UNCHANGED next  BY <1>2 DEF Numbered
<1>3. CASE Interrupt
  BY <1>1, <1>3 DEF Interrupt, DrdyStart, DrdyOverrun, DmaComplete, DmaError, IsrMaySample,
     Numbered
<1>4. Superloop => UNCHANGED next
  BY DEF Superloop, RunIdle, RunPreparing, RunAcquiring, RunStopping, RunFinalizing,
     ServiceSample, SamplesDone, ServiceWrite, NothingToWrite, FinalizeStream, FinalizeLog,
     FinalizeWait, ShutdownAbort, ShutdownFlush, DrainWrites, DrainPartial, DrainDone,
     CloseAndReset, PollDone, WriteBlock, AbortReadDma, capt
<1>5. ASSUME NEW n \in CalCounts, RunOffsetCalibration(n) PROVE Numbered'
  BY <1>5 DEF RunOffsetCalibration, CalibrationRun, Numbered
<1>6. CASE Command
  BY <1>2, <1>5, <1>6 DEF Command, StartLogging, StartLoggingFails, StartStreaming, BeginRun,
     Stop, StopAndClose, ReadStreamBlock, capt
<1>. QED  BY <1>2, <1>3, <1>4, <1>6 DEF Next, vars, capt

LEMMA FirstFrame ==
  ASSUME TypeOK, PipelineInOrder, Numbered, ring # <<>>
  PROVE  Head(ring) \in 1..MaxFrames
<1>1. /\ ring \in Seq(Frames) /\ next \in Nat /\ MaxFrames \in Nat
  BY ConstantsAssumption DEF TypeOK, Frames
<1>2. Head(ring) \in Frames /\ Head(ring) = ring[1] /\ 1 \in DOMAIN ring
  BY <1>1, HeadTailProperties, EmptySeq, LenProperties
<1>3. 1 \in DOMAIN <<next>> /\ <<next>>[1] = next  OBVIOUS
<1>4. Head(ring) < next
  BY <1>2, <1>3 DEF PipelineInOrder, Order, Precedes
<1>. QED  BY <1>1, <1>2, <1>4 DEF Numbered, Frames

LEMMA SessionInterrupt ==
  TypeOK /\ Interrupt => Session!Next \/ UNCHANGED Session!vars
<1>. SUFFICES ASSUME TypeOK, Interrupt PROVE Session!Next \/ UNCHANGED Session!vars  OBVIOUS
<1>. USE DEF ctl, buf, output, Active, Lossy
<1>1. CASE DrdyStart \/ DmaComplete
  BY <1>1, SessionStutter DEF DrdyStart, DmaComplete, counts
<1>2. CASE DrdyOverrun \/ DmaError
  <2>1. dropped' # 0  BY <1>2 DEF DrdyOverrun, DmaError, TypeOK
  <2>. QED  BY <1>2, <2>1, SessionLoseNone DEF DrdyOverrun, DmaError
<1>. QED  BY <1>1, <1>2 DEF Interrupt

\* The backlog does not change when the block being filled is queued.
LEMMA BacklogPush ==
  ASSUME TypeOK, NEW blk \in Seq(Frames), QueuePush(blk), aggr' = <<>>
  PROVE  Backlog' = Flat(queue) \o blk
<1>1. queue \in Seq(Seq(Frames)) /\ queue' = Append(queue, blk)  BY DEF TypeOK, QueuePush
<1>2. PICK q \in Seq(Frames) : q = Flat(queue)  BY BacklogType
<1>3. Flat(queue') = q \o blk  BY <1>1, <1>2, FlatAppend
<1>4. PICK c \in Seq(Frames) : c = q \o blk  BY ConcatProperties
<1>5. c \o <<>> = c  BY ConcatEmptySeq
<1>. QED  BY <1>2, <1>3, <1>4, <1>5 DEF Backlog

LEMMA SessionFlush ==
  ASSUME TypeOK, FlushPartial, UNCHANGED <<out, run>>, Active' = Active
  PROVE  Session!Next \/ UNCHANGED Session!vars
<1>1. aggr' = <<>>  BY DEF FlushPartial
<1>2. CASE aggr = <<>> /\ UNCHANGED <<queue, dropped>>
  BY <1>1, <1>2, SessionStutter DEF Lossy
<1>3. CASE QueuePush(aggr) /\ UNCHANGED dropped
  <2>1. aggr \in Seq(Frames)  BY DEF TypeOK
  <2>2. Backlog' = Backlog  BY <1>1, <1>3, <2>1, BacklogPush DEF Backlog
  <2>. QED  BY <1>3, <2>2 DEF Session!vars, Active
<1>4. CASE dropped' = dropped + 1 /\ UNCHANGED queue
  <2>1. dropped' # 0  BY <1>4 DEF TypeOK
  <2>. QED  BY <1>1, <1>4, <2>1, SessionLoseBlock
<1>. QED  BY <1>2, <1>3, <1>4 DEF FlushPartial

LEMMA SessionSample ==
  ASSUME TypeOK, ControlInv, PipelineInOrder, Numbered, ServiceSample
  PROVE  Session!Next
<1>. DEFINE f   == Head(ring)
            blk == Append(aggr, f)
<1>1. ring # <<>> /\ UNCHANGED <<run, out>> /\ Active /\ Active' /\ Active' = Active
  BY DEF ServiceSample, FrameReady, ctl, output, ControlInv, Shutdown, Active
<1>2. f \in 1..MaxFrames /\ f \in Frames
  <2>1. f \in 1..MaxFrames  BY <1>1, FirstFrame
  <2>. QED  BY <2>1, ConstantsAssumption DEF Frames
<1>3. aggr \in Seq(Frames) /\ Flat(queue) \in Seq(Frames) /\ blk \in Seq(Frames)
  BY <1>2, BacklogType, AppendProperties
<1>4. Flat(queue) \o blk = Append(Backlog, f)
  BY <1>2, <1>3, ConcatAppend DEF Backlog
<1>5. CASE RejectFrame
  <2>1. dropped' # 0 /\ UNCHANGED <<queue, aggr>>  BY <1>5 DEF RejectFrame, buf, TypeOK
  <2>. QED  BY <1>1, <2>1, SessionLoseNone
<1>6. CASE aggr' = blk /\ UNCHANGED <<queue, dropped>>
  <2>1. Backlog' = Append(Backlog, f)  BY <1>4, <1>6 DEF Backlog
  <2>. QED  BY <1>1, <1>2, <1>6, <2>1, SessionAccept
<1>7. CASE CompleteBlock(blk) /\ QueueFull
  <2>1. dropped' # 0 /\ aggr' = <<>> /\ queue' = queue
    BY <1>7 DEF CompleteBlock, TypeOK
  <2>. QED  BY <1>1, <2>1, SessionLoseBlock
<1>8. CASE CompleteBlock(blk) /\ ~QueueFull
  <2>1. QueuePush(blk) /\ aggr' = <<>> /\ UNCHANGED dropped  BY <1>8 DEF CompleteBlock
  <2>2. Backlog' = Append(Backlog, f)  BY <1>3, <1>4, <2>1, BacklogPush
  <2>. QED  BY <1>1, <1>2, <2>1, <2>2, SessionAccept
<1>. QED  BY <1>5, <1>6, <1>7, <1>8 DEF ServiceSample, StoreFrame

LEMMA SessionWrite ==
  ASSUME TypeOK, BlocksFit, WriteBlock, Active \/ run = "calibration", Active' = Active
  PROVE  Session!Next
<1>1. /\ queue # <<>> /\ queue' = Tail(queue) /\ UNCHANGED <<aggr, run>>
  BY DEF WriteBlock, BlockToWrite
<1>2. Head(queue) \in Seq(Frames) /\ Len(Head(queue)) \in 1..AggrMax
  BY <1>1, AccountHead
<1>3. CASE out' = out \o Head(queue) /\ UNCHANGED dropped
  BY <1>1, <1>2, <1>3, SessionPutOut
<1>4. ASSUME NEW k \in 0..Len(Head(queue)) - 1, out' = out \o SubSeq(Head(queue), 1, k),
             dropped' = dropped + 1
      PROVE  Session!Next
  <2>1. dropped' # 0  BY <1>4 DEF TypeOK
  <2>. QED  BY <1>1, <1>4, <2>1, SessionLoseOldest
<1>5. CASE out' = out /\ dropped' = dropped + 1
  <2>1. 0 \in 0..Len(Head(queue)) - 1  BY <1>2
  <2>2. SubSeq(Head(queue), 1, 0) = <<>>  BY <1>2, SubSeqEmpty
  <2>3. out \o <<>> = out  BY ConcatEmptySeq DEF TypeOK
  <2>. QED  BY <1>4, <1>5, <2>1, <2>2, <2>3
<1>. QED  BY <1>3, <1>4, <1>5 DEF WriteBlock

LEMMA SessionRead ==
  ASSUME TypeOK, BlocksFit, NothingLeft, NEW len \in ReadLens, ReadStreamBlock(len)
  PROVE  Session!Next
<1>1. /\ queue # <<>> /\ queue' = Tail(queue) /\ UNCHANGED <<aggr, run>>
      /\ Active /\ Active' = Active
  BY DEF ReadStreamBlock, NothingLeft, Closing, ctl, Active
<1>2. Head(queue) \in Seq(Frames) /\ Len(Head(queue)) \in 1..AggrMax
  BY <1>1, AccountHead
<1>3. CASE out' = out \o Head(queue) /\ UNCHANGED dropped
  BY <1>1, <1>2, <1>3, SessionPutOut
<1>4. CASE out' = out /\ dropped' = dropped + 1
  <2>1. 0 \in 0..Len(Head(queue)) - 1  BY <1>2
  <2>2. SubSeq(Head(queue), 1, 0) = <<>>  BY <1>2, SubSeqEmpty
  <2>3. out \o <<>> = out  BY ConcatEmptySeq DEF TypeOK
  <2>4. dropped' # 0  BY <1>4 DEF TypeOK
  <2>. QED  BY <1>1, <1>4, <2>1, <2>2, <2>3, <2>4, SessionLoseOldest
<1>. QED  BY <1>3, <1>4 DEF ReadStreamBlock

-----------------------------------------------------------------------------
LEMMA SessionSuperloop ==
  ASSUME TypeOK, BlocksFit, IdleStartInv, PipelineInOrder, Numbered, Superloop
  PROVE  Session!Next \/ UNCHANGED Session!vars
<1>1. ControlInv /\ SinkInv /\ LogInv /\ NothingLeft  BY DEF IdleStartInv
<1>2. ASSUME UNCHANGED <<run, out, queue, aggr, dropped>>, Active' = Active
      PROVE  UNCHANGED Session!vars
  BY <1>2, SessionStutter DEF Lossy
<1>3. CASE RunIdle \/ RunAcquiring \/ RunStopping \/ RunFinalizing
  <2>1. UNCHANGED <<run, out, queue, aggr, dropped>>
    BY <1>3 DEF RunIdle, RunAcquiring, RunStopping, RunFinalizing, buf, counts, output
  <2>2. Active' = Active
    BY <1>3 DEF RunIdle, RunAcquiring, RunStopping, RunFinalizing, ctl, Active
  <2>. QED  BY <1>2, <2>1, <2>2
<1>4. CASE SamplesDone \/ NothingToWrite \/ FinalizeWait \/ ShutdownAbort \/ DrainDone
           \/ PollDone
  BY <1>2, <1>4 DEF SamplesDone, NothingToWrite, FinalizeWait, ShutdownAbort, DrainDone,
     PollDone, ctl, buf, counts, output, Active
<1>5. CASE RunPreparing
  <2>1. /\ queue = <<>> /\ queue' = <<>> /\ aggr' = <<>> /\ Active' = Active
        /\ UNCHANGED <<run, out, dropped>> /\ (run # "calibration" => aggr = <<>>)
    BY <1>1, <1>5 DEF RunPreparing, NothingLeft, PipelineEmpty, Closing, counts, output,
       Active
  <2>2. CASE run = "calibration"  BY <2>1, <2>2, SessionDiscard
  <2>3. CASE run # "calibration"  BY <1>2, <2>1, <2>3
  <2>. QED  BY <2>2, <2>3
<1>6. CASE ServiceSample  BY <1>1, <1>6, SessionSample
<1>7. CASE ServiceWrite \/ DrainWrites
  <2>1. WriteBlock /\ queue # <<>> /\ Active' = Active
    BY <1>7 DEF ServiceWrite, DrainWrites, WriteBlock, BlockToWrite, ctl, Active
  <2>2. Active \/ run = "calibration"
    BY <1>1, <2>1 DEF NothingLeft, PipelineEmpty, Active
  <2>. QED  BY <2>1, <2>2, SessionWrite
<1>8. CASE FinalizeStream \/ FinalizeLog \/ CloseAndReset
  <2>1. CASE FinalizeStream
    <3>1. /\ queue' = <<>> /\ aggr' = <<>> /\ UNCHANGED <<run, out, dropped>>
          /\ state' = "IDLE" /\ events' = events /\ state # "IDLE" /\ mode = "STREAM"
      BY <1>1, <2>1 DEF FinalizeStream, ResetSoftwareBuffers, counts, output, ControlInv
    <3>2. run # "log" /\ ~Active'  BY <1>1, <3>1 DEF LogInv, Logging, SinkInv, Active
    <3>. QED  BY <3>1, <3>2, SessionEnd
  <2>2. CASE FinalizeLog
    <3>1. /\ PipelineEmpty /\ queue' = <<>> /\ aggr' = <<>> /\ UNCHANGED <<run, out, dropped>>
          /\ state' = "IDLE" /\ events' = events /\ state # "IDLE"
      BY <1>1, <2>2 DEF FinalizeLog, PipelineEmpty, buf, ControlInv
    <3>2. ~Active'  BY <1>1, <3>1 DEF SinkInv, Active
    <3>. QED  BY <3>1, <3>2, SessionEnd
  <2>3. CASE CloseAndReset
    <3>1. /\ queue' = <<>> /\ aggr' = <<>> /\ UNCHANGED <<run, out, dropped>> /\ ~Active'
          /\ (run = "log" => PipelineEmpty)
      BY <1>1, <2>3 DEF CloseAndReset, ResetSoftwareBuffers, LogInv, StopAndCloseDrains,
         Logging, Active
    <3>. QED  BY <3>1, SessionEnd
  <2>. QED  BY <1>8, <2>1, <2>2, <2>3
<1>9. CASE ShutdownFlush \/ DrainPartial
  <2>1. FlushPartial /\ UNCHANGED <<out, run>>
    BY <1>9 DEF ShutdownFlush, DrainPartial, output
  <2>2. Active' = Active
    BY <1>1, <1>9 DEF ShutdownFlush, DrainPartial, ControlInv, Shutdown, ctl, Active
  <2>. QED  BY <2>1, <2>2, SessionFlush
<1>. QED
  BY <1>3, <1>4, <1>5, <1>6, <1>7, <1>8, <1>9 DEF Superloop

LEMMA SessionCalibrate ==
  ASSUME TypeOK, NothingLeft, Numbered, NEW n \in CalCounts, RunOffsetCalibration(n)
  PROVE  Session!Next
<1>1. PICK late \in 0..AggrMax - 1 :
        /\ next + late <= MaxFrames + 1
        /\ aggr' = [i \in 1..late |-> next + (i - 1)]
  BY DEF RunOffsetCalibration, CalibrationRun
<1>2. late \in Nat /\ next \in Frames /\ MaxFrames \in Nat
  BY <1>1, ConstantsAssumption DEF TypeOK
<1>3. aggr' \in Seq(1..MaxFrames)
  <2>1. \A i \in 1..late : next + (i - 1) \in 1..MaxFrames
    BY <1>1, <1>2 DEF Frames
  <2>2. aggr' \in [1..late -> 1..MaxFrames]  BY <1>1, <2>1
  <2>. QED  BY <1>2, <2>2, SeqDef
<1>4. Backlog' \in Seq(1..MaxFrames)
  <2>1. PICK a \in Seq(1..MaxFrames) : a = aggr'  BY <1>3
  <2>2. queue' = <<>>  BY DEF RunOffsetCalibration, CalibrationRun
  <2>3. <<>> \o a = a  BY ConcatEmptySeq
  <2>. QED  BY <2>1, <2>2, <2>3, FlatEmpty DEF Backlog
<1>5. /\ run' = "calibration" /\ out' = out /\ state = "IDLE" /\ state' = state
      /\ (events' = events \/ events' = {})
  BY DEF RunOffsetCalibration, CalibrationRun, output
<1>6. run # "calibration" => Backlog = <<>>
  BY <1>5, BacklogEmpty DEF NothingLeft
<1>7. Active' \in {Active, FALSE}  BY <1>5 DEF Active
<1>8. Session!Calibrate
  BY <1>4, <1>5, <1>6, <1>7 DEF Session!Calibrate, Session!Recording, Active
<1>. QED  BY <1>8 DEF Session!Next

LEMMA SessionCommand ==
  ASSUME StartStates = {"IDLE"}, TypeOK, BlocksFit, IdleStartInv, Numbered, Command
  PROVE  Session!Next \/ UNCHANGED Session!vars
<1>1. NothingLeft  BY DEF IdleStartInv
<1>2. ASSUME NEW c \in Configs, StartLogging(c) \/ StartStreaming(c) PROVE Session!Next
  <2>1. /\ state = "IDLE" /\ queue' = <<>> /\ aggr' = <<>> /\ out' = <<>> /\ dropped' = 0
        /\ run' \in {"log", "stream"} /\ Active'
    BY <1>2 DEF StartLogging, StartStreaming, BeginRun, ResetSoftwareBuffers, Active
  <2>. QED  BY <1>1, <2>1, SessionBegin DEF NothingLeft
<1>3. CASE StopAndClose \/ \E c \in Configs : StartLoggingFails(c)
  BY <1>3, SessionStutter DEF StopAndClose, StartLoggingFails, ctl, buf, counts, output,
     Active, Lossy
<1>4. CASE Stop
  <2>1. UNCHANGED <<run, out, dropped>>  BY <1>4 DEF Stop, counts, output
  <2>2. CASE state = "IDLE"
    <3>1. queue' = <<>> /\ aggr' = <<>> /\ ~Active'
      BY <1>4, <2>2 DEF Stop, ResetSoftwareBuffers, Active
    <3>. QED  BY <1>1, <2>1, <2>2, <3>1, SessionEnd DEF NothingLeft
  <2>3. CASE state # "IDLE"
    <3>1. UNCHANGED <<queue, aggr>> /\ Active' = Active
      BY <1>4, <2>3 DEF Stop, buf, Active
    <3>. QED  BY <2>1, <3>1, SessionStutter DEF Lossy
  <2>. QED  BY <2>2, <2>3
<1>5. ASSUME NEW len \in ReadLens, ReadStreamBlock(len) PROVE Session!Next
  BY <1>1, <1>5, SessionRead
<1>6. ASSUME NEW n \in CalCounts, RunOffsetCalibration(n) PROVE Session!Next
  BY <1>1, <1>6, SessionCalibrate
<1>. QED  BY <1>2, <1>3, <1>4, <1>5, <1>6 DEF Command

LEMMA SessionInit == Init => Session!Init
<1>. SUFFICES ASSUME Init PROVE Session!Init  OBVIOUS
<1>1. Backlog = <<>>  BY BacklogEmpty DEF Init, PipelineEmpty
<1>. QED  BY <1>1 DEF Init, Session!Init

LEMMA SessionNext ==
  ASSUME StartStates = {"IDLE"}, TypeOK, BlocksFit, IdleStartInv, PipelineInOrder, Numbered,
         [Next]_vars
  PROVE  [Session!Next]_(Session!vars)
<1>1. CASE Interrupt  BY <1>1, SessionInterrupt
<1>2. CASE Superloop  BY <1>2, SessionSuperloop
<1>3. CASE Command  BY <1>3, SessionCommand
<1>4. CASE UNCHANGED vars
  BY <1>4, SessionStutter DEF vars, ctl, buf, counts, output, Active, Lossy
<1>. QED  BY <1>1, <1>2, <1>3, <1>4 DEF Next

\* The engine implements RecordingSession: every step of an interrupt, of the
\* superloop or of a command is a step of the abstract session or none.  What is
\* put out comes from the front of what was accepted, a loss is reported by
\* dropped_buffers, and a log run ends with nothing unwritten.
THEOREM SessionImplemented ==
  ASSUME StartStates = {"IDLE"}
  PROVE  Spec => ImplementsSession
<1>1. Init => IdleStartInv /\ PipelineInOrder /\ Numbered /\ Session!Init
  <2>1. Init => Numbered  BY ConstantsAssumption DEF Init, Numbered
  <2>. QED  BY <2>1, IdleStartInit, InitOrder, SessionInit
<1>2. TypeOK /\ IdleStartInv /\ PipelineInOrder /\ Numbered /\ [Next]_vars
      => IdleStartInv' /\ PipelineInOrder' /\ Numbered'
  BY IdleStartNext, PipelineNext, NumberedNext
<1>3. TypeOK /\ BlocksFit /\ IdleStartInv /\ PipelineInOrder /\ Numbered /\ [Next]_vars
      => [Session!Next]_(Session!vars)
  BY SessionNext
<1>. QED
  BY <1>1, <1>2, <1>3, TypeCorrect, BlocksFitCorrect, PTL
  DEF Spec, ImplementsSession, Session!Spec
=============================================================================

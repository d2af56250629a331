----------------------------- MODULE HostProofs -----------------------------
(***************************************************************************)
(* Proofs about the host: of DaemonJobs, for any jobs of any kinds and     *)
(* captures of any length; and of BoardSession, for packets, headers and   *)
(* streams of any length and any number of calls.                          *)
(***************************************************************************)
EXTENDS DaemonJobs, BoardSession, SequenceTheorems, FiniteSetTheorems,
        WellFoundedInduction, TLAPS

-----------------------------------------------------------------------------
(* The jobs of the daemon (DaemonJobs).                                    *)

Raw(j)  == <<j, "raw">>
Rcvd(j) == IF got[j] = 0 THEN Absent ELSE got[j]    \* length of what was received

\* The four facts of CompleteIsRecorded.
Recorded(j) ==
  /\ disk[Meta(j)] = got[j] /\ stream # j
  /\ kind[j] # "log" => disk[Out(j)] = Rcvd(j)
  /\ kind[j] = "csv" => disk[Target(j)] = Gone

\* How far a job is says which kind it is, and whether its stream is open.
Place(j) ==
  /\ pc[j] = "none" => kind[j] = None /\ got[j] = 0
  /\ pc[j] # "none" => kind[j] # None
  /\ pc[j] = "claim" => kind[j] # "log"
  /\ pc[j] \in {"convert", "converting", "unlink"} => kind[j] = "csv"
  /\ pc[j] \in {"convert", "converting", "unlink", "meta", "complete"} => stream # j
  /\ stream = j =>
       /\ handles[j] = "open" /\ kind[j] # "log"
       /\ pc[j] \in {"wait", "drain", "fail", "event", "over"}

\* What the files of a job hold.
OnDisk(j) ==
  /\ pc[j] = "none" => disk[Raw(j)] = Absent /\ disk[Out(j)] = Absent
  /\ kind[j] = "bin" => disk[Out(j)] = Rcvd(j)
  /\ kind[j] = "csv" =>
       \/ disk[Raw(j)] = Rcvd(j)
       \/ /\ disk[Raw(j)] = Gone /\ stream # j
          /\ pc[j] \in {"meta", "complete", "fail", "event", "over", "gone"}
  /\ kind[j] = "csv" /\ pc[j] \in {"created", "start", "claim", "wait", "drain", "convert"} =>
       disk[Out(j)] = Absent
  /\ pc[j] = "converting" => disk[Out(j)] = 0 /\ got[j] > 0
  /\ pc[j] = "unlink" => disk[Out(j)] = got[j] /\ got[j] > 0
  /\ pc[j] \in {"meta", "complete"} /\ kind[j] = "csv" =>
       disk[Raw(j)] = Gone /\ disk[Out(j)] = got[j] /\ got[j] > 0
  /\ pc[j] \notin {"complete", "event", "over", "gone"} => disk[Meta(j)] = Absent
  /\ pc[j] = "complete" => disk[Meta(j)] = got[j]

Completed(j) == row[j] = "complete" => pc[j] \in {"event", "over", "gone"} /\ Recorded(j)

\* A job whose end has been recorded, or is about to be announced.
Marked(j) == j \in stopSet \union {stopper.marked}
Ended(j) ==
  /\ j \in done => pc[j] = "over"
  /\ j \in done \/ pc[j] = "event" =>
       row[j] \in {"complete", "failed"} \/ (row[j] = "stopping" /\ Marked(j))

Own(j) == Place(j) /\ OnDisk(j) /\ Completed(j) /\ Ended(j)
IInv == JobTypeOK /\ \A j \in Jobs : Own(j)

-----------------------------------------------------------------------------

\* The parts of the type invariant.
JobPlaces == {"none", "created", "start", "claim", "wait", "drain", "convert", "converting",
           "unlink", "meta", "complete", "fail", "event", "over", "gone"}
ThreadsOK ==
  /\ row \in [Jobs -> {"none", "running", "stopping", "complete", "failed"}]
  /\ kind \in [Jobs -> Kinds \union {None}]
  /\ pc \in [Jobs -> JobPlaces]
RequestsOK ==
  /\ tracked \subseteq Jobs /\ stopSet \subseteq Jobs /\ done \subseteq Jobs
  /\ stopper \in [left : SUBSET Jobs, marked : Jobs \union {None}]
BoardVarsOK ==
  /\ connected \in BOOLEAN /\ fresh \subseteq Jobs /\ stream \in Jobs \union {None}
  /\ handles \in [Jobs -> {"none", "open", "result", "error"}]
Lengths == (0..MaxBlocks) \union {Absent, Gone}
FilesOK == got \in [Jobs -> 0..MaxBlocks] /\ disk \in [Files -> Lengths]

LEMMA Types == JobTypeOK <=> ThreadsOK /\ RequestsOK /\ BoardVarsOK /\ FilesOK
  BY Zenon DEF JobTypeOK, ThreadsOK, RequestsOK, BoardVarsOK, FilesOK, JobPlaces, Lengths

LEMMA TypesNext == JobTypeOK' <=> ThreadsOK' /\ RequestsOK' /\ BoardVarsOK' /\ FilesOK'
  BY Zenon DEF JobTypeOK, ThreadsOK, RequestsOK, BoardVarsOK, FilesOK, JobPlaces, Lengths

LEMMA KindsOfJobs == Kinds = {"bin", "csv", "log"}
  BY DEF Kinds, MayBe

LEMMA FilesOfJobs ==
  ASSUME NEW j \in Jobs
  PROVE  /\ Raw(j) \in Files /\ Out(j) \in Files /\ Meta(j) \in Files /\ Target(j) \in Files
         /\ Target(j) = IF kind[j] = "csv" THEN Raw(j) ELSE Out(j)
         /\ Raw(j) # Out(j) /\ Raw(j) # Meta(j) /\ Out(j) # Meta(j)
         /\ \A k \in Jobs : k # j =>
              \A f \in {Raw(k), Out(k), Meta(k)} : f \notin {Raw(j), Out(j), Meta(j)}
  BY DEF Raw, Out, Meta, Target, Files

LEMMA Steps ==
  ASSUME JobNext
  PROVE  \/ \E j \in Jobs, k \in Kinds : CreateJob(j, k)
         \/ \E j \in Jobs :
              \/ TrackJob(j) \/ MarkStopping(j)
              \/ StartStream(j) \/ ClaimStream(j) \/ StartLog(j) \/ Stopping(j)
              \/ DrainStream(j) \/ StopLog(j)
              \/ BeginConversion(j) \/ EndConversion(j) \/ UnlinkRaw(j)
              \/ WriteMetadata(j) \/ RecordComplete(j) \/ RecordFailed(j) \/ SetDone(j)
              \/ ReceivePayload(j)
         \/ \E j \in Jobs, how \in {"result", "error"} : FinishStream(j, how)
         \/ RequestStop \/ SetStopEvent \/ Connect \/ LoseSession
  BY DEF JobNext, JobStep, StopHeard

LEMMA InitIInv == JobInit => IInv
<1>. SUFFICES ASSUME JobInit  PROVE IInv
  OBVIOUS
<1>. USE DaemonJobsAssumption DEF JobInit
<1>1. ThreadsOK /\ RequestsOK /\ BoardVarsOK /\ FilesOK
  <2>1. ThreadsOK
    BY DEF ThreadsOK, JobPlaces
  <2>2. RequestsOK
    BY DEF RequestsOK, NoStop
  <2>3. BoardVarsOK
    BY DEF BoardVarsOK
  <2>4. FilesOK
    BY DEF FilesOK, Lengths
  <2>. QED  BY <2>1, <2>2, <2>3, <2>4
<1>2. ASSUME NEW j \in Jobs  PROVE Own(j)
  <2>1. None # j /\ j \notin done
    BY DEF Jobs
  <2>2. Place(j) /\ Completed(j) /\ Ended(j)
    BY <2>1 DEF Place, Completed, Ended
  <2>3. OnDisk(j)
    <3>1. disk[Raw(j)] = Absent /\ disk[Out(j)] = Absent /\ disk[Meta(j)] = Absent
      BY FilesOfJobs
    <3>. QED  BY <3>1, KindsOfJobs DEF OnDisk
  <2>. QED  BY <2>2, <2>3 DEF Own
<1>. QED  BY <1>1, <1>2, Types DEF IInv

-----------------------------------------------------------------------------
(* The steps.                                                              *)

LEMMA GoesTo ==
  ASSUME ThreadsOK, NEW j \in Jobs, NEW from, NEW to \in JobPlaces, Goes(j, from, to)
  PROVE  /\ pc[j] = from /\ pc'[j] = to /\ pc' \in [Jobs -> JobPlaces]
         /\ \A k \in Jobs \ {j} : pc'[k] = pc[k]
  BY DEF Goes, ThreadsOK

LEMMA RecordsIt ==
  ASSUME ThreadsOK, NEW j \in Jobs, NEW s, Records(j, s)
  PROVE  row'[j] = s /\ \A k \in Jobs \ {j} : row'[k] = row[k]
  BY DEF Records, ThreadsOK

\* A step leaves job k where it is, alone but for a stop request that marks it.
Same(k) ==
  /\ pc'[k] = pc[k] /\ kind'[k] = kind[k] /\ got'[k] = got[k]
  /\ disk'[Raw(k)] = disk[Raw(k)] /\ disk'[Out(k)] = disk[Out(k)]
  /\ disk'[Meta(k)] = disk[Meta(k)]
  /\ stream' = k => stream = k /\ handles'[k] = handles[k]
  /\ k \in done' => k \in done
  /\ \/ row'[k] = row[k] /\ (k \in done \/ pc[k] = "event" => (Marked(k) => Marked(k)'))
     \/ row'[k] = "stopping" /\ Marked(k)'

LEMMA SameIsKept ==
  ASSUME NEW k \in Jobs, Own(k), Same(k)
  PROVE  Own(k)'
<1>. USE DEF Own, Same
<1>1. Place(k)'
  BY DEF Place
<1>2. /\ Rcvd(k)' = Rcvd(k) /\ Target(k)' = Target(k)
      /\ disk'[Target(k)] = disk[Target(k)]
  BY FilesOfJobs DEF Rcvd, Target, Raw, Out
<1>3. OnDisk(k)'
  BY <1>2 DEF OnDisk, Raw, Out, Meta
<1>4. Completed(k)'
  BY <1>2 DEF Completed, Recorded, Out, Meta
<1>5. Ended(k)'
  BY DEF Ended
<1>. QED  BY <1>1, <1>3, <1>4, <1>5

\* Nothing of what the jobs are about changes.
LEMMA Unmoved ==
  ASSUME NEW k \in Jobs, Own(k), UNCHANGED <<threads, got, disk, done>>,
         stream' = k => stream = k /\ handles'[k] = handles[k],
         Marked(k) => Marked(k)'
  PROVE  Own(k)'
  BY SameIsKept DEF Same, threads

LEMMA TypesStep ==
  ASSUME JobTypeOK, [JobSteps]_jobVars
  PROVE  JobTypeOK'
<1>. USE DaemonJobsAssumption, KindsOfJobs
<1>0. ThreadsOK /\ RequestsOK /\ BoardVarsOK /\ FilesOK
  BY Types
<1>1. ThreadsOK'
  <2>1. CASE \E j \in Jobs, k \in Kinds : CreateJob(j, k)
    BY <1>0, <2>1 DEF ThreadsOK, CreateJob, Goes, Records, JobPlaces
  <2>2. CASE UNCHANGED threads
    BY <1>0, <2>2 DEF ThreadsOK, threads
  <2>3. CASE Restart
    BY <1>0, <2>3 DEF ThreadsOK, Restart, JobPlaces
  <2>4. ASSUME NEW j \in Jobs,
               TrackJob(j) \/ StartStream(j) \/ ClaimStream(j) \/ StartLog(j)
               \/ DrainStream(j) \/ StopLog(j) \/ BeginConversion(j) \/ EndConversion(j)
               \/ UnlinkRaw(j) \/ WriteMetadata(j) \/ SetDone(j)
        PROVE  ThreadsOK'
    <3>1. UNCHANGED <<row, kind>> /\ \E from, to \in JobPlaces : Goes(j, from, to)
      BY <2>4 DEF TrackJob, StartStream, ClaimStream, StartLog, DrainStream, StopLog,
                  BeginConversion, EndConversion, UnlinkRaw, WriteMetadata, SetDone, JobPlaces
    <3>. QED  BY <1>0, <3>1 DEF ThreadsOK, Goes
  <2>5. ASSUME NEW j \in Jobs, Stopping(j) \/ RecordComplete(j) \/ RecordFailed(j) \/ MarkStopping(j)
        PROVE  ThreadsOK'
    BY <1>0, <2>5 DEF ThreadsOK, Stopping, RecordComplete, RecordFailed, MarkStopping,
                      Goes, Records, JobPlaces
  <2>6. ASSUME NEW j \in Jobs, ReceivePayload(j) \/ \E how \in {"result", "error"} : FinishStream(j, how)
        PROVE  UNCHANGED threads
    BY <2>6 DEF ReceivePayload, FinishStream
  <2>7. RequestStop \/ SetStopEvent \/ Connect \/ LoseSession \/ UNCHANGED jobVars => UNCHANGED threads
    BY DEF RequestStop, SetStopEvent, Connect, LoseSession, jobVars
  <2>. QED  BY <2>1, <2>2, <2>3, <2>4, <2>5, <2>6, <2>7, Steps DEF JobSteps
<1>2. RequestsOK'
  <2>1. CASE UNCHANGED requests
    BY <1>0, <2>1 DEF RequestsOK, requests
  <2>2. CASE Restart
    BY <1>0, <2>2 DEF RequestsOK, Restart, NoStop
  <2>3. ASSUME NEW j \in Jobs, TrackJob(j) \/ MarkStopping(j) \/ SetDone(j)
        PROVE  RequestsOK'
    BY <1>0, <2>3 DEF RequestsOK, TrackJob, MarkStopping, SetDone
  <2>4. CASE RequestStop
    <3>1. tracked' \subseteq Jobs /\ UNCHANGED <<stopSet, done>>
      BY <1>0, <2>4 DEF RequestsOK, RequestStop
    <3>2. PICK chosen \in {tracked'} \union {{j} : j \in tracked'} :
               stopper' = [NoStop EXCEPT !.left = chosen]
      BY <2>4 DEF RequestStop
    <3>3. chosen \subseteq Jobs
      BY <3>1, <3>2
    <3>4. stopper' = [left |-> chosen, marked |-> None]
      BY <3>2 DEF NoStop
    <3>5. stopper' \in [left : SUBSET Jobs, marked : Jobs \union {None}]
      BY <3>3, <3>4
    <3>. QED  BY <1>0, <3>1, <3>5 DEF RequestsOK
  <2>5. CASE SetStopEvent
    BY <1>0, <2>5 DEF RequestsOK, SetStopEvent
  <2>6. ASSUME NEW j \in Jobs,
               \/ \E k \in Kinds : CreateJob(j, k)
               \/ StartStream(j) \/ ClaimStream(j) \/ StartLog(j) \/ Stopping(j)
               \/ DrainStream(j) \/ StopLog(j) \/ BeginConversion(j) \/ EndConversion(j)
               \/ UnlinkRaw(j) \/ WriteMetadata(j) \/ RecordComplete(j) \/ RecordFailed(j)
               \/ ReceivePayload(j) \/ \E how \in {"result", "error"} : FinishStream(j, how)
        PROVE  UNCHANGED requests
    BY <2>6 DEF CreateJob, StartStream, ClaimStream, StartLog, Stopping, DrainStream, StopLog,
         BeginConversion, EndConversion, UnlinkRaw, WriteMetadata, RecordComplete, RecordFailed,
         ReceivePayload, FinishStream
  <2>7. Connect \/ LoseSession \/ UNCHANGED jobVars => UNCHANGED requests
    BY DEF Connect, LoseSession, jobVars
  <2>. QED  BY <2>1, <2>2, <2>3, <2>4, <2>5, <2>6, <2>7, Steps DEF JobSteps
<1>3. BoardVarsOK'
  <2>1. CASE UNCHANGED <<boardVars, handles>>
    BY <1>0, <2>1 DEF BoardVarsOK, boardVars
  <2>2. CASE Restart
    BY <1>0, <2>2 DEF BoardVarsOK, Restart
  <2>3. ASSUME NEW j \in Jobs,
               StartStream(j) \/ ClaimStream(j) \/ \E how \in {"result", "error"} : FinishStream(j, how)
        PROVE  BoardVarsOK'
    BY <1>0, <2>3 DEF BoardVarsOK, StartStream, ClaimStream, FinishStream
  <2>4. CASE Connect \/ LoseSession
    BY <1>0, <2>4 DEF BoardVarsOK, Connect, LoseSession
  <2>5. ASSUME NEW j \in Jobs,
               \/ \E k \in Kinds : CreateJob(j, k)
               \/ TrackJob(j) \/ MarkStopping(j) \/ StartLog(j) \/ Stopping(j)
               \/ DrainStream(j) \/ StopLog(j) \/ BeginConversion(j) \/ EndConversion(j)
               \/ UnlinkRaw(j) \/ WriteMetadata(j) \/ RecordComplete(j) \/ RecordFailed(j)
               \/ SetDone(j) \/ ReceivePayload(j)
        PROVE  UNCHANGED <<boardVars, handles>>
    BY <2>5 DEF CreateJob, TrackJob, MarkStopping, StartLog, Stopping, DrainStream, StopLog,
         BeginConversion, EndConversion, UnlinkRaw, WriteMetadata, RecordComplete, RecordFailed,
         SetDone, ReceivePayload
  <2>6. RequestStop \/ SetStopEvent \/ UNCHANGED jobVars => UNCHANGED <<boardVars, handles>>
    BY DEF RequestStop, SetStopEvent, jobVars
  <2>. QED  BY <2>1, <2>2, <2>3, <2>4, <2>5, <2>6, Steps DEF JobSteps
<1>4. FilesOK'
  <2>1. CASE UNCHANGED <<got, disk>>
    BY <1>0, <2>1 DEF FilesOK
  <2>2. ASSUME NEW j \in Jobs, ReceivePayload(j)
        PROVE  FilesOK'
    <3>1. got[j] + 1 \in 0..MaxBlocks /\ got[j] + 1 \in Lengths
      BY <1>0, <2>2 DEF FilesOK, ReceivePayload, Lengths
    <3>. QED  BY <1>0, <2>2, <3>1 DEF FilesOK, ReceivePayload
  <2>3. ASSUME NEW j \in Jobs, BeginConversion(j) \/ EndConversion(j) \/ UnlinkRaw(j)
                               \/ WriteMetadata(j)
        PROVE  FilesOK'
    <3>1. UNCHANGED got /\ \E f \in Files, n \in Lengths : disk' = [disk EXCEPT ![f] = n] \/ disk' = disk
      <4>1. {0, Gone, got[j], disk[Target(j)]} \subseteq Lengths
        BY <1>0, FilesOfJobs DEF FilesOK, Lengths, Gone
      <4>2. CASE BeginConversion(j)
        BY <4>1, <4>2, FilesOfJobs DEF BeginConversion
      <4>3. CASE EndConversion(j)
        BY <4>1, <4>3, FilesOfJobs DEF EndConversion
      <4>4. CASE UnlinkRaw(j)
        BY <4>1, <4>4, FilesOfJobs DEF UnlinkRaw
      <4>5. CASE WriteMetadata(j)
        BY <4>1, <4>5, FilesOfJobs DEF WriteMetadata
      <4>. QED  BY <2>3, <4>2, <4>3, <4>4, <4>5
    <3>. QED  BY <1>0, <3>1 DEF FilesOK
  <2>4. ASSUME NEW j \in Jobs,
               \/ \E k \in Kinds : CreateJob(j, k)
               \/ TrackJob(j) \/ MarkStopping(j) \/ StartStream(j) \/ ClaimStream(j)
               \/ StartLog(j) \/ Stopping(j) \/ DrainStream(j) \/ StopLog(j)
               \/ RecordComplete(j) \/ RecordFailed(j) \/ SetDone(j)
               \/ \E how \in {"result", "error"} : FinishStream(j, how)
        PROVE  UNCHANGED <<got, disk>>
    BY <2>4 DEF CreateJob, TrackJob, MarkStopping, StartStream, ClaimStream, StartLog, Stopping,
         DrainStream, StopLog, RecordComplete, RecordFailed, SetDone, FinishStream
  <2>5. RequestStop \/ SetStopEvent \/ Connect \/ LoseSession \/ Restart \/ UNCHANGED jobVars
          => UNCHANGED <<got, disk>>
    BY DEF RequestStop, SetStopEvent, Connect, LoseSession, Restart, jobVars
  <2>. QED  BY <2>1, <2>2, <2>3, <2>4, <2>5, Steps DEF JobSteps
<1>. QED  BY <1>1, <1>2, <1>3, <1>4, TypesNext

\* What a step of the thread of one job is to the other jobs.
LEMMA OtherJobs ==
  ASSUME IInv, NEW j \in Jobs, NEW k \in Jobs \ {j},
         \/ \E i \in Kinds : CreateJob(j, i)
         \/ TrackJob(j) \/ StartStream(j) \/ ClaimStream(j) \/ StartLog(j) \/ Stopping(j)
         \/ DrainStream(j) \/ StopLog(j) \/ BeginConversion(j) \/ EndConversion(j)
         \/ UnlinkRaw(j) \/ WriteMetadata(j) \/ RecordComplete(j) \/ RecordFailed(j)
         \/ SetDone(j) \/ ReceivePayload(j)
         \/ \E how \in {"result", "error"} : FinishStream(j, how)
  PROVE  Own(k)'
<1>0. ThreadsOK /\ RequestsOK /\ BoardVarsOK /\ FilesOK /\ Own(k)
  BY Types DEF IInv
<1>1. pc'[k] = pc[k] /\ row'[k] = row[k] /\ kind'[k] = kind[k]
  <2>1. pc' = pc \/ \E from, to : Goes(j, from, to)
    BY DEF CreateJob, TrackJob, StartStream, ClaimStream, StartLog, Stopping, DrainStream,
         StopLog, BeginConversion, EndConversion, UnlinkRaw, WriteMetadata, RecordComplete,
         RecordFailed, SetDone, ReceivePayload, FinishStream, threads
  <2>2. row' = row \/ \E s : Records(j, s)
    BY DEF CreateJob, TrackJob, StartStream, ClaimStream, StartLog, Stopping, DrainStream,
         StopLog, BeginConversion, EndConversion, UnlinkRaw, WriteMetadata, RecordComplete,
         RecordFailed, SetDone, ReceivePayload, FinishStream, threads
  <2>3. kind' = kind \/ \E i : kind' = [kind EXCEPT ![j] = i]
    BY DEF CreateJob, TrackJob, StartStream, ClaimStream, StartLog, Stopping, DrainStream,
         StopLog, BeginConversion, EndConversion, UnlinkRaw, WriteMetadata, RecordComplete,
         RecordFailed, SetDone, ReceivePayload, FinishStream, threads
  <2>. QED  BY <1>0, <2>1, <2>2, <2>3 DEF Goes, Records, ThreadsOK
<1>2. /\ got'[k] = got[k] /\ disk'[Raw(k)] = disk[Raw(k)]
      /\ disk'[Out(k)] = disk[Out(k)] /\ disk'[Meta(k)] = disk[Meta(k)]
  <2>1. got' = got \/ \E n : got' = [got EXCEPT ![j] = n]
    BY DEF CreateJob, TrackJob, StartStream, ClaimStream, StartLog, Stopping, DrainStream,
         StopLog, BeginConversion, EndConversion, UnlinkRaw, WriteMetadata, RecordComplete,
         RecordFailed, SetDone, ReceivePayload, FinishStream
  <2>2. disk' = disk \/ \E f \in {Raw(j), Out(j), Meta(j)} : \E n : disk' = [disk EXCEPT ![f] = n]
    BY FilesOfJobs DEF CreateJob, TrackJob, StartStream, ClaimStream, StartLog, Stopping, DrainStream,
         StopLog, BeginConversion, EndConversion, UnlinkRaw, WriteMetadata, RecordComplete,
         RecordFailed, SetDone, ReceivePayload, FinishStream
  <2>. QED  BY <1>0, <2>1, <2>2, FilesOfJobs DEF FilesOK
<1>3. UNCHANGED <<stopSet, stopper>> /\ (k \in done' => k \in done)
  BY DEF CreateJob, TrackJob, StartStream, ClaimStream, StartLog, Stopping, DrainStream,
         StopLog, BeginConversion, EndConversion, UnlinkRaw, WriteMetadata, RecordComplete,
         RecordFailed, SetDone, ReceivePayload, FinishStream, requests
<1>4. stream' = k => stream = k /\ handles'[k] = handles[k]
  <2>1. stream' \in {stream, j, None} /\ k # None
    BY DaemonJobsAssumption DEF CreateJob, TrackJob, StartStream, ClaimStream, StartLog, Stopping, DrainStream,
         StopLog, BeginConversion, EndConversion, UnlinkRaw, WriteMetadata, RecordComplete,
         RecordFailed, SetDone, ReceivePayload, FinishStream, boardVars
  <2>2. handles' = handles \/ \E h : handles' = [handles EXCEPT ![j] = h]
    BY DEF CreateJob, TrackJob, StartStream, ClaimStream, StartLog, Stopping, DrainStream,
         StopLog, BeginConversion, EndConversion, UnlinkRaw, WriteMetadata, RecordComplete,
         RecordFailed, SetDone, ReceivePayload, FinishStream
  <2>. QED  BY <1>0, <2>1, <2>2 DEF BoardVarsOK
<1>5. Same(k)
  BY <1>1, <1>2, <1>3, <1>4 DEF Same, Marked
<1>. QED  BY <1>0, <1>5, SameIsKept

\* The steps of the thread of a job that leave the files alone.
LEMMA OwnRequest ==
  ASSUME IInv, NEW j \in Jobs,
         \/ \E i \in Kinds : CreateJob(j, i)
         \/ TrackJob(j) \/ StartStream(j) \/ ClaimStream(j) \/ StartLog(j) \/ Stopping(j)
         \/ DrainStream(j) \/ StopLog(j) \/ RecordComplete(j) \/ RecordFailed(j)
         \/ SetDone(j)
  PROVE  Own(j)'
<1>0. /\ ThreadsOK /\ RequestsOK /\ BoardVarsOK /\ FilesOK
      /\ Place(j) /\ OnDisk(j) /\ Completed(j) /\ Ended(j)
  BY Types DEF IInv, Own
<1>a. j # None /\ None \notin Kinds
  BY DaemonJobsAssumption
<1>. USE <1>0, <1>a, KindsOfJobs, FilesOfJobs
<1>1. CASE \E i \in Kinds : CreateJob(j, i)
  <2>1. PICK i \in Kinds : CreateJob(j, i)
    BY <1>1
  <2>2. pc[j] = "none" /\ pc'[j] = "created" /\ row'[j] = "running" /\ kind'[j] = i
    BY <2>1, GoesTo, RecordsIt DEF CreateJob, JobPlaces, ThreadsOK
  <2>3. UNCHANGED <<stream, handles, got, disk, done>>
    BY <2>1 DEF CreateJob, boardVars, requests
  <2>4. Place(j)' /\ Completed(j)' /\ Ended(j)'
    BY <2>2, <2>3 DEF Place, Completed, Ended
  <2>5. OnDisk(j)'
    BY <2>2, <2>3 DEF OnDisk, Place, Rcvd, Raw, Out, Meta
  <2>. QED  BY <2>4, <2>5 DEF Own
<1>2. CASE TrackJob(j)
  <2>1. pc[j] = "created" /\ pc'[j] = "start"
    BY <1>2, GoesTo DEF TrackJob, JobPlaces
  <2>2. UNCHANGED row
    BY <1>2, RecordsIt DEF TrackJob, ThreadsOK
  <2>3. UNCHANGED <<kind, stream, handles, got, disk, stopSet, stopper, done>>
    BY <1>2 DEF TrackJob, boardVars, requests
  <2>4. Place(j)' /\ Completed(j)' /\ Ended(j)'
    BY <2>1, <2>2, <2>3 DEF Place, Completed, Ended, Marked, Recorded, Rcvd, Target, Out, Meta
  <2>5. OnDisk(j)'
    BY <2>1, <2>2, <2>3 DEF OnDisk, Place, Rcvd, Raw, Out, Meta
  <2>. QED  BY <2>4, <2>5 DEF Own
<1>3. CASE StartStream(j)
  <2>1. pc[j] = "start" /\ pc'[j] \in {"claim", "fail"} /\ kind[j] # "log"
    BY <1>3, GoesTo DEF StartStream, JobPlaces
  <2>2. UNCHANGED row
    BY <1>3, RecordsIt DEF StartStream, ThreadsOK
  <2>3. UNCHANGED <<kind, stream, handles, got, disk, stopSet, stopper, done>>
    BY <1>3 DEF StartStream, boardVars, requests
  <2>4. Place(j)' /\ Completed(j)' /\ Ended(j)'
    BY <2>1, <2>2, <2>3 DEF Place, Completed, Ended, Marked, Recorded, Rcvd, Target, Out, Meta
  <2>5. OnDisk(j)'
    BY <2>1, <2>2, <2>3 DEF OnDisk, Place, Rcvd, Raw, Out, Meta
  <2>. QED  BY <2>4, <2>5 DEF Own
<1>5. CASE StartLog(j)
  <2>1. pc[j] = "start" /\ pc'[j] \in {"wait", "fail"}
    BY <1>5, GoesTo DEF StartLog, JobPlaces
  <2>2. UNCHANGED row
    BY <1>5, RecordsIt DEF StartLog, ThreadsOK
  <2>3. UNCHANGED <<kind, stream, handles, got, disk, stopSet, stopper, done>>
    BY <1>5 DEF StartLog, boardVars, requests
  <2>4. Place(j)' /\ Completed(j)' /\ Ended(j)'
    BY <2>1, <2>2, <2>3 DEF Place, Completed, Ended, Marked, Recorded, Rcvd, Target, Out, Meta
  <2>5. OnDisk(j)'
    BY <2>1, <2>2, <2>3 DEF OnDisk, Place, Rcvd, Raw, Out, Meta
  <2>. QED  BY <2>4, <2>5 DEF Own
<1>6. CASE Stopping(j)
  <2>1. pc[j] = "wait" /\ pc'[j] = "drain"
    BY <1>6, GoesTo DEF Stopping, JobPlaces
  <2>2. row'[j] = "stopping"
    BY <1>6, RecordsIt DEF Stopping, ThreadsOK
  <2>3. UNCHANGED <<kind, stream, handles, got, disk, stopSet, stopper, done>>
    BY <1>6 DEF Stopping, boardVars, requests
  <2>4. Place(j)' /\ Completed(j)' /\ Ended(j)'
    BY <2>1, <2>2, <2>3 DEF Place, Completed, Ended, Marked, Recorded, Rcvd, Target, Out, Meta
  <2>5. OnDisk(j)'
    BY <2>1, <2>2, <2>3 DEF OnDisk, Place, Rcvd, Raw, Out, Meta
  <2>. QED  BY <2>4, <2>5 DEF Own
<1>8. CASE StopLog(j)
  <2>1. pc[j] = "drain" /\ pc'[j] \in {"meta", "fail"} /\ kind[j] = "log"
    BY <1>8, GoesTo DEF StopLog, JobPlaces
  <2>2. UNCHANGED row
    BY <1>8, RecordsIt DEF StopLog, ThreadsOK
  <2>3. UNCHANGED <<kind, stream, handles, got, disk, stopSet, stopper, done>>
    BY <1>8 DEF StopLog, boardVars, requests
  <2>4. Place(j)' /\ Completed(j)' /\ Ended(j)'
    BY <2>1, <2>2, <2>3 DEF Place, Completed, Ended, Marked, Recorded, Rcvd, Target, Out, Meta
  <2>5. OnDisk(j)'
    BY <2>1, <2>2, <2>3 DEF OnDisk, Place, Rcvd, Raw, Out, Meta
  <2>. QED  BY <2>4, <2>5 DEF Own
<1>9. CASE RecordComplete(j)
  <2>1. pc[j] = "complete" /\ pc'[j] = "event"
    BY <1>9, GoesTo DEF RecordComplete, JobPlaces
  <2>2. row'[j] = "complete"
    BY <1>9, RecordsIt DEF RecordComplete, ThreadsOK
  <2>3. UNCHANGED <<kind, stream, handles, got, disk, stopSet, stopper, done>>
    BY <1>9 DEF RecordComplete, boardVars, requests
  <2>4. Recorded(j)
    <3>1. kind[j] \in {"bin", "csv", "log"}
      BY <2>1 DEF Place, ThreadsOK
    <3>2. disk[Meta(j)] = got[j] /\ stream # j
      BY <2>1 DEF OnDisk, Place
    <3>3. disk[Out(j)] = Rcvd(j) \/ kind[j] = "log"
      BY <2>1, <3>1 DEF OnDisk, Rcvd
    <3>4. kind[j] = "csv" => disk[Target(j)] = Gone
      BY <2>1 DEF OnDisk, Target, Raw
    <3>. QED  BY <3>2, <3>3, <3>4 DEF Recorded
  <2>5. Recorded(j)'
    BY <2>3, <2>4 DEF Recorded, Rcvd, Target, Out, Meta
  <2>6. Place(j)' /\ Completed(j)' /\ Ended(j)'
    BY <2>1, <2>2, <2>3, <2>5 DEF Place, Completed, Ended, Marked
  <2>7. OnDisk(j)'
    BY <2>1, <2>2, <2>3 DEF OnDisk, Place, Rcvd, Raw, Out, Meta
  <2>. QED  BY <2>6, <2>7 DEF Own
<1>10. CASE RecordFailed(j)
  <2>1. pc[j] = "fail" /\ pc'[j] = "event"
    BY <1>10, GoesTo DEF RecordFailed, JobPlaces
  <2>2. row'[j] = "failed"
    BY <1>10, RecordsIt DEF RecordFailed, ThreadsOK
  <2>3. UNCHANGED <<kind, stream, handles, got, disk, stopSet, stopper, done>>
    BY <1>10 DEF RecordFailed, boardVars, requests
  <2>4. Place(j)' /\ Completed(j)' /\ Ended(j)'
    BY <2>1, <2>2, <2>3 DEF Place, Completed, Ended, Marked, Recorded, Rcvd, Target, Out, Meta
  <2>5. OnDisk(j)'
    BY <2>1, <2>2, <2>3 DEF OnDisk, Place, Rcvd, Raw, Out, Meta
  <2>. QED  BY <2>4, <2>5 DEF Own
<1>4. CASE ClaimStream(j)
  <2>1. pc[j] = "claim" /\ pc'[j] \in {"wait", "fail"}
    BY <1>4, GoesTo DEF ClaimStream, JobPlaces
  <2>2. UNCHANGED <<row, kind, got, disk, stopSet, stopper, done>> /\ handles'[j] = "open"
    BY <1>4 DEF ClaimStream, requests, BoardVarsOK
  <2>3. Place(j)' /\ Completed(j)' /\ Ended(j)'
    BY <2>1, <2>2 DEF Place, Completed, Ended, Marked
  <2>4. OnDisk(j)'
    BY <2>1, <2>2 DEF OnDisk, Place, Rcvd, Raw, Out, Meta
  <2>. QED  BY <2>3, <2>4 DEF Own
<1>7. CASE DrainStream(j)
  <2>1. /\ pc[j] = "drain" /\ kind[j] # "log"
        /\ \/ pc'[j] = "fail"
           \/ pc'[j] = (IF kind[j] = "csv" THEN "convert" ELSE "meta") /\ stream # j
    BY <1>7, GoesTo DEF DrainStream, JobPlaces, Place
  <2>2. UNCHANGED <<row, kind, stream, handles, got, disk, stopSet, stopper, done>>
    BY <1>7 DEF DrainStream, boardVars, requests
  <2>3. Place(j)' /\ Completed(j)' /\ Ended(j)'
    BY <2>1, <2>2 DEF Place, Completed, Ended, Marked
  <2>4. OnDisk(j)'
    BY <2>1, <2>2 DEF OnDisk, Place, Rcvd, Raw, Out, Meta
  <2>. QED  BY <2>3, <2>4 DEF Own
<1>11. CASE SetDone(j)
  <2>1. pc[j] = "event" /\ pc'[j] = "over"
    BY <1>11, GoesTo DEF SetDone, JobPlaces
  <2>2. UNCHANGED <<row, kind, stream, handles, got, disk, stopSet, stopper>>
    BY <1>11 DEF SetDone, boardVars
  <2>3. Recorded(j) => Recorded(j)'
    BY <2>2 DEF Recorded, Rcvd, Target, Out, Meta
  <2>4. Place(j)' /\ Completed(j)' /\ Ended(j)'
    BY <2>1, <2>2, <2>3 DEF Place, Completed, Ended, Marked
  <2>5. OnDisk(j)'
    BY <2>1, <2>2 DEF OnDisk, Place, Rcvd, Raw, Out, Meta
  <2>. QED  BY <2>4, <2>5 DEF Own
<1>. QED  BY <1>1, <1>2, <1>3, <1>4, <1>5, <1>6, <1>7, <1>8, <1>9, <1>10, <1>11

\* The steps that change the files of a job, and the end of its stream.
LEMMA OwnFiles ==
  ASSUME IInv, NEW j \in Jobs,
         \/ BeginConversion(j) \/ EndConversion(j) \/ UnlinkRaw(j) \/ WriteMetadata(j)
         \/ ReceivePayload(j) \/ \E how \in {"result", "error"} : FinishStream(j, how)
  PROVE  Own(j)'
<1>0. /\ ThreadsOK /\ RequestsOK /\ BoardVarsOK /\ FilesOK
      /\ Place(j) /\ OnDisk(j) /\ Completed(j) /\ Ended(j)
  BY Types DEF IInv, Own
<1>a. j # None /\ None \notin Kinds /\ got[j] \in Nat /\ Absent = -1 /\ Gone = -2
  BY <1>0, DaemonJobsAssumption DEF FilesOK, Absent, Gone
<1>. USE <1>0, <1>a, KindsOfJobs, FilesOfJobs
<1>1. CASE BeginConversion(j)
  <2>1. /\ pc[j] = "convert" /\ kind[j] = "csv" /\ Target(j) = Raw(j)
        /\ pc'[j] \in {"converting", "fail"}
        /\ pc'[j] = "converting" => disk[Raw(j)] # Absent
    BY <1>1, GoesTo DEF BeginConversion, JobPlaces, Place, FilesOK
  <2>2. /\ disk'[Raw(j)] = disk[Raw(j)] /\ disk'[Meta(j)] = disk[Meta(j)]
        /\ pc'[j] = "converting" => disk'[Out(j)] = 0
    BY <1>1, <2>1 DEF BeginConversion, FilesOK, Goes, ThreadsOK
  <2>3. UNCHANGED <<row, kind, got, stream, handles, stopSet, stopper, done>>
    BY <1>1 DEF BeginConversion, boardVars, requests
  <2>4. Place(j)' /\ Completed(j)' /\ Ended(j)'
    BY <2>1, <2>3 DEF Place, Completed, Ended, Marked
  <2>5. OnDisk(j)'
    BY <2>1, <2>2, <2>3 DEF OnDisk, Place, Rcvd, Raw, Out, Meta
  <2>. QED  BY <2>4, <2>5 DEF Own
<1>2. CASE EndConversion(j)
  <2>1. /\ pc[j] = "converting" /\ kind[j] = "csv" /\ Target(j) = Raw(j)
        /\ pc'[j] \in {"unlink", "fail"}
    BY <1>2, GoesTo DEF EndConversion, JobPlaces, Place, FilesOK
  <2>2. /\ disk'[Raw(j)] = disk[Raw(j)] /\ disk'[Meta(j)] = disk[Meta(j)]
        /\ pc'[j] = "unlink" => disk'[Out(j)] = disk[Raw(j)]
    BY <1>2, <2>1 DEF EndConversion, FilesOK, Goes, ThreadsOK
  <2>3. UNCHANGED <<row, kind, got, stream, handles, stopSet, stopper, done>>
    BY <1>2 DEF EndConversion, boardVars, requests
  <2>4. Place(j)' /\ Completed(j)' /\ Ended(j)'
    BY <2>1, <2>3 DEF Place, Completed, Ended, Marked
  <2>5. OnDisk(j)'
    BY <2>1, <2>2, <2>3 DEF OnDisk, Place, Rcvd, Raw, Out, Meta
  <2>. QED  BY <2>4, <2>5 DEF Own
<1>3. CASE UnlinkRaw(j)
  <2>1. /\ pc[j] = "unlink" /\ kind[j] = "csv" /\ Target(j) = Raw(j)
        /\ pc'[j] = "meta"
    BY <1>3, GoesTo DEF UnlinkRaw, JobPlaces, Place, FilesOK
  <2>2. disk'[Out(j)] = disk[Out(j)] /\ disk'[Meta(j)] = disk[Meta(j)] /\ disk'[Raw(j)] = Gone
    BY <1>3, <2>1 DEF UnlinkRaw, FilesOK, Goes, ThreadsOK
  <2>3. UNCHANGED <<row, kind, got, stream, handles, stopSet, stopper, done>>
    BY <1>3 DEF UnlinkRaw, boardVars, requests
  <2>4. Place(j)' /\ Completed(j)' /\ Ended(j)'
    BY <2>1, <2>3 DEF Place, Completed, Ended, Marked
  <2>5. OnDisk(j)'
    BY <2>1, <2>2, <2>3 DEF OnDisk, Place, Rcvd, Raw, Out, Meta
  <2>. QED  BY <2>4, <2>5 DEF Own
<1>4. CASE WriteMetadata(j)
  <2>1. pc[j] = "meta" /\ pc'[j] \in {"complete", "fail"}
    BY <1>4, GoesTo DEF WriteMetadata, JobPlaces, Place, FilesOK
  <2>2. /\ disk'[Raw(j)] = disk[Raw(j)] /\ disk'[Out(j)] = disk[Out(j)]
        /\ disk'[Meta(j)] = IF pc'[j] = "complete" THEN got[j] ELSE disk[Meta(j)]
    BY <1>4, <2>1 DEF WriteMetadata, FilesOK, Goes, ThreadsOK
  <2>3. UNCHANGED <<row, kind, got, stream, handles, stopSet, stopper, done>>
    BY <1>4 DEF WriteMetadata, boardVars, requests
  <2>4. Place(j)' /\ Completed(j)' /\ Ended(j)'
    BY <2>1, <2>3 DEF Place, Completed, Ended, Marked
  <2>5. OnDisk(j)'
    BY <2>1, <2>2, <2>3 DEF OnDisk, Place, Rcvd, Raw, Out, Meta
  <2>. QED  BY <2>4, <2>5 DEF Own
<1>5. CASE ReceivePayload(j)
  <2>1. /\ stream = j /\ UNCHANGED <<row, kind, pc, stream, handles, stopSet, stopper, done>>
        /\ got'[j] = got[j] + 1 /\ disk'[Target(j)] = got[j] + 1
        /\ \A f \in Files : f # Target(j) => disk'[f] = disk[f]
    BY <1>5 DEF ReceivePayload, threads, requests, boardVars, FilesOK
  <2>2. pc[j] \in {"wait", "drain", "fail", "event", "over"} /\ kind[j] \in {"bin", "csv"}
    BY <2>1 DEF Place, ThreadsOK
  <2>3. Place(j)' /\ Ended(j)'
    BY <2>1, <2>2 DEF Place, Ended, Marked
  <2>4. Completed(j)'
    BY <2>1 DEF Completed, Recorded
  <2>5. Rcvd(j)' = got[j] + 1 /\ got[j] + 1 # 0
    BY <2>1 DEF Rcvd
  <2>6. disk'[Meta(j)] = Absent \/ pc[j] \in {"event", "over"}
    BY <2>1, <2>2 DEF OnDisk, Target, Raw, Out, Meta
  <2>7. ASSUME kind[j] = "bin"  PROVE OnDisk(j)'
    <3>1. disk'[Out(j)] = Rcvd(j)'
      BY <2>1, <2>5, <2>7
    <3>. QED  BY <2>1, <2>2, <2>6, <2>7, <3>1 DEF OnDisk, Out, Meta
  <2>8. ASSUME kind[j] = "csv"  PROVE OnDisk(j)'
    <3>1. disk'[Raw(j)] = Rcvd(j)' /\ disk'[Out(j)] = disk[Out(j)]
      BY <2>1, <2>5, <2>8
    <3>. QED  BY <2>1, <2>2, <2>6, <2>8, <3>1 DEF OnDisk, Raw, Out, Meta
  <2>9. OnDisk(j)'
    BY <2>2, <2>7, <2>8
  <2>. QED  BY <2>3, <2>4, <2>9 DEF Own
<1>6. CASE \E how \in {"result", "error"} : FinishStream(j, how)
  <2>1. stream = j /\ stream' = None /\ UNCHANGED <<row, kind, pc, got, disk, stopSet, stopper, done>>
    BY <1>6 DEF FinishStream, threads, requests
  <2>2. Place(j)' /\ Completed(j)' /\ Ended(j)'
    BY <2>1 DEF Place, Completed, Recorded, Ended, Marked
  <2>3. OnDisk(j)'
    BY <2>1 DEF OnDisk, Rcvd, Raw, Out, Meta
  <2>. QED  BY <2>2, <2>3 DEF Own
<1>. QED  BY <1>1, <1>2, <1>3, <1>4, <1>5, <1>6

\* The steps of no job's thread.
LEMMA OthersKeep ==
  ASSUME IInv, NEW k \in Jobs,
         \/ \E j \in Jobs : MarkStopping(j)
         \/ RequestStop \/ SetStopEvent \/ Connect \/ LoseSession \/ UNCHANGED jobVars
  PROVE  Own(k)'
<1>0. ThreadsOK /\ RequestsOK /\ BoardVarsOK /\ FilesOK /\ Own(k) /\ k # None
  BY Types, DaemonJobsAssumption DEF IInv
<1>. USE <1>0
<1>1. ASSUME NEW j \in Jobs, MarkStopping(j)  PROVE Own(k)'
  <2>1. /\ UNCHANGED <<kind, pc, stopSet, done, stream, handles, got, disk>>
        /\ stopper'.marked = j /\ stopper.marked = None
    BY <1>1 DEF MarkStopping, boardVars, RequestsOK
  <2>2. IF k = j THEN row'[k] = "stopping" ELSE row'[k] = row[k]
    BY <1>1, RecordsIt DEF MarkStopping
  <2>3. Same(k)
    BY <2>1, <2>2 DEF Same, Marked
  <2>. QED  BY <2>3, SameIsKept
<1>2. CASE RequestStop
  <2>1. stopper'.marked = stopper.marked
    BY <1>2 DEF RequestStop, NoStop, RequestsOK
  <2>. QED  BY <1>2, <2>1, Unmoved DEF RequestStop, Marked, boardVars
<1>3. CASE SetStopEvent
  BY <1>3, Unmoved DEF SetStopEvent, Marked, boardVars, RequestsOK
<1>4. CASE Connect
  BY <1>4, Unmoved DEF Connect, Marked, requests
<1>5. CASE LoseSession
  BY <1>5, Unmoved DEF LoseSession, Marked, requests
<1>6. CASE UNCHANGED jobVars
  BY <1>6, Unmoved DEF jobVars, requests, boardVars, Marked
<1>. QED  BY <1>1, <1>2, <1>3, <1>4, <1>5, <1>6

LEMMA RestartKeeps ==
  ASSUME IInv, Restart, NEW j \in Jobs
  PROVE  Own(j)'
<1>0. /\ ThreadsOK /\ FilesOK
      /\ Place(j) /\ OnDisk(j) /\ Completed(j) /\ Ended(j)
  BY Types DEF IInv, Own
<1>1. /\ pc'[j] = (IF pc[j] \in {"none", "over"} THEN pc[j] ELSE "gone")
      /\ UNCHANGED <<row, kind, got, disk>> /\ done' = {} /\ stream' = None /\ j # None
  BY DaemonJobsAssumption DEF Restart
<1>2. Place(j)' /\ Ended(j)'
  BY <1>0, <1>1 DEF Place, Ended
<1>3. Completed(j)'
  BY <1>0, <1>1 DEF Completed, Recorded, Rcvd, Target, Out, Meta
<1>4. OnDisk(j)'
  BY <1>0, <1>1 DEF OnDisk, Rcvd, Raw, Out, Meta
<1>. QED  BY <1>2, <1>3, <1>4 DEF Own

LEMMA Invariance == JobSpec => []IInv
<1>1. IInv /\ [JobSteps]_jobVars => IInv'
  <2>1. SUFFICES ASSUME IInv, [JobSteps]_jobVars  PROVE IInv'
    OBVIOUS
  <2>2. JobTypeOK'
    BY <2>1, TypesStep DEF IInv
  <2>3. ASSUME NEW k \in Jobs  PROVE Own(k)'
    <3>1. CASE Restart \/ UNCHANGED jobVars
      BY <2>1, <3>1, RestartKeeps, OthersKeep
    <3>2. ASSUME NEW j \in Jobs,
                 \/ \E i \in Kinds : CreateJob(j, i)
                 \/ TrackJob(j) \/ StartStream(j) \/ ClaimStream(j) \/ StartLog(j)
                 \/ Stopping(j) \/ DrainStream(j) \/ StopLog(j) \/ RecordComplete(j)
                 \/ RecordFailed(j) \/ SetDone(j)
          PROVE  Own(k)'
      BY <2>1, <3>2, OwnRequest, OtherJobs, Zenon
    <3>3. ASSUME NEW j \in Jobs,
                 \/ BeginConversion(j) \/ EndConversion(j) \/ UnlinkRaw(j) \/ WriteMetadata(j)
                 \/ ReceivePayload(j) \/ \E how \in {"result", "error"} : FinishStream(j, how)
          PROVE  Own(k)'
      BY <2>1, <3>3, OwnFiles, OtherJobs, Zenon
    <3>4. ASSUME JobNext  PROVE Own(k)'
      BY <2>1, <3>2, <3>3, <3>4, OthersKeep, Steps
    <3>. QED  BY <2>1, <3>1, <3>4 DEF JobSteps
  <2>. QED  BY <2>2, <2>3 DEF IInv
<1>. QED  BY <1>1, InitIInv, PTL DEF JobSpec

-----------------------------------------------------------------------------
(* The theorems.                                                           *)

\* Every variable stays in its type, whatever jobs, requests, disconnections and
\* restarts of the daemon there are.
THEOREM JobTypesOK == JobSpec => []JobTypeOK
BY Invariance, PTL DEF IInv

\* The metadata of a completed job says what its capture holds, and no thread adds to
\* the capture after that (jobs.py 146-184, session.py 533-559).
THEOREM CompletedIsRecorded == JobSpec => []CompleteIsRecorded
<1>1. IInv => CompleteIsRecorded
  <2>1. SUFFICES ASSUME IInv  PROVE CompleteIsRecorded
    OBVIOUS
  <2>2. ASSUME NEW j \in Jobs  PROVE Completed(j)
    BY <2>1 DEF IInv, Own
  <2>. QED  BY <2>2 DEF CompleteIsRecorded, Completed, Recorded, Rcvd
<1>. QED  BY <1>1, Invariance, PTL

\* The row of a job that has announced its end says how it ended, unless a stop
\* request marked it stopping in the meantime (jobs.py 180-184, 538-553).
THEOREM EndedAreRecorded == JobSpec => []EndedIsRecorded
<1>1. IInv => EndedIsRecorded
  <2>1. SUFFICES ASSUME IInv  PROVE EndedIsRecorded
    OBVIOUS
  <2>2. ASSUME NEW j \in Jobs  PROVE Ended(j)
    BY <2>1 DEF IInv, Own
  <2>3. done \subseteq Jobs
    BY <2>1 DEF IInv, JobTypeOK
  <2>. QED  BY <2>2, <2>3 DEF EndedIsRecorded, Ended, Marked
<1>. QED  BY <1>1, Invariance, PTL

\* No step shortens or removes a file of a capture, but the one that removes the raw
\* file of a conversion that is whole (jobs.py 149-151).
THEOREM CapturesGrow == JobSpec => CapturesOnlyGrow
<1>. DEFINE Grows(f) ==
       \/ disk'[f] = disk[f]
       \/ Gone < disk[f] /\ disk[f] < disk'[f]
       \/ f[2] = "raw" /\ disk'[f] = Gone /\ disk[Out(f[1])] = disk[f]
<1>1. IInv /\ [JobSteps]_jobVars => [\A f \in Files : Grows(f)]_jobVars
  <2>1. SUFFICES ASSUME IInv, [JobSteps]_jobVars, NEW f \in Files, disk' # disk
                 PROVE  Grows(f)
    BY DEF jobVars
  <2>2. PICK j \in Jobs : \/ BeginConversion(j) \/ EndConversion(j) \/ UnlinkRaw(j)
                          \/ WriteMetadata(j) \/ ReceivePayload(j)
    BY <2>1, Steps DEF JobSteps, CreateJob, TrackJob, StartStream, ClaimStream, StartLog,
       Stopping, DrainStream, StopLog, RecordComplete, RecordFailed, SetDone, FinishStream,
       RequestStop, MarkStopping, SetStopEvent, Connect, LoseSession, Restart, jobVars
  <2>3. /\ ThreadsOK /\ FilesOK /\ Place(j) /\ OnDisk(j)
        /\ got[j] \in Nat /\ Absent = -1 /\ Gone = -2
    BY <2>1, Types, DaemonJobsAssumption DEF IInv, Own, FilesOK, Absent, Gone
  <2>4. Rcvd(j) \in Int /\ Rcvd(j) >= Absent /\ Rcvd(j) < got[j] + 1 /\ (got[j] > 0 => Rcvd(j) = got[j])
    BY <2>3 DEF Rcvd
  <2>5. /\ pc[j] \in {"convert", "converting", "unlink"} => kind[j] = "csv"
        /\ kind[j] = "csv" => Target(j) = Raw(j)
    BY <2>3, FilesOfJobs DEF Place
  <2>. USE <2>3, <2>4, <2>5, FilesOfJobs
  <2>6. CASE BeginConversion(j)
    <3>1. pc[j] = "convert" /\ disk' = [disk EXCEPT ![Out(j)] = 0]
      BY <2>1, <2>6 DEF BeginConversion, Goes
    <3>. QED  BY <2>1, <3>1 DEF OnDisk, FilesOK
  <2>7. CASE EndConversion(j)
    <3>1. pc[j] = "converting" /\ disk' = [disk EXCEPT ![Out(j)] = disk[Raw(j)]]
      BY <2>1, <2>7 DEF EndConversion, Goes
    <3>. QED  BY <2>1, <3>1 DEF OnDisk, FilesOK
  <2>8. CASE UnlinkRaw(j)
    <3>1. pc[j] = "unlink" /\ disk' = [disk EXCEPT ![Raw(j)] = Gone]
      BY <2>8 DEF UnlinkRaw, Goes
    <3>2. disk'[f] = disk[f] \/ (f = Raw(j) /\ disk'[f] = Gone)
      BY <2>1, <3>1 DEF FilesOK
    <3>3. f = Raw(j) => f[1] = j /\ f[2] = "raw"
      BY DEF Raw
    <3>. QED  BY <3>1, <3>2, <3>3 DEF OnDisk
  <2>9. CASE WriteMetadata(j)
    <3>1. pc[j] = "meta" /\ disk' = [disk EXCEPT ![Meta(j)] = got[j]]
      BY <2>1, <2>9 DEF WriteMetadata, Goes
    <3>. QED  BY <2>1, <3>1 DEF OnDisk, FilesOK
  <2>10. CASE ReceivePayload(j)
    <3>1. stream = j /\ disk' = [disk EXCEPT ![Target(j)] = got[j] + 1]
      BY <2>10 DEF ReceivePayload
    <3>2. disk[Target(j)] = Rcvd(j)
      BY <3>1, KindsOfJobs DEF Place, OnDisk, ThreadsOK
    <3>. QED  BY <2>1, <3>1, <3>2 DEF FilesOK
  <2>. QED  BY <2>2, <2>6, <2>7, <2>8, <2>9, <2>10
<1>. QED  BY <1>1, Invariance, PTL DEF JobSpec, CapturesOnlyGrow

-----------------------------------------------------------------------------
(* Units and what is made of them.                                         *)

LEMMA Constants ==
  /\ PacketLen \in Nat /\ PacketLen > 0 /\ HeaderLen \in Nat /\ HeaderLen > 0
  /\ MaxTurns \in Nat /\ MaxChunks \in Nat
  /\ \A n \in Totals : n \in Nat /\ n > 0
BY BoardSessionAssumption

LEMMA UnitType ==
  ASSUME NEW u \in Units
  PROVE  /\ u[1] \in Commands \union {Start, Payload}
         /\ u[1] = Start => u[2] \in Totals \union {0} /\ u[3] \in 1..HeaderLen
         /\ u[1] \in Commands => u[2] = 0 /\ u[3] \in 1..PacketLen
         /\ u = <<u[1], u[2], u[3]>>
BY DEF Units, Commands, Start, Payload

LEMMA PacketType ==
  ASSUME NEW c \in Commands
  PROVE  /\ Packet(c) \in Seq(Units) /\ Len(Packet(c)) = PacketLen
         /\ \A k \in 1..PacketLen : Packet(c)[k] = <<c, 0, k>>
<1>1. \A k \in 1..PacketLen : <<c, 0, k>> \in Units  BY DEF Units
<1>. QED  BY <1>1, Constants DEF Packet

LEMMA HeaderType ==
  ASSUME NEW n \in Totals \union {0}
  PROVE  /\ Header(n) \in Seq(Units) /\ Len(Header(n)) = HeaderLen
         /\ \A k \in 1..HeaderLen : Header(n)[k] = <<Start, n, k>>
<1>1. \A k \in 1..HeaderLen : <<Start, n, k>> \in Units  BY DEF Units
<1>. QED  BY <1>1, Constants DEF Header

LEMMA ChunkType ==
  ASSUME NEW s \in 1..MaxTurns, NEW k \in 1..MaxChunks
  PROVE  Chunk(s, k) \in Units
BY DEF Units, Chunk

\* A set of numbers that is not empty has a least one.
LEMMA LeastNumber ==
  ASSUME NEW T \in SUBSET Nat, T # {}
  PROVE  \E m \in T : \A k \in T : m <= k
<1>. DEFINE R == OpToRel(<, Nat)
<1>1. IsWellFoundedOn(R, Nat)  BY NatLessThanWellFounded
<1>2. \A x, y \in Nat : x < y => <<x, y>> \in R  BY DEF OpToRel
<1>. HIDE DEF R
<1>3. PICK m \in T : \A k \in T : <<k, m>> \notin R  BY <1>1, WFMin
<1>4. \A k \in T : ~(k < m)  BY <1>2, <1>3
<1>5. \A k \in T : m <= k  BY <1>4
<1>. QED  BY <1>5

LEMMA Least ==
  ASSUME NEW T \in SUBSET Nat, T # {}
  PROVE  Min(T) \in T /\ \A k \in T : Min(T) <= k
<1>1. \E m \in T : \A k \in T : m <= k  BY LeastNumber
<1>. QED  BY <1>1 DEF Min

LEMMA LeastOfTwo ==
  ASSUME NEW a \in Int, NEW b \in Int
  PROVE  Min({a, b}) = IF a <= b THEN a ELSE b
<1>1. \E m \in {a, b} : \A k \in {a, b} : m <= k
  <2>1. CASE a <= b  BY <2>1
  <2>2. CASE ~(a <= b)  BY <2>2
  <2>. QED  BY <2>1, <2>2
<1>2. Min({a, b}) \in {a, b} /\ \A k \in {a, b} : Min({a, b}) <= k
  BY <1>1 DEF Min
<1>. QED  BY <1>2

\* A sequence cut in two.
LEMMA Cuts ==
  ASSUME NEW T, NEW q \in Seq(T), NEW n \in 0..Len(q)
  PROVE  /\ SubSeq(q, 1, n) \in Seq(T) /\ Len(SubSeq(q, 1, n)) = n
         /\ \A i \in 1..n : SubSeq(q, 1, n)[i] = q[i]
         /\ SubSeq(q, n + 1, Len(q)) \in Seq(T) /\ Len(SubSeq(q, n + 1, Len(q))) = Len(q) - n
         /\ \A i \in 1..(Len(q) - n) : SubSeq(q, n + 1, Len(q))[i] = q[n + i]
         /\ q = SubSeq(q, 1, n) \o SubSeq(q, n + 1, Len(q))
<1>1. Len(q) \in Nat /\ \A i \in 1..Len(q) : q[i] \in T  BY LenProperties, ElementOfSeq
<1>2. \A i \in 1..n : q[i] \in T  BY <1>1
<1>3. \A i \in (n + 1)..Len(q) : q[i] \in T  BY <1>1
<1>4. /\ SubSeq(q, 1, n) \in Seq(T) /\ Len(SubSeq(q, 1, n)) = n
      /\ \A i \in 1..n : SubSeq(q, 1, n)[i] = q[i]
  <2>1. /\ SubSeq(q, 1, n) \in Seq(T)
        /\ Len(SubSeq(q, 1, n)) = IF 1 <= n THEN n - 1 + 1 ELSE 0
        /\ \A i \in 1..(n - 1 + 1) : SubSeq(q, 1, n)[i] = q[1 + i - 1]
    BY <1>1, <1>2, SubSeqProperties
  <2>. QED  BY <2>1
<1>5. /\ SubSeq(q, n + 1, Len(q)) \in Seq(T) /\ Len(SubSeq(q, n + 1, Len(q))) = Len(q) - n
      /\ \A i \in 1..(Len(q) - n) : SubSeq(q, n + 1, Len(q))[i] = q[n + i]
  <2>0. n + 1 \in Int /\ Len(q) \in Int  BY <1>1
  <2>1. /\ SubSeq(q, n + 1, Len(q)) \in Seq(T)
        /\ Len(SubSeq(q, n + 1, Len(q))) = IF n + 1 <= Len(q) THEN Len(q) - (n + 1) + 1 ELSE 0
        /\ \A i \in 1..(Len(q) - (n + 1) + 1) : SubSeq(q, n + 1, Len(q))[i] = q[n + 1 + i - 1]
    BY <1>3, <2>0, SubSeqProperties
  <2>. QED  BY <1>1, <2>1
<1>6. q = SubSeq(q, 1, n) \o SubSeq(q, n + 1, Len(q))
  <2>1. SubSeq(q, 1, n) \o SubSeq(q, n + 1, Len(q)) = SubSeq(q, 1, Len(q))
    <3>1. /\ 1 \in 1..Len(q) + 1 /\ n \in (1 - 1)..Len(q) /\ Len(q) \in n..Len(q)  BY <1>1
    <3>. QED  BY <3>1, ConcatAdjacentSubSeq
  <2>. QED  BY <2>1, SubSeqFull
<1>. QED  BY <1>4, <1>5, <1>6

-----------------------------------------------------------------------------
(* Counting in sequences.                                                  *)

\* Where x is in a sequence, and how often.
Spots(x, q) == {i \in 1..Len(q) : q[i] = x}
Count(x, q) == Cardinality(Spots(x, q))

LEMMA CountType ==
  ASSUME NEW T, NEW q \in Seq(T), NEW x
  PROVE  IsFiniteSet(Spots(x, q)) /\ Count(x, q) \in Nat
<1>1. Len(q) \in Nat /\ IsFiniteSet(1..Len(q))  BY LenProperties, FS_Interval
<1>2. IsFiniteSet(Spots(x, q))  BY <1>1, FS_Subset DEF Spots
<1>. QED  BY <1>2, FS_CardinalityType DEF Count

LEMMA CountNone ==
  ASSUME NEW q, NEW x, \A i \in 1..Len(q) : q[i] # x
  PROVE  Count(x, q) = 0
<1>1. Spots(x, q) = {}  BY DEF Spots
<1>. QED  BY <1>1, FS_EmptySet DEF Count

LEMMA CountOne ==
  ASSUME NEW q, NEW x, NEW k \in 1..Len(q), q[k] = x,
         \A i \in 1..Len(q) : q[i] = x => i = k
  PROVE  Count(x, q) = 1
<1>1. Spots(x, q) = {k}  BY DEF Spots
<1>. QED  BY <1>1, FS_Singleton DEF Count

LEMMA CountSome ==
  ASSUME NEW T, NEW q \in Seq(T), NEW x, NEW k \in 1..Len(q), q[k] = x
  PROVE  Count(x, q) >= 1
<1>1. IsFiniteSet(Spots(x, q)) /\ {k} \in SUBSET Spots(x, q)  BY CountType DEF Spots
<1>2. Cardinality({k}) <= Cardinality(Spots(x, q))  BY <1>1, FS_Subset
<1>. QED  BY <1>2, CountType, FS_Singleton DEF Count

LEMMA CountConcat ==
  ASSUME NEW T, NEW q \in Seq(T), NEW r \in Seq(T), NEW x
  PROVE  Count(x, q \o r) = Count(x, q) + Count(x, r)
<1>. DEFINE n == Len(q)
            A == Spots(x, q)
            B == Spots(x, r)
            C == {i \in (n + 1)..(n + Len(r)) : (q \o r)[i] = x}
            f == [i \in B |-> n + i]
<1>1. n \in Nat /\ Len(r) \in Nat /\ Len(q \o r) = n + Len(r)
      /\ \A i \in 1..(n + Len(r)) : (q \o r)[i] = IF i <= n THEN q[i] ELSE r[i - n]
  BY ConcatProperties, LenProperties
<1>2. Spots(x, q \o r) = A \union C
  <2>1. \A i \in 1..n : (q \o r)[i] = q[i]  BY <1>1
  <2>2. 1..(n + Len(r)) = (1..n) \union ((n + 1)..(n + Len(r)))  BY <1>1
  <2>. HIDE DEF n
  <2>. QED  BY <1>1, <2>1, <2>2 DEF Spots, n
<1>3. A \cap C = {}  BY <1>1 DEF Spots
<1>4. f \in Bijection(B, C)
  <2>1. \A i \in B : n + i \in C  BY <1>1 DEF Spots
  <2>2. \A a, b \in B : f[a] = f[b] => a = b  BY <1>1 DEF Spots
  <2>3. \A c \in C : \E b \in B : f[b] = c
    <3>1. ASSUME NEW c \in C PROVE \E b \in B : f[b] = c
      <4>1. c \in (n + 1)..(n + Len(r)) /\ (q \o r)[c] = x  OBVIOUS
      <4>2. PICK b : b = c - n  OBVIOUS
      <4>3. b \in 1..Len(r) /\ n + b = c /\ c \in 1..(n + Len(r)) /\ ~(c <= n)
        <5>. HIDE DEF n
        <5>. QED  BY <1>1, <4>1, <4>2
      <4>4. r[b] = x  BY <1>1, <4>1, <4>2, <4>3
      <4>5. b \in B  BY <4>3, <4>4 DEF Spots
      <4>. QED  BY <4>3, <4>5
    <3>. QED  BY <3>1
  <2>. QED  BY <2>1, <2>2, <2>3 DEF Bijection, Injection, Surjection, IsInjective
<1>5. IsFiniteSet(A) /\ IsFiniteSet(B) /\ Count(x, q) \in Nat /\ Count(x, r) \in Nat
  BY CountType
<1>6. IsFiniteSet(C) /\ Cardinality(C) = Cardinality(B)
  <2>1. ExistsBijection(B, C)  BY <1>4 DEF ExistsBijection
  <2>. QED  BY <1>5, <2>1, FS_Bijection
<1>7. Cardinality(A \union C) = Cardinality(A) + Cardinality(C) - Cardinality(A \cap C)
  BY <1>5, <1>6, FS_Union
<1>8. /\ Count(x, q \o r) = Cardinality(A \union C) /\ Cardinality(A) = Count(x, q)
      /\ Cardinality(B) = Count(x, r)
  BY <1>2 DEF Count
<1>9. Cardinality(A \cap C) = 0  BY <1>3, FS_EmptySet
<1>. HIDE DEF A, B, C
<1>. QED  BY <1>5, <1>6, <1>7, <1>8, <1>9

LEMMA CountAppend ==
  ASSUME NEW T, NEW q \in Seq(T), NEW e \in T, NEW x
  PROVE  Count(x, Append(q, e)) = Count(x, q) + (IF e = x THEN 1 ELSE 0)
<1>1. <<e>> \in Seq(T) /\ Len(<<e>>) = 1 /\ <<e>>[1] = e  OBVIOUS
<1>2. Count(x, Append(q, e)) = Count(x, q) + Count(x, <<e>>)
  <2>1. Append(q, e) = q \o <<e>>  BY AppendIsConcat
  <2>2. Count(x, q \o <<e>>) = Count(x, q) + Count(x, <<e>>)  BY <1>1, CountConcat
  <2>. QED  BY <2>1, <2>2
<1>3. CASE e = x
  <2>1. Count(x, <<e>>) = 1
    <3>1. \A i \in 1..Len(<<e>>) : <<e>>[i] = x => i = 1  BY <1>1
    <3>. QED  BY <1>1, <1>3, <3>1, CountOne
  <2>. QED  BY <1>2, <1>3, <2>1
<1>4. CASE e # x
  <2>1. \A i \in 1..Len(<<e>>) : <<e>>[i] # x  BY <1>1, <1>4
  <2>2. Count(x, <<e>>) = 0  BY <2>1, CountNone
  <2>3. Count(x, q) \in Nat  BY CountType
  <2>. QED  BY <1>2, <1>4, <2>2, <2>3
<1>. QED  BY <1>3, <1>4

LEMMA CountCut ==
  ASSUME NEW T, NEW q \in Seq(T), NEW n \in 0..Len(q), NEW x
  PROVE  /\ Count(x, q) = Count(x, SubSeq(q, 1, n)) + Count(x, SubSeq(q, n + 1, Len(q)))
         /\ Count(x, SubSeq(q, n + 1, Len(q))) <= Count(x, q)
         /\ (\E k \in 1..n : q[k] = x) => Count(x, SubSeq(q, n + 1, Len(q))) <= Count(x, q) - 1
<1>1. PICK h, t : h = SubSeq(q, 1, n) /\ t = SubSeq(q, n + 1, Len(q))  OBVIOUS
<1>2. h \in Seq(T) /\ t \in Seq(T) /\ q = h \o t /\ Len(h) = n /\ \A i \in 1..n : h[i] = q[i]
  BY <1>1, Cuts
<1>3. Count(x, q) = Count(x, h) + Count(x, t) /\ Count(x, h) \in Nat /\ Count(x, t) \in Nat
  <2>1. h \in Seq(T) /\ t \in Seq(T)  BY <1>2
  <2>2. Count(x, h \o t) = Count(x, h) + Count(x, t)  BY <2>1, CountConcat
  <2>3. Count(x, h) \in Nat  BY <2>1, CountType
  <2>4. Count(x, t) \in Nat  BY <2>1, CountType
  <2>. QED  BY <1>2, <2>2, <2>3, <2>4
<1>4. ASSUME NEW k \in 1..n, q[k] = x PROVE Count(x, h) >= 1
  <2>1. k \in 1..Len(h) /\ h[k] = x  BY <1>2, <1>4
  <2>. QED  BY <1>2, <2>1, CountSome
<1>. QED  BY <1>1, <1>3, <1>4

LEMMA CountTail ==
  ASSUME NEW T, NEW q \in Seq(T), q # <<>>, NEW x
  PROVE  Count(x, Tail(q)) <= Count(x, q) - (IF Head(q) = x THEN 1 ELSE 0)
<1>1. 1 \in 0..Len(q) /\ Head(q) = q[1]  BY LenProperties, EmptySeq
<1>2. Tail(q) = SubSeq(q, 1 + 1, Len(q))  BY TailIsSubSeq
<1>3. CASE Head(q) = x
  <2>1. \E k \in 1..1 : q[k] = x  BY <1>1, <1>3
  <2>. QED  BY <1>1, <1>2, <1>3, <2>1, CountCut
<1>4. CASE Head(q) # x
  <2>1. Count(x, Tail(q)) <= Count(x, q) /\ Count(x, q) \in Nat  BY <1>1, <1>2, CountCut, CountType
  <2>. QED  BY <1>4, <2>1
<1>. QED  BY <1>3, <1>4

-----------------------------------------------------------------------------
(* Types.                                                                  *)

\* The stream that the board sends has a size, a header that is out is a stream's,
\* and chunks are sent only while payload is due.
Shape ==
  /\ sender.id # 0 => sender.total \in Totals
  /\ sender.header => sender.id # 0
  /\ sender.header /\ daq => due > 0

LEMMA PolledType == TypeOK /\ poll > 0 => Polled \in Commands
<1>. SUFFICES ASSUME TypeOK, poll > 0 PROVE Polled \in Commands  OBVIOUS
<1>1. poll \in {1, 2, 3, 4, 5, 6}
  <2>1. Len(PollCommands) = 3  BY DEF PollCommands
  <2>. QED  BY <2>1 DEF TypeOK
<1>2. (poll + 1) \div 2 \in {1, 2, 3}  BY <1>1
<1>. QED  BY <1>2 DEF Polled, PollCommands, Commands

\* The types of the two threads that call, of the session, of what is under way, and
\* of the board.
CallsOK ==
  /\ job \in Places /\ poll \in 0..6
  /\ timeouts \in [Commands -> Nat]
SessionOK ==
  /\ online \in BOOLEAN /\ handle \in {"none", "open", "result", "error"}
  /\ active \in [on : BOOLEAN, total : Totals \union {0}, pending : BOOLEAN]
  /\ active.pending => active.on
  /\ active.on <=> handle = "open"
BytesOK ==
  /\ file \in Seq(Units) /\ rx \in Seq(Units) /\ wire \in Seq(Units)
  /\ reader \in {"recv", "parse", "lost", "ended"}
  /\ responses \in [Commands -> Nat]
CommandsOK == commands \in Seq(Commands \union {Start})
BoardOK ==
  /\ daq \in BOOLEAN
  /\ sender \in [id : 0..MaxTurns, header : BOOLEAN, total : Totals \union {0}]
  /\ streams \in 0..MaxTurns /\ polls \in 0..MaxTurns /\ beats \in 0..MaxTurns
  /\ sent \in [1..MaxTurns -> 0..MaxChunks] /\ due \in Nat
  /\ stopped \in 0..MaxTurns /\ mixed \in BOOLEAN
  /\ Shape

Typed == CallsOK /\ SessionOK /\ BytesOK /\ CommandsOK /\ BoardOK

LEMMA TypedDef == Typed <=> TypeOK /\ Shape
<1>1. Len(PollCommands) = 3 /\ 2 * 3 = 6  BY DEF PollCommands
<1>. QED  BY <1>1 DEF Typed, TypeOK, CallsOK, SessionOK, BytesOK, CommandsOK, BoardOK

LEMMA TypeInit == Init => Typed
<1>. SUFFICES ASSUME Init PROVE Typed  OBVIOUS
<1>. USE Constants DEF Init
<1>1. CallsOK /\ SessionOK  BY DEF CallsOK, SessionOK, NoStream, Places
<1>2. BytesOK /\ CommandsOK  BY DEF BytesOK, CommandsOK
<1>3. sender \in [id : 0..MaxTurns, header : BOOLEAN, total : Totals \union {0}] /\ Shape
  BY DEF Shape, NoSender
<1>4. BoardOK
  <2>1. daq \in BOOLEAN /\ mixed \in BOOLEAN  OBVIOUS
  <2>2. /\ streams \in 0..MaxTurns /\ polls \in 0..MaxTurns /\ beats \in 0..MaxTurns
        /\ stopped \in 0..MaxTurns /\ due \in Nat
    OBVIOUS
  <2>3. sent \in [1..MaxTurns -> 0..MaxChunks]  OBVIOUS
  <2>. QED  BY <1>3, <2>1, <2>2, <2>3 DEF BoardOK
<1>. QED  BY <1>1, <1>2, <1>4 DEF Typed

LEMMA TypeSend ==
  ASSUME CommandsOK, NEW c \in Commands \union {Start}, SendCommand(c)
  PROVE  CommandsOK'
BY AppendProperties DEF CommandsOK, SendCommand

\* A wait takes a packet or times out.
LEMMA TypeWait ==
  ASSUME Typed, NEW c \in Commands, WaitForCommand(c)
  PROVE  responses' \in [Commands -> Nat] /\ timeouts' \in [Commands -> Nat]
BY DEF Typed, CallsOK, BytesOK, WaitForCommand

\* The steps of the threads that call.
LEMMA TypeCaller == Typed /\ Caller => Typed'
<1>. SUFFICES ASSUME Typed, Caller PROVE Typed'  OBVIOUS
<1>. USE DEF calls, session, input, board, past
<1>1. 0 \in Commands /\ 10 \in Commands /\ 12 \in Commands /\ Start \in Commands \union {Start}
  BY DEF Commands
<1>2. CASE KeepJob
  BY <1>2 DEF KeepJob, Job, Typed, CallsOK, SessionOK, BytesOK, CommandsOK, BoardOK, Shape, Places
<1>3. CASE PrepareStream
  <2>1. CallsOK'  BY <1>3 DEF PrepareStream, Job, Typed, CallsOK, Places
  <2>2. SessionOK'
    <3>1. CASE active.on
      BY <1>3, <3>1 DEF PrepareStream, Typed, SessionOK
    <3>2. CASE ~active.on
      <4>1. active' = [on |-> TRUE, total |-> 0, pending |-> FALSE] /\ handle' = "open"
        BY <1>3, <3>2 DEF PrepareStream, NoStream
      <4>. QED  BY <1>3, <4>1 DEF PrepareStream, Typed, SessionOK
    <3>. QED  BY <3>1, <3>2
  <2>3. BytesOK' /\ CommandsOK'
    <3>1. file' = file \/ file' = <<>>  BY <1>3 DEF PrepareStream
    <3>2. file' \in Seq(Units)
      <4>1. file \in Seq(Units) /\ <<>> \in Seq(Units)  BY DEF Typed, BytesOK
      <4>. QED  BY <3>1, <4>1
    <3>. QED  BY <1>3, <3>2 DEF PrepareStream, Typed, BytesOK, CommandsOK
  <2>4. BoardOK'
    BY <1>3, Constants DEF PrepareStream, More, Typed, BoardOK, Shape
  <2>. QED  BY <2>1, <2>2, <2>3, <2>4 DEF Typed
<1>4. CASE SendStart \/ SendStop
  <2>1. CallsOK'  BY <1>4 DEF SendStart, SendStop, Job, Typed, CallsOK, Places
  <2>2. CommandsOK'
    <3>1. SendCommand(Start) \/ SendCommand(12)  BY <1>4 DEF SendStart, SendStop
    <3>2. Start \in Commands \union {Start} /\ 12 \in Commands \union {Start}  BY <1>1
    <3>3. CommandsOK  BY DEF Typed
    <3>. QED  BY <3>1, <3>2, <3>3, TypeSend
  <2>3. SessionOK' /\ BytesOK'
    BY <1>4 DEF SendStart, SendStop, Typed, SessionOK, BytesOK
  <2>4. BoardOK'  BY <1>4 DEF SendStart, SendStop, Typed, BoardOK, Shape
  <2>. QED  BY <2>1, <2>2, <2>3, <2>4 DEF Typed
<1>5. CASE StopDaq
  <2>1. CallsOK'  BY <1>5 DEF StopDaq, Job, Typed, CallsOK, Places
  <2>2. SessionOK'  BY <1>5 DEF StopDaq, Typed, SessionOK
  <2>3. BytesOK' /\ CommandsOK'  BY <1>5 DEF StopDaq, Typed, BytesOK, CommandsOK
  <2>4. BoardOK'  BY <1>5 DEF StopDaq, Typed, BoardOK, Shape
  <2>. QED  BY <2>1, <2>2, <2>3, <2>4 DEF Typed
<1>6. CASE StopAck \/ JobStatus
  <2>1. responses' \in [Commands -> Nat] /\ timeouts' \in [Commands -> Nat]
    BY <1>1, <1>6, TypeWait DEF StopAck, JobStatus
  <2>. QED
    <3>1. UNCHANGED <<poll, online, active, handle, file, input, commands, wire, board, past>>
      BY <1>6 DEF StopAck, JobStatus
    <3>2. job' \in Places  BY <1>6 DEF StopAck, JobStatus, Job, Places
    <3>. QED
      BY <2>1, <3>1, <3>2 DEF Typed, CallsOK, SessionOK, BytesOK, CommandsOK, BoardOK, Shape
<1>7. CASE HandleWait
  <2>1. CallsOK'  BY <1>7 DEF HandleWait, Job, Typed, CallsOK, Places
  <2>2. CommandsOK'
    <3>1. SendCommand(10) \/ UNCHANGED commands  BY <1>7 DEF HandleWait
    <3>2. 10 \in Commands \union {Start} /\ CommandsOK  BY <1>1 DEF Typed
    <3>3. CASE UNCHANGED commands  BY <3>2, <3>3 DEF CommandsOK
    <3>. QED  BY <3>1, <3>2, <3>3, TypeSend
  <2>3. SessionOK' /\ BytesOK'
    <3>1. UNCHANGED <<session, input, wire>>  BY <1>7 DEF HandleWait
    <3>. QED  BY <3>1 DEF Typed, SessionOK, BytesOK
  <2>4. BoardOK'  BY <1>7 DEF HandleWait, Typed, BoardOK, Shape
  <2>. QED  BY <2>1, <2>2, <2>3, <2>4 DEF Typed
<1>8. CASE PollTest
  BY <1>8 DEF PollTest, Typed, CallsOK, SessionOK, BytesOK, CommandsOK, BoardOK, Shape
<1>9. CASE PollSend
  <2>1. poll > 0 /\ poll' \in 0..6  BY <1>9 DEF PollSend, Typed, CallsOK
  <2>2. Polled \in Commands  BY <2>1, TypedDef, PolledType
  <2>3. CommandsOK'  BY <1>9, <2>2, TypeSend DEF PollSend, Typed
  <2>4. BoardOK'  BY <1>9, Constants DEF PollSend, More, Typed, BoardOK, Shape
  <2>. QED  BY <1>9, <2>1, <2>3, <2>4 DEF PollSend, Typed, CallsOK, SessionOK, BytesOK
<1>10. CASE PollWait
  <2>1. Len(PollCommands) = 3  BY DEF PollCommands
  <2>2. poll > 0 /\ poll' \in 0..6  BY <1>10, <2>1 DEF PollWait, Typed, CallsOK
  <2>3. Polled \in Commands  BY <2>2, TypedDef, PolledType
  <2>4. responses' \in [Commands -> Nat] /\ timeouts' \in [Commands -> Nat]
    BY <1>10, <2>3, TypeWait DEF PollWait
  <2>. QED
    BY <1>10, <2>2, <2>4 DEF PollWait, Typed, CallsOK, SessionOK, BytesOK, CommandsOK, BoardOK,
       Shape
<1>. QED
  BY <1>2, <1>3, <1>4, <1>5, <1>6, <1>7, <1>8, <1>9, <1>10 DEF Caller

LEMMA NextChunkType ==
  ASSUME Typed, MayChunk
  PROVE  /\ sender.id \in 1..MaxTurns /\ due > 0
         /\ NextChunk \in Seq(Units)
         /\ Sent(sender.id) => sent' \in [1..MaxTurns -> 0..MaxChunks]
<1>1. sender.id \in 1..MaxTurns /\ due > 0
  BY Constants DEF Typed, BoardOK, Shape, MayChunk
<1>2. sent[sender.id] + 1 \in 1..MaxChunks
  BY <1>1, Constants DEF Typed, BoardOK, MayChunk
<1>3. Chunk(sender.id, sent[sender.id] + 1) \in Units  BY <1>1, <1>2, ChunkType
<1>4. NextChunk \in Seq(Units)  BY <1>3 DEF NextChunk
<1>5. Sent(sender.id) => sent' \in [1..MaxTurns -> 0..MaxChunks]
  <2>1. sent \in [1..MaxTurns -> 0..MaxChunks]  BY DEF Typed, BoardOK
  <2>2. sent[sender.id] + 1 \in 0..MaxChunks  BY <1>2
  <2>. QED  BY <1>1, <2>1, <2>2 DEF Sent
<1>. QED  BY <1>1, <1>4, <1>5

\* The steps of the board.
LEMMA TypeSends ==
  ASSUME Typed, NEW u \in Seq(Units), Sends(u)
  PROVE  wire' \in Seq(Units)
BY ConcatProperties DEF Sends, Typed, BytesOK

LEMMA TypeServe == Typed /\ Serve => Typed'
<1>. SUFFICES ASSUME Typed, Serve PROVE Typed'  OBVIOUS
<1>. USE DEF calls, session, input, board, past
<1>1. /\ UNCHANGED <<calls, session, input, streams, polls, beats>>
      /\ commands # <<>> /\ commands' = Tail(commands)
  BY DEF Serve
<1>2. Head(commands) \in Commands \union {Start} /\ CommandsOK'
  BY <1>1, HeadTailProperties DEF Typed, CommandsOK
<1>3. 0 \in Totals \union {0} /\ 12 \in Commands  BY DEF Commands
<1>4. Packet(12) \in Seq(Units) /\ Header(0) \in Seq(Units)
  BY <1>3, PacketType, HeaderType
<1>. SUFFICES wire' \in Seq(Units) /\ BoardOK'
  BY <1>1, <1>2 DEF Typed, CallsOK, SessionOK, BytesOK
<1>5. CASE Head(commands) = Start /\ ServeStart
  <2>1. wire' \in Seq(Units)
    <3>1. UNCHANGED wire \/ Sends(Header(0))  BY <1>5 DEF ServeStart
    <3>2. CASE UNCHANGED wire  BY <3>2 DEF Typed, BytesOK
    <3>. QED  BY <1>4, <3>1, <3>2, TypeSends
  <2>2. sender' \in [id : 0..MaxTurns, header : BOOLEAN, total : Totals \union {0}] /\ Shape'
    <3>1. CASE UNCHANGED sender /\ (UNCHANGED daq \/ daq' = FALSE)
      BY <1>5, <3>1 DEF ServeStart, Typed, BoardOK, Shape
    <3>2. ASSUME NEW n \in Totals,
                 sender' = [id |-> streams, header |-> FALSE, total |-> n]
          PROVE  /\ sender' \in [id : 0..MaxTurns, header : BOOLEAN, total : Totals \union {0}]
                 /\ Shape'
      BY <1>5, <3>2 DEF ServeStart, Typed, BoardOK, Shape
    <3>3. CASE \E n \in Totals : sender' = [NoSender EXCEPT !.id = streams, !.total = n]
      <4>1. PICK n \in Totals : sender' = [NoSender EXCEPT !.id = streams, !.total = n]
        BY <3>3
      <4>2. sender' = [id |-> streams, header |-> FALSE, total |-> n]  BY <4>1 DEF NoSender
      <4>. QED  BY <4>2, <3>2
    <3>4. \/ \E n \in Totals : sender' = [NoSender EXCEPT !.id = streams, !.total = n]
          \/ UNCHANGED board
          \/ daq' = FALSE /\ UNCHANGED <<sender, wire>>
      BY <1>5, Zenon DEF ServeStart
    <3>. QED  BY <3>1, <3>3, <3>4
  <2>. QED  BY <1>1, <1>5, <2>1, <2>2 DEF ServeStart, Typed, BoardOK
<1>6. CASE Head(commands) = 12 /\ ServeStop
  <2>1. wire' \in Seq(Units) /\ sent' \in [1..MaxTurns -> 0..MaxChunks] /\ mixed' \in BOOLEAN
    <3>1. CASE Sends(Packet(12)) /\ UNCHANGED <<sent, mixed>>
      BY <1>4, <3>1, TypeSends DEF Typed, BoardOK
    <3>2. CASE MayChunk /\ Sent(sender.id) /\ Sends(Packet(12) \o NextChunk) /\ mixed' = TRUE
      <4>1. Packet(12) \o NextChunk \in Seq(Units)
        BY <1>4, <3>2, NextChunkType, ConcatProperties
      <4>. QED  BY <3>2, <4>1, NextChunkType, TypeSends
    <3>. QED  BY <1>6, <3>1, <3>2 DEF ServeStop
  <2>. QED  BY <1>1, <1>6, <2>1 DEF ServeStop, Typed, BoardOK, Shape
<1>7. CASE /\ Head(commands) \notin {Start, 12}
           /\ SendsPacket(Head(commands)) /\ UNCHANGED <<board, sent, due, stopped>>
  <2>1. Packet(Head(commands)) \in Seq(Units)  BY <1>2, <1>7, PacketType
  <2>2. wire' \in Seq(Units)  BY <1>7, <2>1, TypeSends DEF SendsPacket
  <2>. QED  BY <1>1, <1>7, <2>2 DEF SendsPacket, Typed, BoardOK, Shape
<1>. QED  BY <1>5, <1>6, <1>7 DEF Serve

LEMMA TypeBoard == Typed /\ Board => Typed'
<1>. SUFFICES ASSUME Typed, Board PROVE Typed'  OBVIOUS
<1>. USE DEF calls, session, input, board, past
<1>1. CASE SendHeader
  <2>1. sender.total \in Totals  BY <1>1 DEF SendHeader, Typed, BoardOK, Shape
  <2>2. due' \in Nat /\ due' > 0  BY <1>1, <2>1, Constants DEF SendHeader
  <2>3. wire' \in Seq(Units)  BY <1>1, <2>1, HeaderType, TypeSends DEF SendHeader
  <2>4. BoardOK'  BY <1>1, <2>1, <2>2 DEF SendHeader, Typed, BoardOK, Shape
  <2>. QED  BY <1>1, <2>3, <2>4 DEF SendHeader, Typed, CallsOK, SessionOK, BytesOK, CommandsOK
<1>2. CASE SendChunk
  <2>1. /\ due > 0 /\ NextChunk \in Seq(Units) /\ sent' \in [1..MaxTurns -> 0..MaxChunks]
    BY <1>2, NextChunkType DEF SendChunk
  <2>2. wire' \in Seq(Units)  BY <1>2, <2>1, TypeSends DEF SendChunk
  <2>3. CASE due = 1
    <3>1. sender' = [id |-> 0, header |-> FALSE, total |-> 0] /\ due' = 0 /\ daq' = FALSE
      BY <1>2, <2>3 DEF SendChunk, NoSender
    <3>2. sender' \in [id : 0..MaxTurns, header : BOOLEAN, total : Totals \union {0}] /\ Shape'
      BY <3>1, Constants DEF Shape
    <3>3. UNCHANGED <<calls, session, input, commands, streams, polls, beats, stopped, mixed>>
      BY <1>2 DEF SendChunk
    <3>4. BoardOK'  BY <2>1, <3>1, <3>2, <3>3 DEF Typed, BoardOK
    <3>. QED  BY <2>2, <3>3, <3>4 DEF Typed, CallsOK, SessionOK, BytesOK, CommandsOK
  <2>4. CASE due # 1
    <3>1. UNCHANGED <<sender, daq>> /\ due' \in Nat /\ due' > 0
      BY <1>2, <2>1, <2>4 DEF SendChunk, Typed, BoardOK
    <3>2. BoardOK'  BY <1>2, <2>1, <3>1 DEF SendChunk, Typed, BoardOK, Shape
    <3>. QED
      <4>1. UNCHANGED <<calls, session, input, commands>>  BY <1>2 DEF SendChunk
      <4>. QED  BY <2>2, <3>2, <4>1 DEF Typed, CallsOK, SessionOK, BytesOK, CommandsOK
  <2>. QED  BY <2>3, <2>4
<1>3. CASE EndStream
  <2>1. sender' = [id |-> 0, header |-> FALSE, total |-> 0] /\ daq' = FALSE
    BY <1>3 DEF EndStream, NoSender
  <2>2. BoardOK'
    <3>1. sender' \in [id : 0..MaxTurns, header : BOOLEAN, total : Totals \union {0}] /\ Shape'
      BY <2>1, Constants DEF Shape
    <3>. QED  BY <1>3, <2>1, <3>1 DEF EndStream, Typed, BoardOK
  <2>3. UNCHANGED <<calls, session, input, commands, wire>>  BY <1>3 DEF EndStream
  <2>. QED  BY <2>2, <2>3 DEF Typed, CallsOK, SessionOK, BytesOK, CommandsOK
<1>4. CASE IdleHeartbeat
  <2>1. 0 \in Commands  BY DEF Commands
  <2>2. wire' \in Seq(Units)
    BY <1>4, <2>1, PacketType, TypeSends DEF IdleHeartbeat, SendsPacket
  <2>3. BoardOK'
    BY <1>4, Constants DEF IdleHeartbeat, SendsPacket, More, Typed, BoardOK, Shape
  <2>. QED
    BY <1>4, <2>2, <2>3 DEF IdleHeartbeat, Typed, CallsOK, SessionOK, BytesOK, CommandsOK
<1>. QED  BY <1>1, <1>2, <1>3, <1>4, TypeServe DEF Board

\* The steps of the receive thread.
LEMMA UnitsOf ==
  ASSUME NEW q \in Seq(Units), NEW i \in 1..Len(q)
  PROVE  /\ q[i] \in Units
         /\ q[i][1] \in Commands \union {Start, Payload}
         /\ q[i][1] = Start => q[i][2] \in Totals \union {0}
BY ElementOfSeq, UnitType

LEMMA TypeTakes ==
  ASSUME Typed, NEW n \in 0..Len(rx)
  PROVE  /\ Takes(n) => rx' \in Seq(Units)
         /\ Consumes(n) => file' \in Seq(Units)
<1>1. SubSeq(rx, 1, n) \in Seq(Units) /\ SubSeq(rx, n + 1, Len(rx)) \in Seq(Units)
  BY Cuts DEF Typed, BytesOK
<1>. QED  BY <1>1, ConcatProperties DEF Takes, Consumes, Typed, BytesOK

LEMMA TypeHandles ==
  ASSUME Typed, NEW c \in Commands, Handles(c)
  PROVE  responses' \in [Commands -> Nat]
BY DEF Typed, BytesOK, Handles

LEMMA TypeFinishes ==
  ASSUME Typed, NEW how \in {"result", "error"}, Finishes(how), UNCHANGED online
  PROVE  SessionOK'
<1>1. active' = [on |-> FALSE, total |-> 0, pending |-> FALSE] /\ handle' = how
  BY DEF Finishes, NoStream
<1>. QED  BY <1>1 DEF Typed, SessionOK

\* What the branches of the parser leave alone.
LEMMA TypeElsewhere ==
  ASSUME Typed, Elsewhere, SessionOK', rx' \in Seq(Units), file' \in Seq(Units),
         responses' \in [Commands -> Nat], reader' \in {"recv", "parse", "lost", "ended"}
  PROVE  Typed'
BY DEF Typed, Elsewhere, CallsOK, SessionOK, BytesOK, CommandsOK, BoardOK, Shape, calls, board, past

\* The first packet that was announced.
LEMMA FirstMarker ==
  ASSUME Typed, Markers # {}
  PROVE  /\ Min(Markers) \in Markers /\ Min(Markers) \in 1..Len(rx)
         /\ Min(Markers) - 1 + PacketLen \in PacketLen..Len(rx)
         /\ \A i \in Markers : Min(Markers) <= i
<1>1. Len(rx) \in Nat  BY LenProperties DEF Typed, BytesOK
<1>2. Markers \subseteq Nat /\ \A i \in Markers : i \in 1..(Len(rx) - PacketLen + 1)
  BY <1>1, Constants DEF Markers
<1>3. Min(Markers) \in Markers /\ \A i \in Markers : Min(Markers) <= i
  BY <1>2, Least
<1>4. Min(Markers) \in 1..(Len(rx) - PacketLen + 1)  BY <1>2, <1>3
<1>5. PICK m : m = Min(Markers)  OBVIOUS
<1>6. m \in 1..(Len(rx) - PacketLen + 1)  BY <1>4, <1>5
<1>7. m \in 1..Len(rx) /\ m - 1 + PacketLen \in PacketLen..Len(rx)
  BY ONLY <1>1, <1>6, Constants
<1>. QED  BY <1>3, <1>5, <1>7

\* What is taken as payload when no packet is announced.
LEMMA PayloadTaken ==
  ASSUME Typed, ParsePayload
  PROVE  \E n \in 0..Len(rx) :
           /\ n <= active.total - Len(file) \/ n = 0
           /\ rx' = SubSeq(rx, n + 1, Len(rx)) /\ file' = file \o SubSeq(rx, 1, n)
           /\ \/ n >= active.total - Len(file) /\ Finishes("result")
              \/ n = Len(rx) /\ n < active.total - Len(file) /\ UNCHANGED <<active, handle>>
<1>. DEFINE remaining == active.total - Len(file)
            n == Min({Len(rx), remaining})
<1>1. /\ rx \in Seq(Units) /\ file \in Seq(Units) /\ Len(rx) \in Nat /\ Len(file) \in Nat
  BY LenProperties DEF Typed, BytesOK
<1>2. active.total \in Nat
  <2>1. active.total \in Totals \union {0}
    <3>1. active \in [on : BOOLEAN, total : Totals \union {0}, pending : BOOLEAN]
      BY DEF Typed, SessionOK
    <3>. QED  BY <3>1
  <2>. QED  BY <2>1, Constants
<1>3. PICK r : r = remaining  OBVIOUS
<1>4. r \in Int  BY <1>1, <1>2, <1>3
<1>5. CASE r <= 0
  <2>1. Finishes("result") /\ UNCHANGED <<rx, file>>  BY <1>3, <1>5 DEF ParsePayload
  <2>2. rx = SubSeq(rx, 0 + 1, Len(rx)) /\ file = file \o SubSeq(rx, 1, 0)
    BY <1>1, SubSeqFull, SubSeqEmpty, ConcatEmptySeq
  <2>3. 0 \in 0..Len(rx)  BY <1>1
  <2>. QED  BY <1>3, <1>4, <1>5, <2>1, <2>2, <2>3
<1>6. CASE r > 0
  <2>1. PICK m : m = n  OBVIOUS
  <2>2. /\ Consumes(m) /\ Takes(m)
        /\ IF m = r THEN Finishes("result") ELSE UNCHANGED <<active, handle>>
    BY <1>3, <1>4, <1>6, <2>1 DEF ParsePayload
  <2>3. m = IF Len(rx) <= r THEN Len(rx) ELSE r
    <3>1. PICK a : a = Len(rx)  OBVIOUS
    <3>2. Min({a, r}) = IF a <= r THEN a ELSE r  BY <1>1, <1>4, <3>1, LeastOfTwo
    <3>. QED  BY <1>3, <2>1, <3>1, <3>2
  <2>4. m \in 0..Len(rx)  BY <1>1, <1>4, <1>6, <2>3
  <2>. HIDE DEF remaining, n
  <2>5. rx' = SubSeq(rx, m + 1, Len(rx)) /\ file' = file \o SubSeq(rx, 1, m)
    BY <2>2 DEF Takes, Consumes
  <2>6. PICK a : a = Len(rx)  OBVIOUS
  <2>7. m <= r /\ (m = r => m >= r) /\ (m # r => m = a /\ m < r)
    <3>1. a \in Nat /\ m = IF a <= r THEN a ELSE r  BY <1>1, <2>3, <2>6
    <3>2. CASE a <= r  BY ONLY <3>1, <3>2, <1>4
    <3>3. CASE ~(a <= r)  BY ONLY <3>1, <3>3, <1>4
    <3>. QED  BY ONLY <3>2, <3>3
  <2>8. m <= active.total - Len(file) /\ (m = r => m >= active.total - Len(file))
        /\ (m # r => m = Len(rx) /\ m < active.total - Len(file))
    BY <1>3, <2>6, <2>7 DEF remaining
  <2>9. \/ m >= active.total - Len(file) /\ Finishes("result")
        \/ m = Len(rx) /\ m < active.total - Len(file) /\ UNCHANGED <<active, handle>>
    <3>1. CASE m = r  BY <2>2, <2>8, <3>1
    <3>2. CASE m # r  BY <2>2, <2>8, <3>2
    <3>. QED  BY <3>1, <3>2
  <2>. QED  BY <2>4, <2>5, <2>8, <2>9
<1>7. r <= 0 \/ r > 0  BY ONLY <1>4
<1>. QED  BY <1>5, <1>6, <1>7, Zenon

LEMMA TypeReader == Typed /\ Reader => Typed'
<1>. SUFFICES ASSUME Typed, Reader PROVE Typed'  OBVIOUS
<1>0. /\ rx \in Seq(Units) /\ wire \in Seq(Units) /\ file \in Seq(Units)
      /\ responses \in [Commands -> Nat] /\ Len(rx) \in Nat
      /\ SessionOK /\ (UNCHANGED session => SessionOK')
      /\ (UNCHANGED <<online, active, handle>> => SessionOK')
  BY LenProperties DEF Typed, BytesOK, SessionOK, session
<1>1. CASE Recv
  <2>1. PICK n \in 1..Len(wire) :
          rx' = rx \o SubSeq(wire, 1, n) /\ wire' = SubSeq(wire, n + 1, Len(wire))
    BY <1>1 DEF Recv
  <2>2. n \in 0..Len(wire)  BY <1>0, <2>1, LenProperties
  <2>3. SubSeq(wire, 1, n) \in Seq(Units) /\ wire' \in Seq(Units)
    BY <1>0, <2>1, <2>2, Cuts
  <2>4. rx' \in Seq(Units)  BY <1>0, <2>1, <2>3, ConcatProperties
  <2>5. UNCHANGED <<calls, session, commands, board, past>> /\ reader' = "parse"
    BY <1>1 DEF Recv
  <2>. QED
    BY <2>3, <2>4, <2>5 DEF Typed, CallsOK, SessionOK, BytesOK, CommandsOK, BoardOK, Shape, calls,
       session, board, past
<1>2. CASE ParseMarker
  <2>. DEFINE i == Min(Markers)
  <2>1. /\ Consumes(i - 1) /\ Takes(i - 1 + PacketLen)
        /\ Finishes("result") /\ Handles(12) /\ UNCHANGED reader /\ Elsewhere /\ Markers # {}
    BY <1>2 DEF ParseMarker, Parsing
  <2>2. i - 1 \in 0..Len(rx) /\ i - 1 + PacketLen \in 0..Len(rx)
    BY <2>1, FirstMarker, Constants
  <2>. HIDE DEF i
  <2>3. rx' \in Seq(Units) /\ file' \in Seq(Units)  BY <2>1, <2>2, TypeTakes
  <2>4. SessionOK'  BY <2>1, TypeFinishes DEF Elsewhere
  <2>5. responses' \in [Commands -> Nat]  BY <2>1, TypeHandles DEF Commands
  <2>. QED  BY <2>1, <2>3, <2>4, <2>5, TypeElsewhere DEF Typed, BytesOK
<1>3. CASE ParseHeld
  <2>. DEFINE n == Len(rx) - (PacketLen - 1)
  <2>1. /\ Consumes(n) /\ Takes(n) /\ Len(rx) >= PacketLen
        /\ UNCHANGED <<reader, active, handle, responses>> /\ Elsewhere
    BY <1>3 DEF ParseHeld, Parsing
  <2>2. n \in 0..Len(rx)  BY <1>0, <2>1, Constants
  <2>3. rx' \in Seq(Units) /\ file' \in Seq(Units)  BY <2>1, <2>2, TypeTakes
  <2>. QED  BY <1>0, <2>1, <2>3, TypeElsewhere DEF Typed, BytesOK, Elsewhere
<1>4. CASE ParsePayload
  <2>1. PICK n \in 0..Len(rx) :
          /\ rx' = SubSeq(rx, n + 1, Len(rx)) /\ file' = file \o SubSeq(rx, 1, n)
          /\ Finishes("result") \/ UNCHANGED <<active, handle>>
    BY <1>4, PayloadTaken
  <2>2. UNCHANGED <<reader, responses>> /\ Elsewhere  BY <1>4 DEF ParsePayload
  <2>3. rx' \in Seq(Units) /\ file' \in Seq(Units)
    <3>1. Takes(n) /\ Consumes(n)  BY <2>1 DEF Takes, Consumes
    <3>. QED  BY <2>1, <3>1, TypeTakes
  <2>4. SessionOK'  BY <1>0, <2>1, <2>2, TypeFinishes DEF Elsewhere
  <2>. QED  BY <1>0, <2>2, <2>3, <2>4, TypeElsewhere DEF Typed, BytesOK
<1>5. CASE ParseHeader
  <2>1. /\ Takes(HeaderLen) /\ UNCHANGED <<reader, responses, file>> /\ Elsewhere
        /\ HeaderLen \in 0..Len(rx) /\ rx # <<>> /\ rx[1][1] = Start
    BY <1>0, <1>5, Constants DEF ParseHeader, Parsing, Ahead, Starts
  <2>2. rx' \in Seq(Units)  BY <2>1, TypeTakes
  <2>3. rx[1][2] \in Totals \union {0}
    <3>1. 1 \in 1..Len(rx)  BY <1>0, <2>1, Constants
    <3>. QED  BY <1>0, <2>1, <3>1, UnitsOf
  <2>4. SessionOK'
    <3>1. CASE ~active.on
      BY <1>0, <1>5, <2>1, <3>1 DEF ParseHeader, Elsewhere
    <3>2. CASE active.on /\ rx[1][2] = 0
      BY <1>5, <2>1, <3>2, TypeFinishes DEF ParseHeader, Elsewhere
    <3>3. CASE active.on /\ rx[1][2] # 0
      <4>1. active' = [active EXCEPT !.total = rx[1][2]] /\ UNCHANGED <<handle, online>>
        BY <1>5, <2>1, <3>3 DEF ParseHeader, Elsewhere
      <4>. QED  BY <1>0, <2>3, <4>1 DEF SessionOK
    <3>. QED  BY <3>1, <3>2, <3>3
  <2>. QED  BY <1>0, <2>1, <2>2, <2>4, TypeElsewhere DEF Typed, BytesOK
<1>6. CASE ParsePacket
  <2>1. /\ Takes(PacketLen) /\ Handles(rx[1][1]) /\ Elsewhere
        /\ UNCHANGED <<reader, active, handle, file>>
        /\ PacketLen \in 0..Len(rx) /\ rx[1][1] \in Commands
    BY <1>0, <1>6, Constants DEF ParsePacket, Parsing, Ahead, Starts
  <2>2. rx' \in Seq(Units) /\ responses' \in [Commands -> Nat]
    BY <2>1, TypeTakes, TypeHandles
  <2>3. SessionOK'  BY <1>0, <2>1 DEF Elsewhere
  <2>. QED  BY <1>0, <2>1, <2>2, <2>3, TypeElsewhere DEF Typed, BytesOK
<1>7. CASE ParseNothing \/ ParseLost
  <2>1. UNCHANGED <<session, rx>> /\ Elsewhere /\ reader' \in {"recv", "lost"}
    BY <1>7 DEF ParseNothing, ParseLost
  <2>. QED  BY <1>0, <2>1, TypeElsewhere DEF session
<1>. QED
  BY <1>1, <1>2, <1>3, <1>4, <1>5, <1>6, <1>7 DEF Reader

LEMMA TypeDisconnect == Typed /\ Disconnect => Typed'
<1>. SUFFICES ASSUME Typed, Disconnect PROVE Typed'  OBVIOUS
<1>1. /\ active' = [on |-> FALSE, total |-> 0, pending |-> FALSE]
      /\ handle' = IF active.on THEN "error" ELSE handle
      /\ online' = FALSE /\ reader' = "ended"
      /\ UNCHANGED <<calls, responses, file, rx, commands, wire, board, past>>
  BY DEF Disconnect, NoStream
<1>2. SessionOK'  BY <1>1 DEF Typed, SessionOK
<1>. QED
  BY <1>1, <1>2 DEF Typed, CallsOK, BytesOK, CommandsOK, BoardOK, Shape, calls, board, past

LEMMA TypeNext == Typed /\ [Next]_vars => Typed'
<1>1. Typed /\ UNCHANGED vars => Typed'
  BY DEF vars, calls, session, input, board, past, Typed, CallsOK, SessionOK, BytesOK,
     CommandsOK, BoardOK, Shape
<1>. QED  BY <1>1, TypeCaller, TypeBoard, TypeReader, TypeDisconnect DEF Next

LEMMA TypedAlways == Spec => []Typed
BY TypeInit, TypeNext, PTL DEF Spec

\* Every variable of the session, of the receive thread and of the board keeps its type,
\* and the handle is open exactly while a stream is active, for all lengths of packets,
\* headers and streams and any number of calls.
THEOREM SessionTypeCorrect == Spec => []TypeOK
<1>1. Typed => TypeOK  BY TypedDef
<1>. QED  BY <1>1, TypedAlways, PTL
-----------------------------------------------------------------------------
(* Late answers.                                                           *)

\* The first unit of a packet of command c, and the packets of c that wait to be taken,
\* are on their way, or will be sent for a command that is: they are accounted for by
\* the calls that wait for one, those that timed out, and the idle heartbeats.
Mark(c) == <<c, 0, 1>>
Under(c) == Count(Mark(c), rx) + Count(Mark(c), wire) + Count(c, commands)
Owed(c) == Waiting(c) + timeouts[c] + (IF c = 0 THEN beats ELSE 0)
Accounted == \A c \in Commands : responses[c] + Under(c) <= Owed(c)

LEMMA UnderType ==
  ASSUME Typed, NEW c \in Commands
  PROVE  /\ Count(Mark(c), rx) \in Nat /\ Count(Mark(c), wire) \in Nat
         /\ Count(c, commands) \in Nat /\ responses[c] \in Nat /\ timeouts[c] \in Nat
         /\ Waiting(c) \in Nat /\ beats \in Nat
<1>1. /\ Count(Mark(c), rx) \in Nat /\ Count(Mark(c), wire) \in Nat
      /\ Count(c, commands) \in Nat
  BY CountType DEF Typed, BytesOK, CommandsOK
<1>2. responses[c] \in Nat /\ timeouts[c] \in Nat /\ beats \in Nat
  BY Constants DEF Typed, CallsOK, BytesOK, BoardOK
<1>3. Waiting(c) \in Nat  BY DEF Waiting
<1>. QED  BY <1>1, <1>2, <1>3

\* What the accounts of one command are after a step.
LEMMA AccountStep ==
  ASSUME Typed, Typed', NEW c \in Commands, responses[c] + Under(c) <= Owed(c),
         Owed(c)' = Owed(c),
         NEW r \in Int, NEW x \in Int, NEW w \in Int, NEW k \in Int, r + x + w + k <= 0,
         responses'[c] <= responses[c] + r,
         Count(Mark(c), rx') <= Count(Mark(c), rx) + x,
         Count(Mark(c), wire') <= Count(Mark(c), wire) + w,
         Count(c, commands') <= Count(c, commands) + k
  PROVE  responses'[c] + Under(c)' <= Owed(c)'
<1>1. PICK r0, x0, w0, k0, o0 :
        /\ r0 = responses[c] /\ x0 = Count(Mark(c), rx) /\ w0 = Count(Mark(c), wire)
        /\ k0 = Count(c, commands) /\ o0 = Owed(c)
  OBVIOUS
<1>2. PICK r1, x1, w1, k1 :
        /\ r1 = responses'[c] /\ x1 = Count(Mark(c), rx') /\ w1 = Count(Mark(c), wire')
        /\ k1 = Count(c, commands')
  OBVIOUS
<1>3. r0 \in Nat /\ x0 \in Nat /\ w0 \in Nat /\ k0 \in Nat /\ o0 \in Nat
  BY <1>1, UnderType DEF Owed
<1>4. r1 \in Nat /\ x1 \in Nat /\ w1 \in Nat /\ k1 \in Nat
  <2>1. r1 \in Nat  BY <1>2 DEF Typed, BytesOK
  <2>2. rx' \in Seq(Units) /\ wire' \in Seq(Units) /\ commands' \in Seq(Commands \union {Start})
    BY DEF Typed, BytesOK, CommandsOK
  <2>. QED  BY <1>2, <2>1, <2>2, CountType
<1>5. r0 + (x0 + w0 + k0) <= o0  BY <1>1 DEF Under
<1>6. r1 <= r0 + r /\ x1 <= x0 + x /\ w1 <= w0 + w /\ k1 <= k0 + k  BY <1>1, <1>2
<1>7. r1 + (x1 + w1 + k1) <= o0  BY ONLY <1>3, <1>4, <1>5, <1>6, r \in Int, x \in Int, w \in Int, k \in Int, r + x + w + k <= 0
<1>8. Under(c)' = x1 + w1 + k1 /\ Owed(c)' = o0  BY <1>1, <1>2 DEF Under
<1>. QED  BY <1>2, <1>7, <1>8

\* A command that is sent is one a thread now waits for.
LEMMA AccountSend ==
  ASSUME Typed, NEW c \in Commands, NEW d \in Commands \union {Start}, SendCommand(d),
         UNCHANGED <<rx, wire>>
  PROVE  Under(c)' = Under(c) + (IF d = c THEN 1 ELSE 0)
<1>1. Count(c, commands') = Count(c, commands) + (IF d = c THEN 1 ELSE 0)
  BY CountAppend DEF SendCommand, Typed, CommandsOK
<1>. QED  BY <1>1, UnderType DEF Under

\* A wait ends with a packet less, or a timeout more.
LEMMA AccountWait ==
  ASSUME Typed, NEW c \in Commands, NEW d \in Commands, WaitForCommand(d)
  PROVE  responses'[c] - timeouts'[c] = responses[c] - timeouts[c] - (IF d = c THEN 1 ELSE 0)
BY DEF WaitForCommand, Typed, CallsOK, BytesOK

LEMMA AccountCaller == Typed /\ Typed' /\ Accounted /\ Caller => Accounted'
<1>. SUFFICES ASSUME Typed, Typed', Accounted, Caller, NEW c \in Commands
              PROVE  responses'[c] + Under(c)' <= Owed(c)'
  BY DEF Accounted
<1>0. responses[c] + Under(c) <= Owed(c)  BY DEF Accounted
<1>. USE DEF calls, session, input, board, past
<1>1. 0 \in Commands /\ 10 \in Commands /\ 12 \in Commands /\ Start \notin Commands
  BY DEF Commands, Start
<1>9. responses'[c] \in Nat /\ timeouts'[c] \in Nat /\ Waiting(c)' \in Nat
  <2>1. responses'[c] \in Nat /\ timeouts'[c] \in Nat  BY DEF Typed, CallsOK, BytesOK
  <2>2. Waiting(c)' \in Nat  BY DEF Waiting
  <2>. QED  BY <2>1, <2>2
<1>2. CASE KeepJob \/ PrepareStream \/ StopDaq \/ PollTest
  <2>1. UNCHANGED <<rx, wire, commands, responses, timeouts, beats>>
    BY <1>2 DEF KeepJob, PrepareStream, StopDaq, PollTest
  <2>2. Waiting(c)' = Waiting(c)
    BY <1>2 DEF KeepJob, PrepareStream, StopDaq, PollTest, Job, Waiting, Polled
  <2>. QED  BY <1>0, <2>1, <2>2 DEF Under, Owed
<1>3. CASE SendStart
  <2>1. UNCHANGED <<rx, wire, responses, timeouts, beats>> /\ SendCommand(Start)
    BY <1>3 DEF SendStart
  <2>2. Waiting(c)' = Waiting(c)  BY <1>3 DEF SendStart, Job, Waiting, Polled
  <2>3. Under(c)' = Under(c) + 0  BY <1>1, <2>1, AccountSend
  <2>. QED  BY <1>0, <2>1, <2>2, <2>3, UnderType DEF Under, Owed
<1>4. CASE SendStop
  <2>1. UNCHANGED <<rx, wire, responses, timeouts, beats>> /\ SendCommand(12)
    BY <1>4 DEF SendStop
  <2>2. Waiting(c)' = Waiting(c) + (IF 12 = c THEN 1 ELSE 0)
    BY <1>4 DEF SendStop, Job, Waiting, Polled
  <2>3. Under(c)' = Under(c) + (IF 12 = c THEN 1 ELSE 0)  BY <1>1, <2>1, AccountSend
  <2>. QED  BY <1>0, <2>1, <2>2, <2>3, UnderType DEF Under, Owed
<1>5. CASE HandleWait
  <2>1. UNCHANGED <<rx, wire, responses, timeouts, beats>>  BY <1>5 DEF HandleWait
  <2>2. CASE SendCommand(10) /\ Job("wait", "status")
    <3>1. Waiting(c)' = Waiting(c) + (IF 10 = c THEN 1 ELSE 0)
      BY <1>5, <2>2 DEF HandleWait, Job, Waiting, Polled
    <3>2. Under(c)' = Under(c) + (IF 10 = c THEN 1 ELSE 0)  BY <1>1, <2>1, <2>2, AccountSend
    <3>. QED  BY <1>0, <2>1, <3>1, <3>2, UnderType DEF Under, Owed
  <2>3. CASE UNCHANGED commands /\ Job("wait", "idle")
    <3>1. Waiting(c)' = Waiting(c)
      BY <1>5, <2>3 DEF HandleWait, Job, Waiting, Polled
    <3>. QED  BY <1>0, <2>1, <2>3, <3>1 DEF Under, Owed
  <2>. QED  BY <1>5, <2>2, <2>3 DEF HandleWait
<1>6. CASE StopAck \/ JobStatus
  <2>. DEFINE d == IF job = "ack" THEN 12 ELSE 10
  <2>1. /\ UNCHANGED <<rx, wire, commands, beats>>
        /\ WaitForCommand(d) /\ d \in Commands
    BY <1>1, <1>6 DEF StopAck, JobStatus, Job
  <2>2. Waiting(c) = Waiting(c)' + (IF d = c THEN 1 ELSE 0)
    BY <1>6 DEF StopAck, JobStatus, Job, Waiting, Polled
  <2>. HIDE DEF d
  <2>3. responses'[c] - timeouts'[c] = responses[c] - timeouts[c] - (IF d = c THEN 1 ELSE 0)
    BY <2>1, AccountWait
  <2>4. Under(c)' = Under(c) /\ UNCHANGED beats  BY <2>1 DEF Under
  <2>. QED  BY <1>0, <1>9, <2>2, <2>3, <2>4, UnderType DEF Under, Owed
<1>7. CASE PollSend
  <2>1. UNCHANGED <<rx, wire, responses, timeouts, beats, job>> /\ SendCommand(Polled)
    BY <1>7 DEF PollSend
  <2>2. poll > 0 /\ poll % 2 = 1 /\ poll' = poll + 1 /\ poll \in 0..6
    BY <1>7 DEF PollSend, Typed, CallsOK
  <2>3. Polled \in Commands /\ Polled' = Polled
    <3>1. poll \in {1, 3, 5}  BY <2>2
    <3>2. (poll + 1) \div 2 = (poll' + 1) \div 2  BY <2>2, <3>1
    <3>. QED  BY <2>2, <3>2, TypedDef, PolledType DEF Polled
  <2>4. Waiting(c)' = Waiting(c) + (IF Polled = c THEN 1 ELSE 0)
    <3>1. poll' % 2 = 0 /\ poll' > 0  BY <2>2
    <3>. QED  BY <2>1, <2>2, <2>3, <3>1 DEF Waiting
  <2>5. Under(c)' = Under(c) + (IF Polled = c THEN 1 ELSE 0)  BY <2>1, <2>3, AccountSend
  <2>. QED  BY <1>0, <2>1, <2>4, <2>5, UnderType DEF Under, Owed
<1>8. CASE PollWait
  <2>1. UNCHANGED <<rx, wire, commands, beats, job>> /\ WaitForCommand(Polled)
    BY <1>8 DEF PollWait
  <2>2. poll > 0 /\ poll % 2 = 0 /\ (poll' = 0 \/ poll' = poll + 1) /\ poll \in 0..6
    BY <1>8 DEF PollWait, Typed, CallsOK
  <2>3. Polled \in Commands  BY <2>2, TypedDef, PolledType
  <2>4. Waiting(c) = Waiting(c)' + (IF Polled = c THEN 1 ELSE 0)
    <3>1. ~(poll' > 0 /\ poll' % 2 = 0)  BY <2>2
    <3>. QED  BY <2>1, <2>2, <2>3, <3>1 DEF Waiting
  <2>5. responses'[c] - timeouts'[c]
          = responses[c] - timeouts[c] - (IF Polled = c THEN 1 ELSE 0)
    BY <2>1, <2>3, AccountWait
  <2>6. Under(c)' = Under(c) /\ UNCHANGED beats  BY <2>1 DEF Under
  <2>. QED  BY <1>0, <1>9, <2>4, <2>5, <2>6, UnderType DEF Under, Owed
<1>. QED  BY <1>2, <1>3, <1>4, <1>5, <1>6, <1>7, <1>8 DEF Caller

\* A packet has one first unit, and nothing else has that of a packet.
LEMMA CountUnits ==
  ASSUME NEW c \in Commands
  PROVE  /\ \A d \in Commands : Count(Mark(c), Packet(d)) = IF d = c THEN 1 ELSE 0
         /\ \A n \in Totals \union {0} : Count(Mark(c), Header(n)) = 0
         /\ Count(Mark(c), NextChunk) = 0
<1>1. ASSUME NEW d \in Commands
      PROVE  Count(Mark(c), Packet(d)) = IF d = c THEN 1 ELSE 0
  <2>1. PICK p : p = Packet(d)  OBVIOUS
  <2>2. p \in Seq(Units) /\ Len(p) = PacketLen /\ \A k \in 1..PacketLen : p[k] = <<d, 0, k>>
    BY <2>1, PacketType
  <2>3. CASE d = c
    <3>1. 1 \in 1..Len(p) /\ p[1] = Mark(c) /\ \A i \in 1..Len(p) : p[i] = Mark(c) => i = 1
      BY <2>2, <2>3, Constants DEF Mark
    <3>2. Count(Mark(c), p) = 1  BY <3>1, CountOne
    <3>. QED  BY <2>1, <2>3, <3>2
  <2>4. CASE d # c
    <3>1. \A i \in 1..Len(p) : p[i] # Mark(c)  BY <2>2, <2>4 DEF Mark
    <3>2. Count(Mark(c), p) = 0  BY <3>1, CountNone
    <3>. QED  BY <2>1, <2>4, <3>2
  <2>. QED  BY <2>3, <2>4
<1>2. ASSUME NEW n \in Totals \union {0}
      PROVE  Count(Mark(c), Header(n)) = 0
  <2>1. PICK p : p = Header(n)  OBVIOUS
  <2>2. Len(p) = HeaderLen /\ \A k \in 1..HeaderLen : p[k] = <<Start, n, k>>
    BY <2>1, HeaderType
  <2>3. Start # c  BY DEF Commands, Start
  <2>4. \A i \in 1..Len(p) : p[i] # Mark(c)  BY <2>2, <2>3 DEF Mark
  <2>. QED  BY <2>1, <2>4, CountNone
<1>3. Count(Mark(c), NextChunk) = 0
  <2>1. PICK p : p = NextChunk  OBVIOUS
  <2>2. Len(p) = 1 /\ p[1][1] = Payload  BY <2>1 DEF NextChunk, Chunk
  <2>3. Payload # c  BY DEF Commands, Payload
  <2>4. \A i \in 1..Len(p) : p[i] # Mark(c)  BY <2>2, <2>3 DEF Mark
  <2>. QED  BY <2>1, <2>4, CountNone
<1>. QED  BY <1>1, <1>2, <1>3

LEMMA AccountSends ==
  ASSUME Typed, NEW c \in Commands, NEW u \in Seq(Units), Sends(u)
  PROVE  /\ Count(Mark(c), wire') = Count(Mark(c), wire) + Count(Mark(c), u)
         /\ Count(Mark(c), u) \in Nat
BY CountConcat, CountType DEF Sends, Typed, BytesOK

\* The steps of the board.
LEMMA AccountServe == Typed /\ Typed' /\ Accounted /\ Serve => Accounted'
<1>. SUFFICES ASSUME Typed, Typed', Accounted, Serve, NEW c \in Commands
              PROVE  responses'[c] + Under(c)' <= Owed(c)'
  BY DEF Accounted
<1>. USE DEF calls, session, input, board, past
<1>. DEFINE d == Head(commands)
<1>0. responses[c] + Under(c) <= Owed(c)  BY DEF Accounted
<1>1. /\ UNCHANGED <<job, poll, timeouts, responses, rx, beats>>
      /\ commands # <<>> /\ commands' = Tail(commands)
  BY DEF Serve
<1>2. d \in Commands \union {Start} /\ 12 \in Commands /\ Start \notin Commands
  BY <1>1, HeadTailProperties DEF Typed, CommandsOK, Commands, Start
<1>3. Count(c, commands') <= Count(c, commands) - (IF d = c THEN 1 ELSE 0)
      /\ Count(c, commands') \in Nat
  <2>1. commands \in Seq(Commands \union {Start}) /\ commands' \in Seq(Commands \union {Start})
    BY DEF Typed, CommandsOK
  <2>. QED  BY <1>1, <2>1, CountTail, CountType
<1>4. Owed(c)' = Owed(c)
  <2>1. Waiting(c)' = Waiting(c)  BY <1>1 DEF Waiting, Polled
  <2>. QED  BY <1>1, <2>1 DEF Owed
<1>. HIDE DEF d
<1>. DEFINE e == IF d = c THEN 1 ELSE 0
<1>. SUFFICES Count(Mark(c), wire') <= Count(Mark(c), wire) + e
  <2>1. e \in Int /\ 0 - e \in Int /\ 0 + 0 + e + (0 - e) <= 0 /\ 0 \in Int  OBVIOUS
  <2>2. responses'[c] <= responses[c] + 0 /\ Count(Mark(c), rx') <= Count(Mark(c), rx) + 0
    BY <1>1, UnderType
  <2>3. Count(c, commands') <= Count(c, commands) + (0 - e)  BY <1>3, UnderType
  <2>. HIDE DEF e
  <2>. QED  BY <1>0, <1>4, <2>1, <2>2, <2>3, AccountStep
<1>5. CASE d = Start /\ ServeStart
  <2>1. CASE UNCHANGED wire  BY <1>2, <1>5, <2>1, UnderType
  <2>2. CASE Sends(Header(0))
    <3>1. 0 \in Totals \union {0}  OBVIOUS
    <3>2. Count(Mark(c), Header(0)) = 0 /\ Header(0) \in Seq(Units)
      BY <3>1, CountUnits, HeaderType
    <3>3. Count(Mark(c), wire') = Count(Mark(c), wire) + 0  BY <2>2, <3>2, AccountSends
    <3>4. Count(Mark(c), wire) \in Nat  BY UnderType
    <3>. QED  BY <3>3, <3>4
  <2>. QED  BY <1>5, <2>1, <2>2, Zenon DEF ServeStart
<1>6. CASE d = 12 /\ ServeStop
  <2>1. Packet(12) \in Seq(Units) /\ Count(Mark(c), Packet(12)) = IF d = c THEN 1 ELSE 0
    BY <1>2, <1>6, PacketType, CountUnits
  <2>2. CASE Sends(Packet(12))  BY <2>1, <2>2, AccountSends, UnderType
  <2>3. CASE MayChunk /\ Sends(Packet(12) \o NextChunk)
    <3>1. NextChunk \in Seq(Units)  BY <2>3, NextChunkType
    <3>2. Packet(12) \o NextChunk \in Seq(Units)  BY <2>1, <3>1, ConcatProperties
    <3>3. Count(Mark(c), Packet(12) \o NextChunk) = (IF d = c THEN 1 ELSE 0) + 0
      BY <2>1, <3>1, CountConcat, CountUnits
    <3>4. PICK u \in Seq(Units) : u = Packet(12) \o NextChunk  BY <3>2
    <3>5. Sends(u) /\ Count(Mark(c), u) = e  BY <2>3, <3>3, <3>4
    <3>6. Count(Mark(c), wire') = Count(Mark(c), wire) + Count(Mark(c), u)
      BY <3>5, AccountSends
    <3>. QED  BY <3>5, <3>6, UnderType
  <2>. QED  BY <1>6, <2>2, <2>3 DEF ServeStop
<1>7. CASE d \notin {Start, 12} /\ SendsPacket(d)
  <2>1. Packet(d) \in Seq(Units) /\ Count(Mark(c), Packet(d)) = IF d = c THEN 1 ELSE 0
    BY <1>2, <1>7, PacketType, CountUnits
  <2>. QED  BY <1>7, <2>1, AccountSends, UnderType DEF SendsPacket
<1>. QED  BY <1>5, <1>6, <1>7 DEF Serve, d

LEMMA AccountBoard == Typed /\ Typed' /\ Accounted /\ Board => Accounted'
<1>. SUFFICES ASSUME Typed, Typed', Accounted, Board, ~Serve, NEW c \in Commands
              PROVE  responses'[c] + Under(c)' <= Owed(c)'
  BY AccountServe DEF Accounted
<1>. USE DEF calls, session, input, board, past
<1>0. responses[c] + Under(c) <= Owed(c)  BY DEF Accounted
<1>1. CASE SendHeader \/ SendChunk \/ EndStream
  <2>1. Owed(c)' = Owed(c) /\ UNCHANGED <<responses, rx, commands>>
    <3>1. UNCHANGED <<job, poll, timeouts, beats, responses, rx, commands>>
      BY <1>1 DEF SendHeader, SendChunk, EndStream
    <3>2. Waiting(c)' = Waiting(c)  BY <3>1 DEF Waiting, Polled
    <3>. QED  BY <3>1, <3>2 DEF Owed
  <2>2. Count(Mark(c), wire') = Count(Mark(c), wire)
    <3>1. CASE SendHeader
      <4>1. sender.total \in Totals \union {0}  BY <3>1 DEF SendHeader, Typed, BoardOK, Shape
      <4>2. Header(sender.total) \in Seq(Units) /\ Count(Mark(c), Header(sender.total)) = 0
        BY <4>1, CountUnits, HeaderType
      <4>. QED  BY <3>1, <4>2, AccountSends, UnderType DEF SendHeader
    <3>2. CASE SendChunk
      <4>1. NextChunk \in Seq(Units) /\ Count(Mark(c), NextChunk) = 0
        BY <3>2, NextChunkType, CountUnits DEF SendChunk
      <4>. QED  BY <3>2, <4>1, AccountSends, UnderType DEF SendChunk
    <3>3. CASE EndStream  BY <3>3 DEF EndStream
    <3>. QED  BY <1>1, <3>1, <3>2, <3>3
  <2>. QED  BY <1>0, <2>1, <2>2 DEF Under
<1>2. CASE IdleHeartbeat
  <2>1. UNCHANGED <<job, poll, timeouts, responses, rx, commands>> /\ beats' = beats + 1
    BY <1>2 DEF IdleHeartbeat
  <2>2. Owed(c)' = Owed(c) + (IF 0 = c THEN 1 ELSE 0)
    <3>1. Waiting(c)' = Waiting(c)  BY <2>1 DEF Waiting, Polled
    <3>. QED  BY <2>1, <3>1, UnderType DEF Owed
  <2>3. Packet(0) \in Seq(Units) /\ Count(Mark(c), Packet(0)) = IF 0 = c THEN 1 ELSE 0
    <3>1. 0 \in Commands  BY DEF Commands
    <3>. QED  BY <3>1, PacketType, CountUnits
  <2>4. Sends(Packet(0))  BY <1>2 DEF IdleHeartbeat, SendsPacket
  <2>5. Count(Mark(c), wire') = Count(Mark(c), wire) + (IF 0 = c THEN 1 ELSE 0)
    BY <2>3, <2>4, AccountSends
  <2>6. Owed(c) \in Nat  BY UnderType DEF Owed
  <2>. QED  BY <1>0, <2>1, <2>2, <2>5, <2>6, UnderType DEF Under
<1>. QED  BY <1>1, <1>2 DEF Board

\* The steps of the receive thread.
LEMMA AccountReader == Typed /\ Typed' /\ Accounted /\ Reader => Accounted'
<1>. SUFFICES ASSUME Typed, Typed', Accounted, Reader, NEW c \in Commands
              PROVE  responses'[c] + Under(c)' <= Owed(c)'
  BY DEF Accounted
<1>. USE DEF calls, session, input, board, past
<1>0. responses[c] + Under(c) <= Owed(c)  BY DEF Accounted
<1>1. UNCHANGED <<commands, job, poll, timeouts, beats>>
  BY DEF Reader, Recv, ParseMarker, ParseHeld, ParsePayload, ParseHeader, ParsePacket,
         ParseNothing, ParseLost, Elsewhere
<1>2. Owed(c)' = Owed(c)
  <2>1. Waiting(c)' = Waiting(c)  BY <1>1 DEF Waiting, Polled
  <2>. QED  BY <1>1, <2>1 DEF Owed
<1>3. rx \in Seq(Units) /\ rx' \in Seq(Units) /\ wire \in Seq(Units) /\ Len(rx) \in Nat
  BY LenProperties DEF Typed, BytesOK
<1>4. CASE Recv
  <2>1. PICK n \in 1..Len(wire) :
          rx' = rx \o SubSeq(wire, 1, n) /\ wire' = SubSeq(wire, n + 1, Len(wire))
    BY <1>4 DEF Recv
  <2>2. n \in 0..Len(wire)  BY <1>3, LenProperties
  <2>3. PICK h : h = SubSeq(wire, 1, n)  OBVIOUS
  <2>4. h \in Seq(Units)  BY <1>3, <2>2, <2>3, Cuts
  <2>5. Count(Mark(c), rx') = Count(Mark(c), rx) + Count(Mark(c), h)
    BY <1>3, <2>1, <2>3, <2>4, CountConcat
  <2>6. Count(Mark(c), wire) = Count(Mark(c), h) + Count(Mark(c), wire')
    BY <1>3, <2>1, <2>2, <2>3, CountCut
  <2>7. Count(Mark(c), h) \in Nat /\ Count(Mark(c), wire') \in Nat
    BY <2>4, CountType DEF Typed, BytesOK
  <2>8. UNCHANGED responses  BY <1>4 DEF Recv
  <2>. QED  BY <1>0, <1>1, <1>2, <2>5, <2>6, <2>7, <2>8, UnderType DEF Under
<1>5. ASSUME UNCHANGED <<wire, responses>>, Count(Mark(c), rx') <= Count(Mark(c), rx)
      PROVE  responses'[c] + Under(c)' <= Owed(c)'
  <2>1. /\ responses'[c] <= responses[c] + 0 /\ Count(Mark(c), rx') <= Count(Mark(c), rx) + 0
        /\ Count(Mark(c), wire') <= Count(Mark(c), wire) + 0
        /\ Count(c, commands') <= Count(c, commands) + 0
    <3>1. Count(Mark(c), rx') \in Nat  BY <1>3, CountType
    <3>. QED  BY <1>1, <1>5, <3>1, UnderType
  <2>2. 0 \in Int /\ 0 + 0 + 0 + 0 <= 0  OBVIOUS
  <2>. QED  BY <1>0, <1>2, <2>1, <2>2, AccountStep
<1>6. ASSUME NEW d \in Commands, UNCHANGED wire, Handles(d),
             Count(Mark(c), rx') <= Count(Mark(c), rx),
             d = c => Count(Mark(c), rx') <= Count(Mark(c), rx) - 1
      PROVE  responses'[c] + Under(c)' <= Owed(c)'
  <2>. DEFINE e == IF d = c THEN 1 ELSE 0
  <2>1. /\ responses'[c] <= responses[c] + e
        /\ Count(Mark(c), rx') <= Count(Mark(c), rx) + (0 - e)
        /\ Count(Mark(c), wire') <= Count(Mark(c), wire) + 0
        /\ Count(c, commands') <= Count(c, commands) + 0
    <3>1. Count(Mark(c), rx') \in Nat  BY <1>3, CountType
    <3>2. responses'[c] = responses[c] + e  BY <1>6 DEF Handles, Typed, BytesOK
    <3>3. responses'[c] <= responses[c] + e  BY <3>2, UnderType
    <3>4. Count(Mark(c), rx') <= Count(Mark(c), rx) + (0 - e)  BY <1>6, <3>1, UnderType
    <3>. QED  BY <1>1, <1>6, <3>3, <3>4, UnderType
  <2>2. e \in Int /\ 0 - e \in Int /\ 0 \in Int /\ e + (0 - e) + 0 + 0 <= 0  OBVIOUS
  <2>. HIDE DEF e
  <2>. QED  BY <1>0, <1>2, <2>1, <2>2, AccountStep
<1>7. \A n \in 0..Len(rx) : Takes(n) =>
        /\ Count(Mark(c), rx') <= Count(Mark(c), rx)
        /\ (\E k \in 1..n : rx[k] = Mark(c)) => Count(Mark(c), rx') <= Count(Mark(c), rx) - 1
  BY <1>3, CountCut DEF Takes
<1>8. \A i \in 1..Len(rx), d \in Commands : rx[i][1] = d /\ rx[i][3] = 1 => rx[i] = Mark(d)
  BY <1>3, ElementOfSeq, UnitType DEF Mark
<1>9. CASE ParseMarker
  <2>. DEFINE i == Min(Markers)
  <2>1. Takes(i - 1 + PacketLen) /\ Handles(12) /\ UNCHANGED wire /\ Markers # {}
    BY <1>9 DEF ParseMarker, Parsing, Elsewhere
  <2>2. /\ i \in Markers /\ i \in 1..Len(rx) /\ i - 1 + PacketLen \in PacketLen..Len(rx)
    BY <2>1, FirstMarker
  <2>3. 12 \in Commands  BY DEF Commands
  <2>4. rx[i] = Mark(12)  BY <1>8, <2>2, <2>3 DEF Markers, Starts
  <2>. HIDE DEF i
  <2>5. i - 1 + PacketLen \in 0..Len(rx) /\ i \in 1..(i - 1 + PacketLen)  BY <2>2, Constants
  <2>6. /\ Count(Mark(c), rx') <= Count(Mark(c), rx)
        /\ 12 = c => Count(Mark(c), rx') <= Count(Mark(c), rx) - 1
    BY <1>7, <2>1, <2>4, <2>5
  <2>. QED  BY <1>6, <2>1, <2>3, <2>6
<1>10. CASE ParseHeld
  <2>. DEFINE n == Len(rx) - (PacketLen - 1)
  <2>1. Takes(n) /\ UNCHANGED <<wire, responses>> /\ Len(rx) >= PacketLen
    BY <1>10 DEF ParseHeld, Parsing, Elsewhere
  <2>2. n \in 0..Len(rx)  BY <1>3, <2>1, Constants
  <2>. HIDE DEF n
  <2>. QED  BY <1>5, <1>7, <2>1, <2>2
<1>11. CASE ParsePayload
  <2>1. PICK n \in 0..Len(rx) : Takes(n)  BY <1>11, PayloadTaken DEF Takes
  <2>2. UNCHANGED <<wire, responses>>  BY <1>11 DEF ParsePayload, Elsewhere
  <2>. QED  BY <1>5, <1>7, <2>1, <2>2
<1>12. CASE ParseHeader
  <2>1. Takes(HeaderLen) /\ UNCHANGED <<wire, responses>> /\ HeaderLen \in 0..Len(rx)
    BY <1>3, <1>12, Constants DEF ParseHeader, Parsing, Elsewhere
  <2>. QED  BY <1>5, <1>7, <2>1
<1>13. CASE ParsePacket
  <2>1. /\ Takes(PacketLen) /\ Handles(rx[1][1]) /\ UNCHANGED wire
        /\ PacketLen \in 0..Len(rx) /\ 1 \in 1..PacketLen /\ 1 \in 1..Len(rx)
        /\ rx[1][1] \in Commands /\ rx[1][3] = 1
    BY <1>3, <1>13, Constants DEF ParsePacket, Parsing, Ahead, Starts, Elsewhere
  <2>2. rx[1] = Mark(rx[1][1])  BY <1>8, <2>1
  <2>. QED  BY <1>6, <1>7, <2>1, <2>2
<1>14. CASE ParseNothing \/ ParseLost
  <2>1. UNCHANGED <<wire, responses, rx>>  BY <1>14 DEF ParseNothing, ParseLost, Elsewhere
  <2>2. Count(Mark(c), rx') <= Count(Mark(c), rx)  BY <2>1, UnderType
  <2>. QED  BY <1>5, <2>1, <2>2
<1>. QED
  BY <1>4, <1>9, <1>10, <1>11, <1>12, <1>13, <1>14 DEF Reader

LEMMA AccountInit == Init => Accounted
<1>. SUFFICES ASSUME Init, NEW c \in Commands PROVE responses[c] + Under(c) <= Owed(c)
  BY DEF Accounted
<1>1. /\ responses[c] = 0 /\ timeouts[c] = 0 /\ beats = 0
      /\ rx = <<>> /\ wire = <<>> /\ commands = <<>>
  BY DEF Init
<1>2. Len(<<>>) = 0  OBVIOUS
<1>3. Count(Mark(c), <<>>) = 0 /\ Count(c, <<>>) = 0
  <2>1. \A i \in 1..Len(<<>>) : <<>>[i] # Mark(c) /\ <<>>[i] # c  BY <1>2
  <2>. QED  BY <2>1, CountNone
<1>4. Waiting(c) = 0  BY DEF Init, Waiting
<1>. QED  BY <1>1, <1>3, <1>4 DEF Under, Owed

LEMMA AccountNext == Typed /\ Typed' /\ Accounted /\ [Next]_vars => Accounted'
<1>. SUFFICES ASSUME Typed, Typed', Accounted,
                     UNCHANGED <<job, poll, timeouts, beats, responses, rx, wire, commands>>
              PROVE  Accounted'
  <2>1. Disconnect \/ UNCHANGED vars
          => UNCHANGED <<job, poll, timeouts, beats, responses, rx, wire, commands>>
    BY DEF Disconnect, vars, calls, session, input, past
  <2>. QED  BY <2>1, AccountCaller, AccountBoard, AccountReader DEF Next
<1>1. ASSUME NEW c \in Commands PROVE responses'[c] + Under(c)' <= Owed(c)'
  <2>1. Waiting(c)' = Waiting(c)  BY DEF Waiting, Polled
  <2>2. Under(c)' = Under(c) /\ Owed(c)' = Owed(c)  BY <2>1 DEF Under, Owed
  <2>. QED  BY <2>2 DEF Accounted
<1>. QED  BY <1>1 DEF Accounted

\* A packet that waits to be taken is one a thread waits for, or the late answer to a call
\* that timed out, or an idle heartbeat, whatever times out and however the bytes come:
\* the queues of wait_for_command never run further behind their callers.
THEOREM StaleCorrect == Spec => []StaleIsBounded
<1>1. Typed /\ Accounted => StaleIsBounded
  <2>. SUFFICES ASSUME Typed, Accounted, NEW c \in Commands
                PROVE  responses[c] <= Owed(c)
    BY DEF StaleIsBounded, Owed
  <2>1. responses[c] + Under(c) <= Owed(c)  BY DEF Accounted
  <2>2. Under(c) \in Nat /\ responses[c] \in Nat /\ Owed(c) \in Nat
    BY UnderType DEF Under, Owed
  <2>. QED  BY <2>1, <2>2
<1>2. Init => Typed /\ Accounted  BY TypeInit, AccountInit
<1>3. Typed /\ Accounted /\ [Next]_vars => (Typed /\ Accounted)'  BY TypeNext, AccountNext
<1>. QED  BY <1>1, <1>2, <1>3, PTL DEF Spec

-----------------------------------------------------------------------------
(* The payload.                                                            *)

\* A unit that begins a packet or a header, one that ends one or is payload, and
\* what may follow it.  The bytes that have not been parsed are never torn.
Begins(u) == u[3] = 1 /\ u[1] # Payload
Ends(u) == u[1] = Payload \/ u[3] = IF u[1] = Start THEN HeaderLen ELSE PacketLen
Follows(u, v) ==
  IF Ends(u) THEN Begins(v) \/ v[1] = Payload ELSE v = <<u[1], u[2], u[3] + 1>>
Tokens(q) ==
  /\ \A i \in 1..(Len(q) - 1) : Follows(q[i], q[i + 1])
  /\ q # <<>> => Ends(q[Len(q)])

\* Among packets, the header of stream s, with total t, ends at b, and its first n chunks
\* follow.  Some or all of these may be before the beginning of q.
Content(q, b, n, t, s) ==
  \A i \in 1..Len(q) :
    /\ i <= b - HeaderLen \/ b + n < i => q[i][1] \in Commands
    /\ b - HeaderLen < i /\ i <= b => q[i] = <<Start, t, i - b + HeaderLen>>
    /\ b < i /\ i <= b + n => q[i] = Chunk(s, i - b)

\* Sequences put together and cut, unit by unit.
LEMMA Joined ==
  ASSUME NEW q \in Seq(Units), NEW u \in Seq(Units)
  PROVE  /\ q \o u \in Seq(Units) /\ Len(q) \in Nat /\ Len(u) \in Nat
         /\ Len(q \o u) = Len(q) + Len(u)
         /\ \A i \in 1..Len(q) : (q \o u)[i] = q[i]
         /\ \A i \in (Len(q) + 1)..(Len(q) + Len(u)) : (q \o u)[i] = u[i - Len(q)]
<1>1. /\ q \o u \in Seq(Units) /\ Len(q) \in Nat /\ Len(u) \in Nat
      /\ Len(q \o u) = Len(q) + Len(u)
      /\ \A i \in 1..(Len(q) + Len(u)) :
           (q \o u)[i] = IF i <= Len(q) THEN q[i] ELSE u[i - Len(q)]
  BY ConcatProperties, LenProperties
<1>. QED  BY <1>1

LEMMA TokensJoined ==
  ASSUME NEW q \in Seq(Units), NEW u \in Seq(Units), Tokens(q), Tokens(u),
         u # <<>> => Begins(u[1]) \/ u[1][1] = Payload
  PROVE  Tokens(q \o u)
<1>1. PICK w, a, c : w = q \o u /\ a = Len(q) /\ c = Len(u)  OBVIOUS
<1>2. /\ w \in Seq(Units) /\ a \in Nat /\ c \in Nat /\ Len(w) = a + c
      /\ \A i \in 1..a : w[i] = q[i]
      /\ \A i \in (a + 1)..(a + c) : w[i] = u[i - a]
  BY <1>1, Joined
<1>3. (q = <<>> <=> a = 0) /\ (u = <<>> <=> c = 0) /\ (w = <<>> <=> a + c = 0)
  BY <1>1, <1>2, EmptySeq
<1>4. /\ \A i \in 1..(a - 1) : Follows(q[i], q[i + 1])
      /\ \A i \in 1..(c - 1) : Follows(u[i], u[i + 1])
      /\ a # 0 => Ends(q[a])
      /\ c # 0 => Ends(u[c])
  BY <1>1, <1>3 DEF Tokens
<1>5. ASSUME NEW i \in 1..(a + c - 1) PROVE Follows(w[i], w[i + 1])
  <2>1. CASE i < a
    <3>1. i \in 1..(a - 1) /\ i \in 1..a /\ i + 1 \in 1..a  BY <1>2, <2>1
    <3>. QED  BY <1>2, <1>4, <3>1
  <2>2. CASE i = a
    <3>1. a \in 1..a /\ a # 0 /\ c # 0 /\ a + 1 \in (a + 1)..(a + c) /\ a + 1 - a = 1
      BY <1>2, <2>2
    <3>2. w[a] = q[a] /\ w[a + 1] = u[1]  BY <1>2, <3>1
    <3>. QED  BY <1>3, <1>4, <2>2, <3>1, <3>2 DEF Follows
  <2>3. CASE i > a
    <3>1. PICK j : j = i - a  OBVIOUS
    <3>2. /\ j \in 1..(c - 1) /\ i \in (a + 1)..(a + c) /\ i + 1 \in (a + 1)..(a + c)
          /\ i + 1 - a = j + 1
      BY <1>2, <2>3, <3>1
    <3>. QED  BY <1>2, <1>4, <3>1, <3>2
  <2>. QED  BY <1>2, <2>1, <2>2, <2>3
<1>6. ASSUME w # <<>> PROVE Ends(w[a + c])
  <2>1. CASE c = 0
    <3>1. a # 0 /\ a + c = a /\ a \in 1..a  BY <1>2, <1>3, <1>6, <2>1
    <3>. QED  BY <1>2, <1>4, <3>1
  <2>2. CASE c # 0
    <3>1. a + c \in (a + 1)..(a + c) /\ a + c - a = c  BY <1>2, <2>2
    <3>. QED  BY <1>2, <1>4, <2>2, <3>1
  <2>. QED  BY <2>1, <2>2
<1>. QED  BY <1>1, <1>2, <1>5, <1>6 DEF Tokens

LEMMA TokensCut ==
  ASSUME NEW q \in Seq(Units), NEW n \in 0..Len(q), Tokens(q)
  PROVE  Tokens(SubSeq(q, n + 1, Len(q)))
<1>1. PICK w, a : w = SubSeq(q, n + 1, Len(q)) /\ a = Len(q)  OBVIOUS
<1>2. /\ a \in Nat /\ n \in 0..a /\ w \in Seq(Units) /\ Len(w) = a - n
      /\ \A i \in 1..(a - n) : w[i] = q[n + i]
  BY <1>1, Cuts, LenProperties
<1>3. (w = <<>> <=> a - n = 0) /\ (a # 0 => Ends(q[a]))
      /\ \A i \in 1..(a - 1) : Follows(q[i], q[i + 1])
  BY <1>1, <1>2, EmptySeq DEF Tokens
<1>4. ASSUME NEW i \in 1..(a - n - 1) PROVE Follows(w[i], w[i + 1])
  <2>1. /\ i \in 1..(a - n) /\ i + 1 \in 1..(a - n) /\ n + i \in 1..(a - 1)
        /\ n + (i + 1) = (n + i) + 1
    BY <1>2
  <2>. QED  BY <1>2, <1>3, <2>1
<1>5. ASSUME w # <<>> PROVE Ends(w[a - n])
  <2>1. a - n \in 1..(a - n) /\ n + (a - n) = a /\ a # 0  BY <1>2, <1>3, <1>5
  <2>. QED  BY <1>2, <1>3, <2>1
<1>. QED  BY <1>1, <1>2, <1>4, <1>5 DEF Tokens

LEMMA TokensSent ==
  /\ \A c \in Commands : Tokens(Packet(c)) /\ Begins(Packet(c)[1]) /\ Packet(c) # <<>>
  /\ \A t \in Totals \union {0} : Tokens(Header(t)) /\ Begins(Header(t)[1]) /\ Header(t) # <<>>
  /\ Tokens(NextChunk) /\ NextChunk[1][1] = Payload /\ NextChunk # <<>>
<1>0. Payload \notin Commands /\ Payload # Start /\ Start \notin Commands
  BY DEF Payload, Commands, Start
<1>1. ASSUME NEW c \in Commands
      PROVE  Tokens(Packet(c)) /\ Begins(Packet(c)[1]) /\ Packet(c) # <<>>
  <2>1. PICK p : p = Packet(c)  OBVIOUS
  <2>2. p \in Seq(Units) /\ Len(p) = PacketLen /\ \A k \in 1..PacketLen : p[k] = <<c, 0, k>>
    BY <2>1, PacketType
  <2>3. \A k \in 1..PacketLen : (Ends(p[k]) <=> k = PacketLen) /\ p[k][1] = c
    BY <1>0, <2>2 DEF Ends
  <2>4. ASSUME NEW i \in 1..(PacketLen - 1) PROVE Follows(p[i], p[i + 1])
    <3>1. i \in 1..PacketLen /\ i + 1 \in 1..PacketLen /\ i # PacketLen  BY Constants
    <3>. QED  BY <2>2, <2>3, <3>1 DEF Follows
  <2>5. 1 \in 1..PacketLen /\ PacketLen \in 1..PacketLen  BY Constants
  <2>6. Begins(p[1]) /\ p # <<>>  BY <1>0, <2>2, <2>5, EmptySeq DEF Begins
  <2>. QED  BY <2>1, <2>2, <2>3, <2>4, <2>5, <2>6 DEF Tokens
<1>2. ASSUME NEW t \in Totals \union {0}
      PROVE  Tokens(Header(t)) /\ Begins(Header(t)[1]) /\ Header(t) # <<>>
  <2>1. PICK p : p = Header(t)  OBVIOUS
  <2>2. p \in Seq(Units) /\ Len(p) = HeaderLen /\ \A k \in 1..HeaderLen : p[k] = <<Start, t, k>>
    BY <2>1, HeaderType
  <2>3. \A k \in 1..HeaderLen : (Ends(p[k]) <=> k = HeaderLen) /\ p[k][1] = Start
    BY <1>0, <2>2 DEF Ends
  <2>4. ASSUME NEW i \in 1..(HeaderLen - 1) PROVE Follows(p[i], p[i + 1])
    <3>1. i \in 1..HeaderLen /\ i + 1 \in 1..HeaderLen /\ i # HeaderLen  BY Constants
    <3>. QED  BY <2>2, <2>3, <3>1 DEF Follows
  <2>5. 1 \in 1..HeaderLen /\ HeaderLen \in 1..HeaderLen  BY Constants
  <2>6. Begins(p[1]) /\ p # <<>>  BY <1>0, <2>2, <2>5, EmptySeq DEF Begins
  <2>. QED  BY <2>1, <2>2, <2>3, <2>4, <2>5, <2>6 DEF Tokens
<1>3. Tokens(NextChunk) /\ NextChunk[1][1] = Payload /\ NextChunk # <<>>
  <2>1. PICK e : e = Chunk(sender.id, sent[sender.id] + 1)  OBVIOUS
  <2>2. PICK p : p = <<e>>  OBVIOUS
  <2>3. p = NextChunk  BY <2>1, <2>2 DEF NextChunk
  <2>4. e[1] = Payload  BY <2>1 DEF Chunk
  <2>5. Len(p) = 1 /\ p[1] = e /\ p # <<>>  BY <2>2
  <2>6. 1..(Len(p) - 1) = {}  BY <2>5
  <2>7. Ends(p[Len(p)])  BY <2>4, <2>5 DEF Ends
  <2>8. Tokens(p)  BY <2>6, <2>7 DEF Tokens
  <2>9. p[1][1] = Payload  BY <2>4, <2>5
  <2>. QED  BY <2>3, <2>5, <2>8, <2>9
<1>. QED  BY <1>1, <1>2, <1>3

\* A packet that has begun is there to its end.
LEMMA WholePacket ==
  ASSUME NEW q \in Seq(Units), Tokens(q), NEW i \in 1..Len(q), NEW c \in Commands,
         q[i] = Mark(c)
  PROVE  /\ i + PacketLen - 1 <= Len(q)
         /\ \A k \in 1..PacketLen : q[i + k - 1] = <<c, 0, k>>
         /\ i + PacketLen <= Len(q) =>
              Begins(q[i + PacketLen]) \/ q[i + PacketLen][1] = Payload
<1>. DEFINE There(k) == i + k - 1 <= Len(q) /\ q[i + k - 1] = <<c, 0, k>>
<1>0. Len(q) \in Nat /\ c # Payload /\ c # Start /\ q # <<>>
  BY LenProperties, EmptySeq DEF Commands, Payload, Start
<1>1. There(1)  BY <1>0 DEF Mark
<1>2. ASSUME NEW k \in 1..(PacketLen - 1), There(k) PROVE There(k + 1)
  <2>1. PICK j : j = i + k - 1  OBVIOUS
  <2>2. j \in 1..Len(q) /\ q[j] = <<c, 0, k>> /\ k \in Nat /\ k # PacketLen
    BY <1>0, <1>2, <2>1, Constants
  <2>3. ~Ends(q[j])  BY <1>0, <2>2 DEF Ends
  <2>4. j # Len(q)  BY <1>0, <2>3 DEF Tokens
  <2>5. j \in 1..(Len(q) - 1)  BY <1>0, <2>2, <2>4
  <2>6. Follows(q[j], q[j + 1])  BY <2>5 DEF Tokens
  <2>7. q[j + 1] = <<q[j][1], q[j][2], q[j][3] + 1>>  BY <2>3, <2>6 DEF Follows
  <2>8. q[j][1] = c /\ q[j][2] = 0 /\ q[j][3] = k  BY <2>2
  <2>9. i + (k + 1) - 1 = j + 1 /\ j + 1 <= Len(q)  BY <1>0, <2>1, <2>2, <2>5
  <2>. QED  BY <2>7, <2>8, <2>9
<1>. HIDE DEF There
<1>3. \A k \in 1..PacketLen : There(k)
  <2>. DEFINE T == {k \in 1..PacketLen : ~There(k)}
  <2>. SUFFICES ASSUME T # {} PROVE FALSE  OBVIOUS
  <2>1. T \in SUBSET Nat  OBVIOUS
  <2>2. PICK m \in T : \A k \in T : m <= k  BY <2>1, LeastNumber
  <2>3. m \in 1..PacketLen /\ m # 1  BY <1>1, <2>2
  <2>4. m - 1 \in 1..(PacketLen - 1) /\ m - 1 \in 1..PacketLen /\ ~(m <= m - 1) /\ m - 1 + 1 = m
    BY <2>3, Constants
  <2>5. There(m - 1)  BY <2>2, <2>4
  <2>6. There(m)  BY <1>2, <2>4, <2>5
  <2>. QED  BY <2>2, <2>6
<1>4. PacketLen \in 1..PacketLen  BY Constants
<1>5. There(PacketLen)  BY <1>3, <1>4
<1>6. PICK j : j = i + PacketLen - 1  OBVIOUS
<1>7. j <= Len(q) /\ q[j] = <<c, 0, PacketLen>>  BY <1>5, <1>6 DEF There
<1>8. Ends(q[j])  BY <1>0, <1>7 DEF Ends
<1>9. ASSUME i + PacketLen <= Len(q)
      PROVE  Begins(q[i + PacketLen]) \/ q[i + PacketLen][1] = Payload
  <2>1. j \in 1..(Len(q) - 1) /\ i + PacketLen = j + 1  BY <1>0, <1>6, <1>9, Constants
  <2>. QED  BY <1>8, <2>1 DEF Tokens, Follows
<1>. QED  BY <1>3, <1>5, <1>9 DEF There

\* What sending and parsing do to the content.
LEMMA ContentMore ==
  ASSUME NEW q \in Seq(Units), NEW u \in Seq(Units), NEW b \in Int, NEW n \in Nat, NEW t, NEW s,
         Content(q, b, n, t, s), b + n <= Len(q), \A i \in 1..Len(u) : u[i][1] \in Commands
  PROVE  Content(q \o u, b, n, t, s)
<1>1. PICK w, a, c : w = q \o u /\ a = Len(q) /\ c = Len(u)  OBVIOUS
<1>2. /\ a \in Nat /\ c \in Nat /\ Len(w) = a + c
      /\ \A i \in 1..a : w[i] = q[i]
      /\ \A i \in (a + 1)..(a + c) : w[i] = u[i - a]
  BY <1>1, Joined
<1>3. ASSUME NEW i \in 1..(a + c)
      PROVE  /\ i <= b - HeaderLen \/ b + n < i => w[i][1] \in Commands
             /\ b - HeaderLen < i /\ i <= b => w[i] = <<Start, t, i - b + HeaderLen>>
             /\ b < i /\ i <= b + n => w[i] = Chunk(s, i - b)
  <2>1. CASE i <= a
    <3>1. i \in 1..a  BY <1>2, <2>1
    <3>. QED  BY <1>1, <1>2, <3>1 DEF Content
  <2>2. CASE ~(i <= a)
    <3>1. PICK j : j = i - a  OBVIOUS
    <3>2. j \in 1..c /\ i \in (a + 1)..(a + c)  BY <1>2, <2>2, <3>1
    <3>3. w[i][1] \in Commands  BY <1>1, <1>2, <3>1, <3>2
    <3>4. ~(i <= b + n) /\ ~(i <= b)  BY <1>1, <1>2, <2>2
    <3>. QED  BY <3>3, <3>4
  <2>. QED  BY <2>1, <2>2
<1>. QED  BY <1>1, <1>2, <1>3 DEF Content

LEMMA ContentChunk ==
  ASSUME NEW q \in Seq(Units), NEW b \in Int, NEW n \in Nat, NEW t, NEW s, NEW u \in Seq(Units),
         Content(q, b, n, t, s), b + n = Len(q), Len(u) = 1, u[1] = Chunk(s, n + 1)
  PROVE  Content(q \o u, b, n + 1, t, s)
<1>1. PICK w, a : w = q \o u /\ a = Len(q)  OBVIOUS
<1>2. /\ a \in Nat /\ Len(u) = 1 /\ Len(w) = a + 1 /\ u[1] = Chunk(s, n + 1)
      /\ \A i \in 1..a : w[i] = q[i]
      /\ w[a + 1] = u[1]
  <2>1. Len(u) = 1 /\ u[1] = Chunk(s, n + 1)  OBVIOUS
  <2>2. /\ a \in Nat /\ Len(w) = a + 1 /\ \A i \in 1..a : w[i] = q[i]
        /\ \A i \in (a + 1)..(a + 1) : w[i] = u[i - a]
    <3>1. /\ a \in Nat /\ Len(w) = a + Len(u) /\ \A i \in 1..a : w[i] = q[i]
          /\ \A i \in (a + 1)..(a + Len(u)) : w[i] = u[i - a]
      BY <1>1, Joined
    <3>. QED  BY <2>1, <3>1
  <2>3. a \in Nat  BY <2>2
  <2>4. a + 1 \in (a + 1)..(a + 1) /\ a + 1 - a = 1  BY ONLY <2>3
  <2>5. w[a + 1] = u[a + 1 - a]  BY <2>2, <2>4
  <2>. QED  BY <2>1, <2>2, <2>4, <2>5
<1>3. ASSUME NEW i \in 1..(a + 1)
      PROVE  /\ i <= b - HeaderLen \/ b + (n + 1) < i => w[i][1] \in Commands
             /\ b - HeaderLen < i /\ i <= b => w[i] = <<Start, t, i - b + HeaderLen>>
             /\ b < i /\ i <= b + (n + 1) => w[i] = Chunk(s, i - b)
  <2>1. CASE i <= a
    <3>1. i \in 1..a /\ i <= b + n /\ ~(b + n < i)  BY <1>1, <1>2, <2>1
    <3>. QED  BY <1>1, <1>2, <3>1 DEF Content
  <2>2. CASE i = a + 1
    <3>1. i - b = n + 1 /\ b < i /\ ~(i <= b) /\ ~(i <= b - HeaderLen)
      BY <1>1, <1>2, <2>2, Constants
    <3>. QED  BY <1>2, <2>2, <3>1
  <2>. QED  BY <1>2, <2>1, <2>2
<1>. QED  BY <1>1, <1>2, <1>3 DEF Content

LEMMA ContentHeader ==
  ASSUME NEW q \in Seq(Units), NEW t \in Totals \union {0}, NEW s,
         \A i \in 1..Len(q) : q[i][1] \in Commands
  PROVE  Content(q \o Header(t), Len(q) + HeaderLen, 0, t, s)
<1>1. PICK u, w, a, b : u = Header(t) /\ w = q \o u /\ a = Len(q) /\ b = a + HeaderLen  OBVIOUS
<1>2. /\ a \in Nat /\ Len(w) = a + HeaderLen /\ \A k \in 1..HeaderLen : u[k] = <<Start, t, k>>
      /\ \A i \in 1..a : w[i] = q[i]
      /\ \A i \in (a + 1)..(a + HeaderLen) : w[i] = u[i - a]
  BY <1>1, HeaderType, Joined
<1>3. ASSUME NEW i \in 1..(a + HeaderLen)
      PROVE  /\ i <= b - HeaderLen \/ b + 0 < i => w[i][1] \in Commands
             /\ b - HeaderLen < i /\ i <= b => w[i] = <<Start, t, i - b + HeaderLen>>
             /\ b < i /\ i <= b + 0 => w[i] = Chunk(s, i - b)
  <2>0. b - HeaderLen = a /\ b \in Nat /\ b + 0 = b /\ ~(b < i)  BY <1>1, <1>2, Constants
  <2>1. CASE i <= a
    <3>1. i \in 1..a  BY <1>2, <2>1
    <3>. QED  BY <1>1, <1>2, <2>0, <3>1
  <2>2. CASE ~(i <= a)
    <3>1. a \in Nat /\ b = a + HeaderLen /\ HeaderLen \in Nat  BY <1>1, <1>2, Constants
    <3>2. i \in (a + 1)..(a + HeaderLen)  BY <2>2, <3>1
    <3>3. i - a \in 1..HeaderLen /\ i - a = i - b + HeaderLen  BY <3>1, <3>2
    <3>4. u[i - a] = <<Start, t, i - a>>  BY <1>2, <3>3
    <3>5. w[i] = <<Start, t, i - b + HeaderLen>>  BY <1>2, <3>2, <3>3, <3>4
    <3>. QED  BY <2>0, <2>2, <3>5
  <2>. QED  BY <2>1, <2>2
<1>. QED  BY <1>1, <1>2, <1>3 DEF Content

LEMMA ContentCut ==
  ASSUME NEW q \in Seq(Units), NEW m \in 0..Len(q), NEW b \in Int, NEW n \in Nat, NEW t, NEW s,
         Content(q, b, n, t, s)
  PROVE  Content(SubSeq(q, m + 1, Len(q)), b - m, n, t, s)
<1>1. PICK w, a : w = SubSeq(q, m + 1, Len(q)) /\ a = Len(q)  OBVIOUS
<1>2. /\ a \in Nat /\ m \in 0..a /\ Len(w) = a - m
      /\ \A i \in 1..(a - m) : w[i] = q[m + i]
  BY <1>1, Cuts, LenProperties
<1>3. ASSUME NEW i \in 1..(a - m)
      PROVE  /\ i <= b - m - HeaderLen \/ b - m + n < i => w[i][1] \in Commands
             /\ b - m - HeaderLen < i /\ i <= b - m => w[i] = <<Start, t, i - (b - m) + HeaderLen>>
             /\ b - m < i /\ i <= b - m + n => w[i] = Chunk(s, i - (b - m))
  <2>1. PICK j : j = m + i  OBVIOUS
  <2>2. /\ j \in 1..a /\ w[i] = q[j] /\ j - b = i - (b - m)
        /\ j - b + HeaderLen = i - (b - m) + HeaderLen
        /\ (i <= b - m - HeaderLen <=> j <= b - HeaderLen) /\ (b - m + n < i <=> b + n < j)
        /\ (b - m - HeaderLen < i <=> b - HeaderLen < j) /\ (i <= b - m <=> j <= b)
        /\ (b - m < i <=> b < j) /\ (i <= b - m + n <=> j <= b + n)
    <3>1. w[i] = q[j]  BY <1>2, <2>1
    <3>2. j \in 1..a /\ j - b = i - (b - m) /\ j - b + HeaderLen = i - (b - m) + HeaderLen
      BY <1>2, <2>1, Constants
    <3>. QED  BY <1>2, <2>1, <3>1, <3>2, Constants
  <2>. QED  BY <1>1, <2>2 DEF Content
<1>. QED  BY <1>1, <1>2, <1>3 DEF Content

\* Of a stream s of t chunks, n have been sent and d are to be sent, unless its stop was
\* answered, behind what had been sent.
Flow(q, b, n, t, s, d, k) ==
  /\ n <= t
  /\ d > 0 => d + n = t /\ b + n = Len(q)
  /\ d = 0 => t = n \/ k = s
  /\ Content(q, b, n, t, s) /\ b + n <= Len(q)
  /\ k = s => 0 <= b + n /\ b + n < Len(q) /\ q[b + n + 1] = Mark(12)

\* The flow begins with its header,
LEMMA FlowHeader ==
  ASSUME NEW q \in Seq(Units), NEW t \in Totals \union {0}, NEW s \in Nat, NEW k \in Nat, k # s,
         \A i \in 1..Len(q) : q[i][1] \in Commands
  PROVE  Flow(q \o Header(t), Len(q) + HeaderLen, 0, t, s, t, k)
<1>1. PICK w, u, b : w = q \o u /\ u = Header(t) /\ b = Len(q) + HeaderLen  OBVIOUS
<1>2. u \in Seq(Units) /\ Len(u) = HeaderLen  BY <1>1, HeaderType
<1>3. b \in Nat /\ Len(w) = b  BY <1>1, <1>2, Joined, Constants
<1>4. t \in Nat  BY Constants
<1>5. Content(w, b, 0, t, s)  BY <1>1, ContentHeader
<1>6. Flow(w, b, 0, t, s, t, k)
  <2>1. /\ 0 <= t /\ (t > 0 => t + 0 = t /\ b + 0 = Len(w)) /\ (t = 0 => t = 0 \/ k = s)
        /\ b + 0 <= Len(w)
    BY <1>3, <1>4
  <2>. QED  BY <1>5, <2>1 DEF Flow
<1>. QED  BY <1>1, <1>6

\* goes on with its chunks,
LEMMA FlowChunk ==
  ASSUME NEW q \in Seq(Units), NEW b \in Int, NEW n \in Nat, NEW t \in Nat, NEW s \in Nat,
         NEW d \in Nat, NEW k \in Nat, NEW u \in Seq(Units),
         Flow(q, b, n, t, s, d, k), d > 0, Len(u) = 1, u[1] = Chunk(s, n + 1)
  PROVE  k # s /\ Flow(q \o u, b, n + 1, t, s, d - 1, k)
<1>1. PICK w : w = q \o u  OBVIOUS
<1>2. Len(w) = Len(q) + 1 /\ Len(q) \in Nat
  <2>1. Len(w) = Len(q) + Len(u) /\ Len(q) \in Nat  BY <1>1, Joined
  <2>. QED  BY <2>1
<1>3. Content(q, b, n, t, s) /\ b + n = Len(q) /\ d + n = t /\ k # s
  <2>1. Content(q, b, n, t, s) /\ b + n = Len(q) /\ d + n = t  BY DEF Flow
  <2>2. k = s => b + n < Len(q)  BY DEF Flow
  <2>. QED  BY <1>2, <2>1, <2>2
<1>4. Content(w, b, n + 1, t, s)  BY <1>1, <1>3, ContentChunk
<1>5. /\ n + 1 <= t /\ b + (n + 1) = Len(w) /\ (d - 1) + (n + 1) = t
      /\ (d - 1 = 0 => t = n + 1) /\ b + (n + 1) <= Len(w)
  <2>1. PICK l, m : l = Len(q) /\ m = Len(w)  OBVIOUS
  <2>2. l \in Nat /\ m = l + 1 /\ b + n = l /\ d + n = t  BY <1>2, <1>3, <2>1
  <2>3. n + 1 <= t /\ b + (n + 1) = m /\ (d - 1) + (n + 1) = t /\ (d - 1 = 0 => t = n + 1)
    BY <2>2
  <2>. QED  BY <2>1, <2>2, <2>3
<1>6. Flow(w, b, n + 1, t, s, d - 1, k)  BY <1>3, <1>4, <1>5 DEF Flow
<1>. QED  BY <1>1, <1>3, <1>6

\* and ends with the last one or with the answer to the stop.
LEMMA FlowStop ==
  ASSUME NEW q \in Seq(Units), NEW b \in Int, NEW n \in Nat, NEW t \in Nat, NEW s \in Nat,
         NEW d \in Nat, NEW k \in Nat, Flow(q, b, n, t, s, d, k), d > 0
  PROVE  Flow(q \o Packet(12), b, n, t, s, 0, s)
<1>0. PICK w, u : w = q \o u /\ u = Packet(12)  OBVIOUS
<1>1. 12 \in Commands  BY DEF Commands
<1>2. /\ u \in Seq(Units) /\ Len(u) = PacketLen /\ \A i \in 1..PacketLen : u[i] = <<12, 0, i>>
  BY <1>1, <1>0, PacketType
<1>3. /\ Len(w) = Len(q) + PacketLen /\ Len(q) \in Nat
      /\ \A i \in (Len(q) + 1)..(Len(q) + PacketLen) : w[i] = u[i - Len(q)]
  BY <1>0, <1>2, Joined
<1>4. Content(q, b, n, t, s) /\ b + n = Len(q) /\ n <= t  BY DEF Flow
<1>5. \A i \in 1..Len(u) : u[i][1] \in Commands  BY <1>1, <1>2
<1>6. b + n <= Len(q)  BY <1>3, <1>4
<1>7. Content(w, b, n, t, s)  BY <1>0, <1>2, <1>4, <1>5, <1>6, ContentMore
<1>8. /\ 0 <= b + n /\ b + n < Len(w) /\ b + n <= Len(w)
      /\ b + n + 1 \in (Len(q) + 1)..(Len(q) + PacketLen) /\ b + n + 1 - Len(q) = 1
      /\ 1 \in 1..PacketLen
  <2>1. PICK c, e : c = b + n /\ e = PacketLen  OBVIOUS
  <2>2. Len(q) = c /\ Len(w) = c + e  BY <1>3, <1>4, <2>1
  <2>3. c \in Nat /\ e \in Nat /\ e > 0  BY <1>3, <2>1, <2>2, Constants
  <2>4. 0 <= c /\ c < c + e /\ c <= c + e  BY ONLY <2>3
  <2>5. c + 1 \in (c + 1)..(c + e) /\ c + 1 - c = 1 /\ 1 \in 1..e  BY ONLY <2>3
  <2>. QED  BY <2>1, <2>2, <2>4, <2>5
<1>9. w[b + n + 1] = u[1] /\ u[1] = <<12, 0, 1>>
  <2>1. PICK e : e = b + n + 1  OBVIOUS
  <2>2. w[e] = u[e - Len(q)]  BY <1>3, <1>8, <2>1
  <2>3. e - Len(q) = 1  BY <1>8, <2>1
  <2>4. u[1] = <<12, 0, 1>>  BY <1>2, <1>8
  <2>. QED  BY <2>1, <2>2, <2>3, <2>4
<1>10. w[b + n + 1] = Mark(12)  BY <1>9 DEF Mark
<1>11. Flow(w, b, n, t, s, 0, s)  BY <1>4, <1>7, <1>8, <1>10 DEF Flow
<1>. QED  BY <1>0, <1>11

\* Nothing else changes it,
LEMMA FlowMore ==
  ASSUME NEW q \in Seq(Units), NEW u \in Seq(Units), NEW b \in Int, NEW n \in Nat, NEW t \in Nat,
         NEW s \in Nat, NEW k \in Nat,
         Flow(q, b, n, t, s, 0, k), \A i \in 1..Len(u) : u[i][1] \in Commands
  PROVE  Flow(q \o u, b, n, t, s, 0, k)
<1>1. PICK w : w = q \o u  OBVIOUS
<1>2. /\ Len(w) = Len(q) + Len(u) /\ Len(q) \in Nat /\ Len(u) \in Nat
      /\ \A i \in 1..Len(q) : w[i] = q[i]
  BY <1>1, Joined
<1>3. Content(q, b, n, t, s) /\ b + n <= Len(q) /\ n <= t /\ (t = n \/ k = s)  BY DEF Flow
<1>4. Content(w, b, n, t, s)  BY <1>1, <1>3, ContentMore
<1>5. b + n <= Len(w)  BY <1>2, <1>3
<1>6. ASSUME k = s PROVE 0 <= b + n /\ b + n < Len(w) /\ w[b + n + 1] = Mark(12)
  <2>1. 0 <= b + n /\ b + n < Len(q) /\ q[b + n + 1] = Mark(12)  BY <1>6 DEF Flow
  <2>2. b + n + 1 \in 1..Len(q) /\ b + n < Len(w)  BY <1>2, <2>1
  <2>. QED  BY <1>2, <2>1, <2>2
<1>7. Flow(w, b, n, t, s, 0, k)  BY <1>3, <1>4, <1>5, <1>6 DEF Flow
<1>. QED  BY <1>1, <1>7

\* and what has been taken of it is only further back.
LEMMA FlowCut ==
  ASSUME NEW q \in Seq(Units), NEW m \in 0..Len(q), NEW b \in Int, NEW n \in Nat, NEW t \in Nat,
         NEW s \in Nat, NEW d \in Nat, NEW k \in Nat,
         Flow(q, b, n, t, s, d, k), k = s => m <= b + n
  PROVE  Flow(SubSeq(q, m + 1, Len(q)), b - m, n, t, s, d, k)
<1>1. PICK w, a : w = SubSeq(q, m + 1, Len(q)) /\ a = Len(q)  OBVIOUS
<1>2. a \in Nat /\ m \in 0..a /\ Len(w) = a - m /\ \A i \in 1..(a - m) : w[i] = q[m + i]
  BY <1>1, Cuts, LenProperties
<1>3. /\ Content(q, b, n, t, s) /\ b + n <= a /\ n <= t /\ (d = 0 => t = n \/ k = s)
      /\ (d > 0 => d + n = t /\ b + n = a)
  BY <1>1 DEF Flow
<1>4. Content(w, b - m, n, t, s)  BY <1>1, <1>3, ContentCut
<1>5. b - m + n <= a - m /\ (d > 0 => b - m + n = a - m)  BY <1>2, <1>3
<1>6. ASSUME k = s
      PROVE  0 <= b - m + n /\ b - m + n < Len(w) /\ w[b - m + n + 1] = Mark(12)
  <2>1. 0 <= b + n /\ b + n < a /\ q[b + n + 1] = Mark(12)  BY <1>1, <1>6 DEF Flow
  <2>2. m <= b + n  BY <1>6
  <2>3. PICK i : i = b - m + n + 1  OBVIOUS
  <2>4. /\ i \in 1..(a - m) /\ m + i = b + n + 1
        /\ 0 <= b - m + n /\ b - m + n < a - m
    BY <1>2, <2>1, <2>2, <2>3
  <2>5. w[i] = q[b + n + 1]  BY <1>2, <2>4
  <2>. QED  BY <1>2, <2>1, <2>3, <2>4, <2>5
<1>7. Flow(w, b - m, n, t, s, d, k)  BY <1>2, <1>3, <1>4, <1>5, <1>6 DEF Flow
<1>. QED  BY <1>1, <1>7

-----------------------------------------------------------------------------
(* What is under way from the board, and how far the session is.           *)

\* Received or not, the bytes that have not been parsed; the chunks sent of the stream that
\* was prepared last.
Incoming == rx \o wire
Chunks == IF streams = 0 THEN 0 ELSE sent[streams]

\* Nothing of the stream is under way, its header is, or it is being written to the file.
Prepared == active.on /\ active.total = 0 /\ file = <<>> /\ streams > 0
Quiet ==
  /\ ~InStream /\ due = 0
  /\ \A i \in 1..Len(Incoming) : Incoming[i][1] \in Commands
  /\ active.on => Prepared /\ Chunks = 0 /\ stopped # streams
Headed ==
  /\ Prepared
  /\ \E b \in HeaderLen..Len(Incoming), t \in Totals \union {0} :
       Flow(Incoming, b, Chunks, t, streams, due, stopped)
Streaming ==
  /\ InStream /\ streams > 0
  /\ Flow(Incoming, 0 - Len(file), Chunks, active.total, streams, due, stopped)
Phase == Quiet \/ Headed \/ Streaming

\* A stream that was prepared is started once, before anything of it is sent; only the
\* last one is sent.
NoStart == \A i \in 1..Len(commands) : commands[i] # Start
OneStart ==
  \A i, j \in 1..Len(commands) : commands[i] = Start /\ commands[j] = Start => i = j
Unserved == sender.id # 0 /\ ~sender.header
Unsent == job = "prepared" \/ ~NoStart
Once ==
  /\ Unsent \/ Unserved => Quiet /\ active.on
  /\ Unsent => sender.id # streams
  /\ job = "prepared" => NoStart
  /\ OneStart
  /\ Unserved \/ daq => sender.id = streams
  /\ daq => active.on /\ sender.id # 0
  /\ sender.id <= streams /\ stopped <= streams
  /\ \A s \in 1..MaxTurns : s > streams => sent[s] = 0

\* The receive thread knows of a stop before the board does, unless the stop is that of an
\* earlier stream.
Later(i) == \E j \in 1..Len(commands) : j > i /\ commands[j] = Start
StopsKnown ==
  \A i \in 1..Len(commands) :
    commands[i] = 12 /\ active.on => active.pending \/ job = "prepared" \/ Later(i)
Announced ==
  /\ active.on /\ (job = "stop" \/ stopped = streams) => active.pending
  /\ StopsKnown

\* The receive thread is never within a packet or header.
AtUnit ==
  /\ Incoming # <<>> =>
       \/ Begins(Incoming[1])
       \/ InStream /\ (Len(file) > Chunks \/ Incoming[1][1] = Payload)
  /\ InStream /\ ~active.pending => Len(file) <= Chunks /\ Len(file) < active.total

\* What is in the file.
Filed ==
  streams > 0 =>
    /\ \A k \in 1..Len(file) : k <= Chunks => file[k] = Chunk(streams, k)
    /\ handle = "result" => Len(file) >= Chunks
    /\ due > 0 \/ stopped = streams => Len(file) <= Chunks

Followed == Tokens(Incoming) /\ Phase /\ Once /\ Announced /\ AtUnit
Sound == ~mixed => Filed /\ reader # "lost" /\ (online => Followed)

LEMMA Sizes ==
  ASSUME Typed
  PROVE  /\ rx \in Seq(Units) /\ wire \in Seq(Units) /\ file \in Seq(Units)
         /\ Incoming \in Seq(Units) /\ Len(Incoming) = Len(rx) + Len(wire)
         /\ Len(rx) \in Nat /\ Len(wire) \in Nat /\ Len(file) \in Nat
         /\ Chunks \in Nat /\ streams \in Nat /\ due \in Nat /\ stopped \in Nat
         /\ active.total \in Totals \union {0} /\ active.total \in Nat
         /\ active.on \in BOOLEAN /\ active.pending \in BOOLEAN
         /\ \A i \in 1..Len(rx) : Incoming[i] = rx[i]
<1>1. rx \in Seq(Units) /\ wire \in Seq(Units) /\ file \in Seq(Units)  BY DEF Typed, BytesOK
<1>2. Len(rx) \in Nat /\ Len(wire) \in Nat /\ Len(file) \in Nat  BY <1>1, LenProperties
<1>3. /\ Incoming \in Seq(Units) /\ Len(Incoming) = Len(rx) + Len(wire)
      /\ \A i \in 1..Len(rx) : Incoming[i] = rx[i]
  BY <1>1, Joined DEF Incoming
<1>4. streams \in 0..MaxTurns /\ stopped \in 0..MaxTurns /\ due \in Nat
      /\ sent \in [1..MaxTurns -> 0..MaxChunks]
  BY DEF Typed, BoardOK
<1>5. streams \in Nat /\ stopped \in Nat  BY <1>4, Constants
<1>6. Chunks \in Nat
  <2>1. CASE streams = 0  BY <2>1 DEF Chunks
  <2>2. CASE streams # 0
    <3>1. streams \in 1..MaxTurns  BY <1>4, <2>2, Constants
    <3>2. sent[streams] \in 0..MaxChunks  BY <1>4, <3>1
    <3>. QED  BY <2>2, <3>2, Constants DEF Chunks
  <2>. QED  BY <2>1, <2>2
<1>7. active.total \in Totals \union {0} /\ active.on \in BOOLEAN /\ active.pending \in BOOLEAN
  BY DEF Typed, SessionOK
<1>8. active.total \in Nat  BY <1>7, Constants
<1>. QED  BY <1>1, <1>2, <1>3, <1>4, <1>5, <1>6, <1>7, <1>8

LEMMA Regrouped ==
  ASSUME NEW a \in Seq(Units), NEW b \in Seq(Units), NEW c \in Seq(Units)
  PROVE  (a \o b) \o c = a \o (b \o c)
BY ONLY ConcatAssociative

\* What is sent comes last, and what is taken comes first.
LEMMA IncomingSends ==
  ASSUME Typed, NEW u \in Seq(Units), Sends(u), UNCHANGED rx
  PROVE  Incoming' = Incoming \o u
<1>1. rx \in Seq(Units) /\ wire \in Seq(Units)  BY Sizes
<1>2. Incoming' = rx \o (wire \o u)  BY DEF Incoming, Sends
<1>3. (rx \o wire) \o u = rx \o (wire \o u)  BY <1>1, Regrouped
<1>. QED  BY <1>2, <1>3 DEF Incoming

LEMMA IncomingTakes ==
  ASSUME Typed, Typed', NEW m \in 0..Len(rx), Takes(m), UNCHANGED wire
  PROVE  /\ m \in 0..Len(Incoming)
         /\ Incoming' = SubSeq(Incoming, m + 1, Len(Incoming))
         /\ \A i \in 1..Len(Incoming)' : Incoming[m + i] = Incoming'[i]
         /\ Len(Incoming)' = Len(Incoming) - m
<1>1. PICK q, r, w, a, c, z :
        q = Incoming /\ r = rx /\ w = wire /\ a = Len(rx) /\ c = Len(wire) /\ z = rx'
  OBVIOUS
<1>2. /\ q \in Seq(Units) /\ r \in Seq(Units) /\ w \in Seq(Units) /\ a \in Nat /\ c \in Nat
      /\ Len(r) = a /\ Len(w) = c /\ Len(q) = a + c /\ q = r \o w /\ m \in 0..a
  BY <1>1, Sizes DEF Incoming
<1>3. /\ \A i \in 1..a : q[i] = r[i]
      /\ \A i \in (a + 1)..(a + c) : q[i] = w[i - a]
  BY <1>2, Joined
<1>4. /\ z = SubSeq(r, m + 1, a) /\ z \in Seq(Units) /\ Len(z) = a - m
      /\ \A i \in 1..(a - m) : z[i] = r[m + i]
  <2>1. z = SubSeq(r, m + 1, Len(r))  BY <1>1 DEF Takes
  <2>2. m \in 0..Len(r)  BY <1>2
  <2>. QED  BY <1>2, <2>1, <2>2, Cuts
<1>5. PICK y : y = z \o w  OBVIOUS
<1>6. PICK e : e = a - m  OBVIOUS
<1>7. /\ y \in Seq(Units) /\ Len(y) = e + c /\ e \in Nat
      /\ \A i \in 1..e : y[i] = z[i]
      /\ \A i \in (e + 1)..(e + c) : y[i] = w[i - e]
  <2>1. Len(z) = e /\ e \in Nat  BY <1>2, <1>4, <1>6
  <2>2. /\ y \in Seq(Units) /\ Len(y) = Len(z) + Len(w)
        /\ \A i \in 1..Len(z) : y[i] = z[i]
        /\ \A i \in (Len(z) + 1)..(Len(z) + Len(w)) : y[i] = w[i - Len(z)]
    <3>1. z \in Seq(Units) /\ w \in Seq(Units)  BY <1>2, <1>4
    <3>. QED  BY <1>5, <3>1, Joined
  <2>3. Len(w) = c  BY <1>2
  <2>. QED  BY <2>1, <2>2, <2>3
<1>8. ASSUME NEW i \in 1..(e + c) PROVE y[i] = q[m + i]
  <2>0. PICK j : j = m + i  OBVIOUS
  <2>1. CASE i <= e
    <3>1. i \in 1..e /\ j \in 1..a  BY <1>2, <1>6, <1>7, <2>0, <2>1
    <3>2. y[i] = z[i]  BY <1>7, <3>1
    <3>3. z[i] = r[j]  BY <1>4, <1>6, <2>0, <3>1
    <3>. QED  BY <1>3, <2>0, <3>1, <3>2, <3>3
  <2>2. CASE ~(i <= e)
    <3>1. i \in (e + 1)..(e + c) /\ j \in (a + 1)..(a + c) /\ j - a = i - e
      <4>1. a \in Nat /\ c \in Nat /\ e \in Nat /\ m \in Nat /\ a = e + m
        BY <1>2, <1>6, <1>7
      <4>2. i \in (e + 1)..(e + c)  BY <2>2, <4>1
      <4>. QED  BY ONLY <2>0, <4>1, <4>2
    <3>2. y[i] = w[i - e]  BY <1>7, <3>1
    <3>3. q[j] = w[j - a]  BY <1>3, <3>1
    <3>. QED  BY <2>0, <3>1, <3>2, <3>3
  <2>. QED  BY <2>1, <2>2
<1>9. PICK x : x = SubSeq(q, m + 1, Len(q))  OBVIOUS
<1>10. /\ x \in Seq(Units) /\ Len(x) = e + c
       /\ \A i \in 1..(e + c) : x[i] = q[m + i]
  <2>1. m \in 0..Len(q) /\ Len(q) - m = e + c  BY <1>2, <1>6, <1>7
  <2>2. q \in Seq(Units)  BY <1>2
  <2>3. /\ x \in Seq(Units) /\ Len(x) = Len(q) - m
        /\ \A i \in 1..(Len(q) - m) : x[i] = q[m + i]
    BY <1>9, <2>1, <2>2, Cuts
  <2>. QED  BY <2>1, <2>3
<1>11. x = y
  <2>1. \A i \in 1..Len(x) : x[i] = y[i]  BY <1>8, <1>10
  <2>. QED  BY <1>10, <1>7, <2>1, SeqEqual
<1>12. Incoming' = y  BY <1>1, <1>5 DEF Incoming
<1>13. m \in 0..Len(q) /\ e + c = Len(q) - m  BY <1>2, <1>6, <1>7
<1>14. \A i \in 1..Len(y) : q[m + i] = y[i]  BY <1>8, <1>7
<1>. QED  BY <1>1, <1>9, <1>11, <1>12, <1>13, <1>7, <1>14

LEMMA IncomingRecv ==
  ASSUME Typed, Recv
  PROVE  Incoming' = Incoming
<1>1. PICK n \in 1..Len(wire) :
        rx' = rx \o SubSeq(wire, 1, n) /\ wire' = SubSeq(wire, n + 1, Len(wire))
  BY DEF Recv
<1>2. PICK h, t : h = SubSeq(wire, 1, n) /\ t = SubSeq(wire, n + 1, Len(wire))  OBVIOUS
<1>3. rx \in Seq(Units) /\ wire \in Seq(Units) /\ n \in 0..Len(wire)  BY Sizes
<1>4. h \in Seq(Units) /\ t \in Seq(Units) /\ wire = h \o t  BY <1>2, <1>3, Cuts
<1>5. Incoming' = (rx \o h) \o t  BY <1>1, <1>2 DEF Incoming
<1>6. (rx \o h) \o t = rx \o (h \o t)
  <2>1. rx \in Seq(Units) /\ h \in Seq(Units) /\ t \in Seq(Units)  BY <1>3, <1>4
  <2>. QED  BY ONLY <2>1, Regrouped
<1>. QED  BY <1>4, <1>5, <1>6 DEF Incoming

-----------------------------------------------------------------------------
(* The phase of a session.                                                 *)

\* While a stream is under way, it is the active one.
LEMMA InFlow ==
  ASSUME Typed, Phase, ~Quiet
  PROVE  /\ active.on /\ streams > 0
         /\ \E b \in Int, t \in Nat : Flow(Incoming, b, Chunks, t, streams, due, stopped)
<1>1. CASE Headed
  <2>1. PICK b \in HeaderLen..Len(Incoming), t \in Totals \union {0} :
          Flow(Incoming, b, Chunks, t, streams, due, stopped)
    BY <1>1 DEF Headed
  <2>2. b \in Int /\ t \in Nat  BY Constants
  <2>. QED  BY <1>1, <2>1, <2>2 DEF Headed, Prepared
<1>2. CASE Streaming
  <2>1. 0 - Len(file) \in Int /\ active.total \in Nat  BY Sizes
  <2>. QED  BY <1>2, <2>1 DEF Streaming, InStream
<1>. QED  BY <1>1, <1>2 DEF Phase

\* A step that changes nothing of it.
LEMMA PhaseKept ==
  ASSUME Phase, Incoming' = Incoming, UNCHANGED <<file, streams, sent, due, stopped>>,
         active'.on = active.on, active'.total = active.total
  PROVE  Phase' /\ (Quiet <=> Quiet') /\ Chunks' = Chunks
<1>1. Chunks' = Chunks  BY DEF Chunks
<1>2. (InStream <=> InStream') /\ (Prepared <=> Prepared')  BY DEF InStream, Prepared
<1>3. Quiet <=> Quiet'  BY <1>1, <1>2 DEF Quiet
<1>4. Headed => Headed'  BY <1>1, <1>2 DEF Headed
<1>5. Streaming => Streaming'  BY <1>1, <1>2 DEF Streaming
<1>. QED  BY <1>1, <1>3, <1>4, <1>5 DEF Phase

\* Packets that are sent while no payload is due.
LEMMA PhaseSends ==
  ASSUME Typed, Phase, due = 0, NEW u \in Seq(Units), Incoming' = Incoming \o u,
         \A i \in 1..Len(u) : u[i][1] \in Commands,
         UNCHANGED <<active, file, streams, sent, due, stopped>>
  PROVE  Phase' /\ (Quiet => Quiet') /\ Chunks' = Chunks
<1>1. Chunks' = Chunks /\ Chunks \in Nat  BY Sizes DEF Chunks
<1>2. (InStream <=> InStream') /\ (Prepared <=> Prepared')  BY DEF InStream, Prepared
<1>3. PICK q, w, a, c : q = Incoming /\ w = Incoming' /\ a = Len(q) /\ c = Len(u)  OBVIOUS
<1>4. /\ q \in Seq(Units) /\ w = q \o u /\ a \in Nat /\ c \in Nat /\ Len(w) = a + c
      /\ \A i \in 1..a : w[i] = q[i]
      /\ \A i \in (a + 1)..(a + c) : w[i] = u[i - a]
  BY <1>3, Sizes, Joined
<1>5. CASE Quiet
  <2>1. \A i \in 1..a : q[i][1] \in Commands  BY <1>3, <1>5 DEF Quiet
  <2>2. ASSUME NEW i \in 1..(a + c) PROVE w[i][1] \in Commands
    <3>1. CASE i <= a
      <4>1. i \in 1..a  BY <1>4, <3>1
      <4>. QED  BY <1>4, <2>1, <4>1
    <3>2. CASE ~(i <= a)
      <4>1. i \in (a + 1)..(a + c) /\ i - a \in 1..c  BY <1>4, <3>2
      <4>. QED  BY <1>3, <1>4, <4>1
    <3>. QED  BY <3>1, <3>2
  <2>3. \A i \in 1..Len(Incoming)' : Incoming'[i][1] \in Commands  BY <1>3, <1>4, <2>2
  <2>4. Quiet'  BY <1>1, <1>2, <1>5, <2>3 DEF Quiet
  <2>. QED  BY <1>1, <2>4 DEF Phase
<1>6. ASSUME NEW b \in Int, NEW t \in Nat, Flow(q, b, Chunks, t, streams, due, stopped)
      PROVE  Flow(w, b, Chunks', t, streams', due', stopped')
  <2>1. PICK n, s, k : n = Chunks /\ s = streams /\ k = stopped  OBVIOUS
  <2>2. n \in Nat /\ s \in Nat /\ k \in Nat  BY <2>1, Sizes
  <2>3. Flow(q, b, n, t, s, 0, k)  BY <1>6, <2>1
  <2>4. Flow(q \o u, b, n, t, s, 0, k)  BY <1>3, <1>4, <2>2, <2>3, FlowMore
  <2>. QED  BY <1>1, <1>4, <2>1, <2>4
<1>7. CASE ~Quiet /\ Headed
  <2>1. PICK b \in HeaderLen..a, t \in Totals \union {0} :
          Flow(q, b, Chunks, t, streams, due, stopped)
    BY <1>3, <1>7 DEF Headed
  <2>2. b \in Int /\ t \in Nat /\ b \in HeaderLen..(a + c)  BY <1>4, Constants
  <2>3. Flow(w, b, Chunks', t, streams', due', stopped')  BY <1>6, <2>1, <2>2
  <2>4. Headed'  BY <1>2, <1>3, <1>4, <1>7, <2>2, <2>3 DEF Headed
  <2>. QED  BY <1>1, <1>7, <2>4 DEF Phase
<1>8. CASE ~Quiet /\ Streaming
  <2>1. 0 - Len(file) \in Int /\ active.total \in Nat  BY Sizes
  <2>2. Flow(q, 0 - Len(file), Chunks, active.total, streams, due, stopped)
    BY <1>3, <1>8 DEF Streaming
  <2>3. Flow(w, 0 - Len(file), Chunks', active.total, streams', due', stopped')
    BY <1>6, <2>1, <2>2
  <2>4. Streaming'  BY <1>2, <1>3, <1>8, <2>3 DEF Streaming
  <2>. QED  BY <1>1, <1>8, <2>4 DEF Phase
<1>. QED  BY <1>5, <1>7, <1>8 DEF Phase

\* What is sent is found where the receive thread looks for it.
LEMMA AtUnitSends ==
  ASSUME Typed, Typed', AtUnit, NEW u \in Seq(Units), u # <<>>, Incoming' = Incoming \o u,
         Begins(u[1]) \/ (u[1][1] = Payload /\ (Incoming # <<>> \/ InStream)),
         UNCHANGED <<active, file>>,
         Chunks' = Chunks \/ (Len(file) <= Chunks /\ Chunks' = Chunks + 1)
  PROVE  AtUnit'
<1>1. InStream' <=> InStream  BY DEF InStream
<1>2. Len(file) \in Nat /\ Chunks \in Nat /\ Chunks' \in Nat /\ active.total \in Nat  BY Sizes
<1>3. PICK q, w, a, c : q = Incoming /\ w = Incoming' /\ a = Len(q) /\ c = Len(u)  OBVIOUS
<1>4. /\ q \in Seq(Units) /\ w = q \o u /\ a \in Nat /\ c \in Nat
      /\ \A i \in 1..a : w[i] = q[i]
      /\ \A i \in (a + 1)..(a + c) : w[i] = u[i - a]
  BY <1>3, Sizes, Joined
<1>5. c > 0 /\ (q # <<>> => a > 0)  BY <1>3, <1>4, EmptySeq
<1>6. \/ Begins(w[1])
      \/ InStream /\ (Len(file) > Chunks' \/ w[1][1] = Payload)
  <2>1. CASE q # <<>>
    <3>1. 1 \in 1..a  BY <1>4, <1>5, <2>1
    <3>2. w[1] = q[1]  BY <1>4, <3>1
    <3>3. Begins(q[1]) \/ (InStream /\ (Len(file) > Chunks \/ q[1][1] = Payload))
      BY <1>3, <2>1 DEF AtUnit
    <3>4. Len(file) > Chunks => Len(file) > Chunks'  BY <1>2
    <3>. QED  BY <3>2, <3>3, <3>4
  <2>2. CASE q = <<>>
    <3>1. a = 0 /\ 1 \in (a + 1)..(a + c) /\ 1 - a = 1  BY <1>3, <1>4, <1>5, <2>2, EmptySeq
    <3>2. w[1] = u[1]  BY <1>4, <3>1
    <3>. QED  BY <1>3, <2>2, <3>2
  <2>. QED  BY <2>1, <2>2
<1>7. InStream /\ ~active.pending => Len(file) <= Chunks' /\ Len(file) < active.total
  BY <1>2 DEF AtUnit
<1>. QED  BY <1>1, <1>3, <1>6, <1>7 DEF AtUnit

LEMMA AtUnitKept ==
  ASSUME AtUnit, Incoming' = Incoming, Chunks' = Chunks, UNCHANGED file,
         active'.on = active.on, active'.total = active.total,
         InStream /\ active.pending => active'.pending
  PROVE  AtUnit'
<1>1. InStream' <=> InStream  BY DEF InStream
<1>. QED  BY <1>1 DEF AtUnit

LEMMA FiledKept ==
  ASSUME Filed, UNCHANGED <<file, streams>>, Chunks' = Chunks,
         streams > 0 /\ handle' = "result" => handle = "result",
         streams > 0 /\ (due' > 0 \/ stopped' = streams) =>
           due > 0 \/ stopped = streams \/ Len(file) <= Chunks
  PROVE  Filed'
BY DEF Filed

LEMMA OnceKept ==
  ASSUME Once, Quiet => Quiet', active'.on = active.on,
         UNCHANGED <<sender, daq, streams, stopped, sent>>, Unsent' => Unsent,
         job' = "prepared" => NoStart', OneStart'
  PROVE  Once'
<1>1. Unserved' <=> Unserved  BY DEF Unserved
<1>. QED  BY <1>1 DEF Once

\* A command that is sent comes last.
LEMMA QueueSend ==
  ASSUME CommandsOK, NEW c \in Commands \union {Start}, SendCommand(c)
  PROVE  /\ c # Start => (NoStart' <=> NoStart) /\ (OneStart => OneStart')
         /\ NoStart => OneStart'
         /\ \A i \in 1..Len(commands)' : commands'[i] = 12 =>
              \/ c = 12
              \/ /\ i \in 1..Len(commands) /\ commands[i] = 12
                 /\ (c = Start \/ Later(i)) => Later(i)'
<1>1. PICK q, w, a : q = commands /\ w = commands' /\ a = Len(commands)  OBVIOUS
<1>2. /\ a \in Nat /\ Len(w) = a + 1 /\ w[a + 1] = c /\ \A i \in 1..a : w[i] = q[i]
  BY <1>1, AppendProperties, LenProperties DEF CommandsOK, SendCommand
<1>3. /\ \A i \in 1..(a + 1) : i \in 1..a \/ i = a + 1
      /\ \A i \in 1..a : i \in 1..(a + 1) /\ a + 1 > i
      /\ a + 1 \in 1..(a + 1)
  BY <1>2
<1>4. 12 # Start  BY DEF Start
<1>5. c # Start => (NoStart' <=> NoStart)  BY <1>1, <1>2, <1>3 DEF NoStart
<1>6. c # Start /\ OneStart => OneStart'  BY <1>1, <1>2, <1>3 DEF OneStart
<1>7. NoStart => OneStart'  BY <1>1, <1>2, <1>3 DEF OneStart, NoStart
<1>8. ASSUME NEW i \in 1..(a + 1), w[i] = 12, c # 12
      PROVE  /\ i \in 1..a /\ q[i] = 12
             /\ (c = Start \/ Later(i)) => Later(i)'
  <2>1. i \in 1..a /\ q[i] = 12  BY <1>2, <1>3, <1>8
  <2>2. c = Start => Later(i)'  BY <1>1, <1>2, <1>3, <2>1 DEF Later
  <2>3. Later(i) => Later(i)'  BY <1>1, <1>2, <1>3, <2>1 DEF Later
  <2>. QED  BY <2>1, <2>2, <2>3
<1>. QED  BY <1>1, <1>2, <1>5, <1>6, <1>7, <1>8

LEMMA QueueTail ==
  ASSUME CommandsOK, commands # <<>>, commands' = Tail(commands)
  PROVE  /\ Head(commands) = commands[1] /\ Head(commands) \in Commands \union {Start}
         /\ 1 \in 1..Len(commands)
         /\ NoStart => NoStart'
         /\ OneStart => OneStart' /\ (Head(commands) = Start => NoStart')
         /\ \A i \in 1..Len(commands)' :
              /\ i + 1 \in 1..Len(commands) /\ commands'[i] = commands[i + 1]
              /\ Later(i + 1) => Later(i)'
<1>1. PICK q, w, a : q = commands /\ w = commands' /\ a = Len(commands)  OBVIOUS
<1>2. /\ a \in Nat /\ a > 0 /\ Len(w) = a - 1 /\ \A i \in 1..(a - 1) : w[i] = q[i + 1]
      /\ Head(q) = q[1] /\ Head(q) \in Commands \union {Start}
  BY <1>1, HeadTailProperties, LenProperties, EmptySeq DEF CommandsOK
<1>3. /\ 1 \in 1..a
      /\ \A i \in 1..(a - 1) : i + 1 \in 1..a /\ 1 # i + 1
  BY <1>2
<1>4. NoStart => NoStart'  BY <1>1, <1>2, <1>3 DEF NoStart
<1>5. ASSUME OneStart PROVE OneStart' /\ (Head(commands) = Start => NoStart')
  <2>1. ASSUME NEW i \in 1..(a - 1), NEW j \in 1..(a - 1), w[i] = Start, w[j] = Start PROVE i = j
    <3>1. i + 1 = j + 1  BY <1>1, <1>2, <1>3, <1>5, <2>1 DEF OneStart
    <3>. QED  BY <3>1
  <2>2. ASSUME NEW i \in 1..(a - 1), w[i] = Start, q[1] = Start PROVE FALSE
    BY <1>1, <1>2, <1>3, <1>5, <2>2 DEF OneStart
  <2>3. OneStart'  BY <1>1, <1>2, <2>1 DEF OneStart
  <2>. QED  BY <1>1, <1>2, <2>2, <2>3 DEF NoStart
<1>6. ASSUME NEW i \in 1..(a - 1), Later(i + 1) PROVE Later(i)'
  <2>1. PICK j \in 1..a : j > i + 1 /\ q[j] = Start  BY <1>1, <1>6 DEF Later
  <2>2. PICK m : m = j - 1  OBVIOUS
  <2>3. m \in 1..(a - 1) /\ m > i /\ m + 1 = j  BY <1>2, <2>1, <2>2
  <2>4. w[m] = Start  BY <1>2, <2>1, <2>3
  <2>. QED  BY <1>1, <1>2, <2>3, <2>4 DEF Later
<1>. QED  BY <1>1, <1>2, <1>3, <1>4, <1>5, <1>6

-----------------------------------------------------------------------------
(* The threads that call.                                                  *)

\* A step of theirs that leaves the stream alone, and sends at most a command: the stop
\* only when it was made known.
LEMMA SoundCall ==
  ASSUME Typed, Typed', Filed, Followed,
         UNCHANGED <<rx, wire, file, handle, streams, sent, due, stopped, sender, daq, active>>,
         job' = job \/ (job # "prepared" /\ job' \notin {"prepared", "stop"}),
         \/ UNCHANGED commands
         \/ \E c \in Commands : SendCommand(c) /\ (c = 12 => job = "stop" /\ job' # "prepared")
  PROVE  Filed' /\ Followed'
<1>1. Incoming' = Incoming  BY DEF Incoming
<1>2. Phase' /\ (Quiet <=> Quiet') /\ Chunks' = Chunks  BY <1>1, PhaseKept DEF Followed
<1>3. Tokens(Incoming)'  BY <1>1 DEF Followed, Tokens
<1>4. AtUnit'  BY <1>1, <1>2, AtUnitKept DEF Followed
<1>5. Filed'  BY <1>2, FiledKept
<1>6. /\ (NoStart' <=> NoStart) /\ OneStart'
      /\ \A i \in 1..Len(commands)' : commands'[i] = 12 =>
           \/ job = "stop" /\ job' # "prepared"
           \/ i \in 1..Len(commands) /\ commands[i] = 12 /\ (Later(i) => Later(i)')
  <2>0. OneStart /\ CommandsOK  BY DEF Followed, Once, Typed
  <2>1. CASE UNCHANGED commands
    <3>1. (NoStart' <=> NoStart) /\ OneStart'  BY <2>0, <2>1 DEF NoStart, OneStart
    <3>2. \A i : Later(i) => Later(i)'  BY <2>1 DEF Later
    <3>. QED  BY <2>1, <3>1, <3>2
  <2>2. ASSUME NEW c \in Commands, SendCommand(c),
               c = 12 => job = "stop" /\ job' # "prepared"
        PROVE  /\ (NoStart' <=> NoStart) /\ OneStart'
               /\ \A i \in 1..Len(commands)' : commands'[i] = 12 =>
                    \/ job = "stop" /\ job' # "prepared"
                    \/ i \in 1..Len(commands) /\ commands[i] = 12 /\ (Later(i) => Later(i)')
    <3>1. c \in Commands \union {Start} /\ c # Start  BY DEF Commands, Start
    <3>. QED  BY <2>0, <2>2, <3>1, QueueSend
  <2>. QED  BY <2>1, <2>2
<1>7. Once'
  <2>1. Unsent' => Unsent  BY <1>6 DEF Unsent
  <2>2. job' = "prepared" => NoStart'  BY <1>6 DEF Followed, Once
  <2>. QED  BY <1>2, <1>6, <2>1, <2>2, OnceKept DEF Followed
<1>8. Announced'
  <2>1. ASSUME active.on, job' = "stop" \/ stopped = streams PROVE active.pending
    BY <2>1 DEF Followed, Announced
  <2>2. ASSUME NEW i \in 1..Len(commands)', commands'[i] = 12, active.on
        PROVE  active.pending \/ job' = "prepared" \/ Later(i)'
    <3>1. CASE job = "stop"  BY <2>2, <3>1 DEF Followed, Announced
    <3>2. CASE job # "stop"
      <4>1. i \in 1..Len(commands) /\ commands[i] = 12 /\ (Later(i) => Later(i)')
        BY <1>6, <2>2, <3>2
      <4>2. active.pending \/ job = "prepared" \/ Later(i)
        BY <2>2, <4>1 DEF Followed, Announced, StopsKnown
      <4>. QED  BY <4>1, <4>2
    <3>. QED  BY <3>1, <3>2
  <2>3. StopsKnown'  BY <2>2 DEF StopsKnown
  <2>. QED  BY <2>1, <2>3 DEF Announced
<1>. QED  BY <1>2, <1>3, <1>4, <1>5, <1>7, <1>8 DEF Followed

LEMMA SoundPrepare ==
  ASSUME Typed, Typed', Filed, Followed, ~active.on, Job("tracked", "prepared"),
         active' = [NoStream EXCEPT !.on = TRUE], handle' = "open", file' = <<>>,
         streams' = streams + 1,
         UNCHANGED <<rx, wire, commands, sent, due, stopped, sender, daq>>
  PROVE  Filed' /\ Followed'
<1>1. Incoming' = Incoming  BY DEF Incoming
<1>2. Tokens(Incoming)'  BY <1>1 DEF Followed, Tokens
<1>3. active'.on /\ active'.total = 0 /\ ~active'.pending  BY DEF NoStream
<1>4. Quiet
  BY DEF Followed, Phase, Headed, Streaming, Prepared, InStream
<1>5. /\ streams \in Nat /\ streams' \in 1..MaxTurns /\ stopped <= streams /\ sender.id <= streams
      /\ stopped \in Nat /\ sender.id \in Nat
  <2>1. streams \in Nat /\ stopped \in Nat /\ streams' \in 0..MaxTurns /\ sender.id \in 0..MaxTurns
    BY Sizes DEF Typed, BoardOK
  <2>. QED  BY <2>1, Constants DEF Followed, Once
<1>6. /\ streams' > streams /\ streams' > 0 /\ stopped # streams' /\ sender.id # streams'
      /\ sender.id <= streams' /\ stopped <= streams'
      /\ \A s \in 1..MaxTurns : s > streams' => s > streams
  BY <1>5, Constants
<1>7. Chunks' = 0
  <2>1. sent[streams'] = 0  BY <1>5, <1>6 DEF Followed, Once
  <2>. QED  BY <1>6, <2>1 DEF Chunks
<1>8. Quiet'
  <2>1. ~InStream' /\ Prepared'  BY <1>3, <1>6 DEF InStream, Prepared
  <2>2. due = 0 /\ \A i \in 1..Len(Incoming) : Incoming[i][1] \in Commands  BY <1>4 DEF Quiet
  <2>. QED  BY <1>1, <1>6, <1>7, <2>1, <2>2 DEF Quiet
<1>9. NoStart /\ ~Unserved /\ ~daq /\ OneStart
  BY DEF Followed, Once, Unsent
<1>10. Once'
  <2>1. NoStart' /\ OneStart' /\ ~Unserved' /\ ~daq'
    BY <1>9 DEF NoStart, OneStart, Unserved
  <2>2. \A s \in 1..MaxTurns : s > streams' => sent'[s] = 0  BY <1>6 DEF Followed, Once
  <2>. QED  BY <1>3, <1>6, <1>8, <2>1, <2>2 DEF Once
<1>11. Announced'
  <2>1. job' = "prepared"  BY DEF Job
  <2>. QED  BY <1>6, <2>1 DEF Announced, StopsKnown
<1>12. AtUnit'
  <2>1. ~InStream /\ ~InStream'  BY <1>3, <1>4 DEF InStream, Quiet
  <2>. QED  BY <1>1, <2>1 DEF Followed, AtUnit
<1>13. Filed'
  <2>1. Len(file') = 0  OBVIOUS
  <2>. QED  BY <1>7, <2>1 DEF Filed
<1>. QED  BY <1>2, <1>8, <1>10, <1>11, <1>12, <1>13 DEF Followed, Phase

LEMMA SoundStart ==
  ASSUME Typed, Typed', Filed, Followed, Job("prepared", "running"), SendCommand(Start),
         UNCHANGED <<rx, wire, file, handle, streams, sent, due, stopped, sender, daq, active>>
  PROVE  Filed' /\ Followed'
<1>1. Incoming' = Incoming  BY DEF Incoming
<1>2. Phase' /\ (Quiet <=> Quiet') /\ Chunks' = Chunks  BY <1>1, PhaseKept DEF Followed
<1>3. Tokens(Incoming)'  BY <1>1 DEF Followed, Tokens
<1>4. AtUnit'  BY <1>1, <1>2, AtUnitKept DEF Followed
<1>5. Filed'  BY <1>2, FiledKept
<1>6. job = "prepared" /\ job' = "running" /\ NoStart  BY DEF Job, Followed, Once
<1>7. /\ OneStart'
      /\ \A i \in 1..Len(commands)' : commands'[i] = 12 => Later(i)'
  <2>1. CommandsOK /\ Start \in Commands \union {Start} /\ Start # 12  BY DEF Typed, Start
  <2>. QED  BY <1>6, <2>1, QueueSend
<1>8. Once'
  <2>1. Unsent' => Unsent  BY <1>6 DEF Unsent
  <2>. QED  BY <1>2, <1>6, <1>7, <2>1, OnceKept DEF Followed
<1>9. Announced'
  <2>1. active.on /\ stopped = streams => active.pending  BY DEF Followed, Announced
  <2>. QED  BY <1>6, <1>7, <2>1 DEF Announced, StopsKnown
<1>. QED  BY <1>2, <1>3, <1>4, <1>5, <1>8, <1>9 DEF Followed

LEMMA SoundStopDaq ==
  ASSUME Typed, Typed', Filed, Followed, StopDaq
  PROVE  Filed' /\ Followed'
<1>0. /\ UNCHANGED <<handle, file, rx, commands, wire, daq, sender, streams, sent, due, stopped>>
      /\ job = "running" /\ job' = "stop"
  BY DEF StopDaq, Job, input, board, past
<1>1. Incoming' = Incoming  BY <1>0 DEF Incoming
<1>2. active'.on = active.on /\ active'.total = active.total /\ active'.pending = active.on
  BY DEF StopDaq, Typed, SessionOK
<1>3. Phase' /\ (Quiet <=> Quiet') /\ Chunks' = Chunks  BY <1>0, <1>1, <1>2, PhaseKept DEF Followed
<1>4. Tokens(Incoming)'  BY <1>1 DEF Followed, Tokens
<1>5. AtUnit'
  <2>1. InStream => active'.pending  BY <1>2 DEF InStream
  <2>. QED  BY <1>0, <1>1, <1>2, <1>3, <2>1, AtUnitKept DEF Followed
<1>6. Filed'  BY <1>0, <1>3, FiledKept
<1>7. Once'
  <2>1. (NoStart' <=> NoStart) /\ (OneStart' <=> OneStart)  BY <1>0 DEF NoStart, OneStart
  <2>2. Unsent' => Unsent  BY <1>0, <2>1 DEF Unsent
  <2>3. job' # "prepared" /\ OneStart'  BY <1>0, <2>1 DEF Followed, Once
  <2>. QED  BY <1>0, <1>2, <1>3, <2>2, <2>3, OnceKept DEF Followed
<1>8. Announced'  BY <1>2 DEF Announced, StopsKnown
<1>. QED  BY <1>3, <1>4, <1>5, <1>6, <1>7, <1>8 DEF Followed

LEMMA SoundCaller ==
  ASSUME Typed, Typed', Filed, Followed, Caller
  PROVE  Filed' /\ Followed' /\ UNCHANGED <<reader, mixed>>
<1>. DEFINE Alone == UNCHANGED <<rx, wire, file, handle, streams, sent, due, stopped, sender, daq,
                                 active>>
            Moves == job' = job \/ (job # "prepared" /\ job' \notin {"prepared", "stop"})
            Sending == \/ UNCHANGED commands
                       \/ \E c \in Commands :
                            SendCommand(c) /\ (c = 12 => job = "stop" /\ job' # "prepared")
<1>0. 0 \in Commands /\ 10 \in Commands /\ 12 \in Commands /\ 99 \in Commands  BY DEF Commands
<1>. USE DEF calls, session, input, board, past, Job
<1>1. CASE KeepJob \/ StopAck \/ JobStatus
  <2>1. Alone /\ Moves /\ UNCHANGED commands /\ UNCHANGED <<reader, mixed>>
    BY <1>1 DEF KeepJob, StopAck, JobStatus
  <2>. QED  BY <2>1, SoundCall
<1>2. CASE PollTest \/ PollWait
  <2>1. Alone /\ Moves /\ UNCHANGED commands /\ UNCHANGED <<reader, mixed>>
    BY <1>2 DEF PollTest, PollWait
  <2>. QED  BY <2>1, SoundCall
<1>3. CASE PrepareStream
  <2>1. UNCHANGED <<reader, mixed>>  BY <1>3 DEF PrepareStream
  <2>2. CASE /\ ~active.on /\ Job("tracked", "prepared")
             /\ active' = [NoStream EXCEPT !.on = TRUE]
             /\ handle' = "open" /\ file' = <<>> /\ streams' = streams + 1
    <3>1. UNCHANGED <<rx, wire, commands, sent, due, stopped, sender, daq>>
      BY <1>3 DEF PrepareStream
    <3>. QED  BY <2>1, <2>2, <3>1, SoundPrepare
  <2>3. CASE /\ active.on /\ Job("tracked", "idle")
             /\ UNCHANGED <<active, handle, file, streams>>
    <3>1. Alone /\ Moves /\ UNCHANGED commands  BY <1>3, <2>3 DEF PrepareStream
    <3>. QED  BY <2>1, <3>1, SoundCall
  <2>. QED  BY <1>3, <2>2, <2>3 DEF PrepareStream
<1>4. CASE SendStart
  <2>1. Alone /\ UNCHANGED <<reader, mixed>> /\ Job("prepared", "running") /\ SendCommand(Start)
    BY <1>4 DEF SendStart
  <2>. QED  BY <2>1, SoundStart
<1>5. CASE StopDaq
  <2>1. UNCHANGED <<reader, mixed>>  BY <1>5 DEF StopDaq
  <2>. QED  BY <1>5, <2>1, SoundStopDaq
<1>6. CASE SendStop
  <2>1. Alone /\ Moves /\ UNCHANGED <<reader, mixed>>  BY <1>6 DEF SendStop
  <2>2. Sending  BY <1>0, <1>6 DEF SendStop
  <2>. QED  BY <2>1, <2>2, SoundCall
<1>7. CASE HandleWait
  <2>1. Alone /\ Moves /\ UNCHANGED <<reader, mixed>>  BY <1>7 DEF HandleWait
  <2>2. Sending  BY <1>0, <1>7 DEF HandleWait
  <2>. QED  BY <2>1, <2>2, SoundCall
<1>8. CASE PollSend
  <2>1. Alone /\ Moves /\ UNCHANGED <<reader, mixed>>  BY <1>8 DEF PollSend
  <2>2. Polled \in {0, 10, 99}
    <3>1. poll \in 0..6 /\ poll % 2 = 1  BY <1>8 DEF PollSend, Typed, CallsOK
    <3>2. (poll + 1) \div 2 \in {1, 2, 3}  BY <3>1
    <3>. QED  BY <3>2 DEF Polled, PollCommands
  <2>3. SendCommand(Polled)  BY <1>8 DEF PollSend
  <2>4. Sending  BY <1>0, <2>2, <2>3
  <2>. QED  BY <2>1, <2>4, SoundCall
<1>. QED  BY <1>1, <1>2, <1>3, <1>4, <1>5, <1>6, <1>7, <1>8 DEF Caller

-----------------------------------------------------------------------------
(* The board.                                                              *)

\* A packet that is sent while no payload is due.
LEMMA PacketSent ==
  ASSUME Typed, Typed', Filed, Followed, due = 0, NEW c \in Commands, Sends(Packet(c)),
         UNCHANGED <<rx, active, file, handle, streams, sent, due, stopped>>
  PROVE  /\ Filed' /\ Tokens(Incoming)' /\ Phase' /\ AtUnit'
         /\ (Quiet => Quiet')
<1>1. PICK u : u = Packet(c)  OBVIOUS
<1>2. /\ u \in Seq(Units) /\ Len(u) = PacketLen /\ \A i \in 1..PacketLen : u[i] = <<c, 0, i>>
      /\ Tokens(u) /\ Begins(u[1]) /\ u # <<>>
  BY <1>1, PacketType, TokensSent
<1>3. Incoming' = Incoming \o u /\ Incoming \in Seq(Units)  BY <1>1, <1>2, IncomingSends, Sizes
<1>4. \A i \in 1..Len(u) : u[i][1] \in Commands  BY <1>2
<1>5. Phase' /\ (Quiet => Quiet') /\ Chunks' = Chunks
  BY <1>2, <1>3, <1>4, PhaseSends DEF Followed
<1>6. Tokens(Incoming \o u)  BY <1>2, <1>3, TokensJoined DEF Followed
<1>7. Tokens(Incoming)'  BY <1>3, <1>6 DEF Tokens
<1>8. AtUnit'  BY <1>2, <1>3, <1>5, AtUnitSends DEF Followed
<1>9. Filed'  BY <1>5, FiledKept
<1>. QED  BY <1>5, <1>7, <1>8, <1>9

\* A header is sent once, to the stream that was prepared.
LEMMA HeaderSent ==
  ASSUME Typed, Typed', Filed, Followed, Quiet, active.on,
         NEW t \in Totals \union {0}, Sends(Header(t)), due' = t,
         UNCHANGED <<rx, active, file, handle, streams, sent, stopped>>
  PROVE  Filed' /\ Tokens(Incoming)' /\ Phase' /\ AtUnit'
<1>1. PICK u : u = Header(t)  OBVIOUS
<1>2. /\ u \in Seq(Units) /\ Len(u) = HeaderLen /\ Tokens(u) /\ Begins(u[1]) /\ u # <<>>
  BY <1>1, HeaderType, TokensSent
<1>3. /\ Incoming' = Incoming \o u /\ Incoming \in Seq(Units) /\ Len(Incoming) \in Nat
      /\ Len(Incoming \o u) = Len(Incoming) + HeaderLen
  <2>1. Incoming' = Incoming \o u /\ Incoming \in Seq(Units)  BY <1>1, <1>2, IncomingSends, Sizes
  <2>2. Len(Incoming \o u) = Len(Incoming) + Len(u) /\ Len(Incoming) \in Nat
    BY <1>2, <2>1, Joined
  <2>. QED  BY <1>2, <2>1, <2>2
<1>4. /\ Prepared /\ Chunks = 0 /\ stopped # streams
      /\ \A i \in 1..Len(Incoming) : Incoming[i][1] \in Commands
      /\ file = <<>>
  BY DEF Quiet, Prepared
<1>5. Chunks' = 0 /\ Prepared'  BY <1>4 DEF Chunks, Prepared
<1>6. PICK b : b = Len(Incoming) + HeaderLen  OBVIOUS
<1>7. Flow(Incoming \o u, b, 0, t, streams, t, stopped)
  BY <1>1, <1>3, <1>4, <1>6, Sizes, FlowHeader
<1>8. b \in HeaderLen..Len(Incoming')  BY <1>3, <1>6, Constants
<1>9. Flow(Incoming', b, Chunks', t, streams', due', stopped')  BY <1>3, <1>5, <1>7
<1>10. Headed'
  <2>1. \E y \in HeaderLen..Len(Incoming') : \E z \in Totals \union {0} :
          Flow(Incoming', y, Chunks', z, streams', due', stopped')
    BY <1>8, <1>9
  <2>. QED  BY <1>5, <2>1 DEF Headed
<1>11. Tokens(Incoming \o u)  BY <1>2, <1>3, TokensJoined DEF Followed
<1>12. Tokens(Incoming)'  BY <1>3, <1>11 DEF Tokens
<1>13. AtUnit'  BY <1>2, <1>3, <1>4, <1>5, AtUnitSends DEF Followed
<1>14. Filed'
  <2>1. Len(file) = 0  BY <1>4
  <2>. QED  BY <1>4, <1>5, <2>1 DEF Filed
<1>. QED  BY <1>10, <1>12, <1>13, <1>14 DEF Phase

LEMMA HeadedNow ==
  ASSUME NEW b, NEW t, Prepared', b \in HeaderLen..Len(Incoming'), t \in Totals \union {0},
         Flow(Incoming', b, Chunks', t, streams', due', stopped')
  PROVE  Headed'
BY DEF Headed

LEMMA StreamingNow ==
  ASSUME NEW b, NEW t, InStream', streams' > 0, b = 0 - Len(file'), t = active'.total,
         Flow(Incoming', b, Chunks', t, streams', due', stopped')
  PROVE  Streaming'
BY DEF Streaming

\* The answer to the stop, where payload is due.
LEMMA AnswerSent ==
  ASSUME Typed, Typed', Filed, Followed, due > 0, Sends(Packet(12)), due' = 0,
         stopped' = streams, UNCHANGED <<rx, active, file, handle, streams, sent>>
  PROVE  /\ Filed' /\ Tokens(Incoming)' /\ Phase' /\ AtUnit' /\ ~Quiet
<1>0. 12 \in Commands  BY DEF Commands
<1>1. PICK u : u = Packet(12)  OBVIOUS
<1>2. u \in Seq(Units) /\ Len(u) = PacketLen /\ Tokens(u) /\ Begins(u[1]) /\ u # <<>>
  BY <1>0, <1>1, PacketType, TokensSent
<1>3. /\ Incoming' = Incoming \o u /\ Incoming \in Seq(Units) /\ Len(Incoming) \in Nat
      /\ Len(Incoming \o u) = Len(Incoming) + PacketLen
  BY <1>1, <1>2, IncomingSends, Sizes, Joined
<1>4. ~Quiet  BY DEF Quiet
<1>5. Chunks' = Chunks /\ Chunks \in Nat /\ streams \in Nat /\ due \in Nat /\ stopped \in Nat
  BY Sizes DEF Chunks
<1>6. ASSUME NEW b \in Int, NEW t \in Nat, Flow(Incoming, b, Chunks, t, streams, due, stopped)
      PROVE  Flow(Incoming', b, Chunks', t, streams', due', stopped')
  <2>1. PICK n, s, d, k : n = Chunks /\ s = streams /\ d = due /\ k = stopped  OBVIOUS
  <2>2. n \in Nat /\ s \in Nat /\ d \in Nat /\ k \in Nat /\ d > 0  BY <1>5, <2>1
  <2>3. Flow(Incoming, b, n, t, s, d, k)  BY <1>6, <2>1
  <2>4. Flow(Incoming \o u, b, n, t, s, 0, s)  BY <1>1, <1>3, <2>2, <2>3, FlowStop
  <2>. QED  BY <1>3, <1>5, <2>1, <2>4
<1>7. (InStream <=> InStream') /\ (Prepared <=> Prepared')  BY DEF InStream, Prepared
<1>8. Phase'
  <2>1. CASE Headed
    <3>1. PICK b \in HeaderLen..Len(Incoming), t \in Totals \union {0} :
            Flow(Incoming, b, Chunks, t, streams, due, stopped)
      BY <2>1 DEF Headed
    <3>2. b \in Int /\ t \in Nat /\ b \in HeaderLen..Len(Incoming')  BY <1>3, Constants
    <3>3. Flow(Incoming', b, Chunks', t, streams', due', stopped')  BY <1>6, <3>1, <3>2
    <3>4. Headed'  BY <1>7, <2>1, <3>2, <3>3, HeadedNow DEF Headed
    <3>. QED  BY <3>4 DEF Phase
  <2>2. CASE Streaming
    <3>1. 0 - Len(file) \in Int /\ active.total \in Nat  BY Sizes
    <3>2. Flow(Incoming', 0 - Len(file), Chunks', active.total, streams', due', stopped')
      BY <1>6, <2>2, <3>1 DEF Streaming
    <3>3. Streaming'  BY <1>7, <2>2, <3>2, StreamingNow DEF Streaming
    <3>. QED  BY <3>3 DEF Phase
  <2>. QED  BY <1>4, <2>1, <2>2 DEF Followed, Phase
<1>9. Tokens(Incoming \o u)  BY <1>2, <1>3, TokensJoined DEF Followed
<1>10. Tokens(Incoming)'  BY <1>3, <1>9 DEF Tokens
<1>11. AtUnit'  BY <1>2, <1>3, <1>5, AtUnitSends DEF Followed
<1>12. Filed'  BY <1>5, FiledKept DEF Filed
<1>. QED  BY <1>4, <1>8, <1>10, <1>11, <1>12

\* A chunk.
LEMMA ChunkSent ==
  ASSUME Typed, Typed', Filed, Followed, MayChunk, Sent(sender.id), Sends(NextChunk),
         due' = due - 1, UNCHANGED <<rx, active, file, handle, streams, stopped>>
  PROVE  /\ Filed' /\ Tokens(Incoming)' /\ Phase' /\ AtUnit' /\ ~Quiet
         /\ \A s \in 1..MaxTurns : s > streams => sent'[s] = 0
<1>1. /\ daq /\ sender.header /\ due > 0 /\ sender.id = streams /\ streams \in 1..MaxTurns
      /\ NextChunk \in Seq(Units) /\ sent \in [1..MaxTurns -> 0..MaxChunks]
  BY NextChunkType DEF MayChunk, Followed, Once, Typed, BoardOK
<1>2. PICK u : u = NextChunk  OBVIOUS
<1>3. /\ streams > 0 /\ Chunks = sent[streams] /\ Chunks' = Chunks + 1
      /\ u = <<Chunk(streams, Chunks + 1)>>
  <2>1. streams > 0 /\ streams # 0  BY <1>1, Constants
  <2>2. Chunks = sent[streams]  BY <2>1 DEF Chunks
  <2>3. sent' = [sent EXCEPT ![streams] = sent[streams] + 1]  BY <1>1 DEF Sent
  <2>4. sent'[streams] = sent[streams] + 1  BY <1>1, <2>3
  <2>5. Chunks' = sent'[streams]  BY <2>1 DEF Chunks
  <2>. QED  BY <1>1, <1>2, <2>1, <2>2, <2>4, <2>5 DEF NextChunk
<1>4. \A s \in 1..MaxTurns : s > streams => sent'[s] = 0
  <2>1. \A s \in 1..MaxTurns : s # streams => sent'[s] = sent[s]  BY <1>1 DEF Sent
  <2>2. \A s \in 1..MaxTurns : s > streams => s # streams  BY <1>1
  <2>. QED  BY <2>1, <2>2 DEF Followed, Once
<1>5. /\ u \in Seq(Units) /\ Tokens(u) /\ u[1][1] = Payload /\ u # <<>> /\ Len(u) = 1
      /\ u[1] = Chunk(streams, Chunks + 1)
  <2>1. u \in Seq(Units) /\ Tokens(u) /\ u[1][1] = Payload /\ u # <<>>
    BY <1>1, <1>2, TokensSent
  <2>2. PICK e : e = Chunk(streams, Chunks + 1)  OBVIOUS
  <2>3. u = <<e>>  BY <1>3, <2>2
  <2>4. Len(u) = 1 /\ u[1] = e  BY <2>3
  <2>. QED  BY <2>1, <2>2, <2>4
<1>6. /\ Incoming' = Incoming \o u /\ Incoming \in Seq(Units) /\ Len(Incoming) \in Nat
      /\ Len(Incoming \o u) = Len(Incoming) + 1
  <2>1. Incoming' = Incoming \o u /\ Incoming \in Seq(Units)  BY <1>2, <1>5, IncomingSends, Sizes
  <2>2. Len(Incoming \o u) = Len(Incoming) + Len(u) /\ Len(Incoming) \in Nat
    BY <1>5, <2>1, Joined
  <2>. QED  BY <1>5, <2>1, <2>2
<1>7. ~Quiet /\ active.on  BY <1>1, InFlow DEF Quiet, Followed
<1>8. Chunks \in Nat /\ streams \in Nat /\ due \in Nat /\ stopped \in Nat /\ Len(file) \in Nat
  BY Sizes
<1>9. ASSUME NEW b \in Int, NEW t \in Nat, Flow(Incoming, b, Chunks, t, streams, due, stopped)
      PROVE  /\ Flow(Incoming', b, Chunks', t, streams', due', stopped') /\ stopped # streams
             /\ b + Chunks = Len(Incoming)
  <2>1. PICK n, s, d, k : n = Chunks /\ s = streams /\ d = due /\ k = stopped  OBVIOUS
  <2>2. n \in Nat /\ s \in Nat /\ d \in Nat /\ k \in Nat /\ d > 0  BY <1>1, <1>8, <2>1
  <2>3. Flow(Incoming, b, n, t, s, d, k)  BY <1>9, <2>1
  <2>4. Len(u) = 1 /\ u[1] = Chunk(s, n + 1)  BY <1>5, <2>1
  <2>5. k # s /\ Flow(Incoming \o u, b, n + 1, t, s, d - 1, k)
    <3>1. PICK q : q = Incoming  OBVIOUS
    <3>2. q \in Seq(Units) /\ u \in Seq(Units) /\ Flow(q, b, n, t, s, d, k)
      BY <1>5, <1>6, <2>3, <3>1
    <3>3. k # s /\ Flow(q \o u, b, n + 1, t, s, d - 1, k)
      BY <2>2, <2>4, <3>2, FlowChunk
    <3>. QED  BY <3>1, <3>3
  <2>6. b + n = Len(Incoming)  BY <2>2, <2>3 DEF Flow
  <2>. QED  BY <1>3, <1>6, <2>1, <2>5, <2>6
<1>10. (InStream <=> InStream') /\ (Prepared <=> Prepared')  BY DEF InStream, Prepared
<1>11. Phase' /\ stopped # streams /\ (Incoming # <<>> \/ InStream)
  <2>1. CASE Headed
    <3>1. PICK b \in HeaderLen..Len(Incoming), t \in Totals \union {0} :
            Flow(Incoming, b, Chunks, t, streams, due, stopped)
      BY <2>1 DEF Headed
    <3>2. b \in Int /\ t \in Nat /\ b \in HeaderLen..Len(Incoming') /\ Len(Incoming) # 0
      BY <1>6, Constants
    <3>3. /\ Flow(Incoming', b, Chunks', t, streams', due', stopped')
          /\ stopped # streams
      BY <1>9, <3>1, <3>2
    <3>4. Headed'  BY <1>10, <2>1, <3>2, <3>3, HeadedNow DEF Headed
    <3>5. Incoming # <<>>  BY <3>2
    <3>. QED  BY <3>3, <3>4, <3>5 DEF Phase
  <2>2. CASE Streaming
    <3>1. 0 - Len(file) \in Int /\ active.total \in Nat  BY Sizes
    <3>2. /\ Flow(Incoming', 0 - Len(file), Chunks', active.total, streams', due', stopped')
          /\ stopped # streams
      BY <1>9, <2>2, <3>1 DEF Streaming
    <3>3. Streaming'  BY <1>10, <2>2, <3>2, StreamingNow DEF Streaming
    <3>. QED  BY <2>2, <3>2, <3>3 DEF Phase, Streaming
  <2>. QED  BY <1>7, <2>1, <2>2 DEF Followed, Phase
<1>12. Tokens(Incoming \o u)  BY <1>5, <1>6, TokensJoined DEF Followed
<1>13. Tokens(Incoming)'  BY <1>6, <1>12 DEF Tokens
<1>14. Len(file) <= Chunks  BY <1>1, <1>3 DEF Filed
<1>15. AtUnit'  BY <1>3, <1>5, <1>6, <1>11, <1>14, AtUnitSends DEF Followed
<1>16. Filed'
  <2>1. handle' # "result"  BY <1>7 DEF Typed, SessionOK
  <2>2. \A k \in 1..Len(file) : k <= Chunks  BY <1>8, <1>14
  <2>3. \A k \in 1..Len(file) : file[k] = Chunk(streams, k)  BY <1>3, <2>2 DEF Filed
  <2>4. Len(file) <= Chunks'  BY <1>3, <1>8, <1>14
  <2>. QED  BY <2>1, <2>3, <2>4 DEF Filed
<1>. QED  BY <1>4, <1>7, <1>11, <1>13, <1>15, <1>16

\* A command that is served leaves the queue.
LEMMA ServedQueue ==
  ASSUME Typed, Followed, commands # <<>>, commands' = Tail(commands), UNCHANGED <<active, job>>
  PROVE  /\ StopsKnown' /\ OneStart' /\ (Unsent' => Unsent) /\ (job' = "prepared" => NoStart')
         /\ Head(commands) = Start => Unsent /\ ~Unsent'
         /\ Head(commands) = 12 /\ due > 0 => active.pending
<1>1. CommandsOK /\ Once /\ StopsKnown /\ Phase  BY DEF Typed, Followed, Announced
<1>2. /\ Head(commands) = commands[1] /\ 1 \in 1..Len(commands)
      /\ NoStart => NoStart'
      /\ OneStart' /\ (Head(commands) = Start => NoStart')
      /\ \A i \in 1..Len(commands)' :
           /\ i + 1 \in 1..Len(commands) /\ commands'[i] = commands[i + 1]
           /\ Later(i + 1) => Later(i)'
  BY <1>1, QueueTail DEF Once
<1>3. StopsKnown'
  <2>. SUFFICES ASSUME NEW i \in 1..Len(commands)', commands'[i] = 12, active.on
                PROVE  active.pending \/ job = "prepared" \/ Later(i)'
    BY DEF StopsKnown
  <2>1. i + 1 \in 1..Len(commands) /\ commands[i + 1] = 12 /\ (Later(i + 1) => Later(i)')
    BY <1>2
  <2>2. active.pending \/ job = "prepared" \/ Later(i + 1)  BY <1>1, <2>1 DEF StopsKnown
  <2>. QED  BY <2>1, <2>2
<1>4. Unsent' => Unsent  BY <1>2 DEF Unsent
<1>5. job' = "prepared" => NoStart'  BY <1>1, <1>2 DEF Once
<1>6. ASSUME Head(commands) = Start PROVE Unsent /\ ~Unsent'
  <2>1. ~NoStart  BY <1>2, <1>6 DEF NoStart
  <2>2. job # "prepared" /\ NoStart'  BY <1>1, <1>2, <1>6, <2>1 DEF Once
  <2>. QED  BY <2>1, <2>2 DEF Unsent
<1>7. ASSUME Head(commands) = 12, due > 0 PROVE active.pending
  <2>1. ~Quiet /\ due # 0  BY <1>7, Sizes DEF Quiet
  <2>2. active.on /\ ~Unsent  BY <1>1, <2>1, InFlow DEF Once
  <2>3. job # "prepared" /\ NoStart  BY <2>2 DEF Unsent
  <2>4. ~Later(1)  BY <2>3 DEF Later, NoStart
  <2>. QED  BY <1>1, <1>2, <1>7, <2>2, <2>3, <2>4 DEF StopsKnown
<1>. QED  BY <1>2, <1>3, <1>4, <1>5, <1>6, <1>7

\* What the board did before it goes on from there.
LEMMA OnceServed ==
  ASSUME Typed, Once, Quiet => Quiet', UNCHANGED <<sender, active, streams, sent>>,
         daq' => daq, stopped' = stopped \/ stopped' = streams,
         Unsent' => Unsent, job' = "prepared" => NoStart', OneStart'
  PROVE  Once'
<1>1. Unserved' <=> Unserved  BY DEF Unserved
<1>2. streams \in Nat  BY Sizes
<1>3. stopped' <= streams'  BY <1>2 DEF Once
<1>. QED  BY <1>1, <1>3 DEF Once

LEMMA SoundServe ==
  ASSUME Typed, Typed', Filed, Followed, Serve, ~mixed'
  PROVE  Filed' /\ Followed'
<1>. USE DEF calls, session, input, board, past
<1>1. /\ UNCHANGED <<job, online, active, handle, file, reader, rx, streams>>
      /\ commands # <<>> /\ commands' = Tail(commands)
  BY DEF Serve
<1>2. /\ StopsKnown' /\ OneStart' /\ (Unsent' => Unsent) /\ (job' = "prepared" => NoStart')
      /\ Head(commands) = Start => Unsent /\ ~Unsent'
      /\ Head(commands) = 12 /\ due > 0 => active.pending
  BY <1>1, ServedQueue
<1>3. Phase /\ Once /\ Tokens(Incoming) /\ AtUnit /\ due \in Nat  BY Sizes DEF Followed
<1>4. active.on /\ (job = "stop" \/ stopped = streams) => active.pending
  BY DEF Followed, Announced
<1>5. stopped' = stopped => Announced'  BY <1>1, <1>2, <1>4 DEF Announced
<1>6. ASSUME UNCHANGED <<wire, sent, due, stopped>>
      PROVE  Filed' /\ Phase' /\ (Quiet <=> Quiet') /\ Tokens(Incoming)' /\ AtUnit'
  <2>1. Incoming' = Incoming  BY <1>1, <1>6 DEF Incoming
  <2>2. Phase' /\ (Quiet <=> Quiet') /\ Chunks' = Chunks  BY <1>1, <1>3, <1>6, <2>1, PhaseKept
  <2>3. Tokens(Incoming)'  BY <1>3, <2>1 DEF Tokens
  <2>4. AtUnit'  BY <1>1, <1>3, <2>1, <2>2, AtUnitKept
  <2>5. Filed'  BY <1>1, <1>6, <2>2, FiledKept
  <2>. QED  BY <2>2, <2>3, <2>4, <2>5
<1>7. CASE Head(commands) = Start /\ ServeStart
  <2>1. UNCHANGED <<sent, due, stopped>>  BY <1>7 DEF ServeStart
  <2>2. Unsent /\ ~Unsent' /\ Quiet /\ active.on /\ sender.id # streams
    BY <1>2, <1>3, <1>7 DEF Once
  <2>3. streams # 0 /\ streams > 0  BY <2>2 DEF Quiet, Prepared
  <2>4. ASSUME NEW n \in Totals, sender' = [NoSender EXCEPT !.id = streams, !.total = n],
               daq' = TRUE, UNCHANGED wire
        PROVE  Filed' /\ Followed'
    <3>1. Filed' /\ Phase' /\ Quiet' /\ Tokens(Incoming)' /\ AtUnit'  BY <1>6, <2>1, <2>2, <2>4
    <3>2. sender'.id = streams  BY <2>4 DEF NoSender
    <3>3. streams \in Nat  BY Sizes
    <3>4. Once'
      BY <1>1, <1>2, <1>3, <2>1, <2>2, <2>3, <3>1, <3>2, <3>3 DEF Once, Unsent
    <3>. QED  BY <1>5, <2>1, <3>1, <3>4 DEF Followed
  <2>5. ASSUME sender.id = 0, Sends(Header(0)), UNCHANGED board PROVE Filed' /\ Followed'
    <3>1. 0 \in Totals \union {0} /\ due = 0  BY <2>2 DEF Quiet
    <3>2. Filed' /\ Tokens(Incoming)' /\ Phase' /\ AtUnit'
      BY <1>1, <2>1, <2>2, <2>5, <3>1, HeaderSent
    <3>3. ~Unserved'  BY <2>5 DEF Unserved
    <3>4. Once'  BY <1>1, <1>2, <1>3, <2>1, <2>2, <2>5, <3>3 DEF Once, Unsent
    <3>. QED  BY <1>5, <2>1, <3>2, <3>4 DEF Followed
  <2>6. ASSUME daq' = FALSE, UNCHANGED <<sender, wire>> PROVE Filed' /\ Followed'
    <3>1. Filed' /\ Phase' /\ (Quiet => Quiet') /\ Tokens(Incoming)' /\ AtUnit'
      BY <1>6, <2>1, <2>6
    <3>2. Once'  BY <1>1, <1>2, <1>3, <2>1, <2>6, <3>1, OnceServed
    <3>. QED  BY <1>5, <2>1, <3>1, <3>2 DEF Followed
  <2>. QED  BY <1>7, <2>4, <2>5, <2>6 DEF ServeStart
<1>8. CASE Head(commands) = 12 /\ ServeStop
  <2>0. 12 \in Commands  BY DEF Commands
  <2>1. Sends(Packet(12)) /\ UNCHANGED sent  BY <1>8 DEF ServeStop
  <2>2. daq' = FALSE /\ stopped' = (IF due > 0 THEN streams ELSE stopped) /\ due' = 0
        /\ UNCHANGED sender
    BY <1>8 DEF ServeStop
  <2>3. CASE due > 0
    <3>1. Filed' /\ Tokens(Incoming)' /\ Phase' /\ AtUnit' /\ ~Quiet
      BY <1>1, <2>1, <2>2, <2>3, AnswerSent
    <3>2. Once'  BY <1>1, <1>2, <1>3, <2>1, <2>2, <2>3, <3>1, OnceServed
    <3>3. Announced'  BY <1>1, <1>2, <1>8, <2>3 DEF Announced
    <3>. QED  BY <3>1, <3>2, <3>3 DEF Followed
  <2>4. CASE ~(due > 0)
    <3>1. due = 0 /\ UNCHANGED <<due, stopped>>  BY <1>3, <2>2, <2>4
    <3>2. Filed' /\ Tokens(Incoming)' /\ Phase' /\ AtUnit' /\ (Quiet => Quiet')
      BY <1>1, <2>0, <2>1, <3>1, PacketSent
    <3>3. Once'  BY <1>1, <1>2, <1>3, <2>1, <2>2, <3>1, <3>2, OnceServed
    <3>. QED  BY <1>5, <3>1, <3>2, <3>3 DEF Followed
  <2>. QED  BY <2>3, <2>4
<1>9. CASE /\ Head(commands) \notin {Start, 12}
           /\ SendsPacket(Head(commands)) /\ UNCHANGED <<board, sent, due, stopped>>
  <2>1. PICK c : c = Head(commands)  OBVIOUS
  <2>2. c \in Commands
    <3>1. Head(commands) \in Commands \union {Start}  BY <1>1, QueueTail DEF Typed
    <3>. QED  BY <1>9, <2>1, <3>1
  <2>3. Sends(Packet(c)) /\ ~(due > 0)  BY <1>9, <2>1 DEF SendsPacket
  <2>4. due = 0  BY <1>3, <2>3
  <2>5. Filed' /\ Tokens(Incoming)' /\ Phase' /\ AtUnit' /\ (Quiet => Quiet')
    BY <1>1, <1>9, <2>2, <2>3, <2>4, PacketSent
  <2>6. Once'  BY <1>1, <1>2, <1>3, <1>9, <2>5, OnceServed
  <2>. QED  BY <1>5, <1>9, <2>5, <2>6 DEF Followed
<1>. QED  BY <1>7, <1>8, <1>9 DEF Serve

LEMMA SoundBoard ==
  ASSUME Typed, Typed', Filed, Followed, Board, ~mixed'
  PROVE  Filed' /\ Followed' /\ UNCHANGED reader
<1>. USE DEF calls, session, input, board, past
<1>1. Phase /\ Once /\ Tokens(Incoming) /\ AtUnit /\ Announced /\ due \in Nat /\ streams \in Nat
      /\ stopped <= streams
  BY Sizes DEF Followed, Once
<1>2. CASE Serve
  <2>1. UNCHANGED reader  BY <1>2 DEF Serve
  <2>. QED  BY <1>2, <2>1, SoundServe
<1>3. CASE SendHeader
  <2>1. /\ UNCHANGED <<rx, active, file, handle, streams, sent, stopped, reader, commands, job,
                       daq>>
        /\ sender.id # 0 /\ ~sender.header /\ sender' = [sender EXCEPT !.header = TRUE]
        /\ Sends(Header(sender.total)) /\ due' = sender.total
    BY <1>3 DEF SendHeader
  <2>2. Unserved /\ Quiet /\ active.on /\ sender.id = streams  BY <1>1, <2>1 DEF Unserved, Once
  <2>3. sender.total \in Totals \union {0}  BY DEF Typed, BoardOK
  <2>4. Filed' /\ Tokens(Incoming)' /\ Phase' /\ AtUnit'  BY <2>1, <2>2, <2>3, HeaderSent
  <2>5. ~Unserved' /\ sender'.id = sender.id
    BY <2>1 DEF Unserved, Typed, BoardOK
  <2>6. (NoStart' <=> NoStart) /\ (OneStart' <=> OneStart) /\ (Unsent' <=> Unsent)
    BY <2>1 DEF NoStart, OneStart, Unsent
  <2>7. ~Unsent  BY <1>1, <2>2 DEF Once
  <2>8. Once'  BY <1>1, <2>1, <2>2, <2>5, <2>6, <2>7 DEF Once
  <2>9. \A i : Later(i)' <=> Later(i)  BY <2>1 DEF Later
  <2>10. Announced'  BY <1>1, <2>1, <2>9 DEF Announced, StopsKnown
  <2>. QED  BY <2>1, <2>4, <2>8, <2>10 DEF Followed
<1>4. CASE SendChunk
  <2>1. /\ UNCHANGED <<rx, active, file, handle, streams, stopped, reader, commands, job>>
        /\ MayChunk /\ Sent(sender.id) /\ Sends(NextChunk) /\ due' = due - 1
        /\ \/ sender' = NoSender /\ daq' = FALSE
           \/ UNCHANGED <<sender, daq>>
    BY <1>4 DEF SendChunk
  <2>2. /\ Filed' /\ Tokens(Incoming)' /\ Phase' /\ AtUnit' /\ ~Quiet
        /\ \A s \in 1..MaxTurns : s > streams => sent'[s] = 0
    BY <2>1, ChunkSent
  <2>3. (NoStart' <=> NoStart) /\ (OneStart' <=> OneStart) /\ (Unsent' <=> Unsent)
    BY <2>1 DEF NoStart, OneStart, Unsent
  <2>4. ~Unsent /\ ~Unserved  BY <1>1, <2>2 DEF Once
  <2>5. /\ ~Unserved' /\ (daq' => daq /\ UNCHANGED sender) /\ sender'.id <= streams
    <3>1. CASE sender' = NoSender /\ daq' = FALSE
      <4>1. sender'.id = 0 /\ 0 <= streams  BY <1>1, <3>1 DEF NoSender
      <4>. QED  BY <3>1, <4>1 DEF Unserved
    <3>2. CASE UNCHANGED <<sender, daq>>
      BY <1>1, <2>4, <3>2 DEF Unserved, Once
    <3>. QED  BY <2>1, <3>1, <3>2
  <2>6. Once'  BY <1>1, <2>1, <2>2, <2>3, <2>4, <2>5 DEF Once
  <2>7. \A i : Later(i)' <=> Later(i)  BY <2>1 DEF Later
  <2>8. Announced'  BY <1>1, <2>1, <2>7 DEF Announced, StopsKnown
  <2>. QED  BY <2>1, <2>2, <2>6, <2>8 DEF Followed
<1>5. CASE EndStream
  <2>1. /\ UNCHANGED <<rx, wire, active, file, handle, streams, sent, due, stopped, reader,
                       commands, job>>
        /\ sender' = NoSender /\ daq' = FALSE
    BY <1>5 DEF EndStream
  <2>2. Incoming' = Incoming  BY <2>1 DEF Incoming
  <2>3. Phase' /\ (Quiet <=> Quiet') /\ Chunks' = Chunks  BY <1>1, <2>1, <2>2, PhaseKept
  <2>4. Tokens(Incoming)'  BY <1>1, <2>2 DEF Tokens
  <2>5. AtUnit'  BY <1>1, <2>1, <2>2, <2>3, AtUnitKept
  <2>6. Filed'  BY <2>1, <2>3, FiledKept
  <2>7. (NoStart' <=> NoStart) /\ (OneStart' <=> OneStart) /\ (Unsent' <=> Unsent)
    BY <2>1 DEF NoStart, OneStart, Unsent
  <2>8. sender'.id = 0 /\ ~Unserved' /\ sender'.id <= streams
    BY <1>1, <2>1 DEF NoSender, Unserved
  <2>9. Unsent => streams # 0  BY <1>1 DEF Once, Quiet, Prepared
  <2>10. Once'  BY <1>1, <2>1, <2>3, <2>7, <2>8, <2>9 DEF Once
  <2>11. \A i : Later(i)' <=> Later(i)  BY <2>1 DEF Later
  <2>12. Announced'  BY <1>1, <2>1, <2>11 DEF Announced, StopsKnown
  <2>. QED  BY <2>1, <2>3, <2>4, <2>5, <2>6, <2>10, <2>12 DEF Followed
<1>6. CASE IdleHeartbeat
  <2>0. 0 \in Commands  BY DEF Commands
  <2>1. /\ UNCHANGED <<rx, active, file, handle, streams, sent, due, stopped, reader, commands, job,
                       sender, daq>>
        /\ Sends(Packet(0)) /\ ~(due > 0)
    BY <1>6 DEF IdleHeartbeat, SendsPacket
  <2>2. due = 0  BY <1>1, <2>1
  <2>3. Filed' /\ Tokens(Incoming)' /\ Phase' /\ AtUnit' /\ (Quiet => Quiet')
    BY <2>0, <2>1, <2>2, PacketSent
  <2>4. (NoStart' <=> NoStart) /\ (OneStart' <=> OneStart) /\ (Unsent' <=> Unsent)
    BY <2>1 DEF NoStart, OneStart, Unsent
  <2>5. Once'  BY <1>1, <2>1, <2>3, <2>4, OnceServed DEF Once
  <2>6. \A i : Later(i)' <=> Later(i)  BY <2>1 DEF Later
  <2>7. Announced'  BY <1>1, <2>1, <2>6 DEF Announced, StopsKnown
  <2>. QED  BY <2>1, <2>3, <2>5, <2>7 DEF Followed
<1>. QED  BY <1>2, <1>3, <1>4, <1>5, <1>6 DEF Board

-----------------------------------------------------------------------------
(* The receive thread.                                                     *)

\* Within a stream, the rest of its chunks come next, and then packets.
LEMMA WithinStream ==
  ASSUME Typed, Phase, InStream
  PROVE  /\ Streaming /\ ~Quiet /\ active.on /\ streams > 0
         /\ \A j \in 1..Len(Incoming) :
              /\ j <= Chunks - Len(file) => Incoming[j] = Chunk(streams, Len(file) + j)
              /\ j > Chunks - Len(file) => Incoming[j][1] \in Commands
         /\ due > 0 => due + Chunks = active.total /\ Len(Incoming) = Chunks - Len(file)
         /\ due = 0 => active.total = Chunks \/ stopped = streams
         /\ stopped = streams =>
              /\ Chunks - Len(file) \in 0..(Len(Incoming) - 1)
              /\ Incoming[Chunks - Len(file) + 1] = Mark(12)
<1>1. Streaming /\ ~Quiet /\ active.on /\ streams > 0
  <2>1. active.total > 0 /\ active.total # 0  BY Sizes DEF InStream
  <2>. QED  BY <2>1 DEF Phase, Quiet, Headed, Prepared, Streaming, InStream
<1>2. PICK b, q, n, t, f : b = 0 - Len(file) /\ q = Incoming /\ n = Chunks /\ t = active.total
                           /\ f = Len(file)
  OBVIOUS
<1>3. /\ q \in Seq(Units) /\ n \in Nat /\ t \in Nat /\ f \in Nat /\ b = 0 - f /\ b \in Int
      /\ Len(q) \in Nat
  BY <1>2, Sizes
<1>4. Flow(q, b, n, t, streams, due, stopped)  BY <1>1, <1>2 DEF Streaming
<1>5. Content(q, b, n, t, streams) /\ n <= t /\ b + n <= Len(q)  BY <1>4 DEF Flow
<1>6. ASSUME NEW j \in 1..Len(q)
      PROVE  /\ j <= n - f => q[j] = Chunk(streams, f + j)
             /\ j > n - f => q[j][1] \in Commands
  <2>1. b < j /\ j - b = f + j /\ (j <= n - f <=> j <= b + n) /\ (j > n - f <=> b + n < j)
    BY <1>3
  <2>2. b < j /\ j <= b + n => q[j] = Chunk(streams, j - b)  BY <1>5 DEF Content
  <2>3. b + n < j => q[j][1] \in Commands  BY <1>5 DEF Content
  <2>. QED  BY <2>1, <2>2, <2>3
<1>7. ASSUME due > 0 PROVE due + n = t /\ Len(q) = n - f
  <2>1. due + n = t /\ b + n = Len(q)  BY <1>4, <1>7 DEF Flow
  <2>. QED  BY <1>3, <2>1
<1>8. due = 0 => t = n \/ stopped = streams  BY <1>4 DEF Flow
<1>9. ASSUME stopped = streams PROVE n - f \in 0..(Len(q) - 1) /\ q[n - f + 1] = Mark(12)
  <2>1. 0 <= b + n /\ b + n < Len(q) /\ q[b + n + 1] = Mark(12)  BY <1>4, <1>9 DEF Flow
  <2>2. b + n = n - f  BY <1>3
  <2>. QED  BY <1>3, <2>1, <2>2
<1>. QED  BY <1>1, <1>2, <1>6, <1>7, <1>8, <1>9

\* What is added to the file are the chunks that come next.
LEMMA InFile ==
  ASSUME Typed, Filed, Phase, InStream, NEW n \in 0..Len(rx), Consumes(n)
  PROVE  /\ file' \in Seq(Units) /\ Len(file') = Len(file) + n
         /\ \A k \in 1..Len(file') : k <= Chunks => file'[k] = Chunk(streams, k)
<1>1. PICK f, p, g : f = Len(file) /\ p = SubSeq(rx, 1, n) /\ g = file'  OBVIOUS
<1>2. /\ rx \in Seq(Units) /\ file \in Seq(Units) /\ f \in Nat /\ Len(rx) \in Nat /\ n \in Nat
      /\ Chunks \in Nat /\ Len(Incoming) >= Len(rx) /\ Len(Incoming) \in Nat
      /\ \A i \in 1..Len(rx) : Incoming[i] = rx[i]
  <2>1. /\ rx \in Seq(Units) /\ file \in Seq(Units) /\ f \in Nat /\ Len(rx) \in Nat
        /\ Chunks \in Nat /\ Len(Incoming) = Len(rx) + Len(wire) /\ Len(wire) \in Nat
        /\ \A i \in 1..Len(rx) : Incoming[i] = rx[i]
    BY <1>1, Sizes
  <2>. QED  BY <2>1
<1>3. p \in Seq(Units) /\ Len(p) = n /\ \A i \in 1..n : p[i] = rx[i]  BY <1>1, <1>2, Cuts
<1>4. g = file \o p  BY <1>1 DEF Consumes
<1>5. /\ g \in Seq(Units) /\ Len(g) = f + n /\ \A i \in 1..f : g[i] = file[i]
      /\ \A i \in (f + 1)..(f + n) : g[i] = p[i - f]
  BY <1>1, <1>2, <1>3, <1>4, Joined
<1>6. ASSUME NEW k \in 1..(f + n), k <= Chunks PROVE g[k] = Chunk(streams, k)
  <2>1. CASE k <= f
    <3>1. k \in 1..f  BY <1>2, <2>1
    <3>2. streams > 0  BY WithinStream
    <3>. QED  BY <1>1, <1>5, <1>6, <3>1, <3>2 DEF Filed
  <2>2. CASE ~(k <= f)
    <3>1. PICK j : j = k - f  OBVIOUS
    <3>2. /\ j \in 1..n /\ j \in 1..Len(rx) /\ j \in 1..Len(Incoming) /\ k \in (f + 1)..(f + n)
          /\ j <= Chunks - f /\ f + j = k
      BY <1>2, <1>6, <2>2, <3>1
    <3>3. Incoming[j] = Chunk(streams, f + j)  BY <1>1, <3>2, WithinStream
    <3>4. g[k] = Incoming[j]  BY <1>2, <1>3, <1>5, <3>1, <3>2
    <3>. QED  BY <3>2, <3>3, <3>4
  <2>. QED  BY <2>1, <2>2
<1>. QED  BY <1>1, <1>5, <1>6

LEMMA NextUnit ==
  ASSUME Typed, Phase, Tokens(Incoming), InStream, NEW n \in 1..(Len(Incoming) - 1),
         n <= Chunks - Len(file)
  PROVE  Begins(Incoming[n + 1]) \/ Incoming[n + 1][1] = Payload
<1>1. n \in 1..Len(Incoming)  BY Sizes
<1>2. Incoming[n] = Chunk(streams, Len(file) + n)  BY <1>1, WithinStream
<1>3. Ends(Incoming[n])  BY <1>2 DEF Ends, Chunk
<1>4. Follows(Incoming[n], Incoming[n + 1])  BY DEF Tokens
<1>. QED  BY <1>3, <1>4 DEF Follows

\* What the parser never changes.
Untouched == UNCHANGED <<job, commands, sender, daq, streams, stopped, sent, due, wire>>

LEMMA OnceParsed ==
  ASSUME Once, ~Quiet, Untouched, daq => active'.on
  PROVE  Once'
<1>1. (NoStart' <=> NoStart) /\ (OneStart' <=> OneStart) /\ (Unsent' <=> Unsent)
      /\ (Unserved' <=> Unserved)
  BY DEF Untouched, NoStart, OneStart, Unsent, Unserved
<1>. QED  BY <1>1 DEF Once, Untouched

LEMMA AnnouncedParsed ==
  ASSUME Announced, Untouched,
         active'.on => active.on /\ active'.pending = active.pending
  PROVE  Announced'
<1>1. \A i : Later(i)' <=> Later(i)  BY DEF Later, Untouched
<1>. QED  BY <1>1 DEF Announced, StopsKnown, Untouched

\* Payload is written, and the stream goes on.
LEMMA StreamGoesOn ==
  ASSUME Typed, Typed', Filed, Followed, InStream, NEW n \in 1..Len(rx), Takes(n), Consumes(n),
         Untouched, UNCHANGED <<active, handle>>,
         stopped = streams => n <= Chunks - Len(file),
         ~active.pending => n <= Chunks - Len(file) /\ n < active.total - Len(file)
  PROVE  Filed' /\ Followed'
<1>1. Phase /\ Once /\ Announced /\ AtUnit /\ Tokens(Incoming)  BY DEF Followed
<1>2. /\ Streaming /\ ~Quiet /\ active.on /\ streams > 0
      /\ due > 0 => Len(Incoming) = Chunks - Len(file)
  BY <1>1, WithinStream
<1>3. n \in 0..Len(rx)  OBVIOUS
<1>4. /\ file' \in Seq(Units) /\ Len(file') = Len(file) + n
      /\ \A k \in 1..Len(file') : k <= Chunks => file'[k] = Chunk(streams, k)
  BY <1>1, <1>3, InFile
<1>5. /\ n \in 0..Len(Incoming)
      /\ Incoming' = SubSeq(Incoming, n + 1, Len(Incoming))
      /\ \A i \in 1..Len(Incoming)' : Incoming[n + i] = Incoming'[i]
      /\ Len(Incoming)' = Len(Incoming) - n
  BY <1>3, IncomingTakes DEF Untouched
<1>6. Chunks' = Chunks /\ (InStream' <=> InStream)  BY DEF Chunks, InStream, Untouched
<1>7. /\ Chunks \in Nat /\ streams \in Nat /\ due \in Nat /\ stopped \in Nat /\ Len(file) \in Nat
      /\ active.total \in Nat /\ Len(Incoming) \in Nat /\ Incoming \in Seq(Units)
      /\ 0 - Len(file) \in Int /\ n \in Nat
  BY Sizes
<1>8. Streaming'
  <2>1. PICK b, s, d, k, t, c :
          b = 0 - Len(file) /\ s = streams /\ d = due /\ k = stopped /\ t = active.total
          /\ c = Chunks
    OBVIOUS
  <2>2. b \in Int /\ s \in Nat /\ d \in Nat /\ k \in Nat /\ t \in Nat /\ c \in Nat
    BY <1>7, <2>1
  <2>3. Flow(Incoming, b, c, t, s, d, k)  BY <1>2, <2>1 DEF Streaming
  <2>4. k = s => n <= b + c  BY <1>7, <2>1
  <2>5. Flow(SubSeq(Incoming, n + 1, Len(Incoming)), b - n, c, t, s, d, k)
    BY <1>5, <1>7, <2>2, <2>3, <2>4, FlowCut
  <2>6. b - n = 0 - Len(file')  BY <1>4, <1>7, <2>1
  <2>7. PICK z : z = b - n  OBVIOUS
  <2>8. Flow(Incoming', z, Chunks', t, streams', due', stopped')
    BY <1>5, <1>6, <2>1, <2>5, <2>7 DEF Untouched
  <2>9. InStream' /\ streams' > 0 /\ z = 0 - Len(file') /\ t = active'.total
    BY <1>2, <1>6, <2>1, <2>6, <2>7 DEF Untouched
  <2>. QED  BY <2>8, <2>9, StreamingNow
<1>9. Tokens(Incoming)'
  <2>1. Tokens(SubSeq(Incoming, n + 1, Len(Incoming)))  BY <1>1, <1>5, <1>7, TokensCut
  <2>. QED  BY <1>5, <2>1 DEF Tokens
<1>10. AtUnit'
  <2>1. ASSUME Incoming' # <<>>
        PROVE  \/ Begins(Incoming'[1])
               \/ Len(file') > Chunks \/ Incoming'[1][1] = Payload
    <3>1. Len(Incoming') > 0  BY <2>1, EmptySeq, Sizes DEF Typed
    <3>2. 1 \in 1..Len(Incoming)' /\ n \in 1..(Len(Incoming) - 1)
      <4>1. Len(Incoming') = Len(Incoming) - n  BY <1>5
      <4>. QED  BY <1>7, <3>1, <4>1
    <3>3. Incoming'[1] = Incoming[n + 1]  BY <1>5, <3>2
    <3>4. CASE n <= Chunks - Len(file)  BY <1>1, <3>2, <3>3, <3>4, NextUnit
    <3>5. CASE ~(n <= Chunks - Len(file))
      <4>1. Len(file') > Chunks  BY <1>4, <1>7, <3>5
      <4>. QED  BY <4>1
    <3>. QED  BY <3>4, <3>5
  <2>2. ~active.pending => Len(file') <= Chunks /\ Len(file') < active.total
    BY <1>4, <1>7
  <2>. QED  BY <1>6, <2>1, <2>2 DEF AtUnit
<1>11. Filed'
  <2>1. handle' # "result"  BY <1>2 DEF Typed, SessionOK
  <2>2. due > 0 \/ stopped = streams => Len(file') <= Chunks
    BY <1>2, <1>4, <1>5, <1>7
  <2>. QED  BY <1>4, <1>6, <2>1, <2>2 DEF Filed, Untouched
<1>12. Once'  BY <1>1, <1>2, OnceParsed
<1>13. Announced'  BY <1>1, AnnouncedParsed
<1>. QED  BY <1>8, <1>9, <1>10, <1>11, <1>12, <1>13 DEF Followed, Phase

\* The stream ends: the first n bytes are its payload, and the first m are taken.
LEMMA StreamFinishes ==
  ASSUME Typed, Typed', Filed, Followed, InStream, NEW n \in 0..Len(rx), NEW m \in n..Len(rx),
         Takes(m), Consumes(n), Untouched, Finishes("result"), due = 0,
         n >= Chunks - Len(file), stopped = streams => n <= Chunks - Len(file),
         m < Len(Incoming) => Begins(Incoming[m + 1]) \/ Incoming[m + 1][1] = Payload
  PROVE  Filed' /\ Followed'
<1>1. Phase /\ Once /\ Announced /\ Tokens(Incoming)  BY DEF Followed
<1>2. /\ ~Quiet /\ active.on /\ streams > 0
      /\ \A j \in 1..Len(Incoming) : j > Chunks - Len(file) => Incoming[j][1] \in Commands
  BY <1>1, WithinStream
<1>3. /\ file' \in Seq(Units) /\ Len(file') = Len(file) + n
      /\ \A k \in 1..Len(file') : k <= Chunks => file'[k] = Chunk(streams, k)
  BY <1>1, InFile
<1>4. /\ Chunks \in Nat /\ Len(file) \in Nat /\ Len(rx) \in Nat /\ Len(Incoming) \in Nat
      /\ Incoming \in Seq(Units)
  BY Sizes
<1>5. m \in 0..Len(rx) /\ m \in Nat /\ n \in Nat  BY <1>4
<1>6. /\ m \in 0..Len(Incoming)
      /\ Incoming' = SubSeq(Incoming, m + 1, Len(Incoming))
      /\ \A i \in 1..Len(Incoming)' : Incoming[m + i] = Incoming'[i]
      /\ Len(Incoming)' = Len(Incoming) - m
  BY <1>5, IncomingTakes DEF Untouched
<1>7. Chunks' = Chunks /\ ~active'.on /\ ~InStream' /\ handle' = "result"
  BY DEF Chunks, InStream, Untouched, Finishes, NoStream
<1>8. ASSUME NEW i \in 1..Len(Incoming)' PROVE Incoming'[i][1] \in Commands
  <2>1. PICK j : j = m + i  OBVIOUS
  <2>2. j \in 1..Len(Incoming) /\ j > Chunks - Len(file)
    <3>1. PICK l : l = Len(Incoming)  OBVIOUS
    <3>2. i \in 1..(l - m) /\ l \in Nat /\ m \in 0..l  BY <1>4, <1>6, <3>1
    <3>3. m >= n  BY <1>4
    <3>. QED  BY <1>4, <1>5, <2>1, <3>1, <3>2, <3>3
  <2>. QED  BY <1>2, <1>6, <2>1, <2>2
<1>9. Quiet'  BY <1>7, <1>8 DEF Quiet, Untouched
<1>10. Tokens(Incoming)'
  <2>1. Tokens(SubSeq(Incoming, m + 1, Len(Incoming)))  BY <1>1, <1>4, <1>6, TokensCut
  <2>. QED  BY <1>6, <2>1 DEF Tokens
<1>11. AtUnit'
  <2>1. ASSUME Incoming' # <<>> PROVE Begins(Incoming'[1])
    <3>1. Len(Incoming') > 0  BY <2>1, EmptySeq, Sizes DEF Typed
    <3>2. 1 \in 1..Len(Incoming)' /\ m < Len(Incoming)
      <4>1. Len(Incoming') = Len(Incoming) - m /\ Len(Incoming)' \in Nat  BY <1>4, <1>6
      <4>. QED  BY <1>4, <1>5, <3>1, <4>1
    <3>3. Incoming'[1] = Incoming[m + 1] /\ Incoming'[1][1] \in Commands  BY <1>6, <1>8, <3>2
    <3>4. Payload \notin Commands  BY DEF Payload, Commands
    <3>. QED  BY <3>2, <3>3, <3>4
  <2>. QED  BY <1>7, <2>1 DEF AtUnit
<1>12. Filed'
  <2>1. Len(file') >= Chunks  BY <1>3, <1>4, <1>5
  <2>2. stopped = streams => Len(file') <= Chunks  BY <1>3, <1>4, <1>5
  <2>3. ~(due > 0)  OBVIOUS
  <2>. QED  BY <1>3, <1>7, <2>1, <2>2, <2>3 DEF Filed, Untouched
<1>13. Once'
  <2>1. ~daq
    <3>1. ~Unserved  BY <1>1, <1>2 DEF Once
    <3>2. daq => sender.header  BY <1>1, <3>1 DEF Once, Unserved
    <3>. QED  BY <3>2 DEF Typed, BoardOK, Shape
  <2>. QED  BY <1>1, <1>2, <2>1, OnceParsed
<1>14. Announced'  BY <1>1, <1>7, AnnouncedParsed
<1>. QED  BY <1>9, <1>10, <1>11, <1>12, <1>13, <1>14 DEF Followed, Phase

\* The first unit of a packet is not within the stream.
LEMMA NotWithin ==
  ASSUME Typed, Phase, InStream, NEW i \in 1..Len(rx), Starts(rx[i], {12})
  PROVE  /\ Incoming[i] = Mark(12) /\ i \in 1..Len(Incoming)
         /\ i - 1 >= Chunks - Len(file) /\ due = 0
<1>1. /\ rx \in Seq(Units) /\ Len(rx) \in Nat /\ Len(wire) \in Nat /\ Chunks \in Nat
      /\ Len(Incoming) = Len(rx) + Len(wire) /\ due \in Nat /\ Len(file) \in Nat
      /\ Incoming[i] = rx[i]
  BY Sizes
<1>2. i \in 1..Len(Incoming) /\ i \in Nat  BY <1>1
<1>3. rx[i] = Mark(12)
  <2>1. rx[i] \in Units /\ 12 \in Commands  BY <1>1, ElementOfSeq DEF Commands
  <2>2. rx[i][1] = 12 /\ rx[i][3] = 1  BY DEF Starts
  <2>3. rx[i][2] = 0 /\ rx[i] = <<rx[i][1], rx[i][2], rx[i][3]>>  BY <2>1, <2>2, UnitType
  <2>. QED  BY <2>2, <2>3 DEF Mark
<1>4. ~(i <= Chunks - Len(file))
  <2>1. ASSUME i <= Chunks - Len(file) PROVE FALSE
    <3>1. Incoming[i] = Chunk(streams, Len(file) + i)  BY <1>2, <2>1, WithinStream
    <3>2. Incoming[i][1] = Payload /\ Incoming[i][1] = 12  BY <1>1, <1>3, <3>1 DEF Chunk, Mark
    <3>. QED  BY <3>2 DEF Payload
  <2>. QED  BY <2>1
<1>5. i - 1 >= Chunks - Len(file)  BY <1>1, <1>2, <1>4
<1>6. due = 0
  <2>1. due > 0 => Len(Incoming) = Chunks - Len(file)  BY WithinStream
  <2>. QED  BY <1>1, <1>2, <1>4, <2>1
<1>. QED  BY <1>1, <1>2, <1>3, <1>5, <1>6

LEMMA MarkerParsed ==
  ASSUME Typed, Typed', Filed, Followed, ParseMarker
  PROVE  Filed' /\ Followed' /\ UNCHANGED reader
<1>1. PICK i : i = Min(Markers)  OBVIOUS
<1>2. /\ InStream /\ Markers # {} /\ Consumes(i - 1) /\ Takes(i - 1 + PacketLen)
      /\ Finishes("result") /\ UNCHANGED reader /\ Untouched
  BY <1>1 DEF ParseMarker, Parsing, Elsewhere, Untouched, calls, board, past
<1>3. /\ i \in Markers /\ i \in 1..Len(rx) /\ i - 1 + PacketLen \in PacketLen..Len(rx)
      /\ \A k \in Markers : i <= k
  BY <1>1, <1>2, FirstMarker
<1>4. Phase /\ Tokens(Incoming)  BY DEF Followed
<1>5. Starts(rx[i], {12}) /\ active.pending  BY <1>3 DEF Markers
<1>6. Incoming[i] = Mark(12) /\ i \in 1..Len(Incoming) /\ i - 1 >= Chunks - Len(file) /\ due = 0
  BY <1>2, <1>3, <1>4, <1>5, NotWithin
<1>7. /\ Incoming \in Seq(Units) /\ Len(rx) \in Nat /\ Len(Incoming) \in Nat
      /\ Chunks \in Nat /\ Len(file) \in Nat
      /\ \A k \in 1..Len(rx) : Incoming[k] = rx[k]
  BY Sizes
<1>8. PICK n, m : n = i - 1 /\ m = i - 1 + PacketLen  OBVIOUS
<1>9. n \in 0..Len(rx) /\ m \in n..Len(rx) /\ m + 1 = i + PacketLen
  BY <1>3, <1>7, <1>8, Constants
<1>10. m < Len(Incoming) => Begins(Incoming[m + 1]) \/ Incoming[m + 1][1] = Payload
  <2>1. 12 \in Commands  BY DEF Commands
  <2>2. i + PacketLen <= Len(Incoming) =>
          Begins(Incoming[i + PacketLen]) \/ Incoming[i + PacketLen][1] = Payload
    BY <1>4, <1>6, <1>7, <2>1, WholePacket
  <2>3. m \in Nat /\ (m < Len(Incoming) => m + 1 <= Len(Incoming))  BY <1>7, <1>9
  <2>. QED  BY <1>9, <2>2, <2>3
<1>11. ASSUME stopped = streams PROVE n <= Chunks - Len(file)
  <2>1. PICK k : k = Chunks - Len(file) + 1  OBVIOUS
  <2>2. Chunks - Len(file) \in 0..(Len(Incoming) - 1) /\ Incoming[k] = Mark(12)
    BY <1>2, <1>4, <1>11, <2>1, WithinStream
  <2>3. CASE k >= i  BY <1>3, <1>7, <1>8, <2>1, <2>3
  <2>4. CASE ~(k >= i)
    <3>1. k \in 1..Len(rx) /\ k < i /\ k \in 1..(Len(rx) - PacketLen + 1)
      <4>1. k \in Nat \ {0}  BY <1>7, <2>1, <2>2
      <4>2. k < i  BY <1>3, <2>4, <4>1
      <4>3. i <= Len(rx) - PacketLen + 1  BY <1>3, <1>7, Constants
      <4>4. i \in Nat /\ PacketLen \in Nat \ {0} /\ Len(rx) \in Nat  BY <1>3, <1>7, Constants
      <4>. QED  BY ONLY <4>1, <4>2, <4>3, <4>4
    <3>2. rx[k] = Mark(12)  BY <1>7, <2>2, <3>1
    <3>3. Starts(rx[k], {12})  BY <3>2 DEF Starts, Mark
    <3>4. k \in Markers  BY <1>5, <3>1, <3>3 DEF Markers
    <3>5. i <= k  BY <1>3, <3>4
    <3>. QED  BY <1>3, <1>7, <3>1, <3>5
  <2>. QED  BY <2>3, <2>4
<1>12. n >= Chunks - Len(file)  BY <1>6, <1>8
<1>13. Consumes(n) /\ Takes(m)  BY <1>2, <1>8
<1>. QED  BY <1>2, <1>6, <1>9, <1>10, <1>11, <1>12, <1>13, StreamFinishes

LEMMA HeldParsed ==
  ASSUME Typed, Typed', Filed, Followed, ParseHeld
  PROVE  Filed' /\ Followed' /\ UNCHANGED reader
<1>1. PICK n : n = Len(rx) - (PacketLen - 1)  OBVIOUS
<1>2. /\ InStream /\ Markers = {} /\ active.pending /\ Len(rx) >= PacketLen
      /\ Consumes(n) /\ Takes(n) /\ UNCHANGED <<reader, active, handle>> /\ Untouched
  BY <1>1 DEF ParseHeld, Parsing, Elsewhere, Untouched, calls, board, past
<1>3. /\ Incoming \in Seq(Units) /\ Len(rx) \in Nat /\ Len(Incoming) \in Nat
      /\ Chunks \in Nat /\ Len(file) \in Nat
      /\ \A k \in 1..Len(rx) : Incoming[k] = rx[k]
  BY Sizes
<1>4. n \in 1..Len(rx)  BY <1>1, <1>2, <1>3, Constants
<1>5. ASSUME stopped = streams PROVE n <= Chunks - Len(file)
  <2>1. PICK k : k = Chunks - Len(file) + 1  OBVIOUS
  <2>2. Chunks - Len(file) \in 0..(Len(Incoming) - 1) /\ Incoming[k] = Mark(12)
    BY <1>2, <1>5, <2>1, WithinStream DEF Followed
  <2>3. CASE n < k  BY <1>3, <1>4, <2>1, <2>3
  <2>4. CASE ~(n < k)
    <3>1. k \in 1..Len(rx) /\ k \in 1..(Len(rx) - PacketLen + 1)
      BY <1>1, <1>3, <1>4, <2>1, <2>2, <2>4, Constants
    <3>2. rx[k] = Mark(12)  BY <1>3, <2>2, <3>1
    <3>3. Starts(rx[k], {12})  BY <3>2 DEF Starts, Mark
    <3>4. k \in Markers  BY <1>2, <3>1, <3>3 DEF Markers
    <3>. QED  BY <1>2, <3>4
  <2>. QED  BY <2>3, <2>4
<1>. QED  BY <1>2, <1>4, <1>5, StreamGoesOn

LEMMA PayloadParsed ==
  ASSUME Typed, Typed', Filed, Followed, ParsePayload
  PROVE  Filed' /\ Followed' /\ UNCHANGED reader
<1>1. InStream /\ ~active.pending /\ rx # <<>> /\ UNCHANGED reader /\ Untouched
  BY DEF ParsePayload, Parsing, Elsewhere, Untouched, calls, board, past
<1>2. /\ Phase /\ Tokens(Incoming)
      /\ Len(file) <= Chunks /\ Len(file) < active.total
      /\ stopped # streams
  <2>1. active.on  BY <1>1 DEF InStream
  <2>. QED  BY <1>1, <2>1 DEF Followed, AtUnit, Announced
<1>3. PICK n \in 0..Len(rx) :
        /\ n <= active.total - Len(file) \/ n = 0
        /\ rx' = SubSeq(rx, n + 1, Len(rx)) /\ file' = file \o SubSeq(rx, 1, n)
        /\ \/ n >= active.total - Len(file) /\ Finishes("result")
           \/ n = Len(rx) /\ n < active.total - Len(file) /\ UNCHANGED <<active, handle>>
  BY PayloadTaken
<1>4. Takes(n) /\ Consumes(n)  BY <1>3 DEF Takes, Consumes
<1>5. /\ rx \in Seq(Units) /\ Len(rx) \in Nat /\ Len(wire) \in Nat /\ due \in Nat
      /\ Chunks \in Nat /\ Len(file) \in Nat /\ active.total \in Nat
      /\ Len(Incoming) = Len(rx) + Len(wire)
  BY Sizes
<1>6. /\ due > 0 => due + Chunks = active.total /\ Len(Incoming) = Chunks - Len(file)
      /\ due = 0 => active.total = Chunks
  BY <1>1, <1>2, WithinStream
<1>7. CASE n >= active.total - Len(file) /\ Finishes("result")
  <2>1. n = active.total - Len(file) /\ n >= 1  BY <1>2, <1>3, <1>5, <1>7
  <2>2. due = 0
    <3>1. ASSUME due > 0 PROVE FALSE
      <4>1. due + Chunks = active.total /\ Len(rx) <= Chunks - Len(file) /\ n <= Len(rx)
        BY <1>5, <1>6, <3>1
      <4>. QED  BY <1>5, <2>1, <3>1, <4>1
    <3>. QED  BY <1>5, <3>1
  <2>3. n = Chunks - Len(file)  BY <1>6, <2>1, <2>2
  <2>4. n \in n..Len(rx) /\ n >= Chunks - Len(file) /\ n <= Chunks - Len(file)
    BY <1>5, <2>3
  <2>5. ASSUME n < Len(Incoming)
        PROVE  Begins(Incoming[n + 1]) \/ Incoming[n + 1][1] = Payload
    <3>1. n \in 1..(Len(Incoming) - 1)  BY <1>5, <2>1, <2>5
    <3>. QED  BY <1>1, <1>2, <2>4, <3>1, NextUnit
  <2>. QED  BY <1>1, <1>4, <1>7, <2>2, <2>4, <2>5, StreamFinishes
<1>8. CASE n = Len(rx) /\ n < active.total - Len(file) /\ UNCHANGED <<active, handle>>
  <2>1. n \in 1..Len(rx)
    <3>1. Len(rx) # 0  BY <1>1, <1>5, EmptySeq
    <3>. QED  BY <1>5, <1>8, <3>1
  <2>2. n <= Chunks - Len(file)
    <3>1. CASE due > 0  BY <1>5, <1>6, <1>8, <3>1
    <3>2. CASE ~(due > 0)
      <4>1. active.total = Chunks  BY <1>5, <1>6, <3>2
      <4>. QED  BY <1>5, <1>8, <4>1
    <3>. QED  BY <3>1, <3>2
  <2>. QED  BY <1>1, <1>4, <1>8, <2>1, <2>2, StreamGoesOn
<1>. QED  BY <1>1, <1>3, <1>7, <1>8

LEMMA FirstUnit ==
  ASSUME Typed, rx # <<>>
  PROVE  /\ 1 \in 1..Len(rx) /\ 1 \in 1..Len(Incoming) /\ Incoming[1] = rx[1] /\ rx[1] \in Units
         /\ Incoming # <<>> /\ Len(rx) <= Len(Incoming)
<1>1. /\ rx \in Seq(Units) /\ Len(rx) \in Nat /\ Len(wire) \in Nat
      /\ Len(Incoming) = Len(rx) + Len(wire) /\ Incoming \in Seq(Units)
      /\ \A i \in 1..Len(rx) : Incoming[i] = rx[i]
  BY Sizes
<1>2. Len(rx) # 0  BY <1>1, EmptySeq
<1>3. 1 \in 1..Len(rx) /\ 1 \in 1..Len(Incoming) /\ Len(rx) <= Len(Incoming)
  BY <1>1, <1>2
<1>4. Incoming # <<>>  BY <1>1, <1>3, EmptySeq
<1>. QED  BY <1>1, <1>3, <1>4, ElementOfSeq

\* Outside the payload of a stream, a packet or a header comes next.
LEMMA OutOfStream ==
  ASSUME Typed, AtUnit, ~InStream, rx # <<>>
  PROVE  rx[1][1] \in Commands \union {Start} /\ rx[1][3] = 1
<1>1. Incoming[1] = rx[1] /\ rx[1] \in Units /\ Incoming # <<>>  BY FirstUnit
<1>2. Begins(rx[1])  BY <1>1 DEF AtUnit
<1>. QED  BY <1>1, <1>2, UnitType DEF Begins

LEMMA PacketParsed ==
  ASSUME Typed, Typed', Filed, Followed, ParsePacket
  PROVE  Filed' /\ Followed' /\ UNCHANGED reader
<1>1. /\ rx # <<>> /\ ~InStream /\ Starts(rx[1], Commands) /\ Len(rx) >= PacketLen
      /\ Takes(PacketLen) /\ UNCHANGED <<reader, active, handle, file>> /\ Untouched
  BY DEF ParsePacket, Parsing, Ahead, Elsewhere, Untouched, calls, board, past
<1>2. Phase /\ Once /\ Announced /\ AtUnit /\ Tokens(Incoming)  BY DEF Followed
<1>3. /\ 1 \in 1..Len(Incoming) /\ Incoming[1] = rx[1] /\ rx[1] \in Units
      /\ Len(rx) <= Len(Incoming)
  BY <1>1, FirstUnit
<1>4. PICK c, m : c = rx[1][1] /\ m = PacketLen  OBVIOUS
<1>5. c \in Commands /\ Incoming[1] = Mark(c)
  <2>1. rx[1][3] = 1 /\ c \in Commands  BY <1>1, <1>4 DEF Starts
  <2>. QED  BY <1>3, <1>4, <2>1, UnitType DEF Mark
<1>6. /\ Incoming \in Seq(Units) /\ Len(rx) \in Nat /\ Len(Incoming) \in Nat /\ m \in Nat /\ m > 0
      /\ Chunks \in Nat /\ streams \in Nat /\ due \in Nat /\ stopped \in Nat /\ HeaderLen \in Nat
      /\ HeaderLen > 0 /\ m \in 0..Len(rx)
  <2>1. /\ Incoming \in Seq(Units) /\ Len(rx) \in Nat /\ Len(Incoming) \in Nat
        /\ Chunks \in Nat /\ streams \in Nat /\ due \in Nat /\ stopped \in Nat
    BY Sizes
  <2>. QED  BY <1>1, <1>4, <2>1, Constants
<1>7. /\ \A k \in 1..m : Incoming[k] = <<c, 0, k>>
      /\ m + 1 <= Len(Incoming) => Begins(Incoming[m + 1]) \/ Incoming[m + 1][1] = Payload
  <2>1. /\ \A k \in 1..PacketLen : Incoming[1 + k - 1] = <<c, 0, k>>
        /\ 1 + PacketLen <= Len(Incoming) =>
             Begins(Incoming[1 + PacketLen]) \/ Incoming[1 + PacketLen][1] = Payload
    BY <1>2, <1>3, <1>5, <1>6, WholePacket
  <2>2. \A k \in 1..m : 1 + k - 1 = k  BY <1>6
  <2>3. 1 + m = m + 1  BY <1>6
  <2>. QED  BY <1>4, <2>1, <2>2, <2>3
<1>8. /\ m \in 0..Len(Incoming)
      /\ Incoming' = SubSeq(Incoming, m + 1, Len(Incoming))
      /\ \A i \in 1..Len(Incoming)' : Incoming[m + i] = Incoming'[i]
      /\ Len(Incoming)' = Len(Incoming) - m
  BY <1>1, <1>4, <1>6, IncomingTakes DEF Untouched
<1>9. /\ Chunks' = Chunks /\ (InStream' <=> InStream) /\ (Prepared' <=> Prepared)
  BY <1>1 DEF Chunks, InStream, Prepared, Untouched
<1>10. Payload \notin Commands /\ Start \notin Commands /\ Payload # Start
  BY DEF Payload, Commands, Start
<1>11. /\ Phase' /\ (Quiet => Quiet')
       /\ m + 1 <= Len(Incoming) => Incoming[m + 1][1] # Payload
  <2>1. CASE Quiet
    <3>1. ASSUME NEW i \in 1..Len(Incoming)' PROVE Incoming'[i][1] \in Commands
      <4>1. PICK j, l : j = m + i /\ l = Len(Incoming)  OBVIOUS
      <4>2. i \in 1..(l - m) /\ l \in Nat  BY <1>6, <1>8, <4>1
      <4>3. j \in 1..Len(Incoming)  BY <1>6, <4>1, <4>2
      <4>. QED  BY <1>8, <2>1, <4>1, <4>3 DEF Quiet
    <3>2. Quiet'  BY <1>1, <1>9, <2>1, <3>1 DEF Quiet, Untouched
    <3>3. m + 1 <= Len(Incoming) => m + 1 \in 1..Len(Incoming)  BY <1>6
    <3>. QED  BY <1>10, <2>1, <3>2, <3>3 DEF Phase, Quiet
  <2>2. CASE ~Quiet
    <3>1. Headed  BY <1>1, <1>2, <2>2 DEF Phase, Streaming
    <3>2. PICK b \in HeaderLen..Len(Incoming), t \in Totals \union {0} :
            Flow(Incoming, b, Chunks, t, streams, due, stopped)
      BY <3>1 DEF Headed
    <3>3. b \in Nat /\ b <= Len(Incoming) /\ HeaderLen <= b /\ t \in Nat  BY <1>6, Constants
    <3>4. Content(Incoming, b, Chunks, t, streams)  BY <3>2 DEF Flow
    <3>5. m <= b - HeaderLen
      <4>. SUFFICES ASSUME ~(m <= b - HeaderLen) PROVE FALSE  OBVIOUS
      <4>1. PICK j : j = b - HeaderLen + 1  OBVIOUS
      <4>2. j \in 1..m /\ j \in 1..Len(Incoming) /\ b - HeaderLen < j /\ j <= b
        BY <1>6, <3>3, <4>1
      <4>3. Incoming[j] = <<Start, t, j - b + HeaderLen>>  BY <3>4, <4>2 DEF Content
      <4>4. Incoming[j] = <<c, 0, j>>  BY <1>7, <4>2
      <4>5. Incoming[j][1] = Start /\ Incoming[j][1] = c  BY <4>3, <4>4
      <4>. QED  BY <1>5, <1>10, <4>5
    <3>6. PICK n, s, d, k, z : n = Chunks /\ s = streams /\ d = due /\ k = stopped /\ z = b - m
      OBVIOUS
    <3>7. k = s => m <= b + n  BY <1>6, <3>3, <3>5, <3>6
    <3>8. Flow(Incoming, b, n, t, s, d, k) /\ n \in Nat /\ s \in Nat /\ d \in Nat /\ k \in Nat
      BY <1>6, <3>2, <3>6
    <3>9. Flow(SubSeq(Incoming, m + 1, Len(Incoming)), b - m, n, t, s, d, k)
      <4>1. b \in Int  BY <3>3
      <4>. QED  BY <1>6, <1>8, <3>3, <3>7, <3>8, <4>1, FlowCut
    <3>10. Flow(Incoming', z, Chunks', t, streams', due', stopped')
      BY <1>1, <1>8, <1>9, <3>6, <3>9 DEF Untouched
    <3>11. z \in HeaderLen..Len(Incoming')
      <4>1. Len(Incoming') = Len(Incoming) - m  BY <1>8
      <4>. QED  BY <1>6, <3>3, <3>5, <3>6, <4>1
    <3>12. Headed'  BY <1>9, <3>1, <3>10, <3>11, HeadedNow DEF Headed
    <3>13. ASSUME m + 1 <= Len(Incoming) PROVE Incoming[m + 1][1] # Payload
      <4>1. PICK j : j = m + 1  OBVIOUS
      <4>2. j \in 1..Len(Incoming) /\ j <= b  BY <1>6, <3>3, <3>5, <3>13, <4>1
      <4>3. CASE j <= b - HeaderLen
        <5>1. Incoming[j][1] \in Commands  BY <3>4, <4>2, <4>3 DEF Content
        <5>. QED  BY <1>10, <4>1, <5>1
      <4>4. CASE ~(j <= b - HeaderLen)
        <5>1. b - HeaderLen < j  BY <1>6, <3>3, <4>2, <4>4
        <5>2. Incoming[j] = <<Start, t, j - b + HeaderLen>>  BY <3>4, <4>2, <5>1 DEF Content
        <5>. QED  BY <1>10, <4>1, <5>2
      <4>. QED  BY <4>3, <4>4
    <3>. QED  BY <2>2, <3>12, <3>13 DEF Phase
  <2>. QED  BY <2>1, <2>2
<1>12. Tokens(Incoming)'
  <2>1. Tokens(SubSeq(Incoming, m + 1, Len(Incoming)))  BY <1>2, <1>6, <1>8, TokensCut
  <2>. QED  BY <1>8, <2>1 DEF Tokens
<1>13. AtUnit'
  <2>1. ASSUME Incoming' # <<>> PROVE Begins(Incoming'[1])
    <3>1. Len(Incoming') > 0  BY <2>1, EmptySeq, Sizes DEF Typed
    <3>2. 1 \in 1..Len(Incoming)' /\ m + 1 <= Len(Incoming)
      <4>1. Len(Incoming') = Len(Incoming) - m  BY <1>8
      <4>. QED  BY <1>6, <3>1, <4>1
    <3>. QED  BY <1>7, <1>8, <1>11, <3>2
  <2>. QED  BY <1>1, <1>9, <2>1 DEF AtUnit
<1>14. Filed'  BY <1>1, <1>9, FiledKept DEF Untouched
<1>15. Once'
  <2>1. (NoStart' <=> NoStart) /\ (OneStart' <=> OneStart) /\ (Unsent' <=> Unsent)
    BY <1>1 DEF Untouched, NoStart, OneStart, Unsent
  <2>. QED  BY <1>1, <1>2, <1>11, <2>1, OnceServed DEF Once, Untouched
<1>16. Announced'  BY <1>1, <1>2, AnnouncedParsed
<1>. QED  BY <1>1, <1>11, <1>12, <1>13, <1>14, <1>15, <1>16 DEF Followed

LEMMA HeaderParsed ==
  ASSUME Typed, Typed', Filed, Followed, ParseHeader
  PROVE  Filed' /\ Followed' /\ UNCHANGED reader
<1>1. /\ rx # <<>> /\ ~InStream /\ Starts(rx[1], {Start}) /\ Len(rx) >= HeaderLen
      /\ Takes(HeaderLen) /\ UNCHANGED <<reader, file>> /\ Untouched
  BY DEF ParseHeader, Parsing, Ahead, Elsewhere, Untouched, calls, board, past
<1>2. Phase /\ Once /\ Announced /\ Tokens(Incoming)  BY DEF Followed
<1>3. 1 \in 1..Len(Incoming) /\ Incoming[1] = rx[1] /\ Len(rx) <= Len(Incoming)
      /\ Incoming[1][1] = Start
  BY <1>1, FirstUnit DEF Starts
<1>4. PICK m, a : m = HeaderLen /\ a = Len(Incoming)  OBVIOUS
<1>5. /\ Incoming \in Seq(Units) /\ Len(rx) \in Nat /\ a \in Nat /\ m \in Nat /\ m > 0
      /\ Chunks \in Nat /\ streams \in Nat /\ due \in Nat /\ stopped \in Nat
      /\ m \in 0..Len(rx) /\ m <= a
  <2>1. /\ Incoming \in Seq(Units) /\ Len(rx) \in Nat /\ Len(Incoming) \in Nat
        /\ Chunks \in Nat /\ streams \in Nat /\ due \in Nat /\ stopped \in Nat
    BY Sizes
  <2>. QED  BY <1>1, <1>3, <1>4, <2>1, Constants
<1>6. Payload \notin Commands /\ Start \notin Commands /\ Payload # Start
  BY DEF Payload, Commands, Start
<1>7. ~Quiet /\ Headed
  <2>1. ~Quiet  BY <1>3, <1>6 DEF Quiet
  <2>. QED  BY <1>1, <1>2, <2>1 DEF Phase, Streaming
<1>8. PICK b \in HeaderLen..Len(Incoming), t \in Totals \union {0} :
        Flow(Incoming, b, Chunks, t, streams, due, stopped)
  BY <1>7 DEF Headed
<1>9. Content(Incoming, b, Chunks, t, streams) /\ b \in Nat /\ t \in Nat
  BY <1>8, Constants DEF Flow
<1>10. b = m
  <2>1. ~(1 <= b - HeaderLen)
    <3>1. 1 <= b - HeaderLen => Incoming[1][1] \in Commands  BY <1>3, <1>9 DEF Content
    <3>. QED  BY <1>3, <1>6, <3>1
  <2>. QED  BY <1>4, <1>5, <1>9, <2>1
<1>11. /\ Incoming[m] = <<Start, t, HeaderLen>> /\ Incoming[1] = <<Start, t, 1>>
       /\ \A i \in 1..a : i > m + Chunks => Incoming[i][1] \in Commands
  <2>1. /\ m \in 1..Len(Incoming) /\ b - HeaderLen = 0 /\ 0 < 1 /\ 1 <= b
        /\ m - b + HeaderLen = HeaderLen /\ 1 - b + HeaderLen = 1
        /\ b - HeaderLen < m /\ m <= b
    BY <1>4, <1>5, <1>10
  <2>2. /\ Incoming[m] = <<Start, t, m - b + HeaderLen>>
        /\ Incoming[1] = <<Start, t, 1 - b + HeaderLen>>
    BY <1>3, <1>9, <2>1 DEF Content
  <2>3. \A i \in 1..a : i > m + Chunks => b + Chunks < i  BY <1>5, <1>9, <1>10
  <2>. QED  BY <1>4, <1>9, <2>1, <2>2, <2>3 DEF Content
<1>12. t = rx[1][2]  BY <1>3, <1>11
<1>13. /\ m \in 0..a
       /\ Incoming' = SubSeq(Incoming, m + 1, Len(Incoming))
       /\ \A i \in 1..Len(Incoming)' : Incoming[m + i] = Incoming'[i]
       /\ Len(Incoming)' = a - m
  BY <1>1, <1>4, <1>5, IncomingTakes DEF Untouched
<1>14. Chunks' = Chunks /\ active.on /\ streams > 0 /\ file = <<>> /\ Len(file) = 0
  BY <1>1, <1>7 DEF Chunks, Untouched, Headed, Prepared
<1>15. Tokens(Incoming)'
  <2>1. Tokens(SubSeq(Incoming, m + 1, Len(Incoming)))  BY <1>2, <1>4, <1>5, <1>13, TokensCut
  <2>. QED  BY <1>13, <2>1 DEF Tokens
<1>16. ASSUME Incoming' # <<>>
       PROVE  1 \in 1..Len(Incoming)' /\ (Begins(Incoming'[1]) \/ Incoming'[1][1] = Payload)
  <2>1. Len(Incoming') > 0  BY <1>16, EmptySeq, Sizes DEF Typed
  <2>2. 1 \in 1..Len(Incoming)' /\ m \in 1..(Len(Incoming) - 1)
    <3>1. Len(Incoming') = a - m  BY <1>13
    <3>. QED  BY <1>4, <1>5, <2>1, <3>1
  <2>3. Follows(Incoming[m], Incoming[m + 1])  BY <1>2, <2>2 DEF Tokens
  <2>4. Ends(Incoming[m])  BY <1>11 DEF Ends
  <2>5. Begins(Incoming[m + 1]) \/ Incoming[m + 1][1] = Payload  BY <2>3, <2>4 DEF Follows
  <2>. QED  BY <1>13, <2>2, <2>5
<1>17. CASE t = 0
  <2>1. Finishes("error")  BY <1>12, <1>14, <1>17 DEF ParseHeader
  <2>2. ~active'.on /\ ~InStream' /\ handle' = "error"  BY <2>1 DEF Finishes, NoStream, InStream
  <2>3. due = 0 /\ Chunks = 0
    <3>1. Chunks <= 0 /\ (due > 0 => due + Chunks = 0)  BY <1>8, <1>17 DEF Flow
    <3>. QED  BY <1>5, <3>1
  <2>4. ASSUME NEW i \in 1..Len(Incoming)' PROVE Incoming'[i][1] \in Commands
    <3>1. PICK j : j = m + i  OBVIOUS
    <3>2. i \in 1..(a - m)  BY <1>13
    <3>3. j \in 1..a /\ j > m + Chunks  BY <1>5, <2>3, <3>1, <3>2
    <3>. QED  BY <1>11, <1>13, <3>1, <3>3
  <2>5. Quiet'  BY <1>1, <2>2, <2>3, <2>4 DEF Quiet, Untouched
  <2>6. AtUnit'
    <3>1. Incoming' # <<>> => Begins(Incoming'[1])  BY <1>6, <1>16, <2>4
    <3>. QED  BY <2>2, <3>1 DEF AtUnit
  <2>7. Filed'  BY <1>1, <1>14, <2>2, FiledKept DEF Untouched
  <2>8. Once'
    <3>1. ~Unserved  BY <1>2, <1>7 DEF Once
    <3>2. daq => sender.header  BY <1>2, <3>1 DEF Once, Unserved
    <3>3. ~(due > 0)  BY <2>3
    <3>4. ~daq  BY <3>2, <3>3 DEF Typed, BoardOK, Shape
    <3>. QED  BY <1>1, <1>2, <1>7, <3>4, OnceParsed
  <2>9. Announced'  BY <1>1, <1>2, <2>2, AnnouncedParsed
  <2>. QED  BY <1>1, <1>15, <2>5, <2>6, <2>7, <2>8, <2>9 DEF Followed, Phase
<1>18. CASE t # 0
  <2>1. active' = [active EXCEPT !.total = t] /\ UNCHANGED handle
    BY <1>12, <1>14, <1>18 DEF ParseHeader
  <2>2. active'.on /\ active'.total = t /\ active'.pending = active.pending /\ t > 0
    BY <1>9, <1>14, <1>18, <2>1 DEF Typed, SessionOK
  <2>3. InStream'  BY <2>2 DEF InStream
  <2>4. PICK n, s, d, k, z : n = Chunks /\ s = streams /\ d = due /\ k = stopped /\ z = b - m
    OBVIOUS
  <2>5. /\ Flow(Incoming, b, n, t, s, d, k) /\ n \in Nat /\ s \in Nat /\ d \in Nat /\ k \in Nat
        /\ b \in Int /\ m <= b + n
    BY <1>5, <1>8, <1>9, <1>10, <2>4
  <2>6. Flow(SubSeq(Incoming, m + 1, Len(Incoming)), b - m, n, t, s, d, k)
    BY <1>4, <1>5, <1>9, <1>13, <2>5, FlowCut
  <2>7. Flow(Incoming', z, Chunks', t, streams', due', stopped')
    BY <1>1, <1>13, <1>14, <2>4, <2>6 DEF Untouched
  <2>8. z = 0 - Len(file') /\ streams' > 0
    <3>1. PICK f : f = Len(file')  OBVIOUS
    <3>2. f = 0  BY <1>1, <1>14, <3>1
    <3>3. z = 0 - f  BY <1>5, <1>10, <2>4, <3>2
    <3>4. streams' > 0  BY <1>1, <1>14 DEF Untouched
    <3>. QED  BY <3>1, <3>3, <3>4
  <2>9. Streaming'  BY <2>2, <2>3, <2>7, <2>8, StreamingNow
  <2>10. AtUnit'
    <3>1. Len(file') <= Chunks' /\ Len(file') < active'.total  BY <1>1, <1>5, <1>14, <2>2
    <3>. QED  BY <1>16, <2>3, <3>1 DEF AtUnit
  <2>11. Filed'  BY <1>1, <1>14, <2>1, FiledKept DEF Untouched
  <2>12. Once'  BY <1>1, <1>2, <1>7, <2>2, OnceParsed
  <2>13. Announced'  BY <1>1, <1>2, <1>14, <2>2, AnnouncedParsed
  <2>. QED  BY <1>1, <1>15, <2>9, <2>10, <2>11, <2>12, <2>13 DEF Followed, Phase
<1>. QED  BY <1>17, <1>18

LEMMA SoundReader ==
  ASSUME Typed, Typed', Filed, Followed, reader # "lost", Reader
  PROVE  Filed' /\ Followed' /\ reader' # "lost"
<1>1. CASE ParseMarker  BY <1>1, MarkerParsed
<1>2. CASE ParseHeld  BY <1>2, HeldParsed
<1>3. CASE ParsePayload  BY <1>3, PayloadParsed
<1>4. CASE ParseHeader  BY <1>4, HeaderParsed
<1>5. CASE ParsePacket  BY <1>5, PacketParsed
<1>6. CASE Recv \/ ParseNothing
  <2>1. UNCHANGED <<job, commands, sender, daq, streams, stopped, sent, due>>
    BY <1>6 DEF Recv, ParseNothing, Elsewhere, calls, board, past
  <2>2. UNCHANGED <<active, handle, file>> /\ reader' # "lost"
    BY <1>6 DEF Recv, ParseNothing, session
  <2>3. Incoming' = Incoming
    <3>1. CASE Recv  BY <3>1, IncomingRecv
    <3>2. CASE ParseNothing  BY <3>2 DEF ParseNothing, Elsewhere, Incoming
    <3>. QED  BY <1>6, <3>1, <3>2
  <2>4. Phase' /\ (Quiet <=> Quiet') /\ Chunks' = Chunks
    BY <2>1, <2>2, <2>3, PhaseKept DEF Followed
  <2>5. Tokens(Incoming)'  BY <2>3 DEF Followed, Tokens
  <2>6. AtUnit'  BY <2>2, <2>3, <2>4, AtUnitKept DEF Followed
  <2>7. Filed'  BY <2>1, <2>2, <2>4, FiledKept
  <2>8. (NoStart' <=> NoStart) /\ (OneStart' <=> OneStart) /\ (Unsent' <=> Unsent)
        /\ \A i : Later(i)' <=> Later(i)
    BY <2>1 DEF NoStart, OneStart, Unsent, Later
  <2>9. Once'  BY <2>1, <2>2, <2>4, <2>8, OnceServed DEF Followed, Once
  <2>10. Announced'  BY <2>1, <2>2, <2>8 DEF Followed, Announced, StopsKnown
  <2>. QED  BY <2>2, <2>4, <2>5, <2>6, <2>7, <2>9, <2>10 DEF Followed
<1>7. CASE ParseLost
  <2>1. rx # <<>> /\ ~InStream /\ ~Starts(rx[1], Commands \union {Start})
    BY <1>7 DEF ParseLost, Parsing, Ahead
  <2>2. rx[1][1] \in Commands \union {Start} /\ rx[1][3] = 1
    BY <2>1, OutOfStream DEF Followed
  <2>. QED  BY <2>1, <2>2 DEF Starts
<1>. QED  BY <1>1, <1>2, <1>3, <1>4, <1>5, <1>6, <1>7 DEF Reader

LEMMA SoundInit == Init => Sound
<1>. SUFFICES ASSUME Init PROVE Sound  OBVIOUS
<1>1. /\ rx = <<>> /\ wire = <<>> /\ file = <<>> /\ commands = <<>> /\ active = NoStream
      /\ streams = 0 /\ due = 0 /\ stopped = 0 /\ job = "idle" /\ handle = "none"
      /\ sender = NoSender /\ daq = FALSE /\ sent = [s \in 1..MaxTurns |-> 0] /\ reader = "recv"
  BY DEF Init
<1>2. Incoming = <<>> /\ Len(Incoming) = 0  BY <1>1 DEF Incoming
<1>3. ~active.on /\ ~InStream  BY <1>1 DEF NoStream, InStream
<1>4. Tokens(Incoming)  BY <1>2 DEF Tokens
<1>5. Quiet  BY <1>1, <1>2, <1>3 DEF Quiet
<1>6. NoStart /\ OneStart /\ ~Unserved /\ ~Unsent /\ sender.id = 0
  BY <1>1 DEF NoStart, OneStart, Unserved, Unsent, NoSender
<1>7. Once  BY <1>1, <1>6 DEF Once
<1>8. Announced  BY <1>1, <1>3 DEF Announced, StopsKnown
<1>9. AtUnit  BY <1>2, <1>3 DEF AtUnit
<1>10. Filed  BY <1>1 DEF Filed
<1>. QED  BY <1>1, <1>4, <1>5, <1>7, <1>8, <1>9, <1>10 DEF Sound, Followed, Phase

LEMMA SoundDisconnect ==
  ASSUME Typed, Filed, Disconnect
  PROVE  Filed' /\ reader' # "lost" /\ ~online'
<1>1. /\ UNCHANGED <<file, streams, sent, due, stopped>> /\ online' = FALSE /\ reader' = "ended"
      /\ handle' = "result" => handle = "result"
  BY DEF Disconnect, calls, board, past
<1>2. Chunks' = Chunks  BY <1>1 DEF Chunks
<1>. QED  BY <1>1, <1>2, FiledKept

\* Once something was sent where payload was due, nothing is said of the rest.
LEMMA MixedStays == Typed /\ [Next]_vars /\ mixed => mixed'
<1>. SUFFICES ASSUME Typed, [Next]_vars, mixed PROVE mixed'  OBVIOUS
<1>. USE DEF calls, session, input, board, past, Elsewhere
<1>1. CASE UNCHANGED vars  BY <1>1 DEF vars
<1>2. CASE Caller
  BY <1>2 DEF Caller, KeepJob, PrepareStream, SendStart, StopDaq, SendStop, StopAck, HandleWait,
              JobStatus, PollTest, PollSend, PollWait
<1>3. CASE Board
  BY <1>3 DEF Board, Serve, ServeStart, ServeStop, SendsPacket, SendHeader, SendChunk, EndStream,
              IdleHeartbeat
<1>4. CASE Reader
  BY <1>4 DEF Reader, Recv, ParseMarker, ParseHeld, ParsePayload, ParseHeader, ParsePacket,
              ParseNothing, ParseLost
<1>5. CASE Disconnect  BY <1>5 DEF Disconnect
<1>. QED  BY <1>1, <1>2, <1>3, <1>4, <1>5 DEF Next

LEMMA SoundNext == Typed /\ Typed' /\ Sound /\ [Next]_vars => Sound'
<1>. SUFFICES ASSUME Typed, Typed', Sound, [Next]_vars, ~mixed'
              PROVE  Filed' /\ reader' # "lost" /\ (online' => Followed')
  BY DEF Sound
<1>1. ~mixed  BY MixedStays
<1>2. Filed /\ reader # "lost" /\ (online => Followed)  BY <1>1 DEF Sound
<1>3. CASE UNCHANGED vars
  <2>1. UNCHANGED <<calls, session, input, commands, wire, board, past>>  BY <1>3 DEF vars
  <2>2. UNCHANGED <<job, online, active, handle, file, reader, rx, commands, wire, daq, sender,
                    streams, sent, due, stopped>>
    BY <2>1 DEF calls, session, input, board, past
  <2>3. UNCHANGED <<Incoming, Chunks, InStream, Prepared, NoStart, OneStart, Unserved, Unsent>>
    BY <2>2 DEF Incoming, Chunks, InStream, Prepared, NoStart, OneStart, Unserved, Unsent
  <2>4. Filed'  BY <1>2, <2>2, <2>3 DEF Filed
  <2>5. ASSUME online' PROVE Followed'
    <3>1. Followed  BY <1>2, <2>2, <2>5
    <3>2. Tokens(Incoming)'  BY <2>3, <3>1 DEF Followed, Tokens
    <3>3. Phase' /\ (Quiet <=> Quiet')  BY <2>2, <2>3, <3>1, PhaseKept DEF Followed
    <3>4. Once'  BY <2>2, <2>3, <3>1, <3>3 DEF Followed, Once
    <3>5. \A i : Later(i)' <=> Later(i)  BY <2>2 DEF Later
    <3>6. Announced'  BY <2>2, <3>1, <3>5 DEF Followed, Announced, StopsKnown
    <3>7. AtUnit'  BY <2>2, <2>3, <3>1 DEF Followed, AtUnit
    <3>. QED  BY <3>2, <3>3, <3>4, <3>6, <3>7 DEF Followed
  <2>. QED  BY <1>2, <2>2, <2>4, <2>5
<1>4. CASE online /\ Caller  BY <1>2, <1>4, SoundCaller
<1>5. CASE online /\ Board  BY <1>2, <1>5, SoundBoard
<1>6. CASE online /\ Reader  BY <1>2, <1>6, SoundReader
<1>7. CASE online /\ Disconnect  BY <1>2, <1>7, SoundDisconnect
<1>. QED  BY <1>3, <1>4, <1>5, <1>6, <1>7 DEF Next

LEMMA SoundIsPayload == Typed /\ Sound => FileIsPayload
<1>. SUFFICES ASSUME Typed, Sound, ~mixed
              PROVE  /\ reader # "lost"
                     /\ streams > 0 =>
                          /\ \A k \in 1..Min({Len(file), sent[streams]}) :
                               file[k] = Chunk(streams, k)
                          /\ handle = "result" => Len(file) >= sent[streams]
                          /\ due > 0 \/ stopped = streams => Len(file) <= sent[streams]
  BY DEF FileIsPayload
<1>1. reader # "lost" /\ Filed  BY DEF Sound
<1>2. ASSUME streams > 0
      PROVE  /\ \A k \in 1..Min({Len(file), sent[streams]}) : file[k] = Chunk(streams, k)
             /\ handle = "result" => Len(file) >= sent[streams]
             /\ due > 0 \/ stopped = streams => Len(file) <= sent[streams]
  <2>1. Chunks = sent[streams] /\ Chunks \in Nat /\ Len(file) \in Nat
    BY <1>2, Sizes DEF Chunks
  <2>2. PICK l : l = Min({Len(file), sent[streams]})  OBVIOUS
  <2>3. l = IF Len(file) <= Chunks THEN Len(file) ELSE Chunks
    <3>1. Len(file) \in Int /\ Chunks \in Int  BY <2>1
    <3>. QED  BY <2>1, <2>2, <3>1, LeastOfTwo
  <2>4. \A k \in 1..l : k \in 1..Len(file) /\ k <= Chunks  BY <2>1, <2>3
  <2>5. \A k \in 1..l : file[k] = Chunk(streams, k)  BY <1>1, <1>2, <2>4 DEF Filed
  <2>. QED  BY <1>1, <1>2, <2>1, <2>2, <2>5 DEF Filed
<1>. QED  BY <1>1, <1>2

\* The receive thread is never lost, and what is written to the file of a stream is its
\* payload, in order and each chunk once, and all of it once the handle has a result, for
\* all lengths of packets, headers and streams and any number of calls, wherever the bytes
\* are cut and whenever the job stops the stream; as long as the board has sent neither a
\* heartbeat nor the reply to a poll where payload was due, nor payload after the answer
\* to the stop (mixed).
THEOREM PayloadCorrect == Spec => []FileIsPayload
<1>1. Init => Typed /\ Sound  BY TypeInit, SoundInit
<1>2. Typed /\ Sound /\ [Next]_vars => (Typed /\ Sound)'  BY TypeNext, SoundNext
<1>3. Typed /\ Sound => FileIsPayload  BY SoundIsPayload
<1>. QED  BY <1>1, <1>2, <1>3, PTL DEF Spec
=============================================================================

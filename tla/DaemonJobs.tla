----------------------------- MODULE DaemonJobs -----------------------------
(***************************************************************************)
(* The capture jobs of the Raspberry Pi daemon (daemon/jobs.py): a thread  *)
(* per job, the rows of the jobs in the database, the files they leave,    *)
(* and the requests that start and stop them.                              *)
(*                                                                         *)
(* "pc" is where a job's thread is; between two of its places other        *)
(* threads run.  All jobs are of one board, whose session has one active   *)
(* stream: its receive thread appends to the file of that stream, whatever *)
(* has become of the job.  A file is its length in blocks.  The database   *)
(* and the files outlive the daemon, nothing else does.                    *)
(***************************************************************************)
EXTENDS Integers

CONSTANTS
  BinJobs,    \* the jobs that may be created, each once: as raw streams,
  CsvJobs,    \*   as streams converted to CSV,
  LogJobs,    \*   as logs on the board
  MaxBlocks,  \* bound of the model: blocks of payload in a capture
  None

Jobs  == BinJobs \union CsvJobs \union LogJobs
MayBe == [bin |-> BinJobs, csv |-> CsvJobs, log |-> LogJobs]
Kinds == DOMAIN MayBe

ASSUME DaemonJobsAssumption == MaxBlocks \in Nat \ {0} /\ None \notin Jobs \union Kinds

VARIABLES
  row,       \* status of the job's row in the database
  kind,      \* "bin", "csv" or "log"
  pc,        \* where the job's thread is
  tracked,   \* JobManager._jobs
  stopSet,   \* jobs whose _stop_event is set
  done,      \* jobs whose _done_event is set
  stopper,   \* a stop request: jobs left to be told, the one just marked
  connected, \* the board has a session
  fresh,     \* jobs about to use the session of now, not one that has ended
  stream,    \* job whose stream is the session's active one
  handles,   \* the StreamHandle of the job's stream
  got,       \* its bytes_received
  disk       \* length of every file of the captures and metadata directories

threads   == <<row, kind, pc>>
requests  == <<tracked, stopSet, done, stopper>>
boardVars == <<connected, fresh, stream>>
jobVars   == <<threads, requests, boardVars, handles, got, disk>>

Absent == -1    \* not yet there
Gone   == -2    \* there no more
Files  == Jobs \X {"raw", "out", "meta"}

Target(j) == <<j, IF kind[j] = "csv" THEN "raw" ELSE "out">>    \* stream_target
Out(j)    == <<j, "out">>                                       \* final_output
Meta(j)   == <<j, "meta">>

NoStop == [left |-> {}, marked |-> None]

JobInit ==
  /\ row = [j \in Jobs |-> "none"] /\ kind = [j \in Jobs |-> None]
  /\ pc = [j \in Jobs |-> "none"]
  /\ tracked = {} /\ stopSet = {} /\ done = {} /\ stopper = NoStop
  /\ connected = FALSE /\ fresh = {} /\ stream = None
  /\ handles = [j \in Jobs |-> "none"] /\ got = [j \in Jobs |-> 0]
  /\ disk = [f \in Files |-> Absent]

Goes(j, from, to) == pc[j] = from /\ pc' = [pc EXCEPT ![j] = to]
Records(j, status) == row' = [row EXCEPT ![j] = status]

-----------------------------------------------------------------------------
(* Requests of the API and the scheduler.                                  *)

CreateJob(j, k) ==
  /\ j \in MayBe[k] /\ Goes(j, "none", "created")
  /\ Records(j, "running")
  /\ kind' = [kind EXCEPT ![j] = k]
  /\ UNCHANGED <<requests, boardVars, handles, got, disk>>

\* The finished jobs are forgotten, the new one is kept and its thread started.
TrackJob(j) ==
  /\ Goes(j, "created", "start")
  /\ tracked' = (tracked \ done) \union {j}
  /\ UNCHANGED <<row, kind, stopSet, done, stopper, boardVars, handles, got, disk>>

\* The candidates are chosen under the lock, and told one by one after it.
RequestStop ==
  /\ stopper = NoStop
  /\ tracked' = tracked \ done
  /\ \E chosen \in {tracked'} \union {{j} : j \in tracked'} :
       stopper' = [NoStop EXCEPT !.left = chosen]
  /\ UNCHANGED <<threads, stopSet, done, boardVars, handles, got, disk>>

MarkStopping(j) ==
  /\ j \in stopper.left /\ stopper.marked = None
  /\ Records(j, "stopping")
  /\ stopper' = [stopper EXCEPT !.marked = j]
  /\ UNCHANGED <<kind, pc, tracked, stopSet, done, boardVars, handles, got, disk>>

SetStopEvent ==
  /\ stopper.marked # None
  /\ stopSet' = stopSet \union {stopper.marked}
  /\ stopper' = [left |-> stopper.left \ {stopper.marked}, marked |-> None]
  /\ UNCHANGED <<threads, tracked, done, boardVars, handles, got, disk>>

-----------------------------------------------------------------------------
(* The thread of a job.                                                    *)

\* get_board, and the test of _active_stream in _prepare_stream.
StartStream(j) ==
  /\ kind[j] # "log"
  /\ IF connected /\ stream = None
       THEN Goes(j, "start", "claim") /\ fresh' = fresh \union {j}
       ELSE Goes(j, "start", "fail") /\ UNCHANGED fresh
  /\ UNCHANGED <<row, kind, requests, connected, stream, handles, got, disk>>

\* Mutant: a stop that came before the start is forgotten.
ClaimStream_ClearsStop(j) ==
  /\ Goes(j, "claim", "wait") \/ Goes(j, "claim", "fail")
  /\ handles' = [handles EXCEPT ![j] = "open"]
  /\ stream' = IF j \in fresh THEN j ELSE stream
  /\ fresh' = fresh \ {j} /\ stopSet' = stopSet \ {j}
  /\ UNCHANGED <<row, kind, tracked, done, stopper, connected, got, disk>>

\* _active_stream is set, and the command sent, which may raise.
ClaimStream(j) ==
  /\ Goes(j, "claim", "wait") \/ Goes(j, "claim", "fail")
  /\ handles' = [handles EXCEPT ![j] = "open"]
  /\ stream' = IF j \in fresh THEN j ELSE stream
  /\ fresh' = fresh \ {j}
  /\ UNCHANGED <<row, kind, requests, connected, got, disk>>

StartLog(j) ==
  /\ kind[j] = "log"
  /\ Goes(j, "start", "fail") \/ (connected /\ Goes(j, "start", "wait"))
  /\ UNCHANGED <<row, kind, requests, boardVars, handles, got, disk>>

\* The wait of the thread ends, and it marks its own row.
Stopping(j) ==
  /\ Goes(j, "wait", "drain")
  /\ Records(j, "stopping")
  /\ UNCHANGED <<kind, requests, boardVars, handles, got, disk>>

StopHeard(j) == j \in stopSet /\ Stopping(j)

\* Mutant: the job does not wait for the end of its stream.
DrainStream_NoWait(j) ==
  /\ kind[j] # "log"
  /\ Goes(j, "drain", IF kind[j] = "csv" THEN "convert" ELSE "meta")
  /\ UNCHANGED <<row, kind, requests, boardVars, handles, got, disk>>

\* stop_daq, whose failure is ignored, and the wait for the end of the stream.
DrainStream(j) ==
  /\ kind[j] # "log"
  /\ \/ handles[j] = "result" /\ Goes(j, "drain", IF kind[j] = "csv" THEN "convert" ELSE "meta")
     \/ handles[j] \in {"error", "open"} /\ Goes(j, "drain", "fail")    \* "open": a timeout
  /\ UNCHANGED <<row, kind, requests, boardVars, handles, got, disk>>

StopLog(j) ==
  /\ kind[j] = "log"
  /\ Goes(j, "drain", "meta") \/ Goes(j, "drain", "fail")
  /\ UNCHANGED <<row, kind, requests, boardVars, handles, got, disk>>

\* The CSV file is written row by row: it is there before it is whole.
BeginConversion(j) ==
  /\ \/ /\ disk[Target(j)] # Absent /\ Goes(j, "convert", "converting")
        /\ disk' = [disk EXCEPT ![Out(j)] = 0]
     \/ Goes(j, "convert", "fail") /\ UNCHANGED disk
  /\ UNCHANGED <<row, kind, requests, boardVars, handles, got>>

\* Mutant: the raw file is removed before the converted one is whole.
EndConversion_Unlinks(j) ==
  /\ \/ /\ Goes(j, "converting", "unlink")
        /\ disk' = [disk EXCEPT ![Target(j)] = Gone]
     \/ Goes(j, "converting", "fail") /\ UNCHANGED disk
  /\ UNCHANGED <<row, kind, requests, boardVars, handles, got>>

EndConversion(j) ==
  /\ \/ /\ Goes(j, "converting", "unlink")
        /\ disk' = [disk EXCEPT ![Out(j)] = disk[Target(j)]]
     \/ Goes(j, "converting", "fail") /\ UNCHANGED disk
  /\ UNCHANGED <<row, kind, requests, boardVars, handles, got>>

UnlinkRaw(j) ==
  /\ Goes(j, "unlink", "meta")
  /\ disk' = [disk EXCEPT ![Target(j)] = Gone]
  /\ UNCHANGED <<row, kind, requests, boardVars, handles, got>>

WriteMetadata(j) ==
  /\ \/ /\ Goes(j, "meta", "complete")
        /\ disk' = [disk EXCEPT ![Meta(j)] = got[j]]
     \/ Goes(j, "meta", "fail") /\ UNCHANGED disk
  /\ UNCHANGED <<row, kind, requests, boardVars, handles, got>>

RecordComplete(j) ==
  /\ Goes(j, "complete", "event")
  /\ Records(j, "complete")
  /\ UNCHANGED <<kind, requests, boardVars, handles, got, disk>>

\* Mutant: the failure is not recorded.
RecordFailed_OnlyError(j) ==
  /\ Goes(j, "fail", "event")
  /\ UNCHANGED <<row, kind, requests, boardVars, handles, got, disk>>

RecordFailed(j) ==
  /\ Goes(j, "fail", "event")
  /\ Records(j, "failed")
  /\ UNCHANGED <<kind, requests, boardVars, handles, got, disk>>

SetDone(j) ==
  /\ Goes(j, "event", "over")
  /\ done' = done \union {j}
  /\ UNCHANGED <<row, kind, tracked, stopSet, stopper, boardVars, handles, got, disk>>

JobStep(j) ==
  \/ StartStream(j) \/ ClaimStream(j) \/ StartLog(j) \/ StopHeard(j)
  \/ DrainStream(j) \/ StopLog(j)
  \/ BeginConversion(j) \/ EndConversion(j) \/ UnlinkRaw(j)
  \/ WriteMetadata(j) \/ RecordComplete(j) \/ RecordFailed(j) \/ SetDone(j)

-----------------------------------------------------------------------------
(* The board and the receive thread of its session.                        *)

Connect ==
  /\ ~connected /\ connected' = TRUE
  /\ UNCHANGED <<threads, requests, fresh, stream, handles, got, disk>>

LoseSession ==
  /\ connected /\ connected' = FALSE /\ fresh' = {} /\ stream' = None
  /\ handles' = [j \in Jobs |-> IF j = stream THEN "error" ELSE handles[j]]
  /\ UNCHANGED <<threads, requests, got, disk>>

\* The file is opened with the first payload.
ReceivePayload(j) ==
  /\ stream = j /\ got[j] < MaxBlocks
  /\ got' = [got EXCEPT ![j] = @ + 1]
  /\ disk' = [disk EXCEPT ![Target(j)] = got[j] + 1]
  /\ UNCHANGED <<threads, requests, boardVars, handles>>

FinishStream(j, how) ==
  /\ stream = j /\ stream' = None
  /\ handles' = [handles EXCEPT ![j] = how]
  /\ UNCHANGED <<threads, requests, connected, fresh, got, disk>>

\* The daemon ends, by a signal or a crash, and is started again.
Restart ==
  /\ pc' = [j \in Jobs |-> IF pc[j] \in {"none", "over"} THEN pc[j] ELSE "gone"]
  /\ tracked' = {} /\ stopSet' = {} /\ done' = {} /\ stopper' = NoStop
  /\ connected' = FALSE /\ fresh' = {} /\ stream' = None
  /\ handles' = [j \in Jobs |-> "none"]
  /\ UNCHANGED <<row, kind, got, disk>>

JobNext ==
  \/ \E j \in Jobs :
       \/ \E k \in Kinds : CreateJob(j, k)
       \/ TrackJob(j) \/ MarkStopping(j)
       \/ JobStep(j)
       \/ Stopping(j)                \* the duration has elapsed
       \/ ReceivePayload(j)
       \/ \E how \in {"result", "error"} : FinishStream(j, how)
  \/ RequestStop \/ SetStopEvent
  \/ Connect \/ LoseSession

JobSteps == JobNext \/ Restart

\* A thread that can go on is scheduled; all its waits have a timeout.
JobSpec == JobInit /\ [][JobSteps]_jobVars /\ \A j \in Jobs : WF_jobVars(JobStep(j))

-----------------------------------------------------------------------------
JobTypeOK ==
  /\ row \in [Jobs -> {"none", "running", "stopping", "complete", "failed"}]
  /\ kind \in [Jobs -> Kinds \union {None}]
  /\ pc \in [Jobs -> {"none", "created", "start", "claim", "wait", "drain", "convert",
                      "converting", "unlink", "meta", "complete", "fail", "event",
                      "over", "gone"}]
  /\ tracked \subseteq Jobs /\ stopSet \subseteq Jobs /\ done \subseteq Jobs
  /\ stopper \in [left : SUBSET Jobs, marked : Jobs \union {None}]
  /\ connected \in BOOLEAN /\ fresh \subseteq Jobs /\ stream \in Jobs \union {None}
  /\ handles \in [Jobs -> {"none", "open", "result", "error"}]
  /\ got \in [Jobs -> 0..MaxBlocks]
  /\ disk \in [Files -> (0..MaxBlocks) \union {Absent, Gone}]

\* What the metadata of a capture says was received is what its file holds, and
\* stays so: a job that the database calls complete has metadata, the raw file of a
\* conversion is gone, and no thread adds to its capture any more, whatever stops,
\* disconnections and restarts there are.
CompleteIsRecorded ==
  \A j \in Jobs : row[j] = "complete" =>
    /\ disk[Meta(j)] = got[j] /\ stream # j
    /\ kind[j] # "log" => disk[Out(j)] = IF got[j] = 0 THEN Absent ELSE got[j]
    /\ kind[j] = "csv" => disk[Target(j)] = Gone

\* A job that has ended is recorded as complete or failed; only a stop request that
\* chose it while it ended can have marked it after that.
EndedIsRecorded ==
  \A j \in done :
    \/ row[j] \in {"complete", "failed"}
    \/ row[j] = "stopping" /\ j \in stopSet \union {stopper.marked}

\* The files of a capture only appear and grow, whatever happens; but the raw file of
\* a conversion is removed at its end, and does not come back.
CapturesOnlyGrow ==
  [][\A f \in Files :
       \/ disk'[f] = disk[f]
       \/ Gone < disk[f] /\ disk[f] < disk'[f]
       \/ f[2] = "raw" /\ disk'[f] = Gone /\ disk[Out(f[1])] = disk[f]]_jobVars

\* A job that is told to stop comes to its end, whatever the board does, unless the
\* daemon is restarted.
StopEndsJob == \A j \in Jobs : j \in stopSet ~> pc[j] \in {"over", "gone"}
=============================================================================

-------------------------- MODULE RecordingSession --------------------------
(***************************************************************************)
(* What the acquisition engine promises of one run at a time, without its  *)
(* interrupts, blocks and buffers.  Frames are accepted into a backlog and *)
(* put out from its front, in order.  Frames may be lost from either end   *)
(* of the backlog, and then the run says so; a log run ends only with an   *)
(* empty backlog, a stream may be cut off.                                 *)
(***************************************************************************)
EXTENDS Naturals, Sequences

CONSTANT Frame    \* what the ADC delivers

VARIABLES
  kind,      \* "none" before the first run, then "log", "stream" or "calibration"
  active,    \* the run has been started and has not ended
  backlog,   \* frames accepted and not yet put out, oldest first
  out,       \* frames put out: written to the file, or handed to the reader
  lossy      \* the run reports that something was lost

vars == <<kind, active, backlog, out, lossy>>

Init == kind = "none" /\ ~active /\ backlog = <<>> /\ out = <<>> /\ ~lossy

\* What a calibration run leaves behind belongs to nobody.
Recording == kind # "calibration"

\* A client that starts a run waits for the one before to end.
Begin(k) ==
  /\ Recording => backlog = <<>>
  /\ kind' = k /\ active' = TRUE /\ out' = <<>> /\ lossy' = FALSE
  /\ backlog' = <<>>

Accept(f) ==
  /\ active
  /\ backlog' = Append(backlog, f)
  /\ UNCHANGED <<kind, active, out, lossy>>

PutOut(n) ==
  /\ active \/ ~Recording
  /\ out' = out \o SubSeq(backlog, 1, n)
  /\ backlog' = SubSeq(backlog, n + 1, Len(backlog))
  /\ UNCHANGED <<kind, active, lossy>>

\* The oldest n frames leave the backlog and only k of them are put out.
LoseOldest(n, k) ==
  /\ k < n
  /\ out' = out \o SubSeq(backlog, 1, k)
  /\ backlog' = SubSeq(backlog, n + 1, Len(backlog))
  /\ lossy' = TRUE
  /\ UNCHANGED <<kind, active>>

\* Only the oldest n frames stay; with n = Len(backlog) it is the frame being
\* converted or accepted that is lost.
LoseNewest(n) ==
  /\ backlog' = SubSeq(backlog, 1, n)
  /\ lossy' = TRUE
  /\ UNCHANGED <<kind, active, out>>

End ==
  /\ kind = "log" => backlog = <<>>
  /\ backlog' = <<>>
  /\ active' = FALSE
  /\ UNCHANGED <<kind, out, lossy>>

\* A calibration run starts and ends between two commands.  It may discard
\* the start it finds pending, and leave frames that arrived too late for it.
Calibrate ==
  /\ Recording => backlog = <<>>
  /\ kind' = "calibration"
  /\ backlog' \in Seq(Frame)
  /\ active' \in {active, FALSE}
  /\ lossy' \in BOOLEAN
  /\ UNCHANGED out

\* They are discarded without a report.
Discard ==
  /\ ~Recording
  /\ backlog' = <<>>
  /\ UNCHANGED <<kind, active, out, lossy>>

Next ==
  \/ \E k \in {"log", "stream"} : Begin(k)
  \/ \E f \in Frame : Accept(f)
  \/ \E n \in 1..Len(backlog) : PutOut(n)
  \/ \E n \in 1..Len(backlog) : \E k \in 0..n - 1 : LoseOldest(n, k)
  \/ \E n \in 0..Len(backlog) : LoseNewest(n)
  \/ End
  \/ Calibrate
  \/ Discard

Spec == Init /\ [][Next]_vars
=============================================================================

--------------------------- MODULE DaqRefinement ---------------------------
(* DaqEngine, with a client that starts runs in IDLE only, implements      *)
(* RecordingSession.                                                       *)
EXTENDS DaqEngine

\* The samples not yet put out, oldest first.
Backlog == Flat(queue) \o aggr

Session == INSTANCE RecordingSession WITH
  Frame   <- 1..MaxFrames,
  kind    <- run,
  active  <- state # "IDLE" \/ "START" \in events,
  backlog <- Backlog,
  lossy   <- dropped # 0

\* Each step of the superloop, of an interrupt or of a command is a step of
\* the abstract session or none: in order, nothing lost that is not reported,
\* and no log run that ends with accepted frames unwritten.
ImplementsSession == Session!Spec
=============================================================================

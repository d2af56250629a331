---------------------------- MODULE MCDaqEngine ----------------------------
(***************************************************************************)
(* Small instances of DaqEngine for TLC, and a statement of the firmware's *)
(* documents that the code refutes.                                        *)
(***************************************************************************)
EXTENDS DaqRefinement

\* A client that sends a start command whenever it likes: neither core stops it.
AnyState == States

-----------------------------------------------------------------------------
\* CM4/README.md: FINALIZING flushes the pending blocks before returning to
\* IDLE.  A start command served in FINALIZING throws them away.
FinalizingFlushes ==
  [][state = "FINALIZING" /\ Logging /\ queue # <<>> =>
       queue' = queue \/ Len(out') > Len(out) \/ dropped' > dropped]_vars
=============================================================================

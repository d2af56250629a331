---------------------------- MODULE TransferJobs ----------------------------
(***************************************************************************)
(* The transfers of the Raspberry Pi daemon (TransferJob in                *)
(* daemon/jobs.py).  A transfer walks the captures and then the metadata   *)
(* directory, takes the size and the hash of every file, writes that into  *)
(* a manifest, and copies the listed files and then the manifest, all of   *)
(* them again with each retry, also when what failed came after the        *)
(* manifest.  Every transfer copies to the same directory (target          *)
(* "local").                                                               *)
(*                                                                         *)
(* The files are those of the capture jobs, which go on meanwhile: a file  *)
(* is its length, appears, grows, and, when it is the raw file of a        *)
(* conversion, vanishes.  That they do nothing else to their files is      *)
(* CapturesOnlyGrow of DaemonJobs.  A hash is the length it was made of.   *)
(* A file at the destination is its length, or the transfer that has begun *)
(* to write it and has not finished: shutil.copy2 truncates the file that  *)
(* was there.                                                              *)
(***************************************************************************)
EXTENDS Integers

CONSTANTS
  Files,       \* the files there may be in the two directories
  Metadata,    \* those in the metadata directory, which is walked second
  RawFiles,    \* those that a conversion removes
  MaxBlocks,   \* bound of the model: the length of a file
  Transfers,   \* the transfers that may be started, each once
  RetryLimit,  \* attempts of a transfer
  None

ASSUME TransferJobsAssumption ==
  /\ RawFiles \subseteq Files /\ Metadata \subseteq Files /\ None \notin Files
  /\ MaxBlocks \in Nat /\ RetryLimit \in Nat \ {0}
  /\ Transfers \cap Int = {}

VARIABLES
  disk,      \* the source files
  trow,      \* status of the transfer's row in the database
  tpc,       \* where the transfer's thread is
  attempt,   \* number of the attempt
  listed,    \* the manifest: the size of a file,
  hashed,    \*   and the length that was hashed
  left,      \* files still to be listed, or copied in this attempt
  hand,      \* the file being hashed or copied, and its length before that
  dest,      \* what is at the destination
  manifest   \* the transfer's manifest there

rows   == <<trow, attempt>>
source == <<disk, listed, hashed>>
vars   == <<source, rows, tpc, left, hand, dest, manifest>>

Absent  == -1    \* not yet there
Gone    == -2    \* there no more
Sizes   == (0..MaxBlocks) \union {Absent, Gone}
Nothing == [f \in Files |-> Absent]
Idle    == [file |-> None, size |-> 0]
Listed(t) == {f \in Files : hashed[t][f] >= 0}

Init ==
  /\ disk = Nothing
  /\ trow = [t \in Transfers |-> "none"] /\ tpc = [t \in Transfers |-> "none"]
  /\ attempt = [t \in Transfers |-> 1]
  /\ listed = [t \in Transfers |-> Nothing] /\ hashed = [t \in Transfers |-> Nothing]
  /\ left = [t \in Transfers |-> {}] /\ hand = [t \in Transfers |-> Idle]
  /\ dest = Nothing /\ manifest = [t \in Transfers |-> "none"]

\* What the capture jobs do to their files.
GrowFile(f) ==
  /\ disk[f] # Gone
  /\ \E size \in 0..MaxBlocks : disk[f] < size /\ disk' = [disk EXCEPT ![f] = size]
  /\ UNCHANGED <<listed, hashed, rows, tpc, left, hand, dest, manifest>>

RemoveRaw(f) ==
  /\ f \in RawFiles /\ disk[f] >= 0
  /\ disk' = [disk EXCEPT ![f] = Gone]
  /\ UNCHANGED <<listed, hashed, rows, tpc, left, hand, dest, manifest>>

Moves(t, from, to) == tpc[t] = from /\ tpc' = [tpc EXCEPT ![t] = to]

StartTransfer(t) ==
  /\ Moves(t, "none", "captures")
  /\ trow' = [trow EXCEPT ![t] = "running"]
  /\ UNCHANGED <<source, attempt, left, hand, dest, manifest>>

-----------------------------------------------------------------------------
(* The manifest.                                                           *)

Building == {"captures", "list captures", "metadata", "list metadata", "write"}
Listing  == {"list captures", "list metadata"}

\* What a reader of the file in hand may have read when it is through: what there was
\* before, or some of what was added since.
Reads(t) == {n \in hand[t].size..MaxBlocks :
               disk[hand[t].file] = Gone \/ n <= disk[hand[t].file]}

\* The names that are in a directory when it is walked, whatever job they are of.
Walk(t) ==
  /\ \/ /\ Moves(t, "captures", "list captures")
        /\ left' = [left EXCEPT ![t] = {f \in Files \ Metadata : disk[f] >= 0}]
     \/ /\ Moves(t, "metadata", "list metadata")
        /\ left' = [left EXCEPT ![t] = {f \in Metadata : disk[f] >= 0}]
  /\ UNCHANGED <<source, rows, hand, dest, manifest>>

\* stat; what is a file no more is passed over.
StatFile(t, f) ==
  /\ tpc[t] \in Listing /\ f \in left[t] /\ hand[t] = Idle
  /\ IF disk[f] >= 0
     THEN hand' = [hand EXCEPT ![t] = [file |-> f, size |-> disk[f]]] /\ UNCHANGED left
     ELSE left' = [left EXCEPT ![t] = @ \ {f}] /\ UNCHANGED hand
  /\ UNCHANGED <<source, rows, tpc, dest, manifest>>

\* _sha256_file, later: the entry has the size of before.
HashFile(t) ==
  /\ tpc[t] \in Listing /\ hand[t] # Idle
  /\ listed' = [listed EXCEPT ![t][hand[t].file] = hand[t].size]
  /\ \E n \in Reads(t) : hashed' = [hashed EXCEPT ![t][hand[t].file] = n]
  /\ left' = [left EXCEPT ![t] = @ \ {hand[t].file}]
  /\ hand' = [hand EXCEPT ![t] = Idle]
  /\ UNCHANGED <<disk, rows, tpc, dest, manifest>>

EndList(t) ==
  /\ left[t] = {}
  /\ Moves(t, "list captures", "metadata") \/ Moves(t, "list metadata", "write")
  /\ UNCHANGED <<source, rows, left, hand, dest, manifest>>

WriteManifest(t) ==
  /\ Moves(t, "write", "attempt")
  /\ UNCHANGED <<source, rows, left, hand, dest, manifest>>

\* An exception, as when a file vanishes before it is hashed: no retry.
FailBuild(t) ==
  /\ tpc[t] \in Building /\ tpc' = [tpc EXCEPT ![t] = "fail"]
  /\ left' = [left EXCEPT ![t] = {}] /\ hand' = [hand EXCEPT ![t] = Idle]
  /\ UNCHANGED <<source, rows, dest, manifest>>

-----------------------------------------------------------------------------
(* The attempts.                                                           *)

\* Mutant: a retry copies only what has not arrived.
BeginAttempt_OnlyMissing(t) ==
  /\ Moves(t, "attempt", "copy")
  /\ trow' = [trow EXCEPT ![t] = IF attempt[t] = 1 THEN "running" ELSE "retrying"]
  /\ left' = [left EXCEPT ![t] = {f \in Listed(t) : dest[f] = Absent}]
  /\ UNCHANGED <<source, attempt, hand, dest, manifest>>

BeginAttempt(t) ==
  /\ Moves(t, "attempt", "copy")
  /\ trow' = [trow EXCEPT ![t] = IF attempt[t] = 1 THEN "running" ELSE "retrying"]
  /\ left' = [left EXCEPT ![t] = Listed(t)]
  /\ UNCHANGED <<source, attempt, hand, dest, manifest>>

BeginCopy(t, f) ==
  /\ tpc[t] = "copy" /\ f \in left[t] /\ hand[t] = Idle /\ disk[f] >= 0
  /\ hand' = [hand EXCEPT ![t] = [file |-> f, size |-> disk[f]]]
  /\ dest' = [dest EXCEPT ![f] = t]
  /\ UNCHANGED <<source, rows, tpc, left, manifest>>

EndCopy(t) ==
  /\ tpc[t] = "copy" /\ hand[t] # Idle
  /\ \E n \in Reads(t) :
       dest' = [dest EXCEPT ![hand[t].file] = CASE @ = t -> n
                                                [] @ \in Transfers \ {t} -> @
                                                [] OTHER -> IF n > @ THEN n ELSE @]
  /\ left' = [left EXCEPT ![t] = @ \ {hand[t].file}]
  /\ hand' = [hand EXCEPT ![t] = Idle]
  /\ UNCHANGED <<source, rows, tpc, manifest>>

\* The manifest is copied last: it is truncated, and is whole.
BeginManifest(t) ==
  /\ left[t] = {}
  /\ Moves(t, "copy", "manifest")
  /\ manifest' = [manifest EXCEPT ![t] = "partial"]
  /\ UNCHANGED <<source, rows, left, hand, dest>>

EndManifest(t) ==
  /\ Moves(t, "manifest", "record")
  /\ manifest' = [manifest EXCEPT ![t] = "whole"]
  /\ UNCHANGED <<source, rows, left, hand, dest>>

RecordComplete(t) ==
  /\ Moves(t, "record", "over")
  /\ trow' = [trow EXCEPT ![t] = "complete"]
  /\ UNCHANGED <<source, attempt, left, hand, dest, manifest>>

Attempting == {"attempt", "copy", "manifest", "record"}

\* Mutant: one attempt too many.
FailAttempt_OneMore(t) ==
  /\ tpc[t] \in Attempting
  /\ IF attempt[t] > RetryLimit
       THEN tpc' = [tpc EXCEPT ![t] = "fail"] /\ UNCHANGED attempt
       ELSE tpc' = [tpc EXCEPT ![t] = "attempt"] /\ attempt' = [attempt EXCEPT ![t] = @ + 1]
  /\ left' = [left EXCEPT ![t] = {}] /\ hand' = [hand EXCEPT ![t] = Idle]
  /\ UNCHANGED <<source, trow, dest, manifest>>

\* Something raises: the row's update, a copy, as it does when the source is gone, that
\* of the manifest, or the update that calls the transfer complete.
FailAttempt(t) ==
  /\ tpc[t] \in Attempting
  /\ IF attempt[t] = RetryLimit
       THEN tpc' = [tpc EXCEPT ![t] = "fail"] /\ UNCHANGED attempt
       ELSE tpc' = [tpc EXCEPT ![t] = "attempt"] /\ attempt' = [attempt EXCEPT ![t] = @ + 1]
  /\ left' = [left EXCEPT ![t] = {}] /\ hand' = [hand EXCEPT ![t] = Idle]
  /\ UNCHANGED <<source, trow, dest, manifest>>

\* The last update of the row may fail as well, and the row stays as it is.
RecordFailed(t) ==
  /\ Moves(t, "fail", "over")
  /\ trow' \in {trow, [trow EXCEPT ![t] = "failed"]}
  /\ UNCHANGED <<source, attempt, left, hand, dest, manifest>>

Build(t) ==
  \/ Walk(t) \/ (\E f \in Files : StatFile(t, f)) \/ HashFile(t)
  \/ EndList(t) \/ WriteManifest(t) \/ FailBuild(t)
Attempt(t) ==
  \/ BeginAttempt(t) \/ (\E f \in Files : BeginCopy(t, f)) \/ EndCopy(t)
  \/ BeginManifest(t) \/ EndManifest(t) \/ RecordComplete(t)
  \/ FailAttempt(t) \/ RecordFailed(t)

\* The daemon ends, by a signal or a crash, and its transfers with it; the rows, the
\* sources and the destination stay, and no transfer is taken up again.
Restart ==
  /\ tpc' = [t \in Transfers |-> IF tpc[t] \in {"none", "over"} THEN tpc[t] ELSE "gone"]
  /\ left' = [t \in Transfers |-> {}] /\ hand' = [t \in Transfers |-> Idle]
  /\ UNCHANGED <<source, rows, dest, manifest>>

Next ==
  \/ \E t \in Transfers : StartTransfer(t) \/ Build(t) \/ Attempt(t)
  \/ \E f \in Files : GrowFile(f) \/ RemoveRaw(f)
  \/ Restart

Spec == Init /\ [][Next]_vars

-----------------------------------------------------------------------------
TypeOK ==
  /\ disk \in [Files -> Sizes]
  /\ trow \in [Transfers -> {"none", "running", "retrying", "complete", "failed"}]
  /\ tpc \in [Transfers -> Building \union Attempting \union {"none", "fail", "over", "gone"}]
  /\ attempt \in [Transfers -> 1..RetryLimit]
  /\ listed \in [Transfers -> [Files -> Sizes]] /\ hashed \in [Transfers -> [Files -> Sizes]]
  /\ left \in [Transfers -> SUBSET Files]
  /\ hand \in [Transfers -> [file : Files \union {None}, size : 0..MaxBlocks]]
  /\ dest \in [Files -> Sizes \union Transfers]
  /\ manifest \in [Transfers -> {"none", "partial", "whole"}]

\* A file is at the destination with all that the manifest's hash was made of, which may
\* be more than its size there says; and it is what was hashed, if it has not changed
\* since.
AsListed(t, f) ==
  /\ listed[t][f] <= hashed[t][f] /\ hashed[t][f] <= dest[f]
  /\ disk[f] = hashed[t][f] => dest[f] = hashed[t][f]

\* A manifest at the destination means that every file it lists has been copied there,
\* before it: a file that nobody is writing, or has been interrupted in writing, is as
\* listed.  When the transfer is recorded as complete, its manifest is there, and a file
\* that is not whole is another transfer's doing; until then a retry may write the
\* files again under a manifest that has arrived.
ManifestHolds ==
  \A t \in Transfers :
    /\ manifest[t] = "whole" => \A f \in Listed(t) : dest[f] \in Transfers \/ AsListed(t, f)
    /\ trow[t] = "complete" => manifest[t] = "whole" /\ \A f \in Listed(t) : dest[f] # t
=============================================================================

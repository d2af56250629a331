------------------------------- MODULE EmmcFs -------------------------------
(***************************************************************************)
(* The files of the board: the filesystem layer of the CM4 (emmc_fs.c) and *)
(* the FatFs library under it, as far as the layer uses it.                *)
(*                                                                         *)
(* Two handles live longer than a call: the raw log, which the DAQ engine  *)
(* opens, writes and closes, and the stream, which the service of the CM7  *)
(* opens and closes.  Both actors, and every other user of the layer, run  *)
(* in the superloop of the CM4: a call of the layer is one step.           *)
(*                                                                         *)
(* FatFs keeps a table of the files that are open (_FS_LOCK entries); it   *)
(* refuses what collides with them.  The card may fail in the middle of    *)
(* anything, and a card found out of its transfer state makes FatFs mount  *)
(* the volume anew, which invalidates every open handle.                   *)
(***************************************************************************)
EXTENDS Naturals, Sequences, FiniteSets

CONSTANTS
  Logs,         \* names of log files: *.bin and *.dat
  Cal,          \* ocal.cfg
  LockEntries,  \* _FS_LOCK (2)
  MaxBlocks,    \* bounds of the model: blocks and records written,
  MaxFaults     \*   failures of the card, resets of the board

Files == Logs \cup {Cal}

ASSUME EmmcFsAssumption ==
  /\ LockEntries \in Nat \ {0} /\ MaxBlocks \in Nat /\ MaxFaults \in Nat
  /\ Cal \notin Logs /\ IsFiniteSet(Logs) /\ "none" \notin Files

VARIABLES
  disk,     \* what the directory shows: the files and their blocks
  mounted,  \* fs_type of the volume
  lock,     \* ctr of a file's entry in the table of FatFs, 0 without an entry
  raw,      \* s_raw_log_handle
  stream,   \* g_stream_handle
  full,     \* no cluster of the volume is free
  blocks, faults,  \* history: blocks offered, failures
  leaked,   \* history: what the failed closes since the last mount left in the table
  saved     \* history: what a file held when it was last closed without an error

hist == <<blocks, faults>>
vars == <<disk, mounted, lock, raw, stream, full, hist, leaked, saved>>

NoFile == "none"
NoLog  == [file |-> NoFile, valid |-> FALSE, err |-> FALSE, data |-> <<>>]
NoRead == [file |-> NoFile, valid |-> FALSE, data |-> <<>>]
NoLock == [f \in Files |-> 0]

\* A block, and what the end of the card has left of one.
Whole(n) == [n |-> n, whole |-> TRUE]
Torn(n)  == [n |-> n, whole |-> FALSE]

\* A map of files with f set to c, and without the files of F.
With(files, f, c)  == [g \in DOMAIN files \cup {f} |-> IF g = f THEN c ELSE files[g]]
Without(files, F)  == [g \in DOMAIN files \ F |-> files[g]]

Init ==
  /\ disk = [f \in {} |-> <<>>] /\ mounted = TRUE
  /\ lock = NoLock /\ raw = NoLog /\ stream = NoRead
  /\ full = FALSE /\ blocks = 0 /\ faults = 0
  /\ leaked = NoLock /\ saved = [f \in {} |-> <<>>]

Fault == faults < MaxFaults /\ faults' = faults + 1

-----------------------------------------------------------------------------
(* FatFs: chk_lock, inc_lock and dec_lock.                                 *)

Writer == 256    \* ctr of a file open for writing

Entries(l) == {f \in Files : l[f] # 0}
Blank(l) == Cardinality(Entries(l)) < LockEntries

\* Mutant: a file that is being read may be opened for writing.
MayOpen_Readers(l, f, ctr) == IF l[f] = 0 THEN Blank(l) ELSE l[f] # Writer

MayOpen(l, f, ctr) == IF l[f] = 0 THEN Blank(l) ELSE ctr = 1 /\ l[f] # Writer

Opened(l, f, ctr) == [l EXCEPT ![f] = @ + ctr]
Released(l, f, ctr) == [l EXCEPT ![f] = @ - ctr]

\* Emptying f gives clusters back.
Frees(f, after) == f \in DOMAIN disk /\ disk[f] # <<>> /\ after[f] = <<>>

-----------------------------------------------------------------------------
(* The raw log.                                                            *)

\* EmmcFs_OpenRawLog, called by DAQ_StartLogging, which has closed the log before.
\* An existing file is emptied; a failure may come before that or after.
OpenRawLog(f) ==
  /\ raw.file = NoFile
  /\ mounted /\ MayOpen(lock, f, Writer)
  /\ \/ /\ raw' = [file |-> f, valid |-> TRUE, err |-> FALSE, data |-> <<>>]
        /\ disk' = With(disk, f, <<>>)
        /\ lock' = Opened(lock, f, Writer)
        /\ UNCHANGED faults
     \/ /\ disk' \in {disk, With(disk, f, <<>>)}
        /\ Fault
        /\ UNCHANGED <<raw, lock>>
  /\ saved' = Without(saved, {f})
  /\ full' = (full /\ ~Frees(f, disk'))
  /\ UNCHANGED <<mounted, stream, blocks, leaked>>

\* Mutant: a block whose writing has failed is written once more.
WriteRawLog_Retry ==
  /\ raw.file # NoFile /\ blocks < MaxBlocks
  /\ blocks' = blocks + 1
  /\ \/ /\ raw.valid /\ ~raw.err /\ ~full
        /\ \/ raw' = [raw EXCEPT !.data = Append(@, Whole(blocks + 1))]
           \/ raw' = [raw EXCEPT !.data = Append(@, Torn(blocks + 1)) \o <<Whole(blocks + 1)>>]
     \/ UNCHANGED raw
  /\ UNCHANGED <<disk, mounted, lock, stream, full, faults, leaked, saved>>

\* EmmcFs_WriteRawLog.  A volume that fills up takes a part of the block; after an
\* error of the card the file refuses every other block; while the card is not
\* ready, and when the handle is not valid any more, nothing is written.
WriteRawLog ==
  /\ raw.file # NoFile /\ blocks < MaxBlocks
  /\ blocks' = blocks + 1
  /\ \/ /\ raw.valid /\ ~raw.err /\ ~full
        /\ \/ /\ raw' = [raw EXCEPT !.data = Append(@, Whole(blocks + 1))]
              /\ UNCHANGED <<full, faults>>
           \/ /\ raw' \in {raw, [raw EXCEPT !.data = Append(@, Torn(blocks + 1))]}
              /\ full' = TRUE
              /\ UNCHANGED faults
           \/ /\ \E d \in {raw.data, Append(raw.data, Torn(blocks + 1))} :
                   raw' = [raw EXCEPT !.data = d, !.err = TRUE]
              /\ Fault
              /\ UNCHANGED full
     \/ raw.valid /\ Fault /\ UNCHANGED <<raw, full>>
     \/ (~raw.valid \/ raw.err \/ full) /\ UNCHANGED <<raw, full, faults>>
  /\ UNCHANGED <<disk, mounted, lock, stream, leaked, saved>>

\* EmmcFs_CloseRawLog: the handle is forgotten, whatever f_close answers.  It may
\* have written the directory when it fails, but it keeps the entry.
CloseRawLog ==
  /\ raw.file # NoFile
  /\ raw' = NoLog
  /\ \/ /\ raw.valid
        /\ disk' = With(disk, raw.file, raw.data)
        /\ lock' = Released(lock, raw.file, Writer)
        /\ saved' = With(saved, raw.file, raw.data)
        /\ UNCHANGED <<faults, leaked>>
     \/ /\ raw.valid /\ Fault
        /\ disk' \in {disk, With(disk, raw.file, raw.data)}
        /\ leaked' = Opened(leaked, raw.file, Writer)
        /\ UNCHANGED <<lock, saved>>
     \/ ~raw.valid /\ UNCHANGED <<disk, lock, saved, faults, leaked>>
  /\ UNCHANGED <<mounted, stream, full, blocks>>

-----------------------------------------------------------------------------
(* The stream and the other requests of the service.                       *)

\* OPENAMP_OP_STREAM_OPEN: an open stream is closed, and when that fails its entry
\* stays; then the file is opened, or not.  A failing seek closes it again.
StreamOpen(f) ==
  \E closes \in {stream.valid, FALSE} :
    LET l    == IF closes THEN Released(lock, stream.file, 1) ELSE lock
        left == IF stream.valid /\ ~closes THEN Opened(leaked, stream.file, 1) ELSE leaked
        may  == mounted /\ f \in DOMAIN disk /\ MayOpen(l, f, 1)
    IN /\ \/ /\ may
             /\ stream' = [file |-> f, valid |-> TRUE, data |-> disk[f]]
             /\ lock' = Opened(l, f, 1) /\ leaked' = left
             /\ IF stream.valid /\ ~closes THEN Fault ELSE UNCHANGED faults
          \/ /\ stream' = NoRead
             /\ lock' = l /\ leaked' = left
             /\ IF may \/ (stream.valid /\ ~closes) THEN Fault ELSE UNCHANGED faults
          \/ /\ may
             /\ stream' = NoRead
             /\ lock' = Opened(l, f, 1) /\ leaked' = Opened(left, f, 1)
             /\ Fault
       /\ UNCHANGED <<disk, mounted, raw, full, blocks, saved>>

\* Mutant: the stream is given up without closing its file.
StreamClose_Forget ==
  /\ stream.file # NoFile
  /\ stream' = NoRead
  /\ UNCHANGED <<disk, mounted, lock, raw, full, hist, leaked, saved>>

\* OPENAMP_OP_STREAM_CLOSE
StreamClose ==
  /\ stream.file # NoFile
  /\ stream' = NoRead
  /\ \/ /\ stream.valid
        /\ lock' = Released(lock, stream.file, 1)
        /\ UNCHANGED <<faults, leaked>>
     \/ /\ stream.valid /\ Fault
        /\ leaked' = Opened(leaked, stream.file, 1)
        /\ UNCHANGED lock
     \/ ~stream.valid /\ UNCHANGED <<lock, faults, leaked>>
  /\ UNCHANGED <<disk, mounted, raw, full, blocks, saved>>

\* FILE_SIZE, READ_CHUNK and DAQ_LoadOffsetCalibration open a file, look at it and
\* close it; only a close that fails leaves a trace.
Peek(f) ==
  /\ mounted /\ f \in DOMAIN disk /\ MayOpen(lock, f, 1)
  /\ lock' = Opened(lock, f, 1) /\ leaked' = Opened(leaked, f, 1)
  /\ Fault
  /\ UNCHANGED <<disk, mounted, raw, stream, full, blocks, saved>>

\* The files of "all" that go: not the ones with an entry, and a first failure, of
\* the card or because of an entry, ends it.
Unlinked(F, all) ==
  /\ \A f \in F : lock[f] = 0
  /\ IF F = all \/ \E f \in all \ F : lock[f] # 0
     THEN UNCHANGED faults
     ELSE Fault

Delete(all) ==
  /\ mounted
  /\ \E F \in SUBSET all :
       /\ Unlinked(F, all)
       /\ disk' = Without(disk, F) /\ saved' = Without(saved, F)
       /\ full' \in {full, full /\ F = {}}
  /\ UNCHANGED <<mounted, lock, raw, stream, blocks, leaked>>

\* EmmcFs_DeleteLogFiles and EmmcFs_DeleteFileIfExists
DeleteLogFiles == Delete(Logs \cap DOMAIN disk)
DeleteFileIfExists(f) == Delete({f} \cap DOMAIN disk)

\* DAQ_SaveOffsetCalibration: open, write, close.  The record before is gone as soon
\* as the file is open, and a close that fails keeps the entry.
SaveOffsetCalibration ==
  /\ mounted /\ MayOpen(lock, Cal, Writer)
  /\ blocks < MaxBlocks /\ blocks' = blocks + 1
  /\ \/ /\ full => Frees(Cal, With(disk, Cal, <<>>))
        /\ disk' = With(disk, Cal, <<Whole(blocks + 1)>>)
        /\ saved' = With(saved, Cal, <<Whole(blocks + 1)>>)
        /\ UNCHANGED <<lock, faults, full, leaked>>
     \/ /\ disk' = With(disk, Cal, <<>>)              \* there was no room
        /\ ~Frees(Cal, disk') /\ full' = TRUE
        /\ saved' = Without(saved, {Cal})
        /\ UNCHANGED <<lock, faults, leaked>>
     \/ /\ Fault
        /\ disk' \in {disk, With(disk, Cal, <<>>), With(disk, Cal, <<Whole(blocks + 1)>>)}
        /\ \/ lock' = Opened(lock, Cal, Writer) /\ leaked' = Opened(leaked, Cal, Writer)
           \/ UNCHANGED <<lock, leaked>>
        /\ saved' = Without(saved, {Cal})
        /\ full' = (full /\ ~Frees(Cal, disk'))
  /\ UNCHANGED <<mounted, raw, stream>>

-----------------------------------------------------------------------------
(* The card and the board.                                                 *)

\* A file that has been created, but not written to, may not be in the directory on
\* the card yet.
Unwritten == IF raw.valid /\ raw.data = <<>> THEN {raw.file} ELSE {}

\* find_volume, in any call that names a file, finds the card out of its transfer
\* state or the volume lost: it mounts the volume again, or loses it.
Remount ==
  /\ IF mounted THEN Fault ELSE UNCHANGED faults
  /\ mounted' \in BOOLEAN
  /\ raw' = [raw EXCEPT !.valid = FALSE]
  /\ stream' = [stream EXCEPT !.valid = FALSE]
  /\ lock' = IF mounted' THEN NoLock ELSE lock
  /\ leaked' = lock'                    \* what is left belongs to nobody
  /\ disk' \in {disk, Without(disk, Unwritten)}
  /\ UNCHANGED <<full, blocks, saved>>

\* Mutant: whatever keeps the volume from being mounted, it is formatted.
Reset_Format ==
  /\ Fault
  /\ mounted' = TRUE
  /\ raw' = NoLog /\ stream' = NoRead
  /\ lock' = NoLock /\ leaked' = NoLock
  /\ disk' \in {disk, [f \in {} |-> <<>>]}
  /\ UNCHANGED <<full, blocks, saved>>

\* The board starts again: EmmcFs_MountOrFormat finds the volume, which is formatted,
\* or the card does not answer.  An open log is lost but for its name.
Reset ==
  /\ Fault
  /\ mounted' \in BOOLEAN
  /\ raw' = NoLog /\ stream' = NoRead
  /\ lock' = NoLock /\ leaked' = NoLock
  /\ disk' \in {disk, Without(disk, Unwritten)}
  /\ UNCHANGED <<full, blocks, saved>>

-----------------------------------------------------------------------------

Engine  == (\E f \in Logs : OpenRawLog(f)) \/ WriteRawLog \/ CloseRawLog \/ SaveOffsetCalibration
Service ==
  \/ \E f \in Files : StreamOpen(f) \/ Peek(f) \/ DeleteFileIfExists(f)
  \/ StreamClose \/ DeleteLogFiles

Next == Engine \/ Service \/ Remount \/ Reset
Spec == Init /\ [][Next]_vars

-----------------------------------------------------------------------------
(* Properties.                                                             *)

Blocks   == [n : 1..MaxBlocks, whole : BOOLEAN]
IsMap(m) == /\ DOMAIN m \subseteq Files /\ \A f \in DOMAIN m : m[f] \in Seq(Blocks)
Count(h, f, ctr) == IF h.valid /\ h.file = f THEN ctr ELSE 0

TypeOK ==
  /\ IsMap(disk) /\ IsMap(saved)
  /\ mounted \in BOOLEAN /\ full \in BOOLEAN
  /\ lock \in [Files -> Nat] /\ leaked \in [Files -> Nat]
  /\ Cardinality(Entries(lock)) <= LockEntries
  /\ raw \in [file : Logs \cup {NoFile}, valid : BOOLEAN, err : BOOLEAN, data : Seq(Blocks)]
  /\ stream \in [file : Files \cup {NoFile}, valid : BOOLEAN, data : Seq(Blocks)]
  /\ blocks \in 0..MaxBlocks /\ faults \in 0..MaxFaults

\* Every entry of FatFs's table belongs to a handle that is open, or to a close that
\* has failed since the volume was mounted: nothing else can make the table run
\* full, or keep a file from being opened or deleted.
LocksAccounted ==
  \A f \in Files : lock[f] = leaked[f] + Count(raw, f, Writer) + Count(stream, f, 1)

\* While a file is open it stays: the stream reads the file that it has opened, and
\* neither a new recording nor a deletion changes it; the file of the raw log is
\* there, empty to everybody else, and nobody else has it open.
OpenFileStays ==
  /\ stream.valid => /\ stream.file \in DOMAIN disk
                     /\ disk[stream.file] = stream.data
  /\ raw.valid => /\ raw.file \in DOMAIN disk /\ disk[raw.file] = <<>>
                  /\ lock[raw.file] = Writer

\* A file that has been closed without an error keeps what it held, through failures
\* of the card, mounting and resets, until it is opened for writing or deleted.
SavedStays == \A f \in DOMAIN saved : f \in DOMAIN disk /\ disk[f] = saved[f]

\* The blocks of a log are in the order of their writing, each once, whatever has
\* failed: a block that is missing is missing as a whole, or is torn.
LogInOrder ==
  \A d \in {raw.data} \cup {disk[f] : f \in DOMAIN disk} :
    \A i, j \in DOMAIN d : i < j => d[i].n < d[j].n
=============================================================================

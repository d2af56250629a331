---------------------------- MODULE EmmcFsProofs ----------------------------
(* Proofs about EmmcFs, for any files, any size of FatFs's table, and any  *)
(* number of blocks and failures.                                          *)
EXTENDS EmmcFs, FiniteSetTheorems, TLAPS

\* The blocks of d are in order, and none is later than n.
Orderly(d, n) ==
  /\ \A i, j \in DOMAIN d : i < j => d[i].n < d[j].n
  /\ \A i \in DOMAIN d : d[i].n <= n

AllOrderly ==
  /\ Orderly(raw.data, blocks)
  /\ \A f \in DOMAIN disk : Orderly(disk[f], blocks)

\* An open log is not among the files that have been closed.
OpenIsUnsaved == raw.valid => raw.file \notin DOMAIN saved

IInv ==
  /\ TypeOK /\ LocksAccounted /\ OpenFileStays
  /\ SavedStays /\ OpenIsUnsaved /\ AllOrderly

-----------------------------------------------------------------------------
(* The table of FatFs.                                                     *)

Table == {l \in [Files -> Nat] : Cardinality(Entries(l)) <= LockEntries}

LEMMA FilesFinite == IsFiniteSet(Files)
BY FS_AddElement, EmmcFsAssumption DEF Files

LEMMA EntriesFinite ==
  ASSUME NEW l PROVE IsFiniteSet(Entries(l)) /\ Cardinality(Entries(l)) \in Nat
BY FilesFinite, FS_Subset, FS_CardinalityType DEF Entries

\* An entry more, where there may be one, leaves the table within its size.
LEMMA OpenedFits ==
  ASSUME NEW l \in Table, NEW f \in Files, NEW ctr \in Nat \ {0}, MayOpen(l, f, ctr)
  PROVE  Opened(l, f, ctr) \in Table
<1> DEFINE m == Opened(l, f, ctr)
<1>1. l \in [Files -> Nat] /\ m \in [Files -> Nat] BY DEF Opened, Table
<1>2. Entries(m) = Entries(l) \cup {f} BY <1>1 DEF Opened, Entries
<1>3. CASE l[f] = 0
  <2>1. f \notin Entries(l) BY <1>3 DEF Entries
  <2>2. Cardinality(Entries(m)) = Cardinality(Entries(l)) + 1
    BY <1>2, <2>1, EntriesFinite, FS_AddElement
  <2>3. Cardinality(Entries(l)) < LockEntries BY <1>3 DEF MayOpen, Blank
  <2> QED BY <1>1, <2>2, <2>3, EntriesFinite, EmmcFsAssumption DEF Table
<1>4. CASE l[f] # 0
  <2>1. Entries(m) = Entries(l) BY <1>1, <1>2, <1>4 DEF Entries
  <2> QED BY <1>1, <2>1 DEF Table
<1> QED BY <1>3, <1>4

\* An entry less does.
LEMMA ReleasedFits ==
  ASSUME NEW l \in Table, NEW f \in Files, NEW ctr \in Nat, ctr <= l[f]
  PROVE  Released(l, f, ctr) \in Table
<1> DEFINE m == Released(l, f, ctr)
<1>1. l \in [Files -> Nat] /\ m \in [Files -> Nat] BY DEF Released, Table
<1>2. Entries(m) \subseteq Entries(l) BY <1>1 DEF Released, Entries
<1>3. Cardinality(Entries(m)) <= Cardinality(Entries(l)) BY <1>2, EntriesFinite, FS_Subset
<1> QED BY <1>1, <1>3, EntriesFinite, EmmcFsAssumption DEF Table

LEMMA NoLockFits == NoLock \in Table
<1>1. Entries(NoLock) = {} BY DEF Entries, NoLock
<1>2. Cardinality(Entries(NoLock)) = 0 BY <1>1, FS_EmptySet
<1> QED BY <1>2, EmmcFsAssumption DEF Table, NoLock

(* The blocks.                                                             *)

LEMMA EmptyOrderly == ASSUME NEW n PROVE Orderly(<<>>, n)
BY DEF Orderly

LEMMA LaterOrderly ==
  ASSUME NEW d \in Seq(Blocks), NEW n \in Nat, Orderly(d, n)
  PROVE  Orderly(d, n + 1)
<1>1. \A i \in DOMAIN d : d[i] \in Blocks OBVIOUS
<1> QED BY <1>1 DEF Orderly, Blocks

LEMMA AppendOrderly ==
  ASSUME NEW d \in Seq(Blocks), NEW n \in Nat, n < MaxBlocks, Orderly(d, n), NEW w \in BOOLEAN
  PROVE  /\ Append(d, [n |-> n + 1, whole |-> w]) \in Seq(Blocks)
         /\ Orderly(Append(d, [n |-> n + 1, whole |-> w]), n + 1)
<1> DEFINE b == [n |-> n + 1, whole |-> w]
           e == Append(d, b)
<1>1. b \in Blocks /\ b.n = n + 1 BY EmmcFsAssumption DEF Blocks
<1>2. e \in Seq(Blocks) BY <1>1
<1>3. \A i \in DOMAIN e : \/ i \in DOMAIN d /\ e[i] = d[i]
                          \/ i = Len(d) + 1 /\ e[i] = b
  BY <1>1
<1>4. \A i \in DOMAIN d : d[i].n \in Nat /\ d[i].n <= n /\ i \in Nat /\ i <= Len(d)
  <2>1. \A i \in DOMAIN d : d[i] \in Blocks /\ i \in Nat /\ i <= Len(d) OBVIOUS
  <2> QED BY <2>1 DEF Orderly, Blocks
<1>5. \A i, j \in DOMAIN e : i < j => e[i].n < e[j].n
  BY <1>1, <1>3, <1>4 DEF Orderly
<1>6. \A i \in DOMAIN e : e[i].n <= n + 1 BY <1>1, <1>3, <1>4
<1> QED BY <1>2, <1>5, <1>6 DEF Orderly

(* Maps of files.                                                          *)

LEMMA WithIsMap ==
  ASSUME NEW m, IsMap(m), NEW f \in Files, NEW c \in Seq(Blocks)
  PROVE  /\ IsMap(With(m, f, c)) /\ With(m, f, c)[f] = c
         /\ DOMAIN With(m, f, c) = DOMAIN m \cup {f}
         /\ \A g \in DOMAIN m : g # f => With(m, f, c)[g] = m[g]
BY DEF IsMap, With

LEMMA WithoutIsMap ==
  ASSUME NEW m, IsMap(m), NEW F
  PROVE  /\ IsMap(Without(m, F)) /\ DOMAIN Without(m, F) = DOMAIN m \ F
         /\ \A g \in DOMAIN m \ F : Without(m, F)[g] = m[g]
BY DEF IsMap, Without
-----------------------------------------------------------------------------
(* What the invariant says of the handles and the table.                   *)

LEMMA Handles ==
  ASSUME IInv
  PROVE  /\ lock \in Table /\ IsMap(disk) /\ IsMap(saved)
         /\ raw.valid => /\ raw.file \in Logs /\ raw.file \in Files /\ raw.file # NoFile
                         /\ lock[raw.file] = Writer /\ leaked[raw.file] = 0
                         /\ ~(stream.valid /\ stream.file = raw.file)
         /\ stream.valid => /\ stream.file \in Files /\ stream.file # NoFile
                            /\ 1 <= lock[stream.file]
<1> USE DEF IInv, TypeOK
<1>1. lock \in Table /\ IsMap(disk) /\ IsMap(saved) BY DEF Table
<1>2. NoFile \notin Files BY EmmcFsAssumption DEF NoFile
<1>3. ASSUME raw.valid
      PROVE  /\ raw.file \in Logs /\ raw.file \in Files /\ raw.file # NoFile
             /\ lock[raw.file] = Writer /\ leaked[raw.file] = 0
             /\ ~(stream.valid /\ stream.file = raw.file)
  <2>1. raw.file \in Files /\ lock[raw.file] = Writer BY <1>1, <1>3 DEF OpenFileStays, IsMap
  <2>2. raw.file \in Logs /\ raw.file # NoFile BY <1>2, <2>1
  <2>3. lock[raw.file] = leaked[raw.file] + Writer + Count(stream, raw.file, 1)
    BY <1>3, <2>1 DEF LocksAccounted, Count
  <2>4. Count(stream, raw.file, 1) \in {0, 1} BY DEF Count
  <2>5. leaked[raw.file] = 0 /\ Count(stream, raw.file, 1) = 0
    BY <2>1, <2>3, <2>4 DEF Writer
  <2> QED BY <2>1, <2>2, <2>5 DEF Count
<1>4. ASSUME stream.valid
      PROVE  stream.file \in Files /\ stream.file # NoFile /\ 1 <= lock[stream.file]
  <2>1. stream.file \in Files BY <1>1, <1>4 DEF OpenFileStays, IsMap
  <2>2. lock[stream.file] = leaked[stream.file] + Count(raw, stream.file, Writer) + 1
    BY <1>4, <2>1 DEF LocksAccounted, Count
  <2>3. Count(raw, stream.file, Writer) \in Nat BY DEF Count, Writer
  <2> QED BY <1>2, <2>1, <2>2, <2>3
<1> QED BY <1>1, <1>3, <1>4

\* Who may open a file for writing finds it closed.
LEMMA WriterFindsClosed ==
  ASSUME NEW l, NEW f, MayOpen(l, f, Writer) PROVE l[f] = 0
BY DEF MayOpen, Writer

-----------------------------------------------------------------------------
(* The actions.                                                            *)

LEMMA InitIInv == Init => IInv
<1> SUFFICES ASSUME Init PROVE IInv OBVIOUS
<1>1. lock \in Table /\ leaked \in [Files -> Nat] BY NoLockFits DEF Init, NoLock
<1>2. IsMap(disk) /\ IsMap(saved) /\ DOMAIN disk = {} /\ DOMAIN saved = {} BY DEF Init, IsMap
<1>3. TypeOK
  <2>1. /\ raw \in [file : Logs \cup {NoFile}, valid : BOOLEAN, err : BOOLEAN, data : Seq(Blocks)]
        /\ stream \in [file : Files \cup {NoFile}, valid : BOOLEAN, data : Seq(Blocks)]
    BY DEF Init, NoLog, NoRead
  <2>2. blocks \in 0..MaxBlocks /\ faults \in 0..MaxFaults BY EmmcFsAssumption DEF Init
  <2>3. mounted \in BOOLEAN /\ full \in BOOLEAN BY DEF Init
  <2> QED BY <1>1, <1>2, <2>1, <2>2, <2>3 DEF TypeOK, Table
<1>4. LocksAccounted BY DEF Init, LocksAccounted, Count, NoLock, NoLog, NoRead
<1>5. AllOrderly BY <1>2, EmptyOrderly DEF Init, AllOrderly, NoLog
<1> QED BY <1>2, <1>3, <1>4, <1>5
        DEF Init, IInv, OpenFileStays, SavedStays, OpenIsUnsaved, NoLog, NoRead

\* The entries of a file that no handle and no failed close accounts for do not exist.
LEMMA Accounts ==
  ASSUME IInv, NEW g \in Files
  PROVE  /\ lock[g] \in Nat /\ leaked[g] \in Nat
         /\ Count(raw, g, Writer) \in {0, 256} /\ Count(stream, g, 1) \in {0, 1}
         /\ lock[g] = leaked[g] + Count(raw, g, Writer) + Count(stream, g, 1)
BY DEF IInv, TypeOK, LocksAccounted, Count, Writer

LEMMA OpenRawLogStep ==
  ASSUME IInv, NEW f \in Logs, OpenRawLog(f) PROVE IInv'
<1>1. f \in Files /\ lock[f] = 0 /\ f # NoFile /\ ~raw.valid
  BY WriterFindsClosed, Handles, EmmcFsAssumption DEF Files, NoFile, OpenRawLog
<1>2. ~(stream.valid /\ stream.file = f) BY <1>1, Handles
<1>3. /\ IsMap(With(disk, f, <<>>)) /\ With(disk, f, <<>>)[f] = <<>>
      /\ DOMAIN With(disk, f, <<>>) = DOMAIN disk \cup {f}
      /\ \A g \in DOMAIN disk : g # f => With(disk, f, <<>>)[g] = disk[g]
  <2>1. <<>> \in Seq(Blocks) OBVIOUS
  <2> QED BY <1>1, <2>1, Handles, WithIsMap
<1>4. /\ IsMap(saved') /\ DOMAIN saved' = DOMAIN saved \ {f}
      /\ \A g \in DOMAIN saved' : saved'[g] = saved[g]
  <2>1. saved' = Without(saved, {f}) BY DEF OpenRawLog
  <2> QED BY <2>1, Handles, WithoutIsMap
<1>5. \/ UNCHANGED <<raw, lock>> /\ disk' \in {disk, With(disk, f, <<>>)}
      \/ /\ raw' = [file |-> f, valid |-> TRUE, err |-> FALSE, data |-> <<>>]
         /\ lock' = Opened(lock, f, Writer) /\ disk' = With(disk, f, <<>>)
  BY DEF OpenRawLog
<1>6. lock' \in Table /\ UNCHANGED <<stream, blocks, leaked>>
  <2>1. Writer \in Nat \ {0} BY DEF Writer
  <2>2. MayOpen(lock, f, Writer) /\ UNCHANGED <<stream, blocks, leaked>> BY DEF OpenRawLog
  <2> QED BY <1>1, <1>5, <2>1, <2>2, OpenedFits, Handles
<1>7. /\ IsMap(disk') /\ DOMAIN disk \subseteq DOMAIN disk'
      /\ \A g \in DOMAIN disk' : \/ g = f /\ disk'[g] = <<>>
                                 \/ g \in DOMAIN disk /\ disk'[g] = disk[g]
      /\ \A g \in DOMAIN disk : g # f => disk'[g] = disk[g]
  <2>1. IsMap(disk) BY Handles
  <2>2. disk' = disk \/ disk' = With(disk, f, <<>>) BY <1>5
  <2>3. CASE disk' = disk
    <3>1. IsMap(disk') BY <2>1, <2>3
    <3> QED BY <2>3, <3>1
  <2>4. CASE disk' = With(disk, f, <<>>)
    <3>1. IsMap(disk') BY <1>3, <2>4
    <3>2. DOMAIN disk' = DOMAIN disk \cup {f} BY <1>3, <2>4
    <3>3. disk'[f] = <<>> /\ \A g \in DOMAIN disk : g # f => disk'[g] = disk[g]
      BY <1>3, <2>4
    <3> QED BY <3>1, <3>2, <3>3
  <2> QED BY <2>2, <2>3, <2>4
<1>8. TypeOK'
  <2>1. mounted' \in BOOLEAN /\ full' \in BOOLEAN /\ faults' \in 0..MaxFaults
    BY EmmcFsAssumption DEF OpenRawLog, Fault, IInv, TypeOK
  <2>2. raw' \in [file : Logs \cup {NoFile}, valid : BOOLEAN, err : BOOLEAN, data : Seq(Blocks)]
    <3>1. raw \in [file : Logs \cup {NoFile}, valid : BOOLEAN, err : BOOLEAN, data : Seq(Blocks)]
      BY DEF IInv, TypeOK
    <3>2. <<>> \in Seq(Blocks) OBVIOUS
    <3>3. ASSUME raw' = [file |-> f, valid |-> TRUE, err |-> FALSE, data |-> <<>>]
          PROVE  raw' \in [file : Logs \cup {NoFile}, valid : BOOLEAN, err : BOOLEAN, data : Seq(Blocks)]
      BY <3>2, <3>3
    <3>4. raw' = raw \/ raw' = [file |-> f, valid |-> TRUE, err |-> FALSE, data |-> <<>>] BY <1>5
    <3> QED BY <3>1, <3>3, <3>4
  <2> QED BY <1>4, <1>6, <1>7, <2>1, <2>2 DEF IInv, TypeOK, Table
<1>9. ASSUME NEW g \in Files
      PROVE  lock'[g] = leaked'[g] + Count(raw', g, Writer) + Count(stream', g, 1)
  <2>1. CASE UNCHANGED <<raw, lock>> BY <1>6, <2>1, Accounts
  <2>2. CASE lock' = Opened(lock, f, Writer) /\ raw'.file = f /\ raw'.valid
    <3>1. lock'[g] = lock[g] + (IF g = f THEN 256 ELSE 0)
      BY <2>2, Accounts, Handles DEF Opened, Writer, Table
    <3>2. Count(raw, g, Writer) = 0 BY <1>1 DEF Count
    <3>3. Count(raw', g, Writer) = IF g = f THEN 256 ELSE 0 BY <2>2 DEF Count, Writer
    <3> QED BY <1>6, <3>1, <3>2, <3>3, Accounts
  <2> QED BY <1>5, <2>1, <2>2
<1>10. OpenFileStays'
  <2>1. stream.valid => stream.file \in DOMAIN disk' /\ disk'[stream.file] = stream.data
    BY <1>2, <1>7 DEF IInv, OpenFileStays
  <2>2. raw'.valid => raw'.file \in DOMAIN disk' /\ disk'[raw'.file] = <<>> /\ lock'[raw'.file] = Writer
    <3>1. ASSUME raw'.valid PROVE raw'.file = f /\ lock' = Opened(lock, f, Writer) /\ disk' = With(disk, f, <<>>)
      BY <1>1, <1>5, <3>1
    <3>2. Opened(lock, f, Writer)[f] = Writer BY <1>1, Handles DEF Opened, Table, Writer
    <3> QED BY <1>3, <3>1, <3>2
  <2> QED BY <1>6, <2>1, <2>2 DEF OpenFileStays
<1>11. SavedStays' BY <1>4, <1>7 DEF IInv, SavedStays
<1>12. OpenIsUnsaved' BY <1>1, <1>4, <1>5 DEF OpenIsUnsaved
<1>13. AllOrderly' BY <1>5, <1>6, <1>7, EmptyOrderly DEF IInv, AllOrderly
<1> QED BY <1>8, <1>9, <1>10, <1>11, <1>12, <1>13 DEF IInv, LocksAccounted

LEMMA WriteRawLogStep ==
  ASSUME IInv, WriteRawLog PROVE IInv'
<1>1. /\ raw.data \in Seq(Blocks) /\ blocks \in Nat /\ blocks < MaxBlocks
      /\ blocks' = blocks + 1 /\ Orderly(raw.data, blocks)
      /\ UNCHANGED <<disk, mounted, lock, stream, leaked, saved>>
  BY EmmcFsAssumption DEF IInv, TypeOK, AllOrderly, WriteRawLog
<1>2. \A w \in BOOLEAN :
        LET d == Append(raw.data, [n |-> blocks + 1, whole |-> w])
        IN  d \in Seq(Blocks) /\ Orderly(d, blocks + 1)
  BY <1>1, AppendOrderly
<1>3. /\ raw' \in [file : {raw.file}, valid : {raw.valid}, err : BOOLEAN, data : Seq(Blocks)]
      /\ Orderly(raw'.data, blocks + 1)
  <2>1. Orderly(raw.data, blocks + 1) BY <1>1, LaterOrderly
  <2>2. Whole(blocks + 1) = [n |-> blocks + 1, whole |-> TRUE] BY DEF Whole
  <2>3. Torn(blocks + 1) = [n |-> blocks + 1, whole |-> FALSE] BY DEF Torn
  <2>4. raw \in [file : {raw.file}, valid : {raw.valid}, err : BOOLEAN, data : Seq(Blocks)]
    BY DEF IInv, TypeOK
  <2>5. \E d \in {raw.data, Append(raw.data, Whole(blocks + 1)), Append(raw.data, Torn(blocks + 1))},
          e \in BOOLEAN : raw' = [raw EXCEPT !.data = d, !.err = e]
    BY <2>4 DEF WriteRawLog
  <2>6. \A d \in {raw.data, Append(raw.data, Whole(blocks + 1)), Append(raw.data, Torn(blocks + 1))} :
          d \in Seq(Blocks) /\ Orderly(d, blocks + 1)
    BY <1>1, <1>2, <2>1, <2>2, <2>3
  <2> QED BY <2>4, <2>5, <2>6
<1>4. TypeOK'
  <2>0. full' \in {full, TRUE} /\ (UNCHANGED faults \/ Fault) BY DEF WriteRawLog
  <2>1. full' \in BOOLEAN /\ faults' \in 0..MaxFaults
    <3>1. full \in BOOLEAN /\ faults \in 0..MaxFaults BY DEF IInv, TypeOK
    <3>2. faults' \in 0..MaxFaults BY <2>0, <3>1, EmmcFsAssumption DEF Fault
    <3> QED BY <2>0, <3>1, <3>2
  <2>2. raw' \in [file : Logs \cup {NoFile}, valid : BOOLEAN, err : BOOLEAN, data : Seq(Blocks)]
    BY <1>3 DEF IInv, TypeOK
  <2>3. blocks' \in 0..MaxBlocks BY <1>1, EmmcFsAssumption
  <2> QED BY <1>1, <2>1, <2>2, <2>3 DEF IInv, TypeOK
<1>5. LocksAccounted' BY <1>1, <1>3 DEF IInv, LocksAccounted, Count
<1>6. OpenFileStays' BY <1>1, <1>3 DEF IInv, OpenFileStays
<1>7. SavedStays' /\ OpenIsUnsaved' BY <1>1, <1>3 DEF IInv, SavedStays, OpenIsUnsaved
<1>8. AllOrderly'
  <2>1. \A f \in DOMAIN disk : Orderly(disk[f], blocks + 1)
    BY <1>1, LaterOrderly DEF IInv, TypeOK, IsMap, AllOrderly
  <2> QED BY <1>1, <1>3, <2>1 DEF AllOrderly
<1> QED BY <1>4, <1>5, <1>6, <1>7, <1>8 DEF IInv

LEMMA CloseRawLogStep ==
  ASSUME IInv, CloseRawLog PROVE IInv'
<1>1. raw' = NoLog /\ ~raw'.valid /\ raw'.data = <<>> /\ UNCHANGED <<mounted, stream, full, blocks>>
  BY DEF NoLog, CloseRawLog
<1>2. CASE ~raw.valid
  <2>0. UNCHANGED <<disk, lock, saved, faults, leaked>> BY <1>2 DEF CloseRawLog
  <2>1. TypeOK' BY <1>1, <2>0 DEF IInv, TypeOK, NoLog
  <2>2. LocksAccounted' BY <1>1, <1>2, <2>0 DEF IInv, LocksAccounted, Count
  <2>3. AllOrderly' BY <1>1, <2>0, EmptyOrderly DEF IInv, AllOrderly
  <2> QED BY <1>1, <2>0, <2>1, <2>2, <2>3 DEF IInv, OpenFileStays, SavedStays, OpenIsUnsaved
<1>3. ASSUME raw.valid PROVE IInv'
  <2> DEFINE f == raw.file
             d == With(disk, f, raw.data)
  <2>0. f \in Files /\ lock[f] = Writer /\ ~(stream.valid /\ stream.file = f) BY <1>3, Handles
  <2>1. raw.data \in Seq(Blocks) /\ Orderly(raw.data, blocks) BY DEF IInv, TypeOK, AllOrderly
  <2>2. /\ IsMap(d) /\ d[f] = raw.data /\ DOMAIN d = DOMAIN disk \cup {f}
        /\ \A g \in DOMAIN disk : g # f => d[g] = disk[g]
    <3>1. IsMap(disk) /\ f \in Files /\ raw.data \in Seq(Blocks) BY <2>0, <2>1, Handles
    <3> HIDE DEF f
    <3> QED BY <3>1, WithIsMap, ZenonT(40)
  <2>3. f \notin DOMAIN saved BY <1>3 DEF IInv, OpenIsUnsaved
  <2>4. disk' \in {disk, d} BY <1>3 DEF CloseRawLog
  <2>5. /\ IsMap(disk') /\ DOMAIN disk \subseteq DOMAIN disk'
        /\ \A g \in DOMAIN disk : g # f => disk'[g] = disk[g]
        /\ \A g \in DOMAIN disk' : Orderly(disk'[g], blocks)
    <3>1. \A g \in DOMAIN disk : Orderly(disk[g], blocks) BY DEF IInv, AllOrderly
    <3>2. \A g \in DOMAIN d : Orderly(d[g], blocks) BY <2>1, <2>2, <3>1
    <3> QED BY <2>2, <2>4, <3>1, <3>2, Handles
  <2>6. IsMap(saved') /\ \A g \in DOMAIN saved' : g \in DOMAIN disk' /\ disk'[g] = saved'[g]
    <3>1. CASE UNCHANGED saved
      <4>1. \A g \in DOMAIN saved : g # f BY <2>3
      <4> QED BY <2>5, <3>1, <4>1 DEF IInv, SavedStays, TypeOK
    <3>2. CASE disk' = d /\ saved' = With(saved, f, raw.data)
      <4>1. /\ IsMap(saved') /\ saved'[f] = raw.data /\ DOMAIN saved' = DOMAIN saved \cup {f}
            /\ \A g \in DOMAIN saved : g # f => saved'[g] = saved[g]
        <5>1. IsMap(saved) /\ f \in Files /\ raw.data \in Seq(Blocks) BY <2>0, <2>1, Handles
        <5> HIDE DEF f
        <5> QED BY <3>2, <5>1, WithIsMap, ZenonT(40)
      <4>2. \A g \in DOMAIN saved : g \in DOMAIN disk /\ disk[g] = saved[g]
        BY DEF IInv, SavedStays
      <4> QED BY <2>2, <3>2, <4>1, <4>2
    <3> QED BY <1>3, <3>1, <3>2 DEF CloseRawLog
  <2>7. \/ lock' = Released(lock, f, Writer) /\ UNCHANGED leaked
        \/ leaked' = Opened(leaked, f, Writer) /\ UNCHANGED lock
    BY <1>3 DEF CloseRawLog
  <2>8. lock' \in Table /\ leaked' \in [Files -> Nat]
    <3>1. Writer \in Nat /\ Writer <= lock[f] BY <2>0 DEF Writer
    <3>2. Released(lock, f, Writer) \in Table BY <2>0, <3>1, ReleasedFits, Handles
    <3>3. leaked \in [Files -> Nat] /\ Opened(leaked, f, Writer) \in [Files -> Nat]
      <4>1. leaked \in [Files -> Nat] BY DEF IInv, TypeOK
      <4> QED BY <2>0, <3>1, <4>1 DEF Opened
    <3>4. lock \in Table BY Handles
    <3> QED BY <2>7, <3>2, <3>3, <3>4
  <2>9. ASSUME NEW g \in Files
        PROVE  lock'[g] = leaked'[g] + Count(raw', g, Writer) + Count(stream', g, 1)
    <3>1. Count(raw, g, Writer) = (IF g = f THEN 256 ELSE 0) /\ Count(raw', g, Writer) = 0
      BY <1>1, <1>3 DEF Count, Writer
    <3>2. \/ /\ lock'[g] = lock[g] - (IF g = f THEN 256 ELSE 0)
             /\ leaked'[g] = leaked[g]
          \/ /\ leaked'[g] = leaked[g] + (IF g = f THEN 256 ELSE 0)
             /\ lock'[g] = lock[g]
      BY <2>7, Accounts, Handles DEF Released, Opened, Writer, Table, IInv, TypeOK
    <3> QED BY <1>1, <3>1, <3>2, Accounts
  <2>10. TypeOK'
    <3>1. faults' \in 0..MaxFaults BY EmmcFsAssumption DEF IInv, TypeOK, Fault, CloseRawLog
    <3> QED BY <1>1, <2>5, <2>6, <2>8, <3>1 DEF IInv, TypeOK, NoLog, Table
  <2>11. OpenFileStays' BY <1>1, <2>0, <2>5 DEF IInv, OpenFileStays
  <2>12. AllOrderly' BY <1>1, <2>5, EmptyOrderly DEF AllOrderly
  <2> QED BY <1>1, <2>6, <2>9, <2>10, <2>11, <2>12
          DEF IInv, LocksAccounted, SavedStays, OpenIsUnsaved
<1> QED BY <1>2, <1>3

(* The steps that only open and close files for reading.                   *)

LEMMA ReaderStep ==
  ASSUME IInv, UNCHANGED <<disk, mounted, raw, full, blocks, saved>>,
         UNCHANGED faults \/ Fault,
         lock' \in Table, leaked' \in [Files -> Nat],
         stream' \in [file : Files \cup {NoFile}, valid : BOOLEAN, data : Seq(Blocks)],
         \A g \in Files : lock'[g] = leaked'[g] + Count(raw, g, Writer) + Count(stream', g, 1),
         raw.valid => lock'[raw.file] = Writer,
         stream'.valid => stream'.file \in DOMAIN disk /\ disk[stream'.file] = stream'.data
  PROVE  IInv'
<1>1. faults' \in 0..MaxFaults BY EmmcFsAssumption DEF Fault, IInv, TypeOK
<1>2. TypeOK' BY <1>1 DEF IInv, TypeOK, Table
<1>3. LocksAccounted' BY DEF LocksAccounted, Count
<1>4. OpenFileStays' BY DEF IInv, OpenFileStays
<1>5. SavedStays' /\ OpenIsUnsaved' /\ AllOrderly'
  BY DEF IInv, SavedStays, OpenIsUnsaved, AllOrderly
<1> QED BY <1>2, <1>3, <1>4, <1>5 DEF IInv

\* What is left of the table when the stream has been closed, with an error or without.
LEMMA StreamClosed ==
  ASSUME IInv, NEW l, NEW left,
         \/ stream.valid /\ l = Released(lock, stream.file, 1) /\ left = leaked
         \/ stream.valid /\ l = lock /\ left = Opened(leaked, stream.file, 1)
         \/ ~stream.valid /\ l = lock /\ left = leaked
  PROVE  /\ l \in Table /\ left \in [Files -> Nat]
         /\ \A g \in Files : l[g] = left[g] + Count(raw, g, Writer)
         /\ raw.valid => l[raw.file] = Writer
<1>1. lock \in Table /\ lock \in [Files -> Nat] BY Handles DEF Table
<1>2. leaked \in [Files -> Nat] BY DEF IInv, TypeOK
<1>3. raw.valid => raw.file \in Files /\ lock[raw.file] = Writer /\ ~(stream.valid /\ stream.file = raw.file)
  BY Handles
<1>4. CASE ~stream.valid
  <2>1. \A g \in Files : Count(stream, g, 1) = 0 BY <1>4 DEF Count
  <2>2. l = lock /\ left = leaked BY <1>4
  <2> QED BY <1>1, <1>2, <1>3, <2>1, <2>2, Accounts
<1>5. ASSUME stream.valid
      PROVE  /\ l \in Table /\ left \in [Files -> Nat]
             /\ \A g \in Files : l[g] = left[g] + Count(raw, g, Writer)
             /\ raw.valid => l[raw.file] = Writer
  <2>1. stream.file \in Files /\ 1 <= lock[stream.file] BY <1>5, Handles
  <2>2. \A g \in Files : Count(stream, g, 1) = IF g = stream.file THEN 1 ELSE 0
    BY <1>5 DEF Count
  <2>3. CASE l = Released(lock, stream.file, 1) /\ left = leaked
    <3>1. l \in Table BY <1>1, <2>1, <2>3, ReleasedFits
    <3>2. \A g \in Files : l[g] = lock[g] - (IF g = stream.file THEN 1 ELSE 0)
      BY <1>1, <2>1, <2>3 DEF Released
    <3>3. raw.valid => l[raw.file] = Writer BY <1>3, <1>5, <3>2 DEF Writer
    <3>4. \A g \in Files : l[g] = left[g] + Count(raw, g, Writer)
      BY <2>2, <2>3, <3>2, Accounts
    <3> QED BY <1>2, <2>3, <3>1, <3>3, <3>4
  <2>4. CASE l = lock /\ left = Opened(leaked, stream.file, 1)
    <3>1. left \in [Files -> Nat] BY <1>2, <2>1, <2>4 DEF Opened
    <3>2. \A g \in Files : left[g] = leaked[g] + (IF g = stream.file THEN 1 ELSE 0)
      BY <1>2, <2>1, <2>4 DEF Opened
    <3>3. \A g \in Files : l[g] = left[g] + Count(raw, g, Writer)
      BY <2>2, <2>4, <3>2, Accounts
    <3> QED BY <1>1, <1>3, <2>4, <3>1, <3>3
  <2> QED BY <1>5, <2>3, <2>4
<1> QED BY <1>4, <1>5

LEMMA OpenedForReading ==
  ASSUME NEW l \in Table, NEW f \in Files, MayOpen(l, f, 1)
  PROVE  /\ Opened(l, f, 1) \in Table /\ l[f] # Writer
         /\ \A g \in Files : Opened(l, f, 1)[g] = l[g] + (IF g = f THEN 1 ELSE 0)
<1>1. Opened(l, f, 1) \in Table BY OpenedFits
<1>2. l[f] # Writer BY DEF MayOpen, Writer
<1>3. \A g \in Files : Opened(l, f, 1)[g] = l[g] + (IF g = f THEN 1 ELSE 0)
  BY DEF Table, Opened
<1> QED BY <1>1, <1>2, <1>3

LEMMA StreamCloseStep ==
  ASSUME IInv, StreamClose PROVE IInv'
<1>1. /\ stream' = NoRead /\ (UNCHANGED faults \/ Fault)
      /\ UNCHANGED <<disk, mounted, raw, full, blocks, saved>>
  BY DEF StreamClose
<1>2. \/ stream.valid /\ lock' = Released(lock, stream.file, 1) /\ leaked' = leaked
      \/ stream.valid /\ lock' = lock /\ leaked' = Opened(leaked, stream.file, 1)
      \/ ~stream.valid /\ lock' = lock /\ leaked' = leaked
  BY DEF StreamClose
<1>3. /\ lock' \in Table /\ leaked' \in [Files -> Nat]
      /\ \A g \in Files : lock'[g] = leaked'[g] + Count(raw, g, Writer)
      /\ raw.valid => lock'[raw.file] = Writer
  BY <1>2, StreamClosed
<1>4. /\ ~stream'.valid
      /\ stream' \in [file : Files \cup {NoFile}, valid : BOOLEAN, data : Seq(Blocks)]
  BY <1>1 DEF NoRead
<1>5. \A g \in Files : lock'[g] = leaked'[g] + Count(raw, g, Writer) + Count(stream', g, 1)
  <2>1. \A g \in Files : Count(stream', g, 1) = 0 BY <1>4 DEF Count
  <2>2. \A g \in Files : lock'[g] \in Nat BY <1>3 DEF Table
  <2> QED BY <1>3, <2>1, <2>2
<1> QED BY <1>1, <1>3, <1>4, <1>5, ReaderStep

LEMMA StreamOpenStep ==
  ASSUME IInv, NEW f \in Files, StreamOpen(f) PROVE IInv'
<1>1. PICK closes \in {stream.valid, FALSE} :
        LET l    == IF closes THEN Released(lock, stream.file, 1) ELSE lock
            left == IF stream.valid /\ ~closes THEN Opened(leaked, stream.file, 1) ELSE leaked
            may  == mounted /\ f \in DOMAIN disk /\ MayOpen(l, f, 1)
        IN /\ \/ /\ may
                 /\ stream' = [file |-> f, valid |-> TRUE, data |-> disk[f]]
                 /\ lock' = Opened(l, f, 1) /\ leaked' = left
                 /\ IF stream.valid /\ ~closes THEN Fault ELSE UNCHANGED faults
              \/ /\ stream' = NoRead
                 /\ lock' = l /\ leaked' = left
                 /\ IF may \/ (stream.valid /\ ~closes) THEN Fault ELSE UNCHANGED faults
              \/ /\ may
                 /\ stream' = NoRead
                 /\ lock' = Opened(l, f, 1) /\ leaked' = Opened(left, f, 1)
                 /\ Fault
           /\ UNCHANGED <<disk, mounted, raw, full, blocks, saved>>
  BY DEF StreamOpen
<1> DEFINE l    == IF closes THEN Released(lock, stream.file, 1) ELSE lock
           left == IF stream.valid /\ ~closes THEN Opened(leaked, stream.file, 1) ELSE leaked
           may  == f \in DOMAIN disk /\ MayOpen(l, f, 1)
<1>2. \/ stream.valid /\ l = Released(lock, stream.file, 1) /\ left = leaked
      \/ stream.valid /\ l = lock /\ left = Opened(leaked, stream.file, 1)
      \/ ~stream.valid /\ l = lock /\ left = leaked
  <2>1. stream.valid \in BOOLEAN BY DEF IInv, TypeOK
  <2> QED BY <2>1
<1>3. /\ UNCHANGED <<disk, mounted, raw, full, blocks, saved>>
      /\ UNCHANGED faults \/ Fault
  BY <1>1
<1>4. \/ /\ may /\ stream' = [file |-> f, valid |-> TRUE, data |-> disk[f]]
         /\ lock' = Opened(l, f, 1) /\ leaked' = left
      \/ stream' = NoRead /\ lock' = l /\ leaked' = left
      \/ may /\ stream' = NoRead /\ lock' = Opened(l, f, 1) /\ leaked' = Opened(left, f, 1)
  BY <1>1
<1> HIDE DEF l, left
<1>5. /\ l \in Table /\ l \in [Files -> Nat] /\ left \in [Files -> Nat]
      /\ \A g \in Files : l[g] = left[g] + Count(raw, g, Writer)
      /\ raw.valid => raw.file \in Files /\ l[raw.file] = Writer
  BY <1>2, StreamClosed, Handles DEF Table
<1>6. \A g \in Files : Count(raw, g, Writer) \in Nat BY DEF Count, Writer
<1>7. NoRead \in [file : Files \cup {NoFile}, valid : BOOLEAN, data : Seq(Blocks)] /\ ~NoRead.valid
  BY DEF NoRead
<1>8. CASE stream' = NoRead /\ lock' = l /\ leaked' = left
  <2>1. \A g \in Files : Count(stream', g, 1) = 0 BY <1>7, <1>8 DEF Count
  <2>2. \A g \in Files : lock'[g] = leaked'[g] + Count(raw, g, Writer) + Count(stream', g, 1)
    BY <1>5, <1>6, <1>8, <2>1
  <2> QED BY <1>3, <1>5, <1>7, <1>8, <2>2, ReaderStep
<1>9. ASSUME may
      PROVE  /\ Opened(l, f, 1) \in Table
             /\ \A g \in Files : Opened(l, f, 1)[g] = l[g] + (IF g = f THEN 1 ELSE 0)
             /\ raw.valid => Opened(l, f, 1)[raw.file] = Writer
  <2>1. /\ Opened(l, f, 1) \in Table /\ l[f] # Writer
        /\ \A g \in Files : Opened(l, f, 1)[g] = l[g] + (IF g = f THEN 1 ELSE 0)
    BY <1>5, <1>9, OpenedForReading
  <2> QED BY <1>5, <2>1
<1>10. CASE /\ may /\ stream' = [file |-> f, valid |-> TRUE, data |-> disk[f]]
            /\ lock' = Opened(l, f, 1) /\ leaked' = left
  <2>1. \A g \in Files : Count(stream', g, 1) = IF g = f THEN 1 ELSE 0 BY <1>10 DEF Count
  <2>2. \A g \in Files : lock'[g] = leaked'[g] + Count(raw, g, Writer) + Count(stream', g, 1)
    BY <1>5, <1>6, <1>9, <1>10, <2>1
  <2>3. disk[f] \in Seq(Blocks) BY <1>10, Handles DEF IsMap
  <2>4. stream' \in [file : Files \cup {NoFile}, valid : BOOLEAN, data : Seq(Blocks)]
    BY <1>10, <2>3
  <2>5. stream'.file \in DOMAIN disk /\ disk[stream'.file] = stream'.data BY <1>10
  <2> QED BY <1>3, <1>5, <1>9, <1>10, <2>2, <2>4, <2>5, ReaderStep
<1>11. CASE may /\ stream' = NoRead /\ lock' = Opened(l, f, 1) /\ leaked' = Opened(left, f, 1)
  <2>1. \A g \in Files : Count(stream', g, 1) = 0 BY <1>7, <1>11 DEF Count
  <2>2. /\ leaked' \in [Files -> Nat]
        /\ \A g \in Files : leaked'[g] = left[g] + (IF g = f THEN 1 ELSE 0)
    BY <1>5, <1>11 DEF Opened
  <2>3. \A g \in Files : lock'[g] = leaked'[g] + Count(raw, g, Writer) + Count(stream', g, 1)
    BY <1>5, <1>6, <1>9, <1>11, <2>1, <2>2
  <2> QED BY <1>3, <1>7, <1>9, <1>11, <2>2, <2>3, ReaderStep
<1> QED BY <1>4, <1>8, <1>10, <1>11

LEMMA PeekStep ==
  ASSUME IInv, NEW f \in Files, Peek(f) PROVE IInv'
<1>1. /\ lock' = Opened(lock, f, 1) /\ leaked' = Opened(leaked, f, 1) /\ MayOpen(lock, f, 1)
      /\ UNCHANGED <<disk, mounted, raw, stream, full, blocks, saved>> /\ Fault
  BY DEF Peek
<1>2. lock \in Table /\ (raw.valid => raw.file \in Files /\ lock[raw.file] = Writer) BY Handles
<1>3. /\ lock' \in Table /\ lock[f] # Writer
      /\ \A g \in Files : lock'[g] = lock[g] + (IF g = f THEN 1 ELSE 0)
  BY <1>1, <1>2, OpenedForReading
<1>4. /\ leaked' \in [Files -> Nat]
      /\ \A g \in Files : leaked'[g] = leaked[g] + (IF g = f THEN 1 ELSE 0)
  <2>1. leaked \in [Files -> Nat] BY DEF IInv, TypeOK
  <2> QED BY <1>1, <2>1 DEF Opened
<1>5. \A g \in Files : lock'[g] = leaked'[g] + Count(raw, g, Writer) + Count(stream', g, 1)
  BY <1>1, <1>3, <1>4, Accounts
<1>6. raw.valid => lock'[raw.file] = Writer
  <2>1. raw.valid => raw.file # f BY <1>2, <1>3
  <2>2. raw.valid => lock[raw.file] \in Nat BY <1>2, Accounts
  <2> QED BY <1>2, <1>3, <2>1, <2>2
<1>7. stream' \in [file : Files \cup {NoFile}, valid : BOOLEAN, data : Seq(Blocks)]
  BY <1>1 DEF IInv, TypeOK
<1>8. stream'.valid => stream'.file \in DOMAIN disk /\ disk[stream'.file] = stream'.data
  BY <1>1 DEF IInv, OpenFileStays
<1> QED BY <1>1, <1>3, <1>4, <1>5, <1>6, <1>7, <1>8, ReaderStep

(* The steps that change the directory.                                    *)

LEMMA DeleteStep ==
  ASSUME IInv, NEW all, Delete(all) PROVE IInv'
<1>1. PICK F \in SUBSET all :
        /\ Unlinked(F, all)
        /\ disk' = Without(disk, F) /\ saved' = Without(saved, F)
        /\ full' \in {full, full /\ F = {}}
  BY DEF Delete
<1>2. UNCHANGED <<mounted, lock, raw, stream, blocks, leaked>> BY DEF Delete
<1>3. /\ \A f \in F : lock[f] = 0
      /\ UNCHANGED faults \/ Fault
  BY <1>1 DEF Unlinked
<1>4. /\ raw.valid => raw.file \notin F
      /\ stream.valid => stream.file \notin F
  BY <1>3, Handles DEF Writer
<1>5. /\ IsMap(disk') /\ DOMAIN disk' = DOMAIN disk \ F
      /\ \A g \in DOMAIN disk' : disk'[g] = disk[g]
  <2>1. IsMap(disk) BY Handles
  <2>2. /\ IsMap(Without(disk, F)) /\ DOMAIN Without(disk, F) = DOMAIN disk \ F
        /\ \A g \in DOMAIN disk \ F : Without(disk, F)[g] = disk[g]
    BY <2>1, WithoutIsMap
  <2> QED BY <1>1, <2>2
<1>6. /\ IsMap(saved') /\ DOMAIN saved' = DOMAIN saved \ F
      /\ \A g \in DOMAIN saved' : saved'[g] = saved[g]
  <2>1. IsMap(saved) BY Handles
  <2>2. /\ IsMap(Without(saved, F)) /\ DOMAIN Without(saved, F) = DOMAIN saved \ F
        /\ \A g \in DOMAIN saved \ F : Without(saved, F)[g] = saved[g]
    BY <2>1, WithoutIsMap
  <2> QED BY <1>1, <2>2
<1>7. TypeOK'
  <2>1. faults' \in 0..MaxFaults BY <1>3, EmmcFsAssumption DEF Fault, IInv, TypeOK
  <2>2. full' \in BOOLEAN BY <1>1 DEF IInv, TypeOK
  <2> QED BY <1>2, <1>5, <1>6, <2>1, <2>2 DEF IInv, TypeOK
<1>8. LocksAccounted' BY <1>2 DEF IInv, LocksAccounted, Count
<1>9. OpenFileStays' BY <1>2, <1>4, <1>5 DEF IInv, OpenFileStays
<1>10. SavedStays' /\ OpenIsUnsaved' BY <1>2, <1>5, <1>6 DEF IInv, SavedStays, OpenIsUnsaved
<1>11. AllOrderly' BY <1>2, <1>5 DEF IInv, AllOrderly
<1> QED BY <1>7, <1>8, <1>9, <1>10, <1>11 DEF IInv

LEMMA SaveOffsetCalibrationStep ==
  ASSUME IInv, SaveOffsetCalibration PROVE IInv'
<1> DEFINE record == <<Whole(blocks + 1)>>
<1>1. /\ lock[Cal] = 0 /\ MayOpen(lock, Cal, Writer) /\ Cal \in Files /\ Cal \notin Logs
      /\ blocks \in Nat /\ blocks < MaxBlocks /\ blocks' = blocks + 1
      /\ UNCHANGED <<mounted, raw, stream>>
  BY WriterFindsClosed, EmmcFsAssumption DEF SaveOffsetCalibration, Files, IInv, TypeOK
<1>2. (raw.valid => raw.file # Cal) /\ (stream.valid => stream.file # Cal)
  BY <1>1, Handles
<1>3. /\ record \in Seq(Blocks) /\ Orderly(record, blocks + 1)
      /\ <<>> \in Seq(Blocks) /\ Orderly(<<>>, blocks + 1)
  <2>1. Whole(blocks + 1) \in Blocks /\ Whole(blocks + 1).n = blocks + 1
    BY <1>1, EmmcFsAssumption DEF Whole, Blocks
  <2> QED BY <1>1, <2>1, EmptyOrderly DEF Orderly
<1>4. /\ \E d \in {<<>>, record} : disk' \in {disk, With(disk, Cal, d)}
      /\ \/ disk' = With(disk, Cal, record) /\ saved' = With(saved, Cal, record)
         \/ saved' = Without(saved, {Cal})
  BY DEF SaveOffsetCalibration
<1> HIDE DEF record
<1>5. /\ IsMap(disk') /\ DOMAIN disk \subseteq DOMAIN disk'
      /\ \A g \in DOMAIN disk : g # Cal => disk'[g] = disk[g]
      /\ \A g \in DOMAIN disk' : Orderly(disk'[g], blocks + 1)
  <2>1. IsMap(disk) /\ \A g \in DOMAIN disk : Orderly(disk[g], blocks + 1)
    BY <1>1, Handles, LaterOrderly DEF IInv, AllOrderly, IsMap
  <2>2. PICK d \in {<<>>, record} : disk' \in {disk, With(disk, Cal, d)} BY <1>4
  <2>3. d \in Seq(Blocks) /\ Orderly(d, blocks + 1) BY <1>3, <2>2
  <2>4. /\ IsMap(With(disk, Cal, d)) /\ With(disk, Cal, d)[Cal] = d
        /\ DOMAIN With(disk, Cal, d) = DOMAIN disk \cup {Cal}
        /\ \A g \in DOMAIN disk : g # Cal => With(disk, Cal, d)[g] = disk[g]
    BY <1>1, <2>1, <2>3, WithIsMap
  <2>5. CASE disk' = disk BY <2>1, <2>5
  <2>6. CASE disk' = With(disk, Cal, d)
    <3>1. \A g \in DOMAIN disk' : Orderly(disk'[g], blocks + 1) BY <2>1, <2>3, <2>4, <2>6
    <3> QED BY <2>4, <2>6, <3>1
  <2> QED BY <2>2, <2>5, <2>6
<1>6. /\ IsMap(saved') /\ DOMAIN saved' \subseteq DOMAIN saved \cup {Cal}
      /\ \A g \in DOMAIN saved' : g \in DOMAIN disk' /\ disk'[g] = saved'[g]
  <2>1. IsMap(disk) /\ IsMap(saved) BY Handles
  <2>2. \A g \in DOMAIN saved : g \in DOMAIN disk /\ disk[g] = saved[g] BY DEF IInv, SavedStays
  <2>3. CASE disk' = With(disk, Cal, record) /\ saved' = With(saved, Cal, record)
    <3>1. /\ With(disk, Cal, record)[Cal] = record
          /\ DOMAIN With(disk, Cal, record) = DOMAIN disk \cup {Cal}
      BY <1>1, <1>3, <2>1, WithIsMap, ZenonT(40)
    <3>2. /\ IsMap(With(saved, Cal, record)) /\ With(saved, Cal, record)[Cal] = record
          /\ DOMAIN With(saved, Cal, record) = DOMAIN saved \cup {Cal}
          /\ \A g \in DOMAIN saved : g # Cal => With(saved, Cal, record)[g] = saved[g]
      BY <1>1, <1>3, <2>1, WithIsMap
    <3> QED BY <1>5, <2>2, <2>3, <3>1, <3>2
  <2>4. CASE saved' = Without(saved, {Cal})
    <3>1. /\ IsMap(Without(saved, {Cal})) /\ DOMAIN Without(saved, {Cal}) = DOMAIN saved \ {Cal}
          /\ \A g \in DOMAIN saved \ {Cal} : Without(saved, {Cal})[g] = saved[g]
      BY <2>1, WithoutIsMap
    <3> QED BY <1>5, <2>2, <2>4, <3>1
  <2> QED BY <1>4, <2>3, <2>4
<1>7. /\ lock' \in Table /\ leaked' \in [Files -> Nat]
      /\ \A g \in Files : g # Cal => lock'[g] = lock[g] /\ leaked'[g] = leaked[g]
      /\ \E n \in Nat : lock'[Cal] = lock[Cal] + n /\ leaked'[Cal] = leaked[Cal] + n
  <2>1. lock \in Table /\ lock \in [Files -> Nat] /\ leaked \in [Files -> Nat]
    BY Handles DEF Table, IInv, TypeOK
  <2>2. CASE UNCHANGED <<lock, leaked>>
    <3>1. lock'[Cal] = lock[Cal] + 0 /\ leaked'[Cal] = leaked[Cal] + 0 BY <1>1, <2>1, <2>2
    <3> QED BY <2>1, <2>2, <3>1
  <2>3. CASE lock' = Opened(lock, Cal, Writer) /\ leaked' = Opened(leaked, Cal, Writer)
    <3>1. Writer \in Nat /\ Writer \in Nat \ {0} BY DEF Writer
    <3>2. lock' \in Table BY <1>1, <2>1, <2>3, <3>1, OpenedFits
    <3> QED BY <1>1, <2>1, <2>3, <3>1, <3>2 DEF Opened
  <2> QED BY <2>2, <2>3 DEF SaveOffsetCalibration
<1>8. TypeOK'
  <2>1. full' \in BOOLEAN
    <3>1. full' \in {full, TRUE, full /\ ~Frees(Cal, disk')} BY DEF SaveOffsetCalibration
    <3>2. full \in BOOLEAN BY DEF IInv, TypeOK
    <3> QED BY <3>1, <3>2
  <2>2. UNCHANGED faults \/ Fault BY DEF SaveOffsetCalibration
  <2>3. faults' \in 0..MaxFaults BY <2>2, EmmcFsAssumption DEF Fault, IInv, TypeOK
  <2>4. blocks' \in 0..MaxBlocks BY <1>1, EmmcFsAssumption
  <2> QED BY <1>1, <1>5, <1>6, <1>7, <2>1, <2>3, <2>4 DEF IInv, TypeOK, Table
<1>9. ASSUME NEW g \in Files
      PROVE  lock'[g] = leaked'[g] + Count(raw', g, Writer) + Count(stream', g, 1)
  <2>1. PICK n \in Nat : lock'[Cal] = lock[Cal] + n /\ leaked'[Cal] = leaked[Cal] + n BY <1>7
  <2> QED BY <1>1, <1>7, <2>1, Accounts
<1>10. OpenFileStays'
  <2>1. raw.valid => raw.file \in Files BY Handles
  <2> QED BY <1>1, <1>2, <1>5, <1>7, <2>1 DEF IInv, OpenFileStays
<1>11. SavedStays' /\ OpenIsUnsaved' BY <1>1, <1>2, <1>6 DEF IInv, SavedStays, OpenIsUnsaved
<1>12. AllOrderly'
  <2>1. Orderly(raw.data, blocks + 1) BY <1>1, LaterOrderly DEF IInv, AllOrderly, TypeOK
  <2> QED BY <1>1, <1>5, <2>1 DEF AllOrderly
<1> QED BY <1>8, <1>9, <1>10, <1>11, <1>12 DEF IInv, LocksAccounted

(* The card and the board.                                                 *)

\* No handle is valid any more, and a log that has not been written to may be gone.
LEMMA HandlesLost ==
  ASSUME IInv, ~raw'.valid, ~stream'.valid,
         raw' \in [file : Logs \cup {NoFile}, valid : BOOLEAN, err : BOOLEAN, data : Seq(Blocks)],
         stream' \in [file : Files \cup {NoFile}, valid : BOOLEAN, data : Seq(Blocks)],
         raw'.data \in {raw.data, <<>>},
         lock' \in Table, leaked' = lock', mounted' \in BOOLEAN,
         UNCHANGED faults \/ Fault,
         disk' \in {disk, Without(disk, Unwritten)},
         UNCHANGED <<full, blocks, saved>>
  PROVE  IInv'
<1>1. \A f \in DOMAIN saved : f \notin Unwritten BY DEF IInv, OpenIsUnsaved, Unwritten
<1>2. /\ IsMap(disk') /\ DOMAIN disk \ Unwritten \subseteq DOMAIN disk'
      /\ DOMAIN disk' \subseteq DOMAIN disk
      /\ \A g \in DOMAIN disk' : disk'[g] = disk[g]
  <2>1. IsMap(disk) BY Handles
  <2> HIDE DEF Unwritten
  <2>2. CASE disk' = disk BY <2>1, <2>2
  <2>3. CASE disk' = Without(disk, Unwritten)
    <3>1. /\ IsMap(Without(disk, Unwritten)) /\ DOMAIN Without(disk, Unwritten) = DOMAIN disk \ Unwritten
          /\ \A g \in DOMAIN disk \ Unwritten : Without(disk, Unwritten)[g] = disk[g]
      BY <2>1, WithoutIsMap
    <3> QED BY <2>3, <3>1
  <2> QED BY <2>2, <2>3
<1>3. TypeOK'
  <2>1. faults' \in 0..MaxFaults BY EmmcFsAssumption DEF Fault, IInv, TypeOK
  <2> QED BY <1>2, <2>1 DEF IInv, TypeOK, Table
<1>4. LocksAccounted'
  <2>1. \A g \in Files : lock'[g] \in Nat BY DEF Table
  <2>2. \A g \in Files : Count(raw', g, Writer) = 0 /\ Count(stream', g, 1) = 0 BY DEF Count
  <2> QED BY <2>1, <2>2 DEF LocksAccounted
<1>5. OpenFileStays' /\ OpenIsUnsaved' BY DEF OpenFileStays, OpenIsUnsaved
<1>6. SavedStays' BY <1>1, <1>2 DEF IInv, SavedStays
<1>7. AllOrderly' BY <1>2, EmptyOrderly DEF IInv, AllOrderly
<1> QED BY <1>3, <1>4, <1>5, <1>6, <1>7 DEF IInv

LEMMA RemountStep ==
  ASSUME IInv, Remount PROVE IInv'
<1>1. lock' \in Table BY Handles, NoLockFits DEF Remount
<1>2. /\ raw' \in [file : Logs \cup {NoFile}, valid : BOOLEAN, err : BOOLEAN, data : Seq(Blocks)]
      /\ stream' \in [file : Files \cup {NoFile}, valid : BOOLEAN, data : Seq(Blocks)]
      /\ ~raw'.valid /\ ~stream'.valid /\ raw'.data = raw.data
  BY DEF Remount, IInv, TypeOK
<1>3. /\ leaked' = lock' /\ mounted' \in BOOLEAN /\ (UNCHANGED faults \/ Fault)
      /\ disk' \in {disk, Without(disk, Unwritten)} /\ UNCHANGED <<full, blocks, saved>>
  BY DEF Remount
<1> QED BY <1>1, <1>2, <1>3, HandlesLost

LEMMA ResetStep ==
  ASSUME IInv, Reset PROVE IInv'
<1>1. lock' \in Table BY NoLockFits DEF Reset
<1>2. /\ raw' \in [file : Logs \cup {NoFile}, valid : BOOLEAN, err : BOOLEAN, data : Seq(Blocks)]
      /\ stream' \in [file : Files \cup {NoFile}, valid : BOOLEAN, data : Seq(Blocks)]
      /\ ~raw'.valid /\ ~stream'.valid /\ raw'.data = <<>>
  BY DEF Reset, NoLog, NoRead
<1>3. /\ leaked' = lock' /\ mounted' \in BOOLEAN /\ Fault
      /\ disk' \in {disk, Without(disk, Unwritten)} /\ UNCHANGED <<full, blocks, saved>>
  BY DEF Reset
<1> QED BY <1>1, <1>2, <1>3, HandlesLost

-----------------------------------------------------------------------------

LEMMA NextIInv ==
  ASSUME IInv, [Next]_vars PROVE IInv'
<1>1. CASE \E f \in Logs : OpenRawLog(f) BY <1>1, OpenRawLogStep
<1>2. CASE WriteRawLog BY <1>2, WriteRawLogStep
<1>3. CASE CloseRawLog BY <1>3, CloseRawLogStep
<1>4. CASE SaveOffsetCalibration BY <1>4, SaveOffsetCalibrationStep
<1>5. CASE \E f \in Files : StreamOpen(f) BY <1>5, StreamOpenStep
<1>6. CASE \E f \in Files : Peek(f) BY <1>6, PeekStep
<1>7. CASE \E f \in Files : DeleteFileIfExists(f) BY <1>7, DeleteStep DEF DeleteFileIfExists
<1>8. CASE StreamClose BY <1>8, StreamCloseStep
<1>9. CASE DeleteLogFiles BY <1>9, DeleteStep DEF DeleteLogFiles
<1>10. CASE Remount BY <1>10, RemountStep
<1>11. CASE Reset BY <1>11, ResetStep
<1>12. CASE UNCHANGED vars
  BY <1>12 DEF vars, hist, IInv, TypeOK, LocksAccounted, Count, OpenFileStays, SavedStays,
               OpenIsUnsaved, AllOrderly
<1> QED BY <1>1, <1>2, <1>3, <1>4, <1>5, <1>6, <1>7, <1>8, <1>9, <1>10, <1>11, <1>12
        DEF Next, Engine, Service

LEMMA Invariant == Spec => []IInv
<1>1. Init => IInv BY InitIInv
<1>2. IInv /\ [Next]_vars => IInv' BY NextIInv
<1> QED BY <1>1, <1>2, PTL DEF Spec

\* Every variable keeps its type, and the table of open files never outgrows its size
\* (chk_lock, inc_lock, dec_lock).
THEOREM TypesOK == Spec => []TypeOK
<1>1. IInv => TypeOK BY DEF IInv
<1> QED BY <1>1, Invariant, PTL

\* The table holds the open handles and what failed closes have left, nothing else.
THEOREM LocksAreAccounted == Spec => []LocksAccounted
<1>1. IInv => LocksAccounted BY DEF IInv
<1> QED BY <1>1, Invariant, PTL

\* No call of the layer takes or changes a file that is open.
THEOREM OpenFilesStay == Spec => []OpenFileStays
<1>1. IInv => OpenFileStays BY DEF IInv
<1> QED BY <1>1, Invariant, PTL

\* What was closed without an error survives failures, mounting and resets.
THEOREM SavedFilesStay == Spec => []SavedStays
<1>1. IInv => SavedStays BY DEF IInv
<1> QED BY <1>1, Invariant, PTL

\* No failure reorders or repeats the blocks of a log.
THEOREM LogsInOrder == Spec => []LogInOrder
<1>1. IInv => LogInOrder BY DEF IInv, AllOrderly, Orderly, LogInOrder
<1> QED BY <1>1, Invariant, PTL
=============================================================================

------------------------- MODULE TransferJobsProofs -------------------------
(* Proofs about TransferJobs: types, and what a manifest that has arrived  *)
(* says of the destination.                                                *)
EXTENDS TransferJobs, TLAPS

-----------------------------------------------------------------------------
(* The steps of one transfer.                                              *)

Step(t) == StartTransfer(t) \/ Build(t) \/ Attempt(t)

\* Nothing of transfer u changes.
Same(u) ==
  /\ tpc'[u] = tpc[u] /\ trow'[u] = trow[u] /\ left'[u] = left[u] /\ hand'[u] = hand[u]
  /\ listed'[u] = listed[u] /\ hashed'[u] = hashed[u] /\ manifest'[u] = manifest[u]

LEMMA SizesType ==
  /\ Absent \in Sizes /\ Gone \in Sizes /\ 0..MaxBlocks \subseteq Sizes /\ Sizes \subseteq Int
  /\ Sizes \cap Transfers = {} /\ None \notin Files /\ \A f \in Files : Idle.file # f
BY TransferJobsAssumption DEF Sizes, Absent, Gone, Idle

LEMMA StartOther ==
  ASSUME TypeOK, NEW t \in Transfers, StartTransfer(t), NEW u \in Transfers, u # t
  PROVE  Same(u)
BY DEF StartTransfer, Moves, TypeOK, Same, source

LEMMA BuildOther ==
  ASSUME TypeOK, NEW t \in Transfers, Build(t), NEW u \in Transfers, u # t
  PROVE  Same(u)
<1>. USE DEF Moves, TypeOK, Same, source, rows
<1>1. CASE Walk(t)  BY <1>1 DEF Walk
<1>2. CASE \E f \in Files : StatFile(t, f)  BY <1>2 DEF StatFile
<1>3. CASE HashFile(t)  BY <1>3 DEF HashFile
<1>4. CASE EndList(t) \/ WriteManifest(t)  BY <1>4 DEF EndList, WriteManifest
<1>5. CASE FailBuild(t)  BY <1>5 DEF FailBuild
<1>. QED  BY <1>1, <1>2, <1>3, <1>4, <1>5 DEF Build

LEMMA AttemptOther ==
  ASSUME TypeOK, NEW t \in Transfers, Attempt(t), NEW u \in Transfers, u # t
  PROVE  Same(u)
<1>. USE DEF Moves, TypeOK, Same, source, rows
<1>1. CASE BeginAttempt(t)  BY <1>1 DEF BeginAttempt
<1>2. CASE \E f \in Files : BeginCopy(t, f)  BY <1>2 DEF BeginCopy
<1>3. CASE EndCopy(t)
  <2>1. UNCHANGED <<listed, hashed, trow, tpc, manifest>>  BY <1>3 DEF EndCopy
  <2>2. left'[u] = left[u] /\ hand'[u] = hand[u]  BY <1>3 DEF EndCopy
  <2>. QED  BY <2>1, <2>2
<1>4. CASE BeginManifest(t) \/ EndManifest(t)  BY <1>4 DEF BeginManifest, EndManifest
<1>5. CASE RecordComplete(t) \/ RecordFailed(t)  BY <1>5 DEF RecordComplete, RecordFailed
<1>6. CASE FailAttempt(t)  BY <1>6 DEF FailAttempt
<1>. QED  BY <1>1, <1>2, <1>3, <1>4, <1>5, <1>6 DEF Attempt

LEMMA Other ==
  ASSUME TypeOK, NEW t \in Transfers, Step(t), NEW u \in Transfers, u # t
  PROVE  Same(u)
BY StartOther, BuildOther, AttemptOther DEF Step

-----------------------------------------------------------------------------
(* Where a transfer is, and what it holds there.                           *)

Copies == {"copy", "manifest", "record"}

Place(t) ==
  /\ tpc[t] \in Building \union {"none"} => manifest[t] = "none"
  /\ tpc[t] \in Building \union Attempting \union {"none", "fail"} => trow[t] # "complete"
  /\ trow[t] = "complete" \/ tpc[t] = "record" => manifest[t] = "whole"
  /\ tpc[t] \in Copies => left[t] \subseteq Listed(t)
  /\ tpc[t] \in {"manifest", "record"} => left[t] = {}
  /\ hand[t] # Idle =>
       /\ tpc[t] \in Listing \union {"copy"}
       /\ hand[t].file \in left[t] /\ hand[t].file \in Files

PlaceInv == \A t \in Transfers : Place(t)

LEMMA PlaceInit == Init => PlaceInv
BY DEF Init, PlaceInv, Place, Building, Attempting, Copies, Listing

LEMMA PlaceBuild ==
  ASSUME TypeOK, PlaceInv, NEW t \in Transfers, StartTransfer(t) \/ Build(t)
  PROVE  Place(t)'
<1>0. Place(t)  BY DEF PlaceInv
<1>. USE DEF Place, Moves, TypeOK, Building, Attempting, Copies, Listing, source, rows
<1>1. CASE StartTransfer(t)  BY <1>0, <1>1 DEF StartTransfer
<1>2. CASE Walk(t)  BY <1>0, <1>2 DEF Walk
<1>3. ASSUME NEW f \in Files, StatFile(t, f) PROVE Place(t)'
  <2>1. CASE disk[f] >= 0
    <3>1. hand' = [hand EXCEPT ![t] = [file |-> f, size |-> disk[f]]]
      BY <1>3, <2>1 DEF StatFile
    <3>2. hand'[t] = [file |-> f, size |-> disk[f]]  BY <3>1
    <3>3. /\ UNCHANGED <<hashed, trow, tpc, left, manifest>> /\ tpc[t] \in Listing
          /\ f \in left[t] /\ f \in Files
      BY <1>3, <2>1 DEF StatFile
    <3>4. hand'[t].file = f  BY ONLY <3>2
    <3>. QED  BY <1>0, <3>3, <3>4
  <2>2. CASE ~(disk[f] >= 0)
    <3>1. /\ UNCHANGED <<hashed, trow, tpc, hand, manifest>> /\ tpc[t] \in Listing
          /\ hand[t] = Idle
      BY <1>3, <2>2 DEF StatFile
    <3>. QED  BY <1>0, <3>1
  <2>. QED  BY <2>1, <2>2
<1>4. CASE HashFile(t)  BY <1>0, <1>4 DEF HashFile
<1>5. CASE EndList(t) \/ WriteManifest(t)  BY <1>0, <1>5 DEF EndList, WriteManifest
<1>6. CASE FailBuild(t)  BY <1>0, <1>6 DEF FailBuild
<1>. QED  BY <1>1, <1>2, <1>3, <1>4, <1>5, <1>6 DEF Build

LEMMA PlaceAttempt ==
  ASSUME TypeOK, PlaceInv, NEW t \in Transfers, Attempt(t)
  PROVE  Place(t)'
<1>0. Place(t) /\ Listed(t)' = Listed(t)
  BY DEF PlaceInv, Attempt, BeginAttempt, BeginCopy, EndCopy, BeginManifest, EndManifest,
     RecordComplete, RecordFailed, FailAttempt, source, Listed
<1>. USE DEF Place, Moves, TypeOK, Building, Attempting, Copies, Listing, source, rows
<1>1. CASE BeginAttempt(t)  BY <1>0, <1>1 DEF BeginAttempt
<1>2. ASSUME NEW f \in Files, BeginCopy(t, f) PROVE Place(t)'
  BY <1>0, <1>2 DEF BeginCopy
<1>3. CASE EndCopy(t)
  <2>1. /\ tpc[t] = "copy" /\ UNCHANGED <<trow, tpc, manifest>>
        /\ left'[t] = left[t] \ {hand[t].file} /\ hand'[t] = Idle
    BY <1>3 DEF EndCopy
  <2>. QED  BY <1>0, <2>1
<1>4. CASE BeginManifest(t) \/ EndManifest(t)
  BY <1>0, <1>4 DEF BeginManifest, EndManifest
<1>5. CASE RecordComplete(t)  BY <1>0, <1>5 DEF RecordComplete
<1>6. CASE FailAttempt(t)  BY <1>0, <1>6 DEF FailAttempt
<1>7. CASE RecordFailed(t)
  <2>1. trow'[t] \in {trow[t], "failed"} /\ tpc[t] = "fail" /\ tpc'[t] = "over"
        /\ UNCHANGED <<left, hand, manifest>>
    BY <1>7 DEF RecordFailed
  <2>. QED  BY <1>0, <2>1
<1>. QED  BY <1>1, <1>2, <1>3, <1>4, <1>5, <1>6, <1>7 DEF Attempt

LEMMA PlaceNext == TypeOK /\ PlaceInv /\ [Next]_vars => PlaceInv'
<1>. SUFFICES ASSUME TypeOK, PlaceInv, [Next]_vars PROVE PlaceInv'  OBVIOUS
<1>1. ASSUME NEW t \in Transfers, Step(t) PROVE PlaceInv'
  <2>1. Place(t)'  BY <1>1, PlaceBuild, PlaceAttempt DEF Step
  <2>2. ASSUME NEW u \in Transfers, u # t PROVE Place(u)'
    <3>1. Place(u) /\ Same(u)  BY <1>1, <2>2, Other DEF PlaceInv
    <3>. QED  BY <3>1 DEF Place, Same, Listed
  <2>. QED  BY <2>1, <2>2 DEF PlaceInv
<1>2. ASSUME UNCHANGED <<trow, tpc, hashed, left, hand, manifest>> PROVE PlaceInv'
  BY <1>2 DEF PlaceInv, Place, Listed
<1>3. CASE Restart
  <2>1. ASSUME NEW t \in Transfers PROVE Place(t)'
    <3>1. /\ tpc'[t] \in {"none", "over", "gone"} /\ (tpc'[t] = "none" => tpc[t] = "none")
          /\ hand'[t] = Idle /\ UNCHANGED <<trow, manifest>>
      BY <1>3 DEF Restart, rows
    <3>. QED  BY <3>1 DEF PlaceInv, Place, Building, Attempting, Copies
  <2>. QED  BY <2>1 DEF PlaceInv
<1>. QED  BY <1>1, <1>2, <1>3 DEF Next, Step, GrowFile, RemoveRaw, rows, vars, source

-----------------------------------------------------------------------------
(* Types.                                                                  *)

LEMMA TypeInit == Init => TypeOK
BY SizesType, TransferJobsAssumption DEF Init, TypeOK, Nothing, Idle

Places == Building \union Attempting \union {"none", "fail", "over", "gone"}

LEMMA PlaceType ==
  ASSUME TypeOK, NEW t \in Transfers, NEW p \in Places, tpc' = [tpc EXCEPT ![t] = p]
  PROVE  tpc' \in [Transfers -> Places]
BY DEF TypeOK, Places

LEMMA MovesType ==
  ASSUME TypeOK, NEW t \in Transfers, NEW p, NEW q \in Places, Moves(t, p, q)
  PROVE  tpc' \in [Transfers -> Places]
BY PlaceType DEF Moves

LEMMA LeftType ==
  ASSUME TypeOK, NEW t \in Transfers, NEW S \in SUBSET Files,
         left' = [left EXCEPT ![t] = S]
  PROVE  left' \in [Transfers -> SUBSET Files]
BY DEF TypeOK

\* What has been read of a file is a length.
LEMMA ReadsType ==
  ASSUME TypeOK, NEW t \in Transfers, NEW n \in Reads(t)
  PROVE  /\ n \in 0..MaxBlocks /\ n \in Sizes /\ n \in Int /\ hand[t].size <= n
         /\ hand[t].size \in Int
<1>1. hand[t].size \in 0..MaxBlocks /\ MaxBlocks \in Nat
  BY TransferJobsAssumption DEF TypeOK
<1>2. n \in hand[t].size..MaxBlocks  BY DEF Reads
<1>3. n \in 0..MaxBlocks /\ hand[t].size <= n /\ hand[t].size \in Int
  BY ONLY <1>1, <1>2
<1>. QED  BY <1>3, SizesType

LEMMA FileType ==
  ASSUME TypeOK, NEW f \in Files, GrowFile(f) \/ RemoveRaw(f)
  PROVE  TypeOK'
<1>1. PICK s \in Sizes : disk' = [disk EXCEPT ![f] = s]
  BY SizesType DEF GrowFile, RemoveRaw
<1>2. UNCHANGED <<listed, hashed, rows, tpc, left, hand, dest, manifest>>
  BY DEF GrowFile, RemoveRaw
<1>. QED  BY <1>1, <1>2 DEF TypeOK, rows

\* The file that is taken in hand, and its length.
LEMMA HandType ==
  ASSUME TypeOK, NEW t \in Transfers, NEW f \in Files, disk[f] >= 0
  PROVE  /\ disk[f] \in 0..MaxBlocks
         /\ [hand EXCEPT ![t] = [file |-> f, size |-> disk[f]]]
              \in [Transfers -> [file : Files \union {None}, size : 0..MaxBlocks]]
<1>1. disk[f] \in 0..MaxBlocks
  <2>1. disk[f] \in Sizes  BY DEF TypeOK
  <2>. QED  BY ONLY <2>1, disk[f] >= 0 DEF Sizes, Absent, Gone
<1>. QED  BY <1>1 DEF TypeOK

LEMMA IdleType ==
  ASSUME TypeOK, NEW t \in Transfers
  PROVE  [hand EXCEPT ![t] = Idle]
           \in [Transfers -> [file : Files \union {None}, size : 0..MaxBlocks]]
BY TransferJobsAssumption DEF TypeOK, Idle

LEMMA BuildType ==
  ASSUME TypeOK, PlaceInv, NEW t \in Transfers, StartTransfer(t) \/ Build(t)
  PROVE  TypeOK'
<1>0. /\ "captures" \in Places /\ "list captures" \in Places /\ "metadata" \in Places
      /\ "list metadata" \in Places /\ "write" \in Places /\ "attempt" \in Places
      /\ "fail" \in Places
  BY DEF Places, Building, Attempting
<1>. USE DEF source, rows
<1>1. CASE StartTransfer(t)
  <2>1. tpc' \in [Transfers -> Places]  BY <1>0, <1>1, MovesType DEF StartTransfer
  <2>. QED  BY <1>1, <2>1 DEF StartTransfer, TypeOK, Places
<1>2. CASE Walk(t)
  <2>1. tpc' \in [Transfers -> Places]  BY <1>0, <1>2, MovesType DEF Walk
  <2>2. left' \in [Transfers -> SUBSET Files]
    <3>1. {f \in Files \ Metadata : disk[f] >= 0} \in SUBSET Files  OBVIOUS
    <3>2. {f \in Metadata : disk[f] >= 0} \in SUBSET Files  BY TransferJobsAssumption
    <3>. QED  BY <1>2, <3>1, <3>2, LeftType DEF Walk
  <2>. QED  BY <1>2, <2>1, <2>2 DEF Walk, TypeOK, Places
<1>3. ASSUME NEW f \in Files, StatFile(t, f) PROVE TypeOK'
  <2>1. CASE disk[f] >= 0
    <3>1. hand' \in [Transfers -> [file : Files \union {None}, size : 0..MaxBlocks]]
      BY <1>3, <2>1, HandType DEF StatFile
    <3>. QED  BY <1>3, <2>1, <3>1 DEF StatFile, TypeOK
  <2>2. CASE ~(disk[f] >= 0)
    <3>1. left[t] \ {f} \in SUBSET Files  BY DEF TypeOK
    <3>2. left' \in [Transfers -> SUBSET Files]  BY <1>3, <2>2, <3>1, LeftType DEF StatFile
    <3>. QED  BY <1>3, <2>2, <3>2 DEF StatFile, TypeOK
  <2>. QED  BY <2>1, <2>2
<1>4. CASE HashFile(t)
  <2>0. hand[t].file \in Files  BY <1>4 DEF HashFile, PlaceInv, Place
  <2>1. PICK n \in Reads(t) : hashed' = [hashed EXCEPT ![t][hand[t].file] = n]
    BY <1>4 DEF HashFile
  <2>2. n \in Sizes  BY ReadsType
  <2>3. hand[t].size \in Sizes  BY SizesType DEF TypeOK
  <2>4. hashed' \in [Transfers -> [Files -> Sizes]]  BY <2>0, <2>1, <2>2 DEF TypeOK
  <2>5. listed' \in [Transfers -> [Files -> Sizes]]
    BY <1>4, <2>0, <2>3 DEF HashFile, TypeOK
  <2>6. hand' \in [Transfers -> [file : Files \union {None}, size : 0..MaxBlocks]]
    BY <1>4, IdleType DEF HashFile
  <2>7. left' \in [Transfers -> SUBSET Files]
    <3>1. left[t] \ {hand[t].file} \in SUBSET Files  BY DEF TypeOK
    <3>. QED  BY <1>4, <3>1, LeftType DEF HashFile
  <2>. QED  BY <1>4, <2>4, <2>5, <2>6, <2>7 DEF HashFile, TypeOK
<1>5. CASE EndList(t) \/ WriteManifest(t)
  <2>1. tpc' \in [Transfers -> Places]
    BY <1>0, <1>5, MovesType DEF EndList, WriteManifest
  <2>. QED  BY <1>5, <2>1 DEF EndList, WriteManifest, TypeOK, Places
<1>6. CASE FailBuild(t)
  <2>1. tpc' \in [Transfers -> Places]  BY <1>0, <1>6, PlaceType DEF FailBuild
  <2>2. hand' \in [Transfers -> [file : Files \union {None}, size : 0..MaxBlocks]]
    BY <1>6, IdleType DEF FailBuild
  <2>3. left' \in [Transfers -> SUBSET Files]  BY <1>6, LeftType DEF FailBuild
  <2>. QED  BY <1>6, <2>1, <2>2, <2>3 DEF FailBuild, TypeOK, Places
<1>. QED  BY <1>1, <1>2, <1>3, <1>4, <1>5, <1>6 DEF Build

\* What the end of a copy leaves at the destination.
Merge(t, old, n) ==
  IF old = t THEN n
  ELSE IF old \in Transfers THEN old
  ELSE IF n > old THEN n ELSE old

LEMMA EndCopyDef ==
  ASSUME TypeOK, NEW t \in Transfers, EndCopy(t)
  PROVE  \E n \in Reads(t) :
           dest' = [dest EXCEPT ![hand[t].file] = Merge(t, dest[hand[t].file], n)]
<1>. DEFINE f == hand[t].file
<1>1. PICK n \in Reads(t) :
        dest' = [dest EXCEPT ![f] = CASE dest[f] = t -> n
                                      [] dest[f] \in Transfers \ {t} -> dest[f]
                                      [] OTHER -> IF n > dest[f] THEN n ELSE dest[f]]
  BY DEF EndCopy
<1>2. (CASE dest[f] = t -> n
        [] dest[f] \in Transfers \ {t} -> dest[f]
        [] OTHER -> IF n > dest[f] THEN n ELSE dest[f]) = Merge(t, dest[f], n)
  BY DEF Merge
<1>. QED  BY <1>1, <1>2

LEMMA AttemptType ==
  ASSUME TypeOK, PlaceInv, NEW t \in Transfers, Attempt(t)
  PROVE  TypeOK'
<1>0. /\ "attempt" \in Places /\ "copy" \in Places /\ "manifest" \in Places
      /\ "record" \in Places /\ "over" \in Places /\ "fail" \in Places
  BY DEF Places, Attempting
<1>. USE DEF source, rows
<1>1. CASE BeginAttempt(t)
  <2>1. tpc' \in [Transfers -> Places]  BY <1>0, <1>1, MovesType DEF BeginAttempt
  <2>2. left' \in [Transfers -> SUBSET Files]
    <3>1. Listed(t) \in SUBSET Files  BY DEF Listed
    <3>. QED  BY <1>1, <3>1, LeftType DEF BeginAttempt
  <2>3. trow' \in [Transfers -> {"none", "running", "retrying", "complete", "failed"}]
    BY <1>1 DEF BeginAttempt, TypeOK
  <2>. QED  BY <1>1, <2>1, <2>2, <2>3 DEF BeginAttempt, TypeOK, Places
<1>2. ASSUME NEW f \in Files, BeginCopy(t, f) PROVE TypeOK'
  <2>1. hand' \in [Transfers -> [file : Files \union {None}, size : 0..MaxBlocks]]
    BY <1>2, HandType DEF BeginCopy
  <2>2. dest' \in [Files -> Sizes \union Transfers]  BY <1>2 DEF BeginCopy, TypeOK
  <2>. QED  BY <1>2, <2>1, <2>2 DEF BeginCopy, TypeOK
<1>3. CASE EndCopy(t)
  <2>0. hand[t].file \in Files  BY <1>3 DEF EndCopy, PlaceInv, Place
  <2>1. PICK n \in Reads(t) :
          dest' = [dest EXCEPT ![hand[t].file] = Merge(t, dest[hand[t].file], n)]
    BY <1>3, EndCopyDef
  <2>2. Merge(t, dest[hand[t].file], n) \in Sizes \union Transfers
    BY <2>0, ReadsType DEF Merge, TypeOK
  <2>3. dest' \in [Files -> Sizes \union Transfers]  BY <2>0, <2>1, <2>2 DEF TypeOK
  <2>4. hand' \in [Transfers -> [file : Files \union {None}, size : 0..MaxBlocks]]
    BY <1>3, IdleType DEF EndCopy
  <2>5. left' \in [Transfers -> SUBSET Files]
    <3>1. left[t] \ {hand[t].file} \in SUBSET Files  BY DEF TypeOK
    <3>. QED  BY <1>3, <3>1, LeftType DEF EndCopy
  <2>6. UNCHANGED <<disk, listed, hashed, trow, attempt, tpc, manifest>>  BY <1>3 DEF EndCopy
  <2>. QED  BY <2>3, <2>4, <2>5, <2>6 DEF TypeOK
<1>4. CASE BeginManifest(t) \/ EndManifest(t)
  <2>1. tpc' \in [Transfers -> Places]
    BY <1>0, <1>4, MovesType DEF BeginManifest, EndManifest
  <2>2. manifest' \in [Transfers -> {"none", "partial", "whole"}]
    BY <1>4 DEF BeginManifest, EndManifest, TypeOK
  <2>. QED  BY <1>4, <2>1, <2>2 DEF BeginManifest, EndManifest, TypeOK, Places
<1>5. CASE RecordComplete(t) \/ RecordFailed(t)
  <2>1. tpc' \in [Transfers -> Places]
    BY <1>0, <1>5, MovesType DEF RecordComplete, RecordFailed
  <2>2. trow' \in [Transfers -> {"none", "running", "retrying", "complete", "failed"}]
    BY <1>5 DEF RecordComplete, RecordFailed, TypeOK
  <2>. QED  BY <1>5, <2>1, <2>2 DEF RecordComplete, RecordFailed, TypeOK, Places
<1>6. CASE FailAttempt(t)
  <2>1. hand' \in [Transfers -> [file : Files \union {None}, size : 0..MaxBlocks]]
    BY <1>6, IdleType DEF FailAttempt
  <2>2. attempt' \in [Transfers -> 1..RetryLimit]
    <3>1. CASE UNCHANGED attempt  BY <3>1 DEF TypeOK
    <3>2. CASE attempt[t] # RetryLimit /\ attempt' = [attempt EXCEPT ![t] = attempt[t] + 1]
      <4>0. attempt[t] \in 1..RetryLimit /\ RetryLimit \in Nat  BY TransferJobsAssumption DEF TypeOK
      <4>1. attempt[t] + 1 \in 1..RetryLimit  BY ONLY <3>2, <4>0
      <4>. QED  BY <3>2, <4>1 DEF TypeOK
    <3>. QED  BY <1>6, <3>1, <3>2 DEF FailAttempt
  <2>3. tpc' \in [Transfers -> Places]  BY <1>0, <1>6, PlaceType DEF FailAttempt
  <2>4. left' \in [Transfers -> SUBSET Files]
    <3>1. left' = [left EXCEPT ![t] = {}]  BY <1>6 DEF FailAttempt
    <3>. QED  BY <3>1, LeftType
  <2>. QED  BY <1>6, <2>1, <2>2, <2>3, <2>4 DEF FailAttempt, TypeOK, Places
<1>. QED  BY <1>1, <1>2, <1>3, <1>4, <1>5, <1>6 DEF Attempt

LEMMA RestartType == TypeOK /\ Restart => TypeOK'
<1>. SUFFICES ASSUME TypeOK, Restart PROVE TypeOK'  OBVIOUS
<1>1. hand' \in [Transfers -> [file : Files \union {None}, size : 0..MaxBlocks]]
  BY TransferJobsAssumption DEF Restart, Idle
<1>2. tpc' \in [Transfers -> Places]
  BY DEF Restart, TypeOK, Places
<1>3. left' \in [Transfers -> SUBSET Files]  BY DEF Restart
<1>. QED  BY <1>1, <1>2, <1>3 DEF TypeOK, Places, Restart, source, rows

LEMMA TypeNext == TypeOK /\ PlaceInv /\ [Next]_vars => TypeOK'
<1>. SUFFICES ASSUME TypeOK, PlaceInv, [Next]_vars PROVE TypeOK'  OBVIOUS
<1>1. ASSUME NEW t \in Transfers, Step(t) PROVE TypeOK'
  BY <1>1, BuildType, AttemptType DEF Step
<1>2. ASSUME NEW f \in Files, GrowFile(f) \/ RemoveRaw(f) PROVE TypeOK'
  BY <1>2, FileType
<1>3. CASE UNCHANGED vars  BY <1>3 DEF vars, source, rows, TypeOK
<1>. QED  BY <1>1, <1>2, <1>3, RestartType DEF Next, Step

\* Every variable keeps to its type: a transfer makes RetryLimit attempts at most, and
\* at the destination are sizes and transfers that exist.
THEOREM TypeCorrect == Spec => []TypeOK
BY TypeInit, TypeNext, PlaceInit, PlaceNext, PTL DEF Spec

-----------------------------------------------------------------------------
(* Sources only grow.                                                      *)

\* Sources only grow until they vanish: nothing that was read from one is longer
\* than it is now.
NoLonger(f, size) == disk[f] = Gone \/ size <= disk[f]

Sources(f) ==
  /\ \A t \in Transfers : /\ NoLonger(f, hashed[t][f])
                          /\ hand[t].file = f => NoLonger(f, hand[t].size)
  /\ dest[f] \notin Transfers => NoLonger(f, dest[f])

SourceInv == \A f \in Files : Sources(f)

LEMMA Numbers ==
  ASSUME TypeOK, NEW f \in Files, NEW t \in Transfers
  PROVE  /\ disk[f] \in Int /\ listed[t][f] \in Int /\ hashed[t][f] \in Int
         /\ hand[t].size \in Int /\ hand[t].size >= 0
         /\ (dest[f] \notin Transfers => dest[f] \in Int)
<1>1. /\ disk[f] \in Sizes /\ listed[t][f] \in Sizes /\ hashed[t][f] \in Sizes
      /\ hand[t].size \in 0..MaxBlocks /\ dest[f] \in Sizes \union Transfers
  BY DEF TypeOK
<1>2. \A n \in Sizes : n \in Int  BY SizesType
<1>3. hand[t].size \in Int /\ hand[t].size >= 0  BY <1>1, TransferJobsAssumption
<1>. QED  BY <1>1, <1>2, <1>3

LEMMA SourceInit == Init => SourceInv
<1>. SUFFICES ASSUME Init, NEW f \in Files PROVE Sources(f)  BY DEF SourceInv
<1>1. disk[f] = -1 /\ dest[f] = -1  BY DEF Init, Nothing, Absent
<1>2. ASSUME NEW t \in Transfers PROVE hashed[t][f] = -1 /\ hand[t].file # f
  BY SizesType DEF Init, Nothing, Absent
<1>. QED  BY <1>1, <1>2 DEF Sources, NoLonger

LEMMA SourceFile ==
  ASSUME TypeOK, SourceInv, NEW g \in Files, GrowFile(g) \/ RemoveRaw(g)
  PROVE  SourceInv'
<1>1. UNCHANGED <<hashed, hand, dest>>  BY DEF GrowFile, RemoveRaw
<1>2. ASSUME NEW f \in Files
      PROVE  \/ disk'[f] \in {disk[f], Gone}
             \/ disk[f] # Gone /\ disk[f] < disk'[f] /\ disk'[f] \in Int
  BY TransferJobsAssumption DEF GrowFile, RemoveRaw, TypeOK
<1>3. ASSUME NEW f \in Files, NEW n \in Int, NoLonger(f, n) PROVE NoLonger(f, n)'
  <2>1. disk[f] \in Int  BY SizesType DEF TypeOK
  <2>. QED  BY <1>2, <1>3, <2>1 DEF NoLonger
<1>4. ASSUME NEW f \in Files PROVE Sources(f)'
  <2>1. Sources(f)  BY DEF SourceInv
  <2>2. ASSUME NEW t \in Transfers
        PROVE  /\ NoLonger(f, hashed[t][f])'
               /\ hand'[t].file = f => NoLonger(f, hand[t].size)'
    BY <1>1, <1>3, <2>1, Numbers DEF Sources
  <2>3. ASSUME dest'[f] \notin Transfers PROVE NoLonger(f, dest[f])'
    <3>1. dest[f] \in Int
      <4>1. dest[f] \in Sizes \union Transfers  BY DEF TypeOK
      <4>. QED  BY <1>1, <2>3, <4>1, SizesType
    <3>. QED  BY <1>1, <1>3, <2>1, <2>3, <3>1 DEF Sources
  <2>. QED  BY <2>2, <2>3 DEF Sources
<1>. QED  BY <1>4 DEF SourceInv

\* Steps that do not touch the sources: what they take in hand or write down is no
\* longer than the source.
LEMMA SourceKeep ==
  ASSUME TypeOK, SourceInv, disk' = disk,
         \A u \in Transfers : \A f \in Files :
           /\ hashed'[u][f] = hashed[u][f] \/ NoLonger(f, hashed'[u][f])
           /\ hand'[u].file = f => hand'[u] = hand[u] \/ NoLonger(f, hand'[u].size),
         \A f \in Files : dest'[f] = dest[f] \/ dest'[f] \in Transfers
                          \/ NoLonger(f, dest'[f])
  PROVE  SourceInv'
<1>1. ASSUME NEW f \in Files PROVE Sources(f)'
  <2>1. Sources(f)  BY DEF SourceInv
  <2>2. \A n : (disk'[f] = Gone \/ n <= disk'[f]) <=> NoLonger(f, n)  BY DEF NoLonger
  <2>3. ASSUME NEW t \in Transfers
        PROVE  /\ NoLonger(f, hashed'[t][f])
               /\ hand'[t].file = f => NoLonger(f, hand'[t].size)
    BY <2>1 DEF Sources
  <2>4. dest'[f] \notin Transfers => NoLonger(f, dest'[f])  BY <2>1 DEF Sources
  <2>. QED  BY <2>2, <2>3, <2>4 DEF Sources, NoLonger
<1>. QED  BY <1>1 DEF SourceInv

LEMMA ItsLength == ASSUME TypeOK, NEW f \in Files PROVE NoLonger(f, disk[f])
<1>1. disk[f] \in Int  BY SizesType DEF TypeOK
<1>. QED  BY <1>1 DEF NoLonger

LEMMA SourceBuild ==
  ASSUME TypeOK, PlaceInv, SourceInv, NEW t \in Transfers, StartTransfer(t) \/ Build(t)
  PROVE  SourceInv'
<1>. USE DEF source
<1>1. CASE StartTransfer(t) \/ Walk(t) \/ EndList(t) \/ WriteManifest(t)
  BY <1>1, SourceKeep DEF StartTransfer, Walk, EndList, WriteManifest
<1>2. ASSUME NEW f \in Files, StatFile(t, f) PROVE SourceInv'
  <2>1. disk' = disk /\ hashed' = hashed /\ dest' = dest  BY <1>2 DEF StatFile
  <2>2. ASSUME NEW u \in Transfers, NEW g \in Files, hand'[u].file = g
        PROVE  hand'[u] = hand[u] \/ NoLonger(g, hand'[u].size)
    <3>1. hand'[u] = hand[u] \/ hand'[u] = [file |-> f, size |-> disk[f]]
      BY <1>2 DEF StatFile, TypeOK
    <3>. QED  BY <2>2, <3>1, ItsLength
  <2>. QED  BY <2>1, <2>2, SourceKeep
<1>3. CASE HashFile(t)
  <2>0. hand[t].file \in Files  BY <1>3 DEF HashFile, PlaceInv, Place
  <2>1. PICK n \in Reads(t) : hashed' = [hashed EXCEPT ![t][hand[t].file] = n]
    BY <1>3 DEF HashFile
  <2>2. NoLonger(hand[t].file, n)  BY DEF Reads, NoLonger
  <2>3. ASSUME NEW u \in Transfers, NEW f \in Files
        PROVE  /\ hashed'[u][f] = hashed[u][f] \/ NoLonger(f, hashed'[u][f])
               /\ hand'[u].file = f => hand'[u] = hand[u] \/ NoLonger(f, hand'[u].size)
    <3>1. hashed'[u][f] = hashed[u][f] \/ (f = hand[t].file /\ hashed'[u][f] = n)
      BY <2>1 DEF TypeOK
    <3>2. hand'[u] = hand[u] \/ hand'[u] = Idle  BY <1>3 DEF HashFile, TypeOK
    <3>. QED  BY <2>2, <3>1, <3>2, SizesType
  <2>4. disk' = disk /\ dest' = dest  BY <1>3 DEF HashFile
  <2>. QED  BY <2>3, <2>4, SourceKeep
<1>4. CASE FailBuild(t)
  <2>1. disk' = disk /\ hashed' = hashed /\ dest' = dest  BY <1>4 DEF FailBuild
  <2>2. \A u \in Transfers : hand'[u] = hand[u] \/ hand'[u] = Idle
    BY <1>4 DEF FailBuild, TypeOK
  <2>. QED  BY <2>1, <2>2, SizesType, SourceKeep
<1>. QED  BY <1>1, <1>2, <1>3, <1>4 DEF Build

LEMMA SourceAttempt ==
  ASSUME TypeOK, PlaceInv, SourceInv, NEW t \in Transfers, Attempt(t)
  PROVE  SourceInv'
<1>. USE DEF source
<1>1. CASE BeginAttempt(t) \/ BeginManifest(t) \/ EndManifest(t) \/ RecordComplete(t)
           \/ RecordFailed(t)
  BY <1>1, SourceKeep DEF BeginAttempt, BeginManifest, EndManifest, RecordComplete, RecordFailed
<1>2. CASE FailAttempt(t)
  <2>1. disk' = disk /\ hashed' = hashed /\ dest' = dest  BY <1>2 DEF FailAttempt
  <2>2. \A u \in Transfers : hand'[u] = hand[u] \/ hand'[u] = Idle
    BY <1>2 DEF FailAttempt, TypeOK
  <2>. QED  BY <2>1, <2>2, SizesType, SourceKeep
<1>3. ASSUME NEW f \in Files, BeginCopy(t, f) PROVE SourceInv'
  <2>1. /\ disk' = disk /\ hashed' = hashed
        /\ \A g \in Files : dest'[g] = dest[g] \/ dest'[g] \in Transfers
    BY <1>3 DEF BeginCopy, TypeOK
  <2>2. ASSUME NEW u \in Transfers, NEW g \in Files, hand'[u].file = g
        PROVE  hand'[u] = hand[u] \/ NoLonger(g, hand'[u].size)
    <3>1. hand'[u] = hand[u] \/ hand'[u] = [file |-> f, size |-> disk[f]]
      BY <1>3 DEF BeginCopy, TypeOK
    <3>. QED  BY <2>2, <3>1, ItsLength
  <2>. QED  BY <2>1, <2>2, SourceKeep
<1>4. CASE EndCopy(t)
  <2>0. PICK f \in Files : f = hand[t].file  BY <1>4 DEF EndCopy, PlaceInv, Place
  <2>1. PICK n \in Reads(t) : dest' = [dest EXCEPT ![f] = Merge(t, dest[f], n)]
    BY <1>4, <2>0, EndCopyDef
  <2>2. NoLonger(f, n)  BY <2>0 DEF Reads, NoLonger
  <2>3. Merge(t, dest[f], n) \in Transfers \/ NoLonger(f, Merge(t, dest[f], n))
    BY <2>2 DEF Merge, SourceInv, Sources
  <2>4. \A g \in Files : dest'[g] = dest[g] \/ dest'[g] \in Transfers
                         \/ NoLonger(g, dest'[g])
    BY <2>1, <2>3 DEF TypeOK
  <2>5. \A u \in Transfers : hand'[u] = hand[u] \/ hand'[u] = Idle
    BY <1>4 DEF EndCopy, TypeOK
  <2>6. disk' = disk /\ hashed' = hashed  BY <1>4 DEF EndCopy
  <2>. QED  BY <2>4, <2>5, <2>6, SizesType, SourceKeep
<1>. QED  BY <1>1, <1>2, <1>3, <1>4 DEF Attempt

LEMMA SourceNext == TypeOK /\ PlaceInv /\ SourceInv /\ [Next]_vars => SourceInv'
<1>. SUFFICES ASSUME TypeOK, PlaceInv, SourceInv, [Next]_vars PROVE SourceInv'  OBVIOUS
<1>1. ASSUME NEW t \in Transfers, Step(t) PROVE SourceInv'
  BY <1>1, SourceBuild, SourceAttempt DEF Step
<1>2. ASSUME NEW f \in Files, GrowFile(f) \/ RemoveRaw(f) PROVE SourceInv'
  BY <1>2, SourceFile
<1>3. CASE Restart
  <2>1. disk' = disk /\ hashed' = hashed /\ dest' = dest  BY <1>3 DEF Restart, source
  <2>2. \A u \in Transfers : hand'[u] = Idle  BY <1>3 DEF Restart
  <2>. QED  BY <2>1, <2>2, SizesType, SourceKeep
<1>4. CASE UNCHANGED vars  BY <1>4, SourceKeep DEF vars, source
<1>. QED  BY <1>1, <1>2, <1>3, <1>4 DEF Next, Step

-----------------------------------------------------------------------------
(* The entries of a manifest: hashed after the size was taken.             *)

EntryInv == \A t \in Transfers, f \in Files : listed[t][f] <= hashed[t][f]

LEMMA EntryInit == Init => EntryInv
<1>. SUFFICES ASSUME Init, NEW t \in Transfers, NEW f \in Files
              PROVE  listed[t][f] <= hashed[t][f]
  BY DEF EntryInv
<1>1. listed[t][f] = -1 /\ hashed[t][f] = -1  BY DEF Init, Nothing, Absent
<1>. QED  BY ONLY <1>1

LEMMA EntryNext == TypeOK /\ PlaceInv /\ EntryInv /\ [Next]_vars => EntryInv'
<1>. SUFFICES ASSUME TypeOK, PlaceInv, EntryInv, [Next]_vars PROVE EntryInv'  OBVIOUS
<1>1. ASSUME NEW t \in Transfers, HashFile(t) PROVE EntryInv'
  <2>0. hand[t].file \in Files  BY <1>1 DEF HashFile, PlaceInv, Place
  <2>1. PICK n \in Reads(t) : hashed' = [hashed EXCEPT ![t][hand[t].file] = n]
    BY <1>1 DEF HashFile
  <2>2. listed' = [listed EXCEPT ![t][hand[t].file] = hand[t].size]  BY <1>1 DEF HashFile
  <2>3. hand[t].size <= n  BY ReadsType
  <2>4. ASSUME NEW u \in Transfers, NEW f \in Files PROVE listed'[u][f] <= hashed'[u][f]
    <3>1. CASE u = t /\ f = hand[t].file
      <4>1. listed'[u][f] = hand[t].size /\ hashed'[u][f] = n
        BY <2>1, <2>2, <3>1 DEF TypeOK
      <4>. QED  BY <2>3, <4>1
    <3>2. CASE ~(u = t /\ f = hand[t].file)
      <4>1. listed'[u][f] = listed[u][f] /\ hashed'[u][f] = hashed[u][f]
        BY <2>1, <2>2, <3>2 DEF TypeOK
      <4>. QED  BY <4>1 DEF EntryInv
    <3>. QED  BY <3>1, <3>2
  <2>. QED  BY <2>4 DEF EntryInv
<1>2. ASSUME UNCHANGED <<listed, hashed>> PROVE EntryInv'  BY <1>2 DEF EntryInv
<1>3. \/ UNCHANGED <<listed, hashed>>
      \/ \E t \in Transfers : HashFile(t)
  BY DEF Next, StartTransfer, Build, Attempt, Walk, StatFile, EndList, WriteManifest, FailBuild,
     BeginAttempt, BeginCopy, EndCopy, BeginManifest, EndManifest, RecordComplete, RecordFailed,
     FailAttempt, GrowFile, RemoveRaw, Restart, vars, source
<1>. QED  BY <1>1, <1>2, <1>3

-----------------------------------------------------------------------------
(* What is at the destination.                                             *)

Copying(t, f) == tpc[t] = "copy" /\ hand[t].file = f

\* Transfer t has copied the file f that it lists, in this attempt or, when its
\* manifest has arrived, in an earlier one; or it is copying it.
Concerns(t, f) ==
  /\ f \in Listed(t)
  /\ manifest[t] = "whole" \/ (tpc[t] \in Copies /\ f \notin left[t]) \/ Copying(t, f)

\* Then what is at the destination, or is being written there, is not older than
\* its manifest.
NotOlder(t, f) ==
  /\ dest[f] \notin Transfers => hashed[t][f] <= dest[f]
  /\ \A u \in Transfers : dest[f] = u /\ Copying(u, f) => hashed[t][f] <= hand[u].size

DestInv == \A t \in Transfers, f \in Files : Concerns(t, f) => NotOlder(t, f)

\* Transfer t has copied f in this attempt, and there was no other after it.
Finished(t, f) ==
  f \in Listed(t) /\ (trow[t] = "complete" \/ (tpc[t] \in Copies /\ f \notin left[t]))

OwnInv == \A t \in Transfers, f \in Files : Finished(t, f) => dest[f] # t

IInv == SourceInv /\ EntryInv /\ DestInv /\ OwnInv

LEMMA DestInit == Init => DestInv /\ OwnInv
BY DEF Init, DestInv, OwnInv, Concerns, Finished, Copying, Copies, Listed, Nothing, Absent

\* Steps that copy nothing: no transfer is concerned with a file, or has finished it,
\* that was not before.
LEMMA DestKeep ==
  ASSUME DestInv, OwnInv, dest' = dest,
         \A u \in Transfers : \A f \in Files :
           /\ Copying(u, f)' => Copying(u, f) /\ hand'[u] = hand[u]
           /\ Concerns(u, f)' => Concerns(u, f) /\ hashed'[u] = hashed[u]
           /\ Finished(u, f)' => Finished(u, f)
  PROVE  DestInv' /\ OwnInv'
<1>1. ASSUME NEW t \in Transfers, NEW f \in Files, Concerns(t, f)' PROVE NotOlder(t, f)'
  <2>1. NotOlder(t, f) /\ hashed'[t] = hashed[t]  BY <1>1 DEF DestInv
  <2>2. ASSUME NEW u \in Transfers, dest[f] = u, Copying(u, f)'
        PROVE  hashed[t][f] <= hand'[u].size
    BY <2>1, <2>2 DEF NotOlder
  <2>. QED  BY <2>1, <2>2 DEF NotOlder
<1>2. OwnInv'  BY DEF OwnInv
<1>. QED  BY <1>1, <1>2 DEF DestInv

\* The same for the steps of transfer t, which do not concern the others.
LEMMA StepKeep ==
  ASSUME TypeOK, DestInv, OwnInv, NEW t \in Transfers, Step(t), dest' = dest,
         \A f \in Files :
           /\ Copying(t, f)' => Copying(t, f) /\ hand'[t] = hand[t]
           /\ Concerns(t, f)' => Concerns(t, f) /\ hashed'[t] = hashed[t]
           /\ Finished(t, f)' => Finished(t, f)
  PROVE  DestInv' /\ OwnInv'
<1>1. ASSUME NEW u \in Transfers, u # t, NEW f \in Files
      PROVE  /\ Copying(u, f)' => Copying(u, f) /\ hand'[u] = hand[u]
             /\ Concerns(u, f)' => Concerns(u, f) /\ hashed'[u] = hashed[u]
             /\ Finished(u, f)' => Finished(u, f)
  <2>1. Same(u)  BY <1>1, Other
  <2>2. Copying(u, f)' <=> Copying(u, f)  BY <2>1 DEF Copying, Same
  <2>3. (f \in Listed(u))' <=> f \in Listed(u)  BY <2>1 DEF Listed, Same
  <2>. QED  BY <2>1, <2>2, <2>3 DEF Concerns, Finished, Same
<1>. QED  BY <1>1, DestKeep

LEMMA DestBuild ==
  ASSUME TypeOK, PlaceInv, DestInv, OwnInv, NEW t \in Transfers, StartTransfer(t) \/ Build(t)
  PROVE  DestInv' /\ OwnInv'
<1>1. /\ tpc'[t] \in Building \union {"attempt", "fail"} /\ dest' = dest
      /\ manifest' = manifest /\ tpc[t] \in Building \union {"none"} /\ trow'[t] # "complete"
  <2>0. Place(t)  BY DEF PlaceInv
  <2>. USE DEF Place, Moves, TypeOK, Building, Listing, rows
  <2>1. CASE StartTransfer(t)  BY <2>0, <2>1 DEF StartTransfer
  <2>2. CASE Walk(t)  BY <2>0, <2>2 DEF Walk
  <2>3. CASE \E f \in Files : StatFile(t, f)  BY <2>0, <2>3 DEF StatFile
  <2>4. CASE HashFile(t)  BY <2>0, <2>4 DEF HashFile
  <2>5. CASE EndList(t) \/ WriteManifest(t)  BY <2>0, <2>5 DEF EndList, WriteManifest
  <2>6. CASE FailBuild(t)  BY <2>0, <2>6 DEF FailBuild
  <2>. QED  BY <2>1, <2>2, <2>3, <2>4, <2>5, <2>6 DEF Build
<1>2. manifest'[t] = "none"  BY <1>1 DEF PlaceInv, Place
<1>3. ASSUME NEW f \in Files PROVE ~Copying(t, f)' /\ ~Concerns(t, f)' /\ ~Finished(t, f)'
  BY <1>1, <1>2 DEF Copying, Concerns, Finished, Copies, Building
<1>. QED  BY <1>1, <1>3, StepKeep DEF Step

\* The steps of an attempt that copy nothing.
LEMMA DestStill ==
  ASSUME TypeOK, PlaceInv, DestInv, OwnInv, NEW t \in Transfers,
         \/ BeginAttempt(t) \/ BeginManifest(t) \/ EndManifest(t)
         \/ RecordComplete(t) \/ FailAttempt(t) \/ RecordFailed(t)
  PROVE  DestInv' /\ OwnInv'
<1>0. Place(t)  BY DEF PlaceInv
<1>1. UNCHANGED <<dest, hashed, listed>> /\ Step(t)
  BY DEF BeginAttempt, BeginManifest, EndManifest, RecordComplete, FailAttempt, RecordFailed,
     source, Step, Attempt
<1>2. \A f \in Files : (f \in Listed(t))' <=> f \in Listed(t)  BY <1>1 DEF Listed
<1>. USE DEF Moves, TypeOK, rows, Copies, Attempting
<1>3. ASSUME NEW f \in Files
      PROVE  /\ Copying(t, f)' => Copying(t, f) /\ hand'[t] = hand[t]
             /\ Concerns(t, f)' => Concerns(t, f)
             /\ Finished(t, f)' => Finished(t, f)
  <2>0. Idle.file # f  BY SizesType
  <2>1. CASE BeginAttempt(t)
    <3>1. /\ left'[t] = Listed(t) /\ hand[t] = Idle /\ UNCHANGED <<hand, manifest>>
          /\ trow'[t] # "complete"
      BY <1>0, <2>1 DEF BeginAttempt, Place, Listing
    <3>. QED  BY <1>2, <2>0, <3>1 DEF Copying, Concerns, Finished
  <2>2. CASE BeginManifest(t)
    <3>1. /\ tpc[t] = "copy" /\ tpc'[t] = "manifest" /\ left[t] = {} /\ trow' = trow
      BY <2>2 DEF BeginManifest
    <3>. QED  BY <1>2, <3>1 DEF Copying, Concerns, Finished
  <2>3. CASE EndManifest(t)
    <3>1. tpc[t] = "manifest" /\ tpc'[t] = "record" /\ left[t] = {} /\ trow' = trow
      BY <1>0, <2>3 DEF EndManifest, Place
    <3>. QED  BY <1>2, <3>1 DEF Copying, Concerns, Finished
  <2>4. CASE RecordComplete(t)
    <3>1. tpc[t] = "record" /\ tpc'[t] = "over" /\ left[t] = {} /\ manifest[t] = "whole"
      BY <1>0, <2>4 DEF RecordComplete, Place
    <3>. QED  BY <1>2, <3>1 DEF Copying, Concerns, Finished
  <2>5. CASE FailAttempt(t)
    <3>1. tpc'[t] \in {"attempt", "fail"} /\ UNCHANGED <<manifest, trow>>
      BY <2>5 DEF FailAttempt
    <3>. QED  BY <1>2, <3>1 DEF Copying, Concerns, Finished
  <2>6. CASE RecordFailed(t)
    <3>1. /\ tpc'[t] = "over" /\ manifest' = manifest
          /\ (trow'[t] = "complete" => trow[t] = "complete")
      BY <2>6 DEF RecordFailed
    <3>. QED  BY <1>2, <3>1 DEF Copying, Concerns, Finished
  <2>. QED  BY <2>1, <2>2, <2>3, <2>4, <2>5, <2>6
<1>. QED  BY <1>1, <1>3, StepKeep

LEMMA DestBegin ==
  ASSUME TypeOK, PlaceInv, SourceInv, DestInv, OwnInv, NEW t \in Transfers, NEW g \in Files,
         BeginCopy(t, g)
  PROVE  DestInv' /\ OwnInv'
<1>1. /\ UNCHANGED <<disk, tpc, trow, hashed, left, manifest>> /\ disk[g] >= 0
      /\ g \in left[t] /\ tpc[t] = "copy" /\ dest'[g] = t
      /\ hand'[t].file = g /\ hand'[t].size = disk[g] /\ hand[t] = Idle
      /\ \A u \in Transfers \ {t} : hand'[u] = hand[u]
      /\ \A f \in Files \ {g} : dest'[f] = dest[f]
  BY DEF BeginCopy, TypeOK, source, rows
<1>2. ASSUME NEW f \in Files, f # g, NEW u \in Transfers
      PROVE  /\ Copying(u, f)' => Copying(u, f) /\ hand'[u] = hand[u]
             /\ Concerns(u, f)' => Concerns(u, f)
  <2>1. CASE u = t
    <3>1. ~Copying(u, f)'  BY <1>1, <1>2, <2>1 DEF Copying
    <3>. QED  BY <1>1, <3>1 DEF Concerns, Listed
  <2>2. CASE u # t
    <3>1. hand'[u] = hand[u]  BY <1>1, <2>2
    <3>. QED  BY <1>1, <3>1 DEF Copying, Concerns, Listed
  <2>. QED  BY <2>1, <2>2
<1>3. ASSUME NEW f \in Files, f # g, NEW u \in Transfers, Concerns(u, f)'
      PROVE  NotOlder(u, f)'
  <2>1. NotOlder(u, f)  BY <1>2, <1>3 DEF DestInv
  <2>2. dest'[f] = dest[f] /\ hashed' = hashed  BY <1>1, <1>3
  <2>3. ASSUME NEW v \in Transfers, dest[f] = v, Copying(v, f)'
        PROVE  hashed[u][f] <= hand'[v].size
    BY <1>2, <1>3, <2>1, <2>3 DEF NotOlder
  <2>. QED  BY <2>1, <2>2, <2>3 DEF NotOlder
<1>4. ASSUME NEW u \in Transfers PROVE NotOlder(u, g)'
  <2>1. hashed[u][g] <= disk[g]
    <3>1. NoLonger(g, hashed[u][g])  BY DEF SourceInv, Sources
    <3>2. disk[g] # Gone  BY <1>1 DEF Gone
    <3>. QED  BY <3>1, <3>2 DEF NoLonger
  <2>. QED  BY <1>1, <2>1 DEF NotOlder
<1>5. ASSUME NEW u \in Transfers, NEW f \in Files, Finished(u, f)' PROVE dest'[f] # u
  <2>1. Finished(u, f)  BY <1>1, <1>5 DEF Finished, Listed
  <2>2. dest[f] # u  BY <2>1 DEF OwnInv
  <2>3. ~(u = t /\ f = g)
    <3>1. trow[t] # "complete"  BY <1>1 DEF PlaceInv, Place, Attempting
    <3>. QED  BY <1>1, <2>1, <3>1 DEF Finished
  <2>. QED  BY <1>1, <2>2, <2>3
<1>. QED  BY <1>3, <1>4, <1>5 DEF DestInv, OwnInv

LEMMA DestEnd ==
  ASSUME TypeOK, PlaceInv, DestInv, OwnInv, NEW t \in Transfers, EndCopy(t)
  PROVE  DestInv' /\ OwnInv'
<1>0. PICK g \in Files : g = hand[t].file /\ g \in left[t] /\ g \in Listed(t)
  BY DEF EndCopy, PlaceInv, Place, Copies
<1>1. PICK n \in Reads(t) : dest' = [dest EXCEPT ![g] = Merge(t, dest[g], n)]
  BY <1>0, EndCopyDef
<1>2. /\ UNCHANGED <<tpc, trow, hashed, manifest>> /\ tpc[t] = "copy"
      /\ \A u \in Transfers \ {t} : left'[u] = left[u] /\ hand'[u] = hand[u]
      /\ left'[t] = left[t] \ {g} /\ hand'[t] = Idle
  BY <1>0 DEF EndCopy, TypeOK, source, rows
<1>3. /\ \A f \in Files \ {g} : dest'[f] = dest[f]
      /\ dest'[g] = Merge(t, dest[g], n)
  BY <1>1 DEF TypeOK
<1>4. n \in Int /\ hand[t].size <= n /\ hand[t].size \in Int /\ n \notin Transfers
  BY ReadsType, SizesType
<1>5. ASSUME NEW u \in Transfers, NEW f \in Files
      PROVE  /\ Copying(u, f)' => Copying(u, f) /\ hand'[u] = hand[u] /\ u # t
             /\ Concerns(u, f)' => Concerns(u, f)
             /\ Finished(u, f)' => Finished(u, f) \/ (u = t /\ f = g)
  <2>0. Idle.file # f /\ Copying(t, g)  BY <1>0, <1>2, SizesType DEF Copying
  <2>1. CASE u = t
    <3>1. ~Copying(u, f)'  BY <1>2, <2>0, <2>1 DEF Copying
    <3>2. f \notin left'[t] => f \notin left[t] \/ f = g  BY <1>2
    <3>. QED  BY <1>2, <2>0, <2>1, <3>1, <3>2 DEF Concerns, Finished, Listed
  <2>2. CASE u # t
    <3>1. hand'[u] = hand[u] /\ left'[u] = left[u]  BY <1>2, <2>2
    <3>. QED  BY <1>2, <2>2, <3>1 DEF Copying, Concerns, Finished, Listed
  <2>. QED  BY <2>1, <2>2
<1>6. ASSUME NEW u \in Transfers, NEW f \in Files, Concerns(u, f)', f # g
      PROVE  NotOlder(u, f)'
  <2>1. NotOlder(u, f)  BY <1>5, <1>6 DEF DestInv
  <2>2. dest'[f] = dest[f] /\ hashed' = hashed  BY <1>2, <1>3, <1>6
  <2>3. ASSUME NEW v \in Transfers, dest[f] = v, Copying(v, f)'
        PROVE  hashed[u][f] <= hand'[v].size
    BY <1>5, <2>1, <2>3 DEF NotOlder
  <2>. QED  BY <2>1, <2>2, <2>3 DEF NotOlder
<1>7. ASSUME NEW u \in Transfers, Concerns(u, g)' PROVE NotOlder(u, g)'
  <2>0. NotOlder(u, g)  BY <1>5, <1>7 DEF DestInv
  <2>1. hashed'[u][g] = hashed[u][g] /\ hashed[u][g] \in Int  BY <1>2, Numbers
  <2>2. CASE dest[g] = t
    <3>1. dest'[g] = n  BY <1>3, <2>2 DEF Merge
    <3>2. Copying(t, g)  BY <1>0, <1>2 DEF Copying
    <3>3. hashed[u][g] <= hand[t].size  BY <2>0, <2>2, <3>2 DEF NotOlder
    <3>4. hashed[u][g] <= n  BY ONLY <1>4, <2>1, <3>3
    <3>. QED  BY <1>4, <2>1, <3>1, <3>4 DEF NotOlder
  <2>3. CASE dest[g] \in Transfers \ {t}
    <3>1. dest'[g] = dest[g]  BY <1>3, <2>3 DEF Merge
    <3>2. ASSUME NEW v \in Transfers, dest[g] = v, Copying(v, g)'
          PROVE  hashed[u][g] <= hand'[v].size
      BY <1>5, <2>0, <3>2 DEF NotOlder
    <3>. QED  BY <2>0, <2>1, <2>3, <3>1, <3>2 DEF NotOlder
  <2>4. CASE dest[g] \notin Transfers
    <3>1. dest[g] \in Int /\ hashed[u][g] <= dest[g]
      BY <2>0, <2>4, Numbers DEF NotOlder
    <3>2. dest'[g] = IF n > dest[g] THEN n ELSE dest[g]
      BY <1>3, <2>4 DEF Merge
    <3>3. dest'[g] \in Int /\ hashed[u][g] <= dest'[g]
      BY ONLY <1>4, <2>1, <3>1, <3>2
    <3>4. dest'[g] \notin Transfers  BY <3>3, TransferJobsAssumption
    <3>. QED  BY <2>1, <3>3, <3>4 DEF NotOlder
  <2>. QED  BY <2>2, <2>3, <2>4
<1>8. ASSUME NEW u \in Transfers, NEW f \in Files, Finished(u, f)' PROVE dest'[f] # u
  <2>1. CASE f # g
    <3>1. Finished(u, f) /\ dest'[f] = dest[f]  BY <1>3, <1>5, <1>8, <2>1
    <3>. QED  BY <3>1 DEF OwnInv
  <2>2. CASE f = g /\ dest[g] \in Transfers \ {t}
    <3>1. dest'[g] = dest[g]  BY <1>3, <2>2 DEF Merge
    <3>2. u = t \/ Finished(u, g)  BY <1>5, <1>8, <2>2
    <3>. QED  BY <2>2, <3>1, <3>2 DEF OwnInv
  <2>3. CASE f = g /\ dest[g] \notin Transfers \ {t}
    <3>1. dest'[g] = n \/ (dest'[g] = dest[g] /\ dest[g] \notin Transfers)
      BY <1>3, <2>3 DEF Merge
    <3>. QED  BY <1>4, <2>3, <3>1
  <2>. QED  BY <2>1, <2>2, <2>3
<1>. QED  BY <1>6, <1>7, <1>8 DEF DestInv, OwnInv

LEMMA DestRestart ==
  ASSUME DestInv, OwnInv, PlaceInv, Restart
  PROVE  DestInv' /\ OwnInv'
<1>1. /\ UNCHANGED <<hashed, trow, dest, manifest>>
      /\ \A u \in Transfers : tpc'[u] \notin Copies
  BY DEF Restart, source, rows, Copies
<1>2. ASSUME NEW u \in Transfers, NEW f \in Files
      PROVE  /\ ~Copying(u, f)' /\ (Concerns(u, f)' => Concerns(u, f))
             /\ (Finished(u, f)' => Finished(u, f))
  BY <1>1 DEF Copying, Concerns, Finished, Listed, Copies
<1>. QED  BY <1>1, <1>2, DestKeep

LEMMA DestNext == TypeOK /\ PlaceInv /\ IInv /\ [Next]_vars => DestInv' /\ OwnInv'
<1>. SUFFICES ASSUME TypeOK, PlaceInv, SourceInv, DestInv, OwnInv, [Next]_vars
              PROVE  DestInv' /\ OwnInv'
  BY DEF IInv
<1>1. ASSUME NEW t \in Transfers, StartTransfer(t) \/ Build(t) PROVE DestInv' /\ OwnInv'
  BY <1>1, DestBuild
<1>2. ASSUME NEW t \in Transfers, Attempt(t) PROVE DestInv' /\ OwnInv'
  BY <1>2, DestBegin, DestEnd, DestStill DEF Attempt
<1>3. ASSUME UNCHANGED <<trow, tpc, hashed, left, hand, dest, manifest>>
      PROVE  DestInv' /\ OwnInv'
  BY <1>3 DEF DestInv, OwnInv, Concerns, Copying, Finished, NotOlder, Listed
<1>. QED
  BY <1>1, <1>2, <1>3, DestRestart DEF Next, GrowFile, RemoveRaw, vars, source, rows

LEMMA InvHolds == TypeOK /\ PlaceInv /\ IInv => ManifestHolds
<1>. SUFFICES ASSUME TypeOK, PlaceInv, IInv, NEW t \in Transfers
              PROVE  /\ manifest[t] = "whole" =>
                          \A f \in Listed(t) : dest[f] \in Transfers \/ AsListed(t, f)
                     /\ trow[t] = "complete" =>
                          manifest[t] = "whole" /\ \A f \in Listed(t) : dest[f] # t
  BY DEF ManifestHolds
<1>1. ASSUME manifest[t] = "whole", NEW f \in Listed(t), dest[f] \notin Transfers
      PROVE  AsListed(t, f)
  <2>1. f \in Files /\ hashed[t][f] >= 0  BY DEF Listed
  <2>2. hashed[t][f] <= dest[f]
    BY <1>1, <2>1 DEF IInv, DestInv, Concerns, NotOlder
  <2>3. listed[t][f] <= hashed[t][f] /\ NoLonger(f, dest[f])
    BY <1>1, <2>1 DEF IInv, EntryInv, SourceInv, Sources
  <2>4. dest[f] \in Int /\ hashed[t][f] \in Int  BY <1>1, <2>1, Numbers
  <2>5. disk[f] = hashed[t][f] => dest[f] = hashed[t][f]
    BY ONLY <2>1, <2>2, <2>3, <2>4 DEF NoLonger, Gone
  <2>. QED  BY <2>2, <2>3, <2>5 DEF AsListed
<1>2. ASSUME trow[t] = "complete", NEW f \in Listed(t) PROVE dest[f] # t
  BY <1>2 DEF IInv, OwnInv, Finished, Listed
<1>3. trow[t] = "complete" => manifest[t] = "whole"  BY DEF PlaceInv, Place
<1>. QED  BY <1>1, <1>2, <1>3

\* A manifest that has arrived describes files that have been copied before it, with at
\* least what was hashed of them, exactly that if they have not changed since, unless
\* one is being written or was interrupted in being written; and in a transfer recorded
\* as complete that can only be another transfer's doing.  So with any number of
\* transfers to one directory, and whatever fails before, at or after the manifest.
THEOREM ManifestCorrect == Spec => []ManifestHolds
<1>1. Init => TypeOK /\ PlaceInv /\ IInv
  BY TypeInit, PlaceInit, SourceInit, EntryInit, DestInit DEF IInv
<1>2. TypeOK /\ PlaceInv /\ IInv /\ [Next]_vars => (TypeOK /\ PlaceInv /\ IInv)'
  BY TypeNext, PlaceNext, SourceNext, EntryNext, DestNext DEF IInv
<1>. QED  BY <1>1, <1>2, InvHolds, PTL DEF Spec
=============================================================================

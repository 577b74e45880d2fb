------------------------ MODULE CheckpointFileProofs ------------------------
(***************************************************************************)
(* Proofs about CheckpointFile when one process uses the checkpoint path:  *)
(* whatever the checkpoints, their sizes and the number of files, nobody   *)
(* reads a partial checkpoint unless its write failed unseen, not even     *)
(* after a loss of power, and save and delete are atomic.                  *)
(***************************************************************************)
EXTENDS CheckpointFile, TLAPS

OneWriter == \A v, w \in Writers : v = w

\* Inode i, if it is one, is on disk as it is in memory and holds a
\* checkpoint, unless its write failed.
Whole(i) == i # NoInode => i \in synced /\ (contents[i] \in Checkpoints \/ i \in cut)

\* Whoever follows the checkpoint's name finds a whole file.
NamesWhole == Whole(file) /\ Whole(fileOnDisk)

\* The temporary file is not the checkpoint file, nor will it be one after a
\* loss of power: truncating it damages nothing.
NamesApart ==
    /\ temp # NoInode => temp # file /\ temp # fileOnDisk
    /\ tempOnDisk # NoInode => tempOnDisk # fileOnDisk

\* A writer halfway through save has the temporary file open, with as much in
\* it as its progress says.
SaveUnderWay ==
    \A w \in Writers :
        /\ step[w] \in {"created", "written", "synced"} =>
              handle[w] = temp /\ handle[w] \in Inodes
        /\ step[w] = "created" => contents[handle[w]] = Empty /\ handle[w] \notin cut
        /\ step[w] \in {"written", "synced"} =>
              contents[handle[w]] \in IF handle[w] \in cut THEN {Empty, Torn} ELSE {value[w]}
        /\ step[w] = "synced" => handle[w] \in synced

\* The inductive invariant.
IInv == TypeOK /\ NamesWhole /\ NamesApart /\ SaveUnderWay

-----------------------------------------------------------------------------
(* The inductive invariant                                                 *)

\* Before anything is saved the file is whole or absent.
LEMMA InitInv == Init => IInv
<1> SUFFICES ASSUME Init PROVE IInv
  OBVIOUS
<1>1. PICK i \in Inodes, c \in Checkpoints \union {NoCheckpoint} :
        /\ file = IF c = NoCheckpoint THEN NoInode ELSE i
        /\ contents = [j \in Inodes |-> IF j = i /\ c # NoCheckpoint THEN c ELSE Empty]
        /\ synced = {i}
  BY DEF Init
<1>2. TypeOK
  BY <1>1 DEF Init, TypeOK, Names, Contents, Steps
<1>3. NamesWhole
  BY <1>1 DEF Init, NamesWhole, Whole
<1>4. NamesApart /\ SaveUnderWay
  BY DEF Init, NamesApart, SaveUnderWay
<1> QED
  BY <1>2, <1>3, <1>4 DEF IInv

\* create: only the temporary file is truncated.
LEMMA CreateInv ==
    ASSUME OneWriter, IInv, NEW w \in Writers, Create(w)
    PROVE  IInv'
<1>1. temp' \in Inodes /\ temp' # file /\ temp' # fileOnDisk
  BY DEF Create, Free, IInv, TypeOK, NamesApart, Names
<1>2. TypeOK'
  BY <1>1 DEF Create, Advance, IInv, TypeOK, Names, Contents, Steps, disk
<1>3. NamesWhole'
  BY <1>1 DEF Create, IInv, TypeOK, NamesWhole, Whole, Names, disk
<1>4. NamesApart'
  BY <1>1 DEF Create, IInv, NamesApart, disk
<1>5. SaveUnderWay'
  BY <1>1 DEF Create, Advance, IInv, TypeOK, SaveUnderWay, OneWriter
<1> QED
  BY <1>2, <1>3, <1>4, <1>5 DEF IInv

\* write: the temporary file is empty, so what is written is all it holds; a
\* write that fails leaves less than a checkpoint.
LEMMA WriteInv ==
    ASSUME OneWriter, IInv, NEW w \in Writers, Write(w)
    PROVE  IInv'
<1>1. handle[w] = temp /\ temp \in Inodes /\ contents[handle[w]] = Empty
  BY DEF Write, Advance, IInv, SaveUnderWay
<1>2. temp # file /\ temp # fileOnDisk
  BY <1>1, FileAssumption DEF IInv, NamesApart, FileAssumption
<1>3. \/ contents' = [contents EXCEPT ![temp] = value[w]] /\ cut' = cut
      \/ /\ contents' \in {contents, [contents EXCEPT ![temp] = Torn]}
         /\ cut' = cut \union {temp}
  BY <1>1, FileAssumption DEF Write, Overwrite, FileAssumption
<1>4. value[w] \in Checkpoints
  BY DEF IInv, TypeOK
<1>5. TypeOK'
  BY <1>1, <1>3, <1>4
     DEF Write, Advance, IInv, TypeOK, Names, Contents, Steps, directory, disk
<1>6. NamesWhole'
  BY <1>1, <1>2, <1>3
     DEF Write, IInv, TypeOK, NamesWhole, Whole, Names, directory, disk
<1>7. NamesApart'
  BY DEF Write, IInv, NamesApart, directory, disk
<1>8. SaveUnderWay'
  <2>1. /\ step' = [step EXCEPT ![w] = "written"]
        /\ UNCHANGED <<temp, handle, value>>
    BY DEF Write, Advance, directory
  <2>2. contents'[temp] \in IF temp \in cut' THEN {Empty, Torn} ELSE {value[w]}
    BY <1>1, <1>3 DEF IInv, TypeOK, SaveUnderWay, Write, Advance
  <2> QED
    BY <1>1, <2>1, <2>2 DEF IInv, TypeOK, SaveUnderWay, OneWriter
<1> QED
  BY <1>5, <1>6, <1>7, <1>8 DEF IInv

\* sync: the temporary file's text reaches the disk.
LEMMA SyncInv ==
    ASSUME OneWriter, IInv, NEW w \in Writers, Sync(w)
    PROVE  IInv'
<1>1. handle[w] = temp /\ temp \in Inodes
  BY DEF Sync, Advance, IInv, SaveUnderWay
<1>2. TypeOK'
  BY <1>1 DEF Sync, Advance, IInv, TypeOK, Steps, directory, disk
<1>3. NamesWhole' /\ NamesApart'
  BY DEF Sync, IInv, NamesWhole, Whole, NamesApart, directory, disk
<1>4. SaveUnderWay'
  BY <1>1 DEF Sync, Advance, IInv, TypeOK, SaveUnderWay, OneWriter, directory
<1> QED
  BY <1>2, <1>3, <1>4 DEF IInv

\* rename: what is put in place was written, whole unless the write failed,
\* and synced.
LEMMA RenameInv ==
    ASSUME OneWriter, IInv, NEW w \in Writers, Rename(w)
    PROVE  IInv' /\ file' = temp
<1>1. /\ handle[w] = temp
      /\ temp \in Inodes
      /\ contents[temp] \in IF temp \in cut THEN {Empty, Torn} ELSE {value[w]}
      /\ temp \in synced
  BY DEF Rename, Advance, IInv, SaveUnderWay
<1>2. temp # NoInode /\ value[w] \in Checkpoints
  BY <1>1, FileAssumption DEF FileAssumption, IInv, TypeOK
<1>3. file' = temp
  BY <1>2 DEF Rename
<1>4. TypeOK'
  BY <1>1, <1>3 DEF Rename, Advance, IInv, TypeOK, Names, Steps, disk
<1>5. NamesWhole' /\ NamesApart'
  BY <1>1, <1>2, <1>3 DEF Rename, IInv, NamesWhole, Whole, NamesApart, disk
<1>6. SaveUnderWay'
  BY DEF Rename, Advance, IInv, TypeOK, SaveUnderWay, OneWriter
<1> QED
  BY <1>1, <1>3, <1>4, <1>5, <1>6 DEF IInv

\* delete takes the name away.
LEMMA DeleteInv ==
    ASSUME OneWriter, IInv, NEW w \in Writers, Delete(w)
    PROVE  IInv'
<1>1. file' \in {file, NoInode}
  BY DEF Delete, directory
<1>2. step' \in [Writers -> Steps]
  BY DEF Delete, Advance, IInv, TypeOK, Steps
<1>3. UNCHANGED <<temp, disk, contents, synced, handle, value, cut>>
  BY DEF Delete, directory
<1>4. TypeOK'
  BY <1>1, <1>2, <1>3 DEF IInv, TypeOK, Names, disk
<1>5. NamesWhole' /\ NamesApart'
  BY <1>1, <1>3 DEF IInv, NamesWhole, Whole, NamesApart, disk
<1>6. SaveUnderWay'
  BY <1>3 DEF Delete, Advance, IInv, TypeOK, SaveUnderWay, OneWriter
<1> QED
  BY <1>4, <1>5, <1>6 DEF IInv

\* An operation given up halfway leaves its mark in the temporary file only.
LEMMA AbandonInv ==
    ASSUME OneWriter, IInv, NEW w \in Writers, Abandon(w)
    PROVE  IInv'
<1>1. step[w] = "created" => handle[w] = temp /\ temp \in Inodes /\ temp # NoInode
  BY FileAssumption DEF IInv, SaveUnderWay, FileAssumption
<1>2. TypeOK'
  BY <1>1 DEF Abandon, IInv, TypeOK, Names, Contents, Steps, directory, disk
<1>3. NamesWhole'
  BY <1>1 DEF Abandon, IInv, TypeOK, NamesWhole, NamesApart, Whole, Names,
              directory, disk
<1>4. NamesApart'
  BY DEF Abandon, IInv, NamesApart, directory, disk
<1>5. SaveUnderWay'
  BY DEF Abandon, IInv, TypeOK, SaveUnderWay, OneWriter
<1> QED
  BY <1>2, <1>3, <1>4, <1>5 DEF IInv

\* The directory written back names the same files.
LEMMA WriteBackInv == IInv /\ WriteBackDirectory => IInv'
BY DEF WriteBackDirectory, IInv, TypeOK, NamesWhole, Whole, NamesApart,
       SaveUnderWay, directory, writer

\* After a loss of power the checkpoint on disk is there, unchanged.
LEMMA LosePowerInv == IInv /\ LosePower => IInv'
<1> SUFFICES ASSUME IInv, LosePower PROVE IInv'
  OBVIOUS
<1>1. TypeOK'
  BY DEF LosePower, IInv, TypeOK, Names, Steps, disk
<1>2. \A i \in synced : contents'[i] = contents[i]
  BY DEF LosePower, IInv, TypeOK
<1>3. NamesWhole'
  BY <1>2 DEF LosePower, IInv, TypeOK, NamesWhole, Whole, disk
<1>4. NamesApart'
  BY DEF LosePower, IInv, NamesApart, disk
<1>5. SaveUnderWay'
  BY DEF LosePower, SaveUnderWay
<1> QED
  BY <1>1, <1>3, <1>4, <1>5 DEF IInv

\* Every step preserves the inductive invariant.
LEMMA StepInv == OneWriter /\ IInv /\ [Next]_vars => IInv'
<1> SUFFICES ASSUME OneWriter, IInv, [Next]_vars PROVE IInv'
  OBVIOUS
<1>1. ASSUME NEW w \in Writers,
             \/ Create(w) \/ Write(w) \/ Sync(w) \/ Rename(w) \/ Delete(w) \/ Abandon(w)
      PROVE  IInv'
  BY <1>1, CreateInv, WriteInv, SyncInv, RenameInv, DeleteInv, AbandonInv
<1>2. CASE UNCHANGED vars
  BY <1>2 DEF vars, directory, disk, writer, IInv, TypeOK, NamesWhole, Whole,
              NamesApart, SaveUnderWay
<1> QED
  BY <1>1, <1>2, WriteBackInv, LosePowerInv DEF Next

-----------------------------------------------------------------------------
(* What follows                                                            *)

\* With one writer, every reachable state is well typed.
THEOREM TypeCorrect ==
    ASSUME OneWriter
    PROVE  Spec => []TypeOK
<1>1. IInv => TypeOK
  BY DEF IInv
<1> QED
  BY InitInv, StepInv, <1>1, PTL DEF Spec

\* With one writer, a partial checkpoint is loaded only from a file of which
\* the write itself failed.
THEOREM PartialOnlyIfCutHolds ==
    ASSUME OneWriter
    PROVE  Spec => []PartialOnlyIfCut
<1>1. IInv => PartialOnlyIfCut
  BY FileAssumption DEF IInv, NamesWhole, Whole, PartialOnlyIfCut, Load, LoadFrom,
                        FileAssumption, Contents
<1> QED
  BY InitInv, StepInv, <1>1, PTL DEF Spec

\* With one writer, what save puts in place is on disk before its name is seen.
THEOREM SyncedBeforeVisibleHolds ==
    ASSUME OneWriter
    PROVE  Spec => []SyncedBeforeVisible
<1>1. IInv => SyncedBeforeVisible
  BY DEF IInv, NamesWhole, Whole, SyncedBeforeVisible
<1> QED
  BY InitInv, StepInv, <1>1, PTL DEF Spec

-----------------------------------------------------------------------------
(* Refinement                                                              *)

PendingMap == [w \in Writers |-> Pending(w)]

\* The steps of a writer other than rename and delete change no checkpoint.
LEMMA WriterStutters ==
    ASSUME OneWriter, IInv, NEW w \in Writers,
           \/ Create(w) \/ Write(w) \/ Sync(w) \/ Abandon(w)
    PROVE  UNCHANGED <<Load, LoadFrom(fileOnDisk)>>
<1>1. UNCHANGED <<file, fileOnDisk>>
  BY DEF Create, Write, Sync, Abandon, directory, disk
<1>2. ASSUME NEW i \in {file, fileOnDisk}
      PROVE  i = NoInode \/ contents'[i] = contents[i]
  <2>1. i \in Inodes \/ i = NoInode
    BY DEF IInv, TypeOK, Names
  <2>2. CASE Create(w)
    <3>1. temp' # i \/ i = NoInode
      BY <2>2 DEF Create, Free, IInv, NamesApart
    <3> QED
      BY <2>1, <2>2, <3>1 DEF Create, IInv, TypeOK
  <2>3. CASE Sync(w)
    BY <2>3 DEF Sync
  <2>4. CASE Write(w) \/ Abandon(w)
    <3>1. step[w] = "created" => handle[w] = temp /\ temp \in Inodes
      BY DEF IInv, SaveUnderWay
    <3>2. step[w] = "created" => handle[w] # i
      BY <3>1, FileAssumption DEF IInv, NamesApart, FileAssumption
    <3> QED
      BY <2>1, <2>4, <3>2 DEF Write, Abandon, Advance, IInv, TypeOK
  <2> QED
    BY <2>2, <2>3, <2>4
<1> QED
  BY <1>1, <1>2 DEF Load, LoadFrom

\* Creating the temporary file begins a save.
LEMMA CreateBegins ==
    ASSUME OneWriter, IInv, NEW w \in Writers, Create(w)
    PROVE  Atomic!Begin(w)
<1>1. UNCHANGED <<Load, LoadFrom(fileOnDisk)>>
  BY WriterStutters
<1>2. Pending(w) = {}
  BY DEF Create, Advance, Pending
<1>3. Pending(w)' = {value'[w]} /\ value'[w] \in Checkpoints
  BY DEF Create, Advance, Pending, IInv, TypeOK
<1>4. PendingMap' = [PendingMap EXCEPT ![w] = {value'[w]}]
  BY <1>3 DEF PendingMap, OneWriter
<1> QED
  BY <1>1, <1>2, <1>3, <1>4 DEF Atomic!Begin, PendingMap

\* Writing leaves the save as it is, or tears it.
LEMMA WriteTears ==
    ASSUME OneWriter, IInv, NEW w \in Writers, Write(w)
    PROVE  Atomic!Tear(w) \/ UNCHANGED <<Load, LoadFrom(fileOnDisk), PendingMap>>
<1>1. UNCHANGED <<Load, LoadFrom(fileOnDisk)>>
  BY WriterStutters
<1>2. Pending(w) = {value[w]} /\ value[w] \in Checkpoints
  BY DEF Write, Advance, Pending, IInv, TypeOK, SaveUnderWay
<1>3. Pending(w)' = IF handle[w] \in cut' THEN {Torn} ELSE {value[w]}
  BY DEF Write, Advance, Pending, IInv, TypeOK
<1>4. PendingMap' = [PendingMap EXCEPT ![w] = Pending(w)']
  BY DEF PendingMap, OneWriter
<1>5. CASE handle[w] \in cut'
  BY <1>1, <1>2, <1>3, <1>4, <1>5 DEF Atomic!Tear, PendingMap
<1>6. CASE handle[w] \notin cut'
  BY <1>1, <1>2, <1>3, <1>4, <1>6 DEF PendingMap, OneWriter
<1> QED
  BY <1>5, <1>6

\* Syncing changes nothing a caller sees.
LEMMA SyncStutters ==
    ASSUME OneWriter, IInv, NEW w \in Writers, Sync(w)
    PROVE  UNCHANGED <<Load, LoadFrom(fileOnDisk), PendingMap>>
<1>1. UNCHANGED <<Load, LoadFrom(fileOnDisk)>>
  BY WriterStutters
<1>2. Pending(w)' = Pending(w)
  BY DEF Sync, Advance, Pending, IInv, TypeOK
<1> QED
  BY <1>1, <1>2 DEF PendingMap, OneWriter

\* An operation given up fails.
LEMMA AbandonFails ==
    ASSUME OneWriter, IInv, NEW w \in Writers, Abandon(w)
    PROVE  Atomic!Fail(w)
<1>1. UNCHANGED <<Load, LoadFrom(fileOnDisk)>>
  BY WriterStutters
<1>2. Pending(w)' = {}
  BY DEF Abandon, Pending, IInv, TypeOK
<1>3. PendingMap' = [PendingMap EXCEPT ![w] = {}]
  BY <1>2 DEF PendingMap, OneWriter
<1> QED
  BY <1>1, <1>3 DEF Atomic!Fail, PendingMap

\* The rename is where a save takes effect.
LEMMA RenameCommits ==
    ASSUME OneWriter, IInv, NEW w \in Writers, Rename(w)
    PROVE  Atomic!Commit(w)
<1>1. UNCHANGED <<fileOnDisk, contents>> /\ file' = temp
  BY RenameInv DEF Rename, disk
<1>2. /\ temp \in Inodes /\ handle[w] = temp
      /\ contents[temp] \in IF temp \in cut THEN {Empty, Torn} ELSE {value[w]}
  BY DEF Rename, Advance, IInv, SaveUnderWay
<1>3. value[w] \in Checkpoints
  BY DEF IInv, TypeOK
<1>4. Load' = IF temp \in cut THEN Torn ELSE value[w]
  BY <1>1, <1>2, <1>3, FileAssumption DEF Load, LoadFrom, FileAssumption
<1>5. Pending(w) = {IF temp \in cut THEN Torn ELSE value[w]}
  BY <1>2 DEF Rename, Advance, Pending
<1>6. Pending(w)' = {}
  BY DEF Rename, Advance, Pending, IInv, TypeOK
<1>7. PendingMap' = [PendingMap EXCEPT ![w] = {}]
  BY <1>6 DEF PendingMap, OneWriter
<1> QED
  BY <1>1, <1>4, <1>5, <1>7 DEF Atomic!Commit, PendingMap, LoadFrom

\* delete begins when it has found the file and takes effect at the removal.
LEMMA DeleteBeginsAndCommits ==
    ASSUME OneWriter, IInv, NEW w \in Writers, Delete(w)
    PROVE  Atomic!Begin(w) \/ Atomic!Commit(w)
<1>1. UNCHANGED <<fileOnDisk, contents>>
  BY DEF Delete, disk
<1>2. ASSUME Advance(w, "idle", "deleting"), file' = file
      PROVE  Atomic!Begin(w)
  <2>1. Pending(w) = {} /\ Pending(w)' = {NoCheckpoint}
    BY <1>2 DEF Advance, Pending, IInv, TypeOK
  <2>2. PendingMap' = [PendingMap EXCEPT ![w] = {NoCheckpoint}]
    BY <2>1 DEF PendingMap, OneWriter
  <2> QED
    BY <1>1, <1>2, <2>1, <2>2 DEF Atomic!Begin, PendingMap, Load, LoadFrom
<1>3. ASSUME Advance(w, "deleting", "idle"), file' = NoInode
      PROVE  Atomic!Commit(w)
  <2>1. Pending(w) = {NoCheckpoint} /\ Pending(w)' = {}
    BY <1>3 DEF Advance, Pending, IInv, TypeOK
  <2>2. PendingMap' = [PendingMap EXCEPT ![w] = {}]
    BY <2>1 DEF PendingMap, OneWriter
  <2>3. Load' = NoCheckpoint
    BY <1>3 DEF Load, LoadFrom
  <2> QED
    BY <1>1, <2>1, <2>2, <2>3 DEF Atomic!Commit, PendingMap, LoadFrom
<1> QED
  BY <1>2, <1>3 DEF Delete, directory

\* With one writer save and delete are atomic: a save takes effect at the
\* rename, a delete at the removal, one that fails has no effect, and a loss of
\* power brings back what the directory on disk names.
THEOREM RegisterImplemented ==
    ASSUME OneWriter
    PROVE  Spec => ImplementsRegister
<1>1. Init => Atomic!Init
  <2> SUFFICES ASSUME Init PROVE Atomic!Init
    OBVIOUS
  <2>1. PICK i \in Inodes, c \in Checkpoints \union {NoCheckpoint} :
          /\ file = IF c = NoCheckpoint THEN NoInode ELSE i
          /\ contents = [j \in Inodes |-> IF j = i /\ c # NoCheckpoint THEN c ELSE Empty]
    BY DEF Init
  <2>2. fileOnDisk = file /\ \A w \in Writers : step[w] = "idle"
    BY DEF Init
  <2> QED
    BY <2>1, <2>2 DEF Load, LoadFrom, Pending, Atomic!Init, Atomic!Nobody
<1>2. ASSUME IInv, [Next]_vars
      PROVE  [Atomic!Next]_<<Load, LoadFrom(fileOnDisk), PendingMap>>
  <2> USE <1>2
  <2>1. ASSUME NEW w \in Writers,
               Create(w) \/ Write(w) \/ Sync(w) \/ Rename(w) \/ Delete(w) \/ Abandon(w)
        PROVE  Atomic!Next \/ UNCHANGED <<Load, LoadFrom(fileOnDisk), PendingMap>>
    BY <2>1, CreateBegins, WriteTears, SyncStutters, RenameCommits,
       DeleteBeginsAndCommits, AbandonFails DEF Atomic!Next
  <2>2. CASE WriteBackDirectory
    <3>1. UNCHANGED <<Load, PendingMap>> /\ LoadFrom(fileOnDisk)' = Load
      BY <2>2 DEF WriteBackDirectory, directory, writer, Load, LoadFrom, PendingMap,
                  Pending
    <3> QED
      BY <3>1 DEF Atomic!Persist, Atomic!Next, PendingMap
  <2>3. CASE LosePower
    <3>1. file' = fileOnDisk /\ UNCHANGED fileOnDisk
      BY <2>3 DEF LosePower, disk
    <3>2. fileOnDisk = NoInode \/ contents'[fileOnDisk] = contents[fileOnDisk]
      BY <2>3 DEF LosePower, IInv, TypeOK, NamesWhole, Whole
    <3>3. PendingMap' = Atomic!Nobody
      BY <2>3 DEF LosePower, PendingMap, Pending, Atomic!Nobody
    <3> QED
      BY <3>1, <3>2, <3>3 DEF Atomic!LosePower, Atomic!Next, Load, LoadFrom, PendingMap
  <2>4. CASE UNCHANGED vars
    BY <2>4 DEF vars, directory, disk, writer, Load, LoadFrom, PendingMap, Pending
  <2> QED
    BY <2>1, <2>2, <2>3, <2>4 DEF Next
<1> QED
  BY InitInv, StepInv, <1>1, <1>2, PTL
     DEF Spec, ImplementsRegister, Atomic!Spec, PendingMap
=============================================================================

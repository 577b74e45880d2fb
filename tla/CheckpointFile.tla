--------------------------- MODULE CheckpointFile ---------------------------
(***************************************************************************)
(* CheckpointManager (src/src/checkpoint.rs) on a POSIX file system: save  *)
(* creates the temporary file, writes it, syncs it and renames it over the *)
(* checkpoint file.  Every manager of one checkpoint path uses the same    *)
(* temporary path, so writers meet in it.  An operation may fail, and its  *)
(* process may die, between any two of these calls; the machine may lose   *)
(* power at any time.                                                      *)
(*                                                                         *)
(* tokio's write_all hands the text to another thread and succeeds; when   *)
(* that thread's write fails, for want of space say, sync_all keeps the    *)
(* error to itself and returns what the sync alone returns.  So save goes  *)
(* on after a failed write.                                                *)
(*                                                                         *)
(* A name leads to an inode and a writer holds an inode, not a name: what  *)
(* one writer has open another may rename or truncate.                     *)
(***************************************************************************)
EXTENDS Integers

CONSTANTS
    Writers,        \* the processes that save to this path
    Inodes,         \* the files the file system can hold
    Checkpoints,    \* what may be saved
    Size,           \* the length of each checkpoint's JSON text
    NoInode, NoCheckpoint, Empty, Torn

\* What a file may contain; Torn is any text that does not parse.
Contents == Checkpoints \union {Empty, Torn}

ASSUME FileAssumption ==
    /\ Size \in [Checkpoints -> Nat]
    /\ NoInode \notin Inodes
    /\ NoCheckpoint \notin Contents
    /\ Empty \notin Checkpoints
    /\ Torn \notin Checkpoints

VARIABLES
    file, temp,             \* the inodes the two names lead to
    fileOnDisk, tempOnDisk, \* the same, in the directory the disk holds
    contents,               \* of each inode, as processes read it
    synced,                 \* the inodes whose contents the disk holds
    step,                   \* how far each writer's operation has come
    handle,                 \* the inode each writer has open
    value,                  \* the checkpoint each writer saves
    cut                     \* history: the inodes whose last write failed

directory == <<file, temp>>
disk == <<fileOnDisk, tempOnDisk>>
writer == <<step, handle, value>>
vars == <<directory, disk, contents, synced, writer, cut>>

Steps == {"idle", "created", "written", "synced", "deleting"}
Names == Inodes \union {NoInode}

\* The result of CheckpointManager::load when a name leads to inode i.
LoadFrom(i) ==
    IF i = NoInode THEN NoCheckpoint
    ELSE IF contents[i] \in Checkpoints THEN contents[i] ELSE Torn

Load == LoadFrom(file)

Init ==
    /\ \E i \in Inodes, c \in Checkpoints \union {NoCheckpoint} :
          /\ file = IF c = NoCheckpoint THEN NoInode ELSE i
          /\ contents = [j \in Inodes |-> IF j = i /\ c # NoCheckpoint THEN c ELSE Empty]
          /\ synced = {i}
    /\ temp = NoInode
    /\ fileOnDisk = file
    /\ tempOnDisk = NoInode
    /\ step = [w \in Writers |-> "idle"]
    /\ handle = [w \in Writers |-> NoInode]
    /\ value \in [Writers -> Checkpoints]
    /\ cut = {}

Advance(w, from, to) == step[w] = from /\ step' = [step EXCEPT ![w] = to]

\* Inodes no name and no writer refers to.
Free == {i \in Inodes : i \notin {file, temp, fileOnDisk, tempOnDisk}
                        /\ \A w \in Writers : handle[w] # i}

\* Mutant: the file is opened without truncation.
CreateKeeping(w) ==
    /\ Advance(w, "idle", "created")
    /\ value' \in {[value EXCEPT ![w] = c] : c \in Checkpoints}
    /\ temp' \in IF temp = NoInode THEN Free ELSE {temp}
    /\ handle' = [handle EXCEPT ![w] = temp']
    /\ UNCHANGED <<file, disk, contents, synced, cut>>

\* File::create(&temp_path) truncates the file that is there or makes one.
Create(w) ==
    /\ Advance(w, "idle", "created")
    /\ value' \in {[value EXCEPT ![w] = c] : c \in Checkpoints}
    /\ temp' \in IF temp = NoInode THEN Free ELSE {temp}
    /\ handle' = [handle EXCEPT ![w] = temp']
    /\ contents' = [contents EXCEPT ![temp'] = Empty]
    /\ synced' = synced \ {temp'}
    /\ cut' = cut \ {temp'}
    /\ UNCHANGED <<file, disk>>

\* Writing c from the start of a file leaves the rest of a longer text behind.
Overwrite(old, c) ==
    IF old \in Checkpoints /\ Size[old] > Size[c] THEN Torn ELSE c

\* write_all: the text is in the file, or the write failed, which nobody
\* sees, and the file holds as much of the text as there was room for.
Write(w) ==
    /\ Advance(w, "created", "written")
    /\ \/ /\ contents' = [contents EXCEPT ![handle[w]] = Overwrite(@, value[w])]
          /\ UNCHANGED cut
       \/ /\ \/ UNCHANGED contents
             \/ contents' = [contents EXCEPT ![handle[w]] = Torn]
          /\ cut' = cut \union {handle[w]}
    /\ synced' = synced \ {handle[w]}
    /\ UNCHANGED <<directory, disk, handle, value>>

\* Mutant: the file is closed before it is synced.
SyncClosed(w) ==
    /\ Advance(w, "written", "synced")
    /\ handle' = [handle EXCEPT ![w] = NoInode]
    /\ synced' = synced \union {handle'[w]}
    /\ UNCHANGED <<directory, disk, contents, value, cut>>

\* Mutant: sync_all is left out.
SyncNothing(w) ==
    /\ Advance(w, "written", "synced")
    /\ UNCHANGED <<directory, disk, contents, synced, handle, value, cut>>

\* sync_all: the disk holds what is in the file, whether the write failed or not.
Sync(w) ==
    /\ Advance(w, "written", "synced")
    /\ synced' = synced \union {handle[w]}
    /\ UNCHANGED <<directory, disk, contents, handle, value, cut>>

\* Mutant: the rename does not wait for the sync.
RenameUnsynced(w) ==
    /\ Advance(w, "written", "idle")
    /\ file' = IF temp = NoInode THEN file ELSE temp
    /\ temp' = NoInode
    /\ handle' = [handle EXCEPT ![w] = NoInode]
    /\ UNCHANGED <<disk, contents, synced, value, cut>>

\* The rename puts the inode under the temporary name in place, whoever wrote
\* it; save fails if that name is gone.
Rename(w) ==
    /\ Advance(w, "synced", "idle")
    /\ file' = IF temp = NoInode THEN file ELSE temp
    /\ temp' = NoInode
    /\ handle' = [handle EXCEPT ![w] = NoInode]
    /\ UNCHANGED <<disk, contents, synced, value, cut>>

\* delete: the file exists, and is removed if it still does.
Delete(w) ==
    \/ /\ Advance(w, "idle", "deleting")
       /\ file # NoInode
       /\ UNCHANGED <<directory, disk, contents, synced, handle, value, cut>>
    \/ /\ Advance(w, "deleting", "idle")
       /\ file' = NoInode
       /\ UNCHANGED <<temp, disk, contents, synced, handle, value, cut>>

\* The operation fails with an error or its process dies, during the write
\* perhaps.
Abandon(w) ==
    /\ step[w] # "idle"
    /\ step' = [step EXCEPT ![w] = "idle"]
    /\ handle' = [handle EXCEPT ![w] = NoInode]
    /\ \/ UNCHANGED <<contents, synced>>
       \/ /\ step[w] = "created"
          /\ contents' = [contents EXCEPT ![handle[w]] = Torn]
          /\ synced' = synced \ {handle[w]}
    /\ UNCHANGED <<directory, disk, value, cut>>

\* The file system brings the directory on disk up to date.
WriteBackDirectory ==
    /\ fileOnDisk' = file
    /\ tempOnDisk' = temp
    /\ UNCHANGED <<directory, contents, synced, writer, cut>>

\* All processes die; what was not synced may be missing or cut short.
LosePower ==
    /\ file' = fileOnDisk
    /\ temp' = tempOnDisk
    /\ contents' \in [Inodes -> Contents]
    /\ \A i \in Inodes :
          contents'[i] \in IF i \in synced THEN {contents[i]} ELSE {contents[i], Empty, Torn}
    /\ synced' = Inodes
    /\ step' = [w \in Writers |-> "idle"]
    /\ handle' = [w \in Writers |-> NoInode]
    /\ UNCHANGED <<disk, value, cut>>

Next ==
    \/ \E w \in Writers : \/ Create(w) \/ Write(w) \/ Sync(w) \/ Rename(w)
                          \/ Delete(w) \/ Abandon(w)
    \/ WriteBackDirectory
    \/ LosePower

Spec == Init /\ [][Next]_vars

-----------------------------------------------------------------------------
(* Correctness                                                             *)

\* Every variable has its type.
TypeOK ==
    /\ {file, temp, fileOnDisk, tempOnDisk} \subseteq Names
    /\ contents \in [Inodes -> Contents]
    /\ synced \subseteq Inodes
    /\ step \in [Writers -> Steps]
    /\ handle \in [Writers -> Names]
    /\ value \in [Writers -> Checkpoints]
    /\ cut \subseteq Inodes

\* A write that fails unseen leaves a partial checkpoint, although save's
\* documentation says that the file is never partially written.  Nothing else
\* does: whoever loads a partial checkpoint, whenever, loads a file of which the
\* write itself failed, and not one that is still being written, was left behind
\* by a crash or was cut short by a loss of power.
PartialOnlyIfCut == Load = Torn => file \in cut

\* No rename is seen before what it puts in place is on disk, so a loss of
\* power never changes what the checkpoint's name leads to (step 2 of save).
SyncedBeforeVisible == {file, fileOnDisk} \ {NoInode} \subseteq synced

\* What the operation of writer w is about to put in the file's place.
Pending(w) ==
    CASE step[w] = "idle"     -> {}
      [] step[w] = "deleting" -> {NoCheckpoint}
      [] OTHER -> {IF handle[w] \in cut THEN Torn ELSE value[w]}

\* With one writer, save and delete are atomic: each takes effect at once, with
\* the checkpoint it was called with, or not at all.
Atomic == INSTANCE AtomicCheckpoint
    WITH stored <- Load, durable <- LoadFrom(fileOnDisk),
         pending <- [w \in Writers |-> Pending(w)]

ImplementsRegister == Atomic!Spec
=============================================================================

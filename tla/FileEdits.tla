------------------------------ MODULE FileEdits ------------------------------
(***************************************************************************)
(* Saving files and taking saves back: file.read and file.write            *)
(* (file_rpc.rs, retcon-filesystem/src/service.rs), the checkpoint around  *)
(* each save and its restore (checkpoints_rpc.rs, retcon-checkpoints), the *)
(* artifacts that hold the contents (retcon-storage/src/artifacts.rs) and  *)
(* their clean-up when the core stops (lifecycle.rs).  The handlers do not *)
(* await: connections are threads, and other programs write as well.       *)
(* The revision of a file is the digest of its content, and so is the name *)
(* of an artifact: both are modelled by the content.  No file is the copy  *)
(* of a support bundle, whose artifact delete_if_unreferenced may remove.  *)
(***************************************************************************)
EXTENDS Naturals, Sequences, FiniteSets

CONSTANTS
  Clients,      \* the connections
  Documents,    \* the files of the project
  Texts,        \* what a file may contain
  Absent,       \* no file, no client, no condition
  Folder,       \* what is at a path where a folder has been made
  Things,       \* what other programs leave at a path
  Patch,        \* the artifact of the difference to HEAD of a snapshot
  MaxRows,      \* bounds the checkpoints
  MaxWrites,    \* bounds the writes of other programs
  MaxRestarts   \* bounds the restarts of the core

ASSUME ThingsAssumption ==
  /\ Things \subseteq Texts \cup {Absent, Folder}
  /\ Absent \notin Texts \cup Clients /\ {Folder, Patch} \cap Texts = {}
  /\ Absent \notin {Folder, Patch}
ASSUME BoundsAssumption == MaxRows \in Nat /\ MaxWrites \in Nat /\ MaxRestarts \in Nat

VARIABLES
  tree,       \* what is at each path
  lock,       \* who holds the write lock of a path (WRITE_LOCKS)
  call,       \* what each connection is doing, and the file its editor shows
  rows,       \* git_checkpoints, each with its row of file_changes
  artifacts,  \* the files of the artifact store
  core,       \* what the core is doing
  kept,       \* the artifacts that the clean-up has found to be referenced
  writes, restarts

editVars == <<tree, lock, call, rows, artifacts, core, kept, writes, restarts>>

Hashes == Texts \cup {Patch}
NoHash == Absent

\* A checkpoint.  wrote is the content that its save put at the path, and late
\* says that its hashes were written after the clean-up had looked; no code
\* keeps either.
Row == [kind: {"pre-file-write", "snapshot"}, path: Documents \cup {Absent},
        changed: BOOLEAN, before: Texts \cup {NoHash}, after: Texts \cup {NoHash},
        patch: {Patch, NoHash}, wrote: Texts \cup {Absent}, late: BOOLEAN]

\* A connection.  path and named are the file in its editor and the revision that
\* it will name.  raced says that somebody whom the lock does not keep away has
\* written to the path since the call looked at it for the last time.
Call == [pc: {"idle", "capture", "lock", "publish", "replace", "reread", "change", "apply",
              "diff", "insert"},
         path: Documents \cup {Absent}, named: Texts \cup {Absent},
         text: Texts \cup {Absent},
         before: Texts \cup {NoHash}, row: 0..MaxRows,
         raced: BOOLEAN, force: BOOLEAN]

Fresh == [pc |-> "idle", path |-> Absent, named |-> Absent, text |-> Absent,
          before |-> NoHash, row |-> 0, raced |-> FALSE, force |-> FALSE]

EditTypeOK ==
  /\ tree \in [Documents -> Texts \cup {Absent, Folder}]
  /\ lock \in [Documents -> Clients \cup {Absent}]
  /\ call \in [Clients -> Call]
  /\ rows \in Seq(Row) /\ Len(rows) <= MaxRows
  /\ artifacts \in [Hashes -> {"missing", "young", "old"}]
  /\ core \in {"up", "stopping", "sweeping", "swept"}
  /\ kept \subseteq Hashes
  /\ writes \in 0..MaxWrites /\ restarts \in 0..MaxRestarts

EditInit ==
  /\ tree \in [Documents -> Texts \cup {Absent}]
  /\ lock = [p \in Documents |-> Absent]
  /\ call = [c \in Clients |-> Fresh]
  /\ rows = <<>>
  /\ artifacts = [h \in Hashes |-> "missing"]
  /\ core = "up"
  /\ kept = {}
  /\ writes = 0 /\ restarts = 0

Doing(c, pc) == call[c].pc = pc
Goto(c, pc) == call' = [call EXCEPT ![c].pc = pc]
RowIds == DOMAIN rows
IsFile(p) == tree[p] \in Texts
FileHash(p) == IF IsFile(p) THEN tree[p] ELSE NoHash
Untouched == UNCHANGED <<core, kept, writes, restarts>>

-----------------------------------------------------------------------------
(***************************************************************************)
(* The artifact store and the rows.                                        *)
(***************************************************************************)

\* store: content that is there already is left as it is, its age included.
Stored(h) ==
  IF h # NoHash /\ artifacts[h] = "missing" THEN [artifacts EXCEPT ![h] = "young"] ELSE artifacts

NewRow == [kind |-> "pre-file-write", path |-> Absent, changed |-> FALSE, before |-> NoHash,
           after |-> NoHash, patch |-> NoHash, wrote |-> Absent, late |-> FALSE]

\* Has the clean-up looked for references?
IsLate == core \in {"sweeping", "swept"}

\* Mutation of RowHashes: the contents before a save are forgotten.
AfterOnly(r) == {rows[r].after, rows[r].patch}

\* The hashes of a checkpoint and of its change.
RowHashes(r) == {rows[r].before, rows[r].after, rows[r].patch}

\* referenced_hashes, as far as git_checkpoints and file_changes go.
ReferencedHashes == (UNION {RowHashes(r) : r \in RowIds}) \ {NoHash}

-----------------------------------------------------------------------------
(***************************************************************************)
(* file.read and file.write.                                               *)
(***************************************************************************)

\* A client opens a file, or turns to a path where it will make one.
ReadFile(c, p) ==
  /\ Doing(c, "idle") /\ core = "up"
  /\ tree[p] # Folder
  /\ call' = [call EXCEPT ![c].path = p, ![c].named = tree[p]]
  /\ UNCHANGED <<tree, lock, rows, artifacts>> /\ Untouched

\* It saves: the revision it was given, or ifNoneMatch.
SaveFile(c, text) ==
  /\ Doing(c, "idle") /\ core = "up"
  /\ call[c].path # Absent
  /\ call' = [call EXCEPT ![c].pc = "capture", ![c].text = text]
  /\ UNCHANGED <<tree, lock, rows, artifacts>> /\ Untouched

\* begin_file_write: the content before the save, read without the lock, and the
\* checkpoint.
CaptureBefore(c) ==
  LET p == call[c].path
  IN /\ Doing(c, "capture")
     /\ Len(rows) < MaxRows
     /\ artifacts' = Stored(FileHash(p))
     /\ rows' = Append(rows, [NewRow EXCEPT !.path = p])
     /\ call' = [call EXCEPT ![c].pc = "lock", ![c].before = FileHash(p), ![c].row = Len(rows) + 1]
     /\ UNCHANGED <<tree, lock>> /\ Untouched

\* hook_file_write_begin: a save goes on without its checkpoint, which may have
\* stored its artifact.
SkipCheckpoint(c) ==
  /\ Doing(c, "capture")
  /\ artifacts' \in {artifacts, Stored(FileHash(call[c].path))}
  /\ call' = [call EXCEPT ![c].pc = "lock"]
  /\ UNCHANGED <<tree, lock, rows>> /\ Untouched

\* The connection is idle again, with the file in its editor.
Done(c) ==
  [call EXCEPT ![c] = [Fresh EXCEPT !.path = call[c].path, !.named = call[c].named]]

\* verify_write_condition; Absent is the condition of a creation.
Matches(c) == tree[call[c].path] = call[c].named

\* Mutation of LockIsFree: everybody has a lock of his own.
EveryLockIsFree(p) == TRUE

\* write_lock.
LockIsFree(p) == lock[p] = Absent

\* The lock, and a first look at the condition: a folder is refused as well.
LockFile(c) ==
  LET p == call[c].path
  IN /\ Doing(c, "lock") /\ LockIsFree(p)
     /\ IF Matches(c)
        THEN lock' = [lock EXCEPT ![p] = c] /\ Goto(c, "publish")
        ELSE UNCHANGED lock /\ call' = Done(c)
     /\ UNCHANGED <<tree, rows, artifacts>> /\ Untouched

Unlocked(p) == [lock EXCEPT ![p] = Absent]

\* The text is staged, and the condition looked at again.
CheckAgain(c) ==
  LET p == call[c].path
  IN /\ Doing(c, "publish")
     /\ IF Matches(c)
        THEN call' = [call EXCEPT ![c].pc = "replace", ![c].raced = FALSE] /\ UNCHANGED lock
        ELSE call' = Done(c) /\ lock' = Unlocked(p)
     /\ UNCHANGED <<tree, rows, artifacts>> /\ Untouched

\* atomic_replace renames over a file or nothing, hard_link only where nothing is.
CanPublish(c) ==
  LET found == tree[call[c].path]
  IN IF call[c].named = Absent THEN found = Absent ELSE found # Folder

\* Is a call between its last look at p and its write?
IsSaving(c, p) == Doing(c, "replace") /\ call[c].path = p
IsRestoring(c, p) == Doing(c, "apply") /\ rows[call[c].row].path = p

\* The calls, once somebody has written p: with the lock, or without.
RacedByLocked(p) == [c \in Clients |-> [call[c] EXCEPT !.raced = @ \/ IsRestoring(c, p)]]
Raced(p) == [c \in Clients |-> [call[c] EXCEPT !.raced = @ \/ IsRestoring(c, p) \/ IsSaving(c, p)]]

RenameOver(c) ==
  LET p == call[c].path
  IN /\ Doing(c, "replace")
     /\ IF CanPublish(c)
        THEN /\ tree' = [tree EXCEPT ![p] = call[c].text]
             /\ call' = [RacedByLocked(p) EXCEPT ![c] = [call[c] EXCEPT !.pc = "reread", !.raced = FALSE]]
             /\ UNCHANGED lock
        ELSE /\ call' = Done(c) /\ lock' = Unlocked(p)
             /\ UNCHANGED tree
     /\ UNCHANGED <<rows, artifacts>> /\ Untouched

\* The answer: size and revision of what is at the path by now; an error if there
\* is no file.  Then the lock is let go.
AnswerSave(c) ==
  LET p == call[c].path
  IN /\ Doing(c, "reread")
     /\ lock' = Unlocked(p)
     /\ call' = IF IsFile(p)
                THEN [call EXCEPT ![c].named = tree[p],
                        ![c].pc = IF call[c].row = 0 THEN "idle" ELSE "change"]
                ELSE Done(c)
     /\ UNCHANGED <<tree, rows, artifacts>> /\ Untouched

\* finish_file_write: what is at the path is taken for what the save has left.
RecordChange(c) ==
  LET p == call[c].path
  IN /\ Doing(c, "change")
     /\ artifacts' = Stored(FileHash(p))
     /\ rows' = [rows EXCEPT ![call[c].row] =
                   [@ EXCEPT !.changed = TRUE, !.before = call[c].before, !.after = FileHash(p),
                             !.wrote = call[c].text, !.late = IsLate]]
     /\ call' = Done(c)
     /\ UNCHANGED <<tree, lock>> /\ Untouched

\* hook_file_write_finish: the change is not recorded, the save has been made.
SkipChange(c) ==
  /\ Doing(c, "change")
  /\ call' = Done(c)
  /\ UNCHANGED <<tree, lock, rows, artifacts>> /\ Untouched

-----------------------------------------------------------------------------
(***************************************************************************)
(* Checkpoints.                                                            *)
(***************************************************************************)

\* create_git_snapshot, for a client that turns from its file, a turn that starts
\* or a change by git: the difference to HEAD is asked for,
TakeSnapshot(c) ==
  /\ Doing(c, "idle") /\ core = "up"
  /\ call' = [call EXCEPT ![c] = [Fresh EXCEPT !.pc = "diff"]]
  /\ UNCHANGED <<tree, lock, rows, artifacts>> /\ Untouched

\* and stored, if there is one;
StorePatch(c) ==
  /\ Doing(c, "diff")
  /\ artifacts' = Stored(Patch)
  /\ Goto(c, "insert")
  /\ UNCHANGED <<tree, lock, rows>> /\ Untouched

\* then the row is written, without changes of files.
InsertSnapshot(c) ==
  /\ Doing(c, "diff") \/ Doing(c, "insert")
  /\ Len(rows) < MaxRows
  /\ rows' = Append(rows, [NewRow EXCEPT !.kind = "snapshot", !.late = IsLate,
                             !.patch = IF Doing(c, "insert") THEN Patch ELSE NoHash])
  /\ call' = Done(c)
  /\ UNCHANGED <<tree, lock, artifacts>> /\ Untouched

\* Each of the three may fail, with the patch in the store or not.
SkipSnapshot(c) ==
  /\ Doing(c, "diff") \/ Doing(c, "insert")
  /\ call' = Done(c)
  /\ UNCHANGED <<tree, lock, rows, artifacts>> /\ Untouched

\* Mutation of Conflicts: files that a save has made are not compared.
ConflictsOfChanged(r) ==
  /\ IsFile(rows[r].path) /\ rows[r].before # NoHash
  /\ tree[rows[r].path] \notin {rows[r].before, rows[r].after}

\* preview_item: is there a file that the change does not know?
Conflicts(r) ==
  LET found == tree[rows[r].path]
  IN /\ IsFile(rows[r].path)
     /\ {rows[r].before, rows[r].after} # {NoHash}
     /\ found \notin {rows[r].before, rows[r].after}

Action(r) ==
  IF rows[r].before # NoHash THEN "restore" ELSE IF rows[r].after # NoHash THEN "delete" ELSE "skip"

\* checkpoint.restore of the path of a checkpoint, by a client that turns from its
\* file (another one may show it still), as far as the preview: conflicts are
\* refused unless the client insists.
PreviewRestore(c, r, force) ==
  /\ Doing(c, "idle") /\ core = "up"
  /\ rows[r].changed /\ Action(r) # "skip"
  /\ force \/ ~Conflicts(r)
  /\ call' = [call EXCEPT ![c] = [Fresh EXCEPT !.pc = "apply", !.row = r, !.force = force]]
  /\ UNCHANGED <<tree, lock, rows, artifacts>> /\ Untouched

Restored(r) == IF Action(r) = "delete" THEN Absent ELSE rows[r].before

\* restore_item, without the lock and without another look.
RestoreItem(c) ==
  LET r == call[c].row
      p == rows[r].path
  IN /\ Doing(c, "apply")
     /\ Action(r) = "restore" => artifacts[rows[r].before] # "missing" /\ tree[p] # Folder
     /\ tree' = [tree EXCEPT ![p] = Restored(r)]
     /\ call' = [Raced(p) EXCEPT ![c] = Done(c)[c]]
     /\ UNCHANGED <<lock, rows, artifacts>> /\ Untouched

\* It fails if the artifact is missing, or a folder is where the file should be.
RestoreFails(c) ==
  LET r == call[c].row
  IN /\ Doing(c, "apply")
     /\ Action(r) = "restore" /\ (artifacts[rows[r].before] = "missing" \/ tree[rows[r].path] = Folder)
     /\ call' = Done(c)
     /\ UNCHANGED <<tree, lock, rows, artifacts>> /\ Untouched

-----------------------------------------------------------------------------
(***************************************************************************)
(* Other programs, time, and the end of the core.                          *)
(***************************************************************************)

\* Another program writes, removes or replaces a file (external).
WriteOutside(p, thing) ==
  /\ writes < MaxWrites /\ thing # tree[p]
  /\ writes' = writes + 1
  /\ tree' = [tree EXCEPT ![p] = thing]
  /\ call' = Raced(p)
  /\ UNCHANGED <<lock, rows, artifacts, core, kept, restarts>>

\* A month goes by: no handler takes that long.
MonthPasses ==
  /\ \A c \in Clients : Doing(c, "idle")
  /\ artifacts' = [h \in Hashes |-> IF artifacts[h] = "young" THEN "old" ELSE artifacts[h]]
  /\ UNCHANGED <<tree, lock, call, rows>> /\ Untouched

\* CoreLifecycle::shutdown, up to the clean-up: no call is taken any more, those
\* at work go on.
RequestShutdown ==
  /\ core = "up" /\ restarts < MaxRestarts
  /\ core' = "stopping"
  /\ UNCHANGED <<tree, lock, call, rows, artifacts, kept, writes, restarts>>

\* cleanup_referenced: first the references,
FindReferences ==
  /\ core = "stopping"
  /\ core' = "sweeping"
  /\ kept' = ReferencedHashes
  /\ UNCHANGED <<tree, lock, call, rows, artifacts, writes, restarts>>

\* then cleanup: old artifacts that are not referenced are removed.
SweepArtifacts ==
  /\ core = "sweeping"
  /\ core' = "swept"
  /\ artifacts' = [h \in Hashes |-> IF artifacts[h] = "old" /\ h \notin kept
                                    THEN "missing" ELSE artifacts[h]]
  /\ UNCHANGED <<tree, lock, call, rows, kept, writes, restarts>>

\* The process ends, after a shutdown or killed at any time, and is started
\* again: rows, artifacts and files are there as they were left.
Restart ==
  /\ restarts < MaxRestarts
  /\ restarts' = restarts + 1
  /\ core' = "up" /\ kept' = {}
  /\ lock' = [p \in Documents |-> Absent]
  /\ call' = [c \in Clients |-> Fresh]
  /\ UNCHANGED <<tree, rows, artifacts, writes>>

-----------------------------------------------------------------------------
Step(c) ==
  \/ CaptureBefore(c) \/ SkipCheckpoint(c)
  \/ LockFile(c) \/ CheckAgain(c) \/ RenameOver(c) \/ AnswerSave(c)
  \/ RecordChange(c) \/ SkipChange(c)
  \/ RestoreItem(c) \/ RestoreFails(c)
  \/ TakeSnapshot(c) \/ StorePatch(c) \/ InsertSnapshot(c) \/ SkipSnapshot(c)

EditNext ==
  \/ \E c \in Clients : Step(c)
  \/ \E c \in Clients, p \in Documents : ReadFile(c, p)
  \/ \E c \in Clients, text \in Texts : SaveFile(c, text)
  \/ \E c \in Clients, r \in RowIds, force \in BOOLEAN : PreviewRestore(c, r, force)
  \/ \E p \in Documents, thing \in Things : WriteOutside(p, thing)
  \/ MonthPasses \/ RequestShutdown \/ FindReferences \/ SweepArtifacts \/ Restart

EditSpec == EditInit /\ [][EditNext]_editVars

-----------------------------------------------------------------------------
(***************************************************************************)
(* Properties.                                                             *)
(***************************************************************************)

Saves(c) == Doing(c, "replace") /\ call'[c].pc = "reread"

\* "A stale writer never mutates the destination" (FileService::write), for all
\* that take the lock: a save replaces the content whose revision it names,
\* unless a program that takes no lock, or a restore, wrote between the last look
\* at the condition and the rename.  A save that makes a file has no such excuse:
\* it never overwrites (hard_link in FileService::write).
SavesReplaceWhatTheyName ==
  [][\A c \in Clients : Saves(c) =>
       \/ tree[call[c].path] = call[c].named
       \/ call[c].named # Absent /\ call[c].raced]_editVars

\* Work that a change does not know is not rolled back unless the client insists:
\* a restore finds what its change recorded before or after the save, or nothing,
\* or what was written since its preview (restore_selective).
RestoresSpareOtherWork ==
  [][\A c \in Clients : Doing(c, "apply") /\ ~call[c].force =>
       LET r == call[c].row
       IN tree' # tree /\ call'[c].pc = "idle" =>
            \/ tree[rows[r].path] \in {rows[r].before, rows[r].after, Absent, Folder}
            \/ call[c].raced]_editVars


\* What a checkpoint needs stays in the store over shutdowns, kills and months;
\* only a save or a snapshot that was still at work when the clean-up had looked
\* may lose it, for its row comes after the content (cleanup_referenced,
\* ArtifactStore::store, create_git_snapshot).
CheckpointsKeepTheirArtifacts ==
  \A r \in RowIds : \A h \in {rows[r].before, rows[r].after, rows[r].patch} \ {NoHash} :
    artifacts[h] = "missing" => rows[r].late

=============================================================================

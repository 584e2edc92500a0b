----------------------------- MODULE CoreStorage -----------------------------
(***************************************************************************)
(* The start and the end of a core, the database file it serves, and the   *)
(* recovery tools that work on the same folder (retcon-core/src/           *)
(* lifecycle.rs, retcon-storage/src/{database, storage, recovery}.rs).     *)
(*                                                                         *)
(* A core takes core.lock, removes what the last core left behind, opens   *)
(* the database, migrates and checks it, interrupts the work of the last   *)
(* core and publishes core.json.  A tool (retcon-core --storage-recover,   *)
(* or storage.recover inside a core) takes no lock.  Every statement or    *)
(* transaction of SQLite is one step, as is every call of the file system. *)
(***************************************************************************)
EXTENDS Integers, FiniteSets

CONSTANTS
  Cores, Tools,     \* the processes
  Rows,             \* the pieces of work that the database holds
  Latest,           \* LATEST_VERSION
  Rebuild,          \* the migration that rebuilds the tables (version 4)
  MaxFiles,         \* bounds the files that exist, or are held open, at once
  Seconds,          \* the seconds that name a file: those of two calls may be the same
  OpenFilesMove,    \* may a file that is open be renamed? (not on Windows)
  Nobody            \* no process

ASSUME VersionAssumption == Latest \in Nat /\ Rebuild \in 1..Latest
ASSUME BoundAssumption == MaxFiles \in Nat \ {0}
ASSUME ProcessAssumption == Nobody \notin Cores \cup Tools /\ Cores \cap Tools = {}

VARIABLES
  files,     \* the files: [Files -> contents]
  named,     \* the names of the folder: [Names -> file, or 0]
  folder,    \* does the folder of the backups exist?
  corelock,  \* who holds core.lock
  core_json, \* whom core.json names
  proc       \* the processes

storageVars == <<files, named, folder, corelock, core_json, proc>>

Files == 1..MaxFiles
Main == <<"retcon.db">>
Aside(second) == <<"corrupt", second>>
Backup(second) == <<"backup", second>>
Names == {Main} \cup {Aside(s) : s \in Seconds} \cup {Backup(s) : s \in Seconds}

\* What user_version says, which migrations the tables have seen, the work, and
\* damage: in the indexes only (REINDEX mends it, and quick_check does not see
\* it), or in the pages (quick_check rejects it, unless the open or a migration has
\* failed before).
FileContents ==
  [version: 0..Latest, schema: 0..Latest, damage: {"none", "indexes", "pages"},
   rows: [Rows -> {"none", "busy", "done", "interrupted"}]]
Empty == [version |-> 0, schema |-> 0, rows |-> [r \in Rows |-> "none"], damage |-> "none"]

Actions == {"report", "backup", "repair", "reset"}

\* pc: where it is; goal: what it opens the database for; seen: the version it
\* has read; file: what it holds open; work: the rows that are its own.
Process == [pc: {"off", "locked", "open", "migrate", "opened",
                 "recovered", "serving", "removed", "released", "copy", "rename"},
            goal: {"none", "serve", "probe", "fresh", "inspect"} \cup Actions,
            seen: 0..Latest, file: 0..MaxFiles, work: SUBSET Rows]
Off == [pc |-> "off", goal |-> "none", seen |-> 0, file |-> 0, work |-> {}]

StorageTypeOK ==
  /\ files \in [Files -> FileContents]
  /\ named \in [Names -> 0..MaxFiles]
  /\ folder \in BOOLEAN
  /\ corelock \in Cores \cup {Nobody}
  /\ core_json \in Cores \cup {Nobody}
  /\ proc \in [Cores \cup Tools -> Process]

\* There is no database yet, or one that an earlier version has left, perhaps with
\* work that was cut short.
StorageInit ==
  /\ \/ /\ named = [n \in Names |-> 0]
        /\ files = [f \in Files |-> Empty]
     \/ /\ named = [n \in Names |-> IF n = Main THEN 1 ELSE 0]
        /\ \E v \in 1..Latest, rows \in [Rows -> {"none", "busy"}] :
             files = [f \in Files |-> IF f = 1 THEN [Empty EXCEPT !.version = v, !.schema = v,
                                                                 !.rows = rows]
                                     ELSE Empty]
  /\ folder = FALSE
  /\ corelock = Nobody
  /\ core_json = Nobody
  /\ proc = [p \in Cores \cup Tools |-> Off]

-----------------------------------------------------------------------------
(***************************************************************************)
(* Processes.                                                              *)
(***************************************************************************)

At(p, pc) == proc[p].pc = pc
Wants(p, pc, goal) == proc[p].pc = pc /\ proc[p].goal = goal
Goes(p, pc) == [proc EXCEPT ![p].pc = pc]
Opens(p, goal) == [proc EXCEPT ![p].pc = "open", ![p].goal = goal]

\* How a process ends: its file is closed and its lock is free.
Ends(p) ==
  /\ proc' = [proc EXCEPT ![p] = Off]
  /\ corelock' = IF corelock = p THEN Nobody ELSE corelock
  /\ UNCHANGED <<files, named, folder, core_json>>

\* An error: a core does not start and a tool gives up, but for the backup, which
\* only asks whether the file can be opened.
Fails(p) ==
  IF proc[p].goal = "probe"
  THEN /\ proc' = [proc EXCEPT ![p].pc = "copy", ![p].file = 0, ![p].seen = 0]
       /\ UNCHANGED <<files, named, folder, corelock, core_json>>
  ELSE Ends(p)

-----------------------------------------------------------------------------
(***************************************************************************)
(* Database::open.                                                         *)
(***************************************************************************)

Held == {proc[p].file : p \in Cores \cup Tools} \ {0}
Unused == {f \in Files : f \notin Held /\ \A n \in Names : named[n] # f}
NextFile == CHOOSE f \in Unused : TRUE

\* inspect_path and the backup look whether there is a file; the others make one.
\* The version is read once, before and outside the transactions that migrate.
OpenFile(p) ==
  /\ At(p, "open")
  /\ \/ /\ named[Main] # 0
        /\ proc' = [proc EXCEPT ![p].pc = "migrate", ![p].file = named[Main],
                                  ![p].seen = files[named[Main]].version]
        /\ UNCHANGED <<files, named>>
     \/ /\ named[Main] = 0 /\ proc[p].goal \notin {"report", "inspect", "probe"} /\ Unused # {}
        /\ named' = [named EXCEPT ![Main] = NextFile]
        /\ files' = [files EXCEPT ![NextFile] = Empty]
        /\ proc' = [proc EXCEPT ![p].pc = "migrate", ![p].file = NextFile]
  /\ UNCHANGED <<folder, corelock, core_json>>

OpenFails(p) ==
  /\ At(p, "open") /\ named[Main] # 0 /\ files[named[Main]].damage = "pages"
  /\ Fails(p)

\* There is nothing to report, to inspect or to back up.
NothingThere(p) ==
  /\ At(p, "open") /\ named[Main] = 0 /\ proc[p].goal \in {"report", "inspect", "probe"}
  /\ Ends(p)

\* Mutation of Applies: migrations that can be repeated (IF NOT EXISTS).
AppliesAgain(contents, migration) == contents.schema >= migration - 1

\* A migration that the tables have seen creates what is there already, and fails;
\* the rebuild (migrate_uuid_columns) makes whatever tables there are again, those
\* of later migrations too, as long as it has no identifiers to convert, which are
\* not the text that it expects any more.
Applies(contents, migration) ==
  \/ contents.schema = migration - 1
  \/ /\ migration = Rebuild /\ contents.schema >= Rebuild
     /\ \A r \in Rows : contents.rows[r] = "none"

\* One migration and its version are one transaction; a rebuild that is repeated
\* writes its version over that of the later migrations.
Migrate(p) ==
  LET f == proc[p].file  m == proc[p].seen + 1  IN
  /\ At(p, "migrate") /\ m <= Latest
  /\ Applies(files[f], m)
  /\ files' = [files EXCEPT ![f].version = m, ![f].schema = IF @ < m THEN m ELSE @]
  /\ proc' = [proc EXCEPT ![p].seen = m]
  /\ UNCHANGED <<named, folder, corelock, core_json>>

MigrationFails(p) ==
  LET f == proc[p].file  m == proc[p].seen + 1  IN
  /\ At(p, "migrate") /\ m <= Latest
  /\ ~Applies(files[f], m) \/ files[f].damage = "pages"
  /\ Fails(p)

QuickCheck(p) ==
  /\ At(p, "migrate") /\ proc[p].seen = Latest /\ files[proc[p].file].damage # "pages"
  /\ proc' = [proc EXCEPT ![p].pc = "opened", ![p].seen = 0]
  /\ UNCHANGED <<files, named, folder, corelock, core_json>>

QuickCheckFails(p) ==
  /\ At(p, "migrate") /\ proc[p].seen = Latest /\ files[proc[p].file].damage = "pages"
  /\ Fails(p)

OpenStep(p) ==
  \/ OpenFile(p) \/ OpenFails(p) \/ NothingThere(p)
  \/ Migrate(p) \/ MigrationFails(p) \/ QuickCheck(p) \/ QuickCheckFails(p)

-----------------------------------------------------------------------------
(***************************************************************************)
(* A core.                                                                 *)
(***************************************************************************)

\* Mutation of StartCore: the lock is opened but not taken.
StartUnlocked(c) ==
  /\ At(c, "off")
  /\ proc' = [proc EXCEPT ![c].pc = "locked", ![c].goal = "serve"]
  /\ corelock' = c
  /\ UNCHANGED <<files, named, folder, core_json>>

\* InstanceLock::acquire; when it is taken, the process ends with AlreadyRunning.
StartCore(c) ==
  /\ At(c, "off") /\ corelock = Nobody
  /\ proc' = [proc EXCEPT ![c].pc = "locked", ![c].goal = "serve"]
  /\ corelock' = c
  /\ UNCHANGED <<files, named, folder, core_json>>

RemoveStaleDiscovery(c) ==
  /\ At(c, "locked")
  /\ core_json' = Nobody
  /\ proc' = Opens(c, "serve")
  /\ UNCHANGED <<files, named, folder, corelock>>

\* recover_interrupted, one transaction over every table.
RecoverInterrupted(c) ==
  /\ Wants(c, "opened", "serve")
  /\ files' = [files EXCEPT ![proc[c].file].rows =
                [r \in Rows |-> IF @[r] = "busy" THEN "interrupted" ELSE @[r]]]
  /\ proc' = Goes(c, "recovered")
  /\ UNCHANGED <<named, folder, corelock, core_json>>

\* The endpoint is bound, core.json written aside and renamed into place.
WriteDiscovery(c) ==
  /\ At(c, "recovered")
  /\ core_json' = c
  /\ proc' = Goes(c, "serving")
  /\ UNCHANGED <<files, named, folder, corelock>>

\* The core's handlers start a piece of work and finish it.
BeginWork(c, r) ==
  /\ At(c, "serving") /\ files[proc[c].file].rows[r] = "none"
  /\ files' = [files EXCEPT ![proc[c].file].rows[r] = "busy"]
  /\ proc' = [proc EXCEPT ![c].work = @ \cup {r}]
  /\ UNCHANGED <<named, folder, corelock, core_json>>

FinishWork(c, r) ==
  /\ At(c, "serving") /\ r \in proc[c].work
  /\ files' = [files EXCEPT ![proc[c].file].rows[r] = "done"]
  /\ proc' = [proc EXCEPT ![c].work = @ \ {r}]
  /\ UNCHANGED <<named, folder, corelock, core_json>>

\* CoreRuntime::shutdown: core.json is removed first, the lock is released next,
\* and the process ends when its handles are dropped.
StopServing(c) ==
  /\ At(c, "serving")
  /\ core_json' = Nobody
  /\ proc' = [proc EXCEPT ![c].pc = "removed", ![c].work = {}]
  /\ UNCHANGED <<files, named, folder, corelock>>

ReleaseLock(c) ==
  /\ At(c, "removed")
  /\ corelock' = Nobody
  /\ proc' = Goes(c, "released")
  /\ UNCHANGED <<files, named, folder, core_json>>

\* Mutation of ExitCore: core.json is removed at the end instead.
ExitCleaning(c) ==
  /\ At(c, "released")
  /\ core_json' = Nobody
  /\ proc' = [proc EXCEPT ![c] = Off]
  /\ UNCHANGED <<files, named, folder, corelock>>

ExitCore(c) ==
  /\ At(c, "released")
  /\ Ends(c)

CoreStep(c) ==
  \/ StartCore(c) \/ RemoveStaleDiscovery(c) \/ RecoverInterrupted(c) \/ WriteDiscovery(c)
  \/ \E r \in Rows : BeginWork(c, r) \/ FinishWork(c, r)
  \/ StopServing(c) \/ ReleaseLock(c) \/ ExitCore(c)

-----------------------------------------------------------------------------
(***************************************************************************)
(* The tools: recover_at_path.                                             *)
(***************************************************************************)

StartTool(u, action) ==
  /\ At(u, "off")
  /\ proc' = IF action = "reset" THEN [proc EXCEPT ![u].pc = "rename", ![u].goal = action]
             ELSE Opens(u, IF action = "backup" THEN "probe" ELSE action)
  /\ UNCHANGED <<files, named, folder, corelock, core_json>>

\* The probe of a backup has succeeded: its handle is dropped and the file opened
\* once more.
OpenAgain(u) ==
  /\ Wants(u, "opened", "probe")
  /\ proc' = [proc EXCEPT ![u].pc = "open", ![u].goal = "backup", ![u].file = 0]
  /\ UNCHANGED <<files, named, folder, corelock, core_json>>

\* VACUUM INTO, which never writes over a file, and mends indexes on its way.
VacuumInto(u, second) ==
  /\ Wants(u, "opened", "backup") /\ named[Backup(second)] = 0 /\ Unused # {}
  /\ folder' = TRUE
  /\ named' = [named EXCEPT ![Backup(second)] = NextFile]
  /\ files' = [files EXCEPT ![NextFile] = [files[proc[u].file] EXCEPT !.damage = "none"]]
  /\ proc' = Opens(u, "inspect")
  /\ UNCHANGED <<corelock, core_json>>

BackupExists(u, second) ==
  /\ Wants(u, "opened", "backup") /\ named[Backup(second)] # 0
  /\ Fails(u)

\* The raw copy of a file that cannot be opened; it goes over a file of the same
\* second, and nothing creates the folder.
CopyRaw(u, second) ==
  /\ At(u, "copy") /\ named[Main] # 0 /\ folder
  /\ LET f == IF named[Backup(second)] # 0 THEN named[Backup(second)] ELSE NextFile IN
       /\ named[Backup(second)] # 0 \/ Unused # {}
       /\ named' = [named EXCEPT ![Backup(second)] = f]
       /\ files' = [files EXCEPT ![f] = files[named[Main]]]
  /\ proc' = Opens(u, "inspect")
  /\ UNCHANGED <<folder, corelock, core_json>>

CopyFails(u) ==
  /\ At(u, "copy")
  /\ named[Main] = 0 \/ ~folder
  /\ Ends(u)

Reindex(u) ==
  /\ Wants(u, "opened", "repair")
  /\ files' = [files EXCEPT ![proc[u].file].damage = "none"]
  /\ proc' = [proc EXCEPT ![u] = Off]
  /\ UNCHANGED <<named, folder, corelock, core_json>>

\* The damaged file is renamed to retcon.db.corrupt-<second>, over a file of that
\* name, and a fresh database is opened in its place.
MoveAside(u, second) ==
  LET replaced == IF named[Main] = 0 THEN 0 ELSE named[Aside(second)]  IN
  /\ At(u, "rename")
  /\ named[Main] \in Held => OpenFilesMove
  /\ named' = IF named[Main] = 0 THEN named
              ELSE [named EXCEPT ![Main] = 0, ![Aside(second)] = named[Main]]
  /\ files' = [f \in Files |-> IF f = replaced /\ f \notin Held THEN Empty ELSE files[f]]
  /\ proc' = Opens(u, "fresh")
  /\ UNCHANGED <<folder, corelock, core_json>>

MoveFails(u) ==
  /\ At(u, "rename") /\ named[Main] \in Held /\ ~OpenFilesMove
  /\ Ends(u)

InspectFresh(u) ==
  /\ Wants(u, "opened", "fresh")
  /\ proc' = Opens(u, "inspect")
  /\ UNCHANGED <<files, named, folder, corelock, core_json>>

\* The integrity is reported, and the tool ends.
Inspected(u) ==
  /\ Wants(u, "opened", "report") \/ Wants(u, "opened", "inspect")
  /\ Ends(u)

ToolStep(u) ==
  \/ \E action \in Actions : StartTool(u, action)
  \/ \E second \in Seconds : \/ VacuumInto(u, second) \/ BackupExists(u, second)
                              \/ CopyRaw(u, second) \/ MoveAside(u, second)
  \/ OpenAgain(u) \/ CopyFails(u) \/ Reindex(u) \/ MoveFails(u) \/ InspectFresh(u) \/ Inspected(u)

-----------------------------------------------------------------------------
(***************************************************************************)
(* The surroundings, and the whole.                                        *)
(***************************************************************************)

\* A process is killed between two steps: transactions are all or nothing.
KillProcess(p) ==
  /\ proc[p].pc # "off"
  /\ Ends(p)

\* The database is damaged while nobody has it open (one file at a time).
DamageFile(damage) ==
  /\ named[Main] # 0 /\ named[Main] \notin Held
  /\ \A f \in Files : files[f].damage = "none"
  /\ files' = [files EXCEPT ![named[Main]].damage = damage]
  /\ UNCHANGED <<named, folder, corelock, core_json, proc>>

StorageNext ==
  \/ \E c \in Cores : CoreStep(c)
  \/ \E u \in Tools : ToolStep(u)
  \/ \E p \in Cores \cup Tools : OpenStep(p) \/ KillProcess(p)
  \/ \E damage \in {"indexes", "pages"} : DamageFile(damage)

StorageSpec == StorageInit /\ [][StorageNext]_storageVars

-----------------------------------------------------------------------------
(***************************************************************************)
(* Properties.                                                             *)
(***************************************************************************)

\* What a serving core has begun and not finished is under way in the database
\* that is found under its name: nobody interrupts it, as a second core would in
\* its startup recovery, and nobody moves it away, although the tools take no lock
\* (CoreRuntime::start, recover_interrupted, recover_at_path).
ServingWorkIsKept ==
  \A c \in Cores : At(c, "serving") =>
    /\ proc[c].file = named[Main]
    /\ \A r \in proc[c].work : files[named[Main]].rows[r] = "busy"

\* A core that serves can be found: core.json names it, whenever cores stop, are
\* killed and start beside it; remove_stale_discovery and shutdown only remove the
\* file under the lock.
DiscoveryNamesTheServingCore ==
  \A c \in Cores : At(c, "serving") => core_json = c

\* A version claims no migration that the tables have not seen, and a core serves
\* tables that have seen all of them, although apply_migrations reads the version
\* before its transactions and other processes migrate the same file in between.
\* A version is behind the tables for the rebuild only, which a second process has
\* repeated.
VersionsNeverRunAhead ==
  /\ \A n \in Names : named[n] # 0 =>
       LET found == files[named[n]]
       IN \/ found.version = found.schema
          \/ found.version = Rebuild /\ found.schema > Rebuild
  /\ \A c \in Cores : At(c, "serving") => files[proc[c].file].schema = Latest

\* "Apply all pending migrations" (Database::open): the version says what is
\* pending, which is what the next start of a core relies on (apply_migrations).
VersionsNameTheSchema ==
  \A n \in Names : named[n] # 0 => files[named[n]].version = files[named[n]].schema

\* "Move the damaged database aside" (storage.rs:22): what was in the database is
\* still in some file of the folder.
MovedAsideIsKept ==
  [][\A r \in Rows :
       (\E n \in Names : named[n] # 0 /\ files[named[n]].rows[r] # "none") =>
       (\E n \in Names : named'[n] # 0 /\ files'[named'[n]].rows[r] # "none")]_storageVars

=============================================================================

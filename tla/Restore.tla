------------------------------ MODULE Restore ------------------------------
(***************************************************************************)
(* Instance restore: RestoreService.restore, the process-local maintenance *)
(* lock, and the requests that go on arriving while it runs.  A restore    *)
(* replaces the database with pg_restore and the uploads one file at a     *)
(* time, and keeps a dump and a copy to go back to when a step fails.      *)
(*                                                                         *)
(* Each action is the code between two awaits.  A command that fails may   *)
(* leave its target partly changed.  Settings are reduced to               *)
(* maintenance_mode, the one the restore itself writes.                    *)
(***************************************************************************)
EXTENDS Naturals, FiniteSets, Sequences

CONSTANTS
  Restores,       \* restore requests that can be in progress together
  Clients,        \* other requests; each writes a row, a file or a session
  Urls,           \* urls of data requests, as sequences of segments
  LiveDb,         \* the database at the start
  LiveFiles,      \* the uploads at the start
  ArchiveDb,      \* database.dump of the backup
  ArchiveFiles,   \* uploads/ of the backup
  MaxRestores,    \* bound on the restores of a behaviour
  EnvMaintenance  \* KUON_SETTING_MAINTENANCE_MODE: "unset", "on" or "off"

VARIABLES
  db,        \* rows, sessions, maintenance_mode, migrations applied
  uploads,   \* keys in the file storage
  locked,    \* RuntimeMaintenanceService.locked
  cache,     \* maintenanceMode in the ServerSettingsService cache
  job,       \* the local variables of every restore and where it is
  request,   \* the url of a request the gate admitted, or its fate
  outcome,   \* how the last restore of each slot ended
  before,    \* database, uploads and cache when that restore began
  begun      \* how many restores have begun

vars == <<db, uploads, locked, cache, job, request, outcome, before, begun>>

Rows == LiveDb.rows \cup ArchiveDb.rows \cup Clients
Sessions == LiveDb.sessions \cup ArchiveDb.sessions \cup Clients
Files == LiveFiles \cup ArchiveFiles \cup Clients
Modes == {"on", "off"}

Databases == [rows : SUBSET Rows, sessions : SUBSET Sessions,
              maintenance : Modes, migrated : BOOLEAN]

ReplacePCs == {"pgRestore", "migrate", "listKeys", "deleteKeys", "putFiles",
               "endSessions", "reload", "maintenanceOff"}
RollbackPCs == {"rollbackList", "rollbackDelete", "rollbackPut",
                "rollbackDatabase", "rollbackReload"}
PCs == {"idle", "validate", "copyUploads", "lock", "dump", "finally"}
         \cup ReplacePCs \cup RollbackPCs

Jobs == [pc : PCs, dbStarted : BOOLEAN, uploadsStarted : BOOLEAN,
         dump : Databases, files : SUBSET Files, keys : SUBSET Files,
         error : BOOLEAN, fault : BOOLEAN, rollbackFault : BOOLEAN]

NoJob == [pc |-> "idle", dbStarted |-> FALSE, uploadsStarted |-> FALSE,
          dump |-> LiveDb, files |-> {}, keys |-> {},
          error |-> FALSE, fault |-> FALSE, rollbackFault |-> FALSE]

Outcomes == {"none", "ok", "failed", "rollbackFailed"}

ASSUME ArchiveAssumption ==
  /\ LiveDb \in Databases /\ ArchiveDb \in Databases
  /\ LiveDb.rows \cap (ArchiveDb.rows \cup Clients) = {}
  /\ ArchiveDb.rows \cap Clients = {}
  /\ LiveDb.sessions \cap (ArchiveDb.sessions \cup Clients) = {}
  /\ ArchiveDb.sessions \cap Clients = {}
  /\ LiveFiles \cap (ArchiveFiles \cup Clients) = {}
  /\ ArchiveFiles \cap Clients = {}
  /\ EnvMaintenance \in {"unset"} \cup Modes
  /\ \A u \in Urls : u # <<>>
  /\ MaxRestores \in Nat

(* Mutant of Effective: no fallback to the database's value.               *)
EffectiveRaw(mode) == EnvMaintenance

(* initialize: an environment value wins over the database.                *)
Effective(mode) == IF EnvMaintenance = "unset" THEN mode ELSE EnvMaintenance

Init ==
  /\ db = LiveDb
  /\ uploads = LiveFiles
  /\ locked = FALSE
  /\ cache = Effective(LiveDb.maintenance)
  /\ job = [r \in Restores |-> NoJob]
  /\ request = [c \in Clients |-> <<>>]
  /\ outcome = [r \in Restores |-> "none"]
  /\ before = [r \in Restores |-> [db |-> LiveDb, uploads |-> LiveFiles, cache |-> cache]]
  /\ begun = 0

-----------------------------------------------------------------------------
(* Requests.  app.use(mount, gate) hands the gate the path below the mount, *)
(* and the gate looks there for /api, /uploads, /share or /auth.           *)
PathBelowMount(url) == Tail(url)

GateBlocks(url) ==
  LET path == PathBelowMount(url) IN
    locked /\ path # <<>> /\ Head(path) \in {"api", "uploads", "share", "auth"}

(* The gate lets a request through once; nothing later drains it.          *)
Admit(c, url) ==
  /\ request[c] = <<>>
  /\ ~GateBlocks(url)
  /\ request' = [request EXCEPT ![c] = url]
  /\ UNCHANGED <<db, uploads, locked, cache, job, outcome, before, begun>>

(* An upload stores its file, then the row that names it.                  *)
PerformWrite(c) ==
  /\ request[c] \in Urls
  /\ db' = [db EXCEPT !.rows = @ \cup {c}]
  /\ uploads' = uploads \cup {c}
  /\ request' = [request EXCEPT ![c] = <<"done">>]
  /\ UNCHANGED <<locked, cache, job, outcome, before, begun>>

PerformLogin(c) ==
  /\ request[c] \in Urls
  /\ db' = [db EXCEPT !.sessions = @ \cup {c}]
  /\ request' = [request EXCEPT ![c] = <<"done">>]
  /\ UNCHANGED <<uploads, locked, cache, job, outcome, before, begun>>

-----------------------------------------------------------------------------
(* The restore. *)

At(r, pc) == job[r].pc = pc

Goto(r, pc) == job' = [job EXCEPT ![r].pc = pc]

(* Mutant of CatchPC: the catch block forgets the uploads.                 *)
CatchDatabaseOnly(j) == IF j.dbStarted THEN "rollbackDatabase" ELSE "finally"

(* catch: the uploads go back first, then the database, then finally.      *)
CatchPC(j) == IF j.uploadsStarted THEN "rollbackList"
              ELSE IF j.dbStarted THEN "rollbackDatabase"
              ELSE "finally"

(* A step throws on its own account. *)
Throw(r) ==
  job' = [job EXCEPT ![r].pc = CatchPC(job[r]), ![r].error = TRUE]

(* A step throws because a command or a query it waits for failed.         *)
ThrowFault(r) ==
  job' = [job EXCEPT ![r].pc = CatchPC(job[r]), ![r].error = TRUE,
                     ![r].fault = TRUE]

(* isLocked, then the work directory: where that cannot be made the request *)
(* fails before the try, and nothing has changed.                          *)
Begin(r) ==
  /\ At(r, "idle") /\ ~locked /\ begun < MaxRestores
  /\ job' = [job EXCEPT ![r] = [NoJob EXCEPT !.pc = "validate"]]
  /\ outcome' = [outcome EXCEPT ![r] = "none"]
  /\ before' = [before EXCEPT ![r] = [db |-> db, uploads |-> uploads, cache |-> cache]]
  /\ begun' = begun + 1
  /\ UNCHANGED <<db, uploads, locked, cache, request>>

Validate(r) ==
  /\ At(r, "validate")
  /\ Goto(r, "copyUploads")
  /\ UNCHANGED <<db, uploads, locked, cache, request, outcome, before, begun>>

(* materializeStorage: the safety copy of the uploads. *)
CopyUploads(r) ==
  /\ At(r, "copyUploads")
  /\ job' = [job EXCEPT ![r].pc = "lock", ![r].files = uploads]
  /\ UNCHANGED <<db, uploads, locked, cache, request, outcome, before, begun>>

(* runtimeMaintenanceService.lock throws when the lock is taken.           *)
Lock(r) ==
  /\ At(r, "lock")
  /\ IF locked THEN Throw(r) ELSE Goto(r, "dump")
  /\ locked' = TRUE
  /\ UNCHANGED <<db, uploads, cache, request, outcome, before, begun>>

(* pg_dump, then databaseRestoreStarted = true. *)
Dump(r) ==
  /\ At(r, "dump")
  /\ job' = [job EXCEPT ![r].pc = "pgRestore", ![r].dump = db,
                        ![r].dbStarted = TRUE]
  /\ UNCHANGED <<db, uploads, locked, cache, request, outcome, before, begun>>

(* Rows are those of the tables the archive names: --clean drops no others, *)
(* so a table that a later migration made stays as it is.                  *)
PgRestore(r) ==
  /\ At(r, "pgRestore")
  /\ db' = ArchiveDb
  /\ Goto(r, "migrate")
  /\ UNCHANGED <<uploads, locked, cache, request, outcome, before, begun>>

(* runMigrations, then uploadsRestoreStarted = true. *)
Migrate(r) ==
  /\ At(r, "migrate")
  /\ db' = [db EXCEPT !.migrated = TRUE]
  /\ job' = [job EXCEPT ![r].pc = "listKeys", ![r].uploadsStarted = TRUE]
  /\ UNCHANGED <<uploads, locked, cache, request, outcome, before, begun>>

(* Mutant of ListKeys: the uploads are not cleared before the backup's.    *)
ListNoKeys(r) ==
  /\ At(r, "listKeys")
  /\ job' = [job EXCEPT ![r].pc = "deleteKeys", ![r].keys = {}]
  /\ UNCHANGED <<db, uploads, locked, cache, request, outcome, before, begun>>

(* clearStorage lists every key and then deletes the keys it listed.       *)
ListKeys(r) ==
  /\ At(r, "listKeys")
  /\ job' = [job EXCEPT ![r].pc = "deleteKeys", ![r].keys = uploads]
  /\ UNCHANGED <<db, uploads, locked, cache, request, outcome, before, begun>>

DeleteKeys(r) ==
  /\ At(r, "deleteKeys")
  /\ uploads' = uploads \ job[r].keys
  /\ Goto(r, "putFiles")
  /\ UNCHANGED <<db, locked, cache, request, outcome, before, begun>>

PutFiles(r) ==
  /\ At(r, "putFiles")
  /\ uploads' = uploads \cup ArchiveFiles
  /\ Goto(r, "endSessions")
  /\ UNCHANGED <<db, locked, cache, request, outcome, before, begun>>

(* Mutant of EndSessions: ends only the sessions of the old database.      *)
EndOldSessions(r) ==
  /\ At(r, "endSessions")
  /\ db' = [db EXCEPT !.sessions = @ \ job[r].dump.sessions]
  /\ Goto(r, "reload")
  /\ UNCHANGED <<uploads, locked, cache, request, outcome, before, begun>>

EndSessions(r) ==
  /\ At(r, "endSessions")
  /\ db' = [db EXCEPT !.sessions = {}]
  /\ Goto(r, "reload")
  /\ UNCHANGED <<uploads, locked, cache, request, outcome, before, begun>>

Reload(r) ==
  /\ At(r, "reload")
  /\ cache' = Effective(db.maintenance)
  /\ Goto(r, "maintenanceOff")
  /\ UNCHANGED <<db, uploads, locked, request, outcome, before, begun>>

(* serverSettingsService.set(MaintenanceMode, "false"): refused for a key  *)
(* the environment manages.                                                *)
MaintenanceOff(r) ==
  /\ At(r, "maintenanceOff")
  /\ IF EnvMaintenance # "unset"
     THEN Throw(r) /\ UNCHANGED <<db, cache>>
     ELSE /\ Goto(r, "finally")
          /\ db' = [db EXCEPT !.maintenance = "off"]
          /\ cache' = "off"
  /\ UNCHANGED <<uploads, locked, request, outcome, before, begun>>

-----------------------------------------------------------------------------
(* catch. *)

RollbackList(r) ==
  /\ At(r, "rollbackList")
  /\ job' = [job EXCEPT ![r].pc = "rollbackDelete", ![r].keys = uploads]
  /\ UNCHANGED <<db, uploads, locked, cache, request, outcome, before, begun>>

RollbackDelete(r) ==
  /\ At(r, "rollbackDelete")
  /\ uploads' = uploads \ job[r].keys
  /\ Goto(r, "rollbackPut")
  /\ UNCHANGED <<db, locked, cache, request, outcome, before, begun>>

RollbackPut(r) ==
  /\ At(r, "rollbackPut")
  /\ uploads' = uploads \cup job[r].files
  /\ Goto(r, IF job[r].dbStarted THEN "rollbackDatabase" ELSE "finally")
  /\ UNCHANGED <<db, locked, cache, request, outcome, before, begun>>

(* Mutant of RollbackDatabase: the settings are not read again.            *)
RollbackWithoutReload(r) ==
  /\ At(r, "rollbackDatabase")
  /\ db' = job[r].dump
  /\ Goto(r, "finally")
  /\ UNCHANGED <<uploads, locked, cache, request, outcome, before, begun>>

RollbackDatabase(r) ==
  /\ At(r, "rollbackDatabase")
  /\ db' = job[r].dump
  /\ Goto(r, "rollbackReload")
  /\ UNCHANGED <<uploads, locked, cache, request, outcome, before, begun>>

RollbackReload(r) ==
  /\ At(r, "rollbackReload")
  /\ cache' = Effective(db.maintenance)
  /\ Goto(r, "finally")
  /\ UNCHANGED <<db, uploads, locked, request, outcome, before, begun>>

(* Mutant of Finally: unlocks on the way out of a success only.            *)
FinallyAfterSuccess(r) ==
  /\ At(r, "finally")
  /\ locked' = (locked /\ job[r].error)
  /\ job' = [job EXCEPT ![r] = NoJob]
  /\ outcome' = [outcome EXCEPT ![r] =
       IF ~job[r].error THEN "ok"
       ELSE IF job[r].rollbackFault THEN "rollbackFailed" ELSE "failed"]
  /\ UNCHANGED <<db, uploads, cache, request, before, begun>>

(* finally: unlock whoever holds the lock, then answer the request.        *)
Finally(r) ==
  /\ At(r, "finally")
  /\ locked' = FALSE
  /\ job' = [job EXCEPT ![r] = NoJob]
  /\ outcome' = [outcome EXCEPT ![r] =
       IF ~job[r].error THEN "ok"
       ELSE IF job[r].rollbackFault THEN "rollbackFailed" ELSE "failed"]
  /\ UNCHANGED <<db, uploads, cache, request, before, begun>>

-----------------------------------------------------------------------------
(* Failures.  pg_restore runs without a transaction.  --clean drops every   *)
(* table before it loads one: when it stops, some tables of the old        *)
(* database are still there, or some of the new one are already there.     *)
SomeTables(of) ==
  {[rows |-> IF "rows" \in kept THEN of.rows ELSE {},
    sessions |-> IF "sessions" \in kept THEN of.sessions ELSE {},
    maintenance |-> of.maintenance, migrated |-> FALSE] :
     kept \in SUBSET {"rows", "sessions"}}

PartlyRestored(target) == SomeTables(db) \cup SomeTables(target)

(* A command or query before the replacement, or one that changes nothing  *)
(* when it fails.                                                          *)
FailCleanly(r) ==
  /\ job[r].pc \in {"validate", "copyUploads", "dump", "migrate", "listKeys",
                    "endSessions", "reload", "maintenanceOff"}
  /\ ThrowFault(r)
  /\ UNCHANGED <<db, uploads, locked, cache, request, outcome, before, begun>>

FailPgRestore(r) ==
  /\ At(r, "pgRestore")
  /\ db' \in PartlyRestored(ArchiveDb)
  /\ ThrowFault(r)
  /\ UNCHANGED <<uploads, locked, cache, request, outcome, before, begun>>

FailDeleteKeys(r) ==
  /\ At(r, "deleteKeys")
  /\ \E some \in SUBSET job[r].keys : uploads' = uploads \ some
  /\ ThrowFault(r)
  /\ UNCHANGED <<db, locked, cache, request, outcome, before, begun>>

FailPutFiles(r) ==
  /\ At(r, "putFiles")
  /\ \E some \in SUBSET ArchiveFiles : uploads' = uploads \cup some
  /\ ThrowFault(r)
  /\ UNCHANGED <<db, locked, cache, request, outcome, before, begun>>

(* A failing rollback step is logged or swallowed and the next one runs.   *)
RollbackFault(r, pc) ==
  job' = [job EXCEPT ![r].pc = pc, ![r].rollbackFault = TRUE]

FailRollbackClear(r) ==
  /\ job[r].pc \in {"rollbackList", "rollbackDelete"}
  /\ \E some \in SUBSET job[r].keys :
       uploads' = IF At(r, "rollbackList") THEN uploads ELSE uploads \ some
  /\ RollbackFault(r, "rollbackPut")
  /\ UNCHANGED <<db, locked, cache, request, outcome, before, begun>>

FailRollbackPut(r) ==
  /\ At(r, "rollbackPut")
  /\ \E some \in SUBSET job[r].files : uploads' = uploads \cup some
  /\ RollbackFault(r, IF job[r].dbStarted THEN "rollbackDatabase" ELSE "finally")
  /\ UNCHANGED <<db, locked, cache, request, outcome, before, begun>>

FailRollbackDatabase(r) ==
  /\ At(r, "rollbackDatabase")
  /\ db' \in PartlyRestored(job[r].dump)
  /\ RollbackFault(r, "rollbackReload")
  /\ UNCHANGED <<uploads, locked, cache, request, outcome, before, begun>>

FailRollbackReload(r) ==
  /\ At(r, "rollbackReload")
  /\ RollbackFault(r, "finally")
  /\ UNCHANGED <<db, uploads, locked, cache, request, outcome, before, begun>>

(* The process dies and main() starts it again and migrates the database:   *)
(* the lock, the cache and every request in progress are gone, the uploads *)
(* and what the database holds, half restored or not, stay.                *)
Crash ==
  /\ \E r \in Restores : ~At(r, "idle")
  /\ \E left \in {db} \cup UNION {PartlyRestored(ArchiveDb) : r \in {q \in Restores : At(q, "pgRestore")}} :
       /\ db' = [left EXCEPT !.migrated = TRUE]
       /\ cache' = Effective(left.maintenance)
  /\ locked' = FALSE
  /\ job' = [r \in Restores |-> NoJob]
  /\ request' = [c \in Clients |-> IF request[c] = <<>> THEN <<>> ELSE <<"done">>]
  /\ outcome' = [r \in Restores |-> "none"]
  /\ UNCHANGED <<uploads, before, begun>>

-----------------------------------------------------------------------------
ForwardStep(r) ==
  \/ Validate(r) \/ CopyUploads(r) \/ Lock(r) \/ Dump(r) \/ PgRestore(r)
  \/ Migrate(r) \/ ListKeys(r) \/ DeleteKeys(r) \/ PutFiles(r)
  \/ EndSessions(r) \/ Reload(r) \/ MaintenanceOff(r)

RollbackStep(r) ==
  \/ RollbackList(r) \/ RollbackDelete(r) \/ RollbackPut(r)
  \/ RollbackDatabase(r) \/ RollbackReload(r)

FailStep(r) ==
  \/ FailCleanly(r) \/ FailPgRestore(r) \/ FailDeleteKeys(r) \/ FailPutFiles(r)
  \/ FailRollbackClear(r) \/ FailRollbackPut(r)
  \/ FailRollbackDatabase(r) \/ FailRollbackReload(r)

RestoreStep(r) == ForwardStep(r) \/ RollbackStep(r) \/ FailStep(r) \/ Finally(r)

ClientStep(c) ==
  \/ \E url \in Urls : Admit(c, url)
  \/ PerformWrite(c)
  \/ PerformLogin(c)

Next ==
  \/ \E r \in Restores : Begin(r) \/ RestoreStep(r)
  \/ \E c \in Clients : ClientStep(c)
  \/ Crash

Spec == Init /\ [][Next]_vars

(* A restore goes on: every command it runs ends, with or without success. *)
FairSpec == Spec /\ \A r \in Restores : WF_vars(RestoreStep(r))

-----------------------------------------------------------------------------
TypeOK ==
  /\ db \in Databases
  /\ uploads \subseteq Files
  /\ locked \in BOOLEAN
  /\ cache \in Modes
  /\ job \in [Restores -> Jobs]
  /\ request \in [Clients -> Urls \cup {<<>>, <<"done">>}]
  /\ outcome \in [Restores -> Outcomes]
  /\ before \in [Restores -> [db : Databases, uploads : SUBSET Files, cache : Modes]]
  /\ begun \in 0..MaxRestores

Ended(r, how) == At(r, "idle") /\ outcome[r] = how

(* After a successful restore no session of the backup can be used         *)
(* (backup-restore.md, step 10), and none opened before the restore.       *)
RestoredSessionsInvalid ==
  \A r \in Restores : Ended(r, "ok") =>
    db.sessions \cap (ArchiveDb.sessions \cup LiveDb.sessions) = {}

(* After a successful restore the database and the uploads hold what the   *)
(* backup holds and nothing of the old instance, with migrations applied   *)
(* (steps 8 and 9); only requests the gate let through may have added to it. *)
RestoreReplaces ==
  \A r \in Restores : Ended(r, "ok") =>
    /\ db.rows \ Clients = ArchiveDb.rows
    /\ uploads \ Clients = ArchiveFiles
    /\ db.migrated

(* A restore that fails at any step, and whose rollback commands succeed,  *)
(* leaves the instance with the contents it had (Failure handling), apart  *)
(* from what other requests wrote in the meantime.                         *)
FailedRestoreRollsBack ==
  \A r \in Restores : Ended(r, "failed") =>
    /\ db.rows \ Clients = before[r].db.rows \ Clients
    /\ db.sessions \ Clients = before[r].db.sessions \ Clients
    /\ db.maintenance = before[r].db.maintenance
    /\ uploads \ Clients = before[r].uploads \ Clients

(* After a restore that succeeded, and after one that rolled back from a   *)
(* sound state, the cached maintenance mode is the one the database and    *)
(* the environment say, although the restore replaced the settings table.  *)
CacheFollowsRestore ==
  \A r \in Restores :
    \/ Ended(r, "ok")
    \/ Ended(r, "failed") /\ before[r].cache = Effective(before[r].db.maintenance)
    => cache = Effective(db.maintenance)

(* The lock is held from the moment contents are replaced until the        *)
(* rollback, if there is one, is over.                                     *)
LockHeldWhileReplacing ==
  \A r \in Restores : job[r].pc \in ReplacePCs \cup RollbackPCs => locked

(* What the steps of backup-restore.md promise of a valid archive whose      *)
(* restore runs into no fault: the contents are replaced (step 8).  True   *)
(* of an instance whose maintenance mode the environment leaves alone.     *)
FailsOnlyOnFault ==
  \A r \in Restores : At(r, "finally") /\ job[r].error => job[r].fault

(* What the code does, whatever the environment says: an instance with a    *)
(* managed maintenance mode is never restored, and without one a restore   *)
(* goes to the catch block for nothing but a fault.                        *)
OutcomesExplained ==
  IF EnvMaintenance = "unset" THEN FailsOnlyOnFault
  ELSE \A r \in Restores : ~Ended(r, "ok")

(* Kuon never stays locked (development.md: unlock in finally).            *)
LockReleased == locked ~> ~locked

-----------------------------------------------------------------------------
(* Why the properties above hold of one restore at a time.  What other      *)
(* requests add is left out of every comparison.                           *)
Outside(S) == S \ Clients

SameDb(d, e) ==
  /\ Outside(d.rows) = Outside(e.rows) /\ Outside(d.sessions) = Outside(e.sessions)
  /\ d.maintenance = e.maintenance

CopyingPCs == {"listKeys", "deleteKeys", "putFiles", "endSessions", "reload", "maintenanceOff"}

(* The lock is taken after the safety copy and released in finally; only   *)
(* the restore that holds it is past it.                                   *)
LockInv(r) ==
  /\ job[r].pc \in {"dump"} \cup ReplacePCs \cup RollbackPCs => locked
  /\ locked => job[r].pc \notin {"idle", "validate", "copyUploads", "lock"}

(* What the flags of the catch block say about how far the restore came.   *)
FlagsInv(r) ==
  LET j == job[r] IN
    /\ j.uploadsStarted => j.dbStarted
    /\ j.pc \in ReplacePCs \cup RollbackPCs => j.dbStarted
    /\ j.pc \in {"idle", "validate", "copyUploads", "lock", "dump"} => ~j.dbStarted
    /\ j.pc \in CopyingPCs \cup {"rollbackList", "rollbackDelete", "rollbackPut"} => j.uploadsStarted
    /\ j.pc \in {"pgRestore", "migrate"} => ~j.uploadsStarted
    /\ j.pc \in RollbackPCs => j.error
    /\ j.pc \notin RollbackPCs \cup {"finally"} => ~j.error /\ ~j.rollbackFault
    /\ j.pc = "finally" /\ ~j.error => j.uploadsStarted /\ ~j.rollbackFault

(* What was not started is as before, and what was is in the safety copies. *)
CopiesInv(r) ==
  LET j == job[r] b == before[r] IN
    j.pc # "idle" =>
      /\ IF j.dbStarted THEN SameDb(j.dump, b.db) ELSE SameDb(db, b.db) /\ cache = b.cache
      /\ ~j.uploadsStarted => Outside(uploads) = Outside(b.uploads)
      /\ j.pc \in {"lock", "dump"} \cup ReplacePCs \cup RollbackPCs =>
           Outside(j.files) = Outside(b.uploads)

(* The way forward: the contents are the backup's, one command at a time.   *)
ForwardInv(r) ==
  LET j == job[r]
      done == j.pc = "finally" /\ ~j.error
  IN /\ j.pc \in CopyingPCs \cup {"migrate"} \/ done => Outside(db.rows) = ArchiveDb.rows
     /\ j.pc \in CopyingPCs \/ done => db.migrated
     /\ j.pc = "deleteKeys" => Outside(uploads) \subseteq j.keys
     /\ j.pc = "putFiles" => Outside(uploads) = {}
     /\ j.pc \in {"endSessions", "reload", "maintenanceOff"} \/ done =>
          Outside(uploads) = ArchiveFiles
     /\ j.pc \in {"reload", "maintenanceOff"} \/ done => Outside(db.sessions) = {}
     /\ j.pc = "maintenanceOff" \/ done => cache = Effective(db.maintenance)

(* The way back, as long as no command of the rollback has failed.         *)
BackwardInv(r) ==
  LET j == job[r] b == before[r]
      undone == j.pc = "finally" /\ j.error
  IN ~j.rollbackFault =>
       /\ j.pc = "rollbackDelete" => Outside(uploads) \subseteq j.keys
       /\ j.pc = "rollbackPut" => Outside(uploads) = {}
       /\ j.pc \in {"rollbackDatabase", "rollbackReload"} \/ undone =>
            Outside(uploads) = Outside(b.uploads)
       /\ j.pc = "rollbackReload" \/ undone => SameDb(db, b.db)
       /\ undone /\ j.dbStarted => cache = Effective(db.maintenance)

EndedInv(r) ==
  /\ Ended(r, "ok") => Outside(db.sessions) = {} /\ Outside(db.rows) = ArchiveDb.rows
                       /\ db.migrated /\ Outside(uploads) = ArchiveFiles
                       /\ cache = Effective(db.maintenance)
  /\ Ended(r, "failed") => SameDb(db, before[r].db) /\ Outside(uploads) = Outside(before[r].uploads)
                           /\ cache \in {before[r].cache, Effective(db.maintenance)}

OneInv(r) ==
  LockInv(r) /\ FlagsInv(r) /\ CopiesInv(r) /\ ForwardInv(r) /\ BackwardInv(r) /\ EndedInv(r)

(* Why OutcomesExplained holds: the only steps that throw on their own are  *)
(* Lock, on a taken lock, and MaintenanceOff, the last of every restore.   *)
Excused(r) ==
  IF EnvMaintenance = "unset" THEN job[r].error => job[r].fault
  ELSE (At(r, "finally") => job[r].error) /\ outcome[r] # "ok"
=============================================================================

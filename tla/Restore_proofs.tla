---------------------------- MODULE Restore_proofs ----------------------------
(* Theorems about Restore for any contents of the instance and the backup,   *)
(* any clients and urls.  The type is proved for any number of restores; the *)
(* contents are proved from the hypothesis that there is one slot, that is,  *)
(* that restores do not overlap.                                             *)
EXTENDS Restore, TLAPS

USE DEF PCs, ReplacePCs, RollbackPCs, CopyingPCs, Modes

(* Fields of the job of r that a step keeps, all but those in changed.      *)
Kept(r, changed) ==
  /\ "dbStarted" \in changed \/ job'[r].dbStarted = job[r].dbStarted
  /\ "uploadsStarted" \in changed \/ job'[r].uploadsStarted = job[r].uploadsStarted
  /\ "dump" \in changed \/ job'[r].dump = job[r].dump
  /\ "files" \in changed \/ job'[r].files = job[r].files
  /\ "keys" \in changed \/ job'[r].keys = job[r].keys
  /\ "error" \in changed \/ job'[r].error = job[r].error
  /\ "fault" \in changed \/ job'[r].fault = job[r].fault
  /\ "rollbackFault" \in changed \/ job'[r].rollbackFault = job[r].rollbackFault

JobIs(r, pc, changed) ==
  /\ job' \in [Restores -> Jobs]
  /\ \A q \in Restores : q # r => job'[q] = job[q]
  /\ job'[r].pc = pc /\ Kept(r, changed)

LEMMA JobsExcept ==
  ASSUME NEW f \in [Restores -> Jobs], NEW r \in Restores, NEW j \in Jobs
  PROVE  /\ [f EXCEPT ![r] = j] \in [Restores -> Jobs]
         /\ [f EXCEPT ![r] = j][r] = j
         /\ \A q \in Restores : q # r => [f EXCEPT ![r] = j][q] = f[q]
OBVIOUS

LEMMA NoJobType == NoJob \in Jobs
BY ArchiveAssumption DEF NoJob, Jobs

LEMMA GotoJob ==
  ASSUME TypeOK, NEW r \in Restores, NEW pc \in PCs, Goto(r, pc)
  PROVE  JobIs(r, pc, {})
<1> DEFINE j == [job[r] EXCEPT !.pc = pc]
<1>1. job' = [job EXCEPT ![r] = j]
  BY DEF Goto, TypeOK
<1>2. job \in [Restores -> Jobs] /\ job[r] \in Jobs
  BY DEF TypeOK
<1>3. /\ j \in Jobs /\ j.pc = pc
      /\ j.dbStarted = job[r].dbStarted /\ j.uploadsStarted = job[r].uploadsStarted
      /\ j.dump = job[r].dump /\ j.files = job[r].files /\ j.keys = job[r].keys
      /\ j.error = job[r].error /\ j.fault = job[r].fault
      /\ j.rollbackFault = job[r].rollbackFault
  BY <1>2 DEF Jobs
<1> HIDE DEF j
<1>4. /\ job' \in [Restores -> Jobs] /\ job'[r] = j
      /\ \A q \in Restores : q # r => job'[q] = job[q]
  BY ONLY <1>1, <1>2, <1>3, r \in Restores, JobsExcept
<1> QED BY <1>3, <1>4 DEF JobIs, Kept

(* Where the catch block goes on. *)
LEMMA CatchType ==
  ASSUME NEW j
  PROVE  CatchPC(j) \in {"rollbackList", "rollbackDatabase", "finally"}
BY DEF CatchPC

LEMMA ThrowJob ==
  ASSUME TypeOK, NEW r \in Restores, Throw(r)
  PROVE  JobIs(r, CatchPC(job[r]), {"error"}) /\ job'[r].error = TRUE
<1> DEFINE pc == CatchPC(job[r])
           j == [job[r] EXCEPT !.pc = pc, !.error = TRUE]
<1>1. job' = [job EXCEPT ![r] = j]
  BY DEF Throw, TypeOK
<1>2. job \in [Restores -> Jobs] /\ job[r] \in Jobs /\ pc \in PCs
  BY CatchType DEF TypeOK
<1> HIDE DEF pc
<1>3. /\ j \in Jobs /\ j.pc = pc /\ j.error = TRUE
      /\ j.dbStarted = job[r].dbStarted /\ j.uploadsStarted = job[r].uploadsStarted
      /\ j.dump = job[r].dump /\ j.files = job[r].files /\ j.keys = job[r].keys
      /\ j.fault = job[r].fault /\ j.rollbackFault = job[r].rollbackFault
  BY <1>2 DEF Jobs
<1> HIDE DEF j
<1>4. /\ job' \in [Restores -> Jobs] /\ job'[r] = j
      /\ \A q \in Restores : q # r => job'[q] = job[q]
  BY ONLY <1>1, <1>2, <1>3, r \in Restores, JobsExcept
<1> QED BY <1>3, <1>4 DEF JobIs, Kept, pc

LEMMA ThrowFaultJob ==
  ASSUME TypeOK, NEW r \in Restores, ThrowFault(r)
  PROVE  JobIs(r, CatchPC(job[r]), {"error", "fault"})
         /\ job'[r].error = TRUE /\ job'[r].fault = TRUE
<1> DEFINE pc == CatchPC(job[r])
           j == [job[r] EXCEPT !.pc = pc, !.error = TRUE, !.fault = TRUE]
<1>1. job' = [job EXCEPT ![r] = j]
  BY DEF ThrowFault, TypeOK
<1>2. job \in [Restores -> Jobs] /\ job[r] \in Jobs /\ pc \in PCs
  BY CatchType DEF TypeOK
<1> HIDE DEF pc
<1>3. /\ j \in Jobs /\ j.pc = pc /\ j.error = TRUE /\ j.fault = TRUE
      /\ j.dbStarted = job[r].dbStarted /\ j.uploadsStarted = job[r].uploadsStarted
      /\ j.dump = job[r].dump /\ j.files = job[r].files /\ j.keys = job[r].keys
      /\ j.rollbackFault = job[r].rollbackFault
  BY <1>2 DEF Jobs
<1> HIDE DEF j
<1>4. /\ job' \in [Restores -> Jobs] /\ job'[r] = j
      /\ \A q \in Restores : q # r => job'[q] = job[q]
  BY ONLY <1>1, <1>2, <1>3, r \in Restores, JobsExcept
<1> QED BY <1>3, <1>4 DEF JobIs, Kept, pc

LEMMA RollbackFaultJob ==
  ASSUME TypeOK, NEW r \in Restores, NEW pc \in PCs, RollbackFault(r, pc)
  PROVE  JobIs(r, pc, {"rollbackFault"}) /\ job'[r].rollbackFault = TRUE
<1> DEFINE j == [job[r] EXCEPT !.pc = pc, !.rollbackFault = TRUE]
<1>1. job' = [job EXCEPT ![r] = j]
  BY DEF RollbackFault, TypeOK
<1>2. job \in [Restores -> Jobs] /\ job[r] \in Jobs
  BY DEF TypeOK
<1>3. /\ j \in Jobs /\ j.pc = pc /\ j.rollbackFault = TRUE
      /\ j.dbStarted = job[r].dbStarted /\ j.uploadsStarted = job[r].uploadsStarted
      /\ j.dump = job[r].dump /\ j.files = job[r].files /\ j.keys = job[r].keys
      /\ j.error = job[r].error /\ j.fault = job[r].fault
  BY <1>2 DEF Jobs
<1> HIDE DEF j
<1>4. /\ job' \in [Restores -> Jobs] /\ job'[r] = j
      /\ \A q \in Restores : q # r => job'[q] = job[q]
  BY ONLY <1>1, <1>2, <1>3, r \in Restores, JobsExcept
<1> QED BY <1>3, <1>4 DEF JobIs, Kept

(* Steps that note something in the job on the way. *)
LEMMA CopyJob ==
  ASSUME TypeOK, NEW r \in Restores, CopyUploads(r)
  PROVE  JobIs(r, "lock", {"files"}) /\ job'[r].files = uploads
<1> DEFINE j == [job[r] EXCEPT !.pc = "lock", !.files = uploads]
<1>1. job' = [job EXCEPT ![r] = j]
  BY DEF CopyUploads, TypeOK
<1>2. job \in [Restores -> Jobs] /\ job[r] \in Jobs /\ uploads \in SUBSET Files
  BY DEF TypeOK
<1>3. /\ j \in Jobs /\ j.pc = "lock" /\ j.files = uploads
      /\ j.dbStarted = job[r].dbStarted /\ j.uploadsStarted = job[r].uploadsStarted
      /\ j.dump = job[r].dump /\ j.keys = job[r].keys
      /\ j.error = job[r].error /\ j.fault = job[r].fault
      /\ j.rollbackFault = job[r].rollbackFault
  BY <1>2 DEF Jobs
<1> HIDE DEF j
<1>4. /\ job' \in [Restores -> Jobs] /\ job'[r] = j
      /\ \A q \in Restores : q # r => job'[q] = job[q]
  BY ONLY <1>1, <1>2, <1>3, r \in Restores, JobsExcept
<1> QED BY <1>3, <1>4 DEF JobIs, Kept

LEMMA DumpJob ==
  ASSUME TypeOK, NEW r \in Restores, Dump(r)
  PROVE  JobIs(r, "pgRestore", {"dump", "dbStarted"})
         /\ job'[r].dump = db /\ job'[r].dbStarted = TRUE
<1> DEFINE j == [job[r] EXCEPT !.pc = "pgRestore", !.dump = db, !.dbStarted = TRUE]
<1>1. job' = [job EXCEPT ![r] = j]
  BY DEF Dump, TypeOK
<1>2. job \in [Restores -> Jobs] /\ job[r] \in Jobs /\ db \in Databases
  BY DEF TypeOK
<1>3. /\ j \in Jobs /\ j.pc = "pgRestore" /\ j.dump = db /\ j.dbStarted = TRUE
      /\ j.uploadsStarted = job[r].uploadsStarted
      /\ j.files = job[r].files /\ j.keys = job[r].keys
      /\ j.error = job[r].error /\ j.fault = job[r].fault
      /\ j.rollbackFault = job[r].rollbackFault
  BY <1>2 DEF Jobs
<1> HIDE DEF j
<1>4. /\ job' \in [Restores -> Jobs] /\ job'[r] = j
      /\ \A q \in Restores : q # r => job'[q] = job[q]
  BY ONLY <1>1, <1>2, <1>3, r \in Restores, JobsExcept
<1> QED BY <1>3, <1>4 DEF JobIs, Kept

LEMMA MigrateJob ==
  ASSUME TypeOK, NEW r \in Restores, Migrate(r)
  PROVE  JobIs(r, "listKeys", {"uploadsStarted"}) /\ job'[r].uploadsStarted = TRUE
<1> DEFINE j == [job[r] EXCEPT !.pc = "listKeys", !.uploadsStarted = TRUE]
<1>1. job' = [job EXCEPT ![r] = j]
  BY DEF Migrate, TypeOK
<1>2. job \in [Restores -> Jobs] /\ job[r] \in Jobs
  BY DEF TypeOK
<1>3. /\ j \in Jobs /\ j.pc = "listKeys" /\ j.uploadsStarted = TRUE
      /\ j.dbStarted = job[r].dbStarted
      /\ j.dump = job[r].dump /\ j.files = job[r].files /\ j.keys = job[r].keys
      /\ j.error = job[r].error /\ j.fault = job[r].fault
      /\ j.rollbackFault = job[r].rollbackFault
  BY <1>2 DEF Jobs
<1> HIDE DEF j
<1>4. /\ job' \in [Restores -> Jobs] /\ job'[r] = j
      /\ \A q \in Restores : q # r => job'[q] = job[q]
  BY ONLY <1>1, <1>2, <1>3, r \in Restores, JobsExcept
<1> QED BY <1>3, <1>4 DEF JobIs, Kept

LEMMA ListJob ==
  ASSUME TypeOK, NEW r \in Restores, NEW pc \in PCs,
         job' = [job EXCEPT ![r].pc = pc, ![r].keys = uploads]
  PROVE  JobIs(r, pc, {"keys"}) /\ job'[r].keys = uploads
<1> DEFINE j == [job[r] EXCEPT !.pc = pc, !.keys = uploads]
<1>1. job' = [job EXCEPT ![r] = j]
  BY DEF TypeOK
<1>2. job \in [Restores -> Jobs] /\ job[r] \in Jobs /\ uploads \in SUBSET Files
  BY DEF TypeOK
<1>3. /\ j \in Jobs /\ j.pc = pc /\ j.keys = uploads
      /\ j.dbStarted = job[r].dbStarted /\ j.uploadsStarted = job[r].uploadsStarted
      /\ j.dump = job[r].dump /\ j.files = job[r].files
      /\ j.error = job[r].error /\ j.fault = job[r].fault
      /\ j.rollbackFault = job[r].rollbackFault
  BY <1>2 DEF Jobs
<1> HIDE DEF j
<1>4. /\ job' \in [Restores -> Jobs] /\ job'[r] = j
      /\ \A q \in Restores : q # r => job'[q] = job[q]
  BY ONLY <1>1, <1>2, <1>3, r \in Restores, JobsExcept
<1> QED BY <1>3, <1>4 DEF JobIs, Kept

(* A restore begins and ends with nothing noted. *)
Empty(r) ==
  /\ ~job'[r].dbStarted /\ ~job'[r].uploadsStarted
  /\ ~job'[r].error /\ ~job'[r].fault /\ ~job'[r].rollbackFault

LEMMA BeginJob ==
  ASSUME TypeOK, NEW r \in Restores, Begin(r)
  PROVE  /\ job' \in [Restores -> Jobs] /\ job'[r].pc = "validate" /\ Empty(r)
         /\ \A q \in Restores : q # r => job'[q] = job[q]
<1> DEFINE j == [NoJob EXCEPT !.pc = "validate"]
<1>1. job' = [job EXCEPT ![r] = j]
  BY DEF Begin
<1>2. job \in [Restores -> Jobs]
  BY DEF TypeOK
<1>3. /\ j \in Jobs /\ j.pc = "validate" /\ ~j.dbStarted /\ ~j.uploadsStarted
      /\ ~j.error /\ ~j.fault /\ ~j.rollbackFault
  BY NoJobType DEF Jobs, NoJob
<1> HIDE DEF j
<1>4. /\ job' \in [Restores -> Jobs] /\ job'[r] = j
      /\ \A q \in Restores : q # r => job'[q] = job[q]
  BY ONLY <1>1, <1>2, <1>3, r \in Restores, JobsExcept
<1> QED BY <1>3, <1>4 DEF Empty

LEMMA FinallyJob ==
  ASSUME TypeOK, NEW r \in Restores, Finally(r)
  PROVE  /\ job' \in [Restores -> Jobs] /\ job'[r].pc = "idle" /\ Empty(r)
         /\ \A q \in Restores : q # r => job'[q] = job[q]
<1>1. /\ job' \in [Restores -> Jobs] /\ job'[r] = NoJob
      /\ \A q \in Restores : q # r => job'[q] = job[q]
  BY NoJobType, JobsExcept DEF Finally, TypeOK
<1> QED BY <1>1 DEF Empty, NoJob

-----------------------------------------------------------------------------
(* Types. *)

LEMMA EffectiveType == \A mode \in Modes : Effective(mode) \in Modes
BY ArchiveAssumption DEF Effective

LEMMA DbFields ==
  ASSUME NEW d \in Databases
  PROVE  d.rows \subseteq Rows /\ d.sessions \subseteq Sessions /\ d.maintenance \in Modes
BY DEF Databases

LEMMA SomeTablesType ==
  ASSUME NEW of \in Databases
  PROVE  SomeTables(of) \subseteq Databases
<1> SUFFICES ASSUME NEW kept \in SUBSET {"rows", "sessions"}
             PROVE  [rows |-> IF "rows" \in kept THEN of.rows ELSE {},
                     sessions |-> IF "sessions" \in kept THEN of.sessions ELSE {},
                     maintenance |-> of.maintenance, migrated |-> FALSE] \in Databases
  BY DEF SomeTables
<1> QED BY DbFields DEF Databases

LEMMA PartlyRestoredType ==
  ASSUME TypeOK, NEW target \in Databases
  PROVE  PartlyRestored(target) \subseteq Databases
BY SomeTablesType DEF PartlyRestored, TypeOK

(* A step of one restore that leaves the clients alone. *)
LEMMA TypeFrame ==
  ASSUME TypeOK, job' \in [Restores -> Jobs],
         db' \in Databases, uploads' \subseteq Files, cache' \in Modes, locked' \in BOOLEAN,
         UNCHANGED <<request, outcome, before, begun>>
  PROVE  TypeOK'
BY DEF TypeOK

LEMMA TypeForward ==
  ASSUME TypeOK, NEW r \in Restores, ForwardStep(r)
  PROVE  TypeOK'
<1>0. db \in Databases /\ uploads \subseteq Files /\ cache \in Modes /\ locked \in BOOLEAN
      /\ ArchiveDb \in Databases /\ ArchiveFiles \subseteq Files
  BY ArchiveAssumption DEF TypeOK, Files
<1>1. CASE Validate(r)
  BY <1>0, <1>1, GotoJob, TypeFrame DEF Validate, JobIs
<1>2. CASE CopyUploads(r)
  BY <1>0, <1>2, CopyJob, TypeFrame DEF CopyUploads, JobIs
<1>3. CASE Lock(r)
  <2>1. job' \in [Restores -> Jobs]
    BY <1>3, GotoJob, ThrowJob DEF Lock, JobIs
  <2> QED BY <1>0, <1>3, <2>1, TypeFrame DEF Lock
<1>4. CASE Dump(r)
  BY <1>0, <1>4, DumpJob, TypeFrame DEF Dump, JobIs
<1>5. CASE PgRestore(r)
  BY <1>0, <1>5, GotoJob, TypeFrame DEF PgRestore, JobIs
<1>6. CASE Migrate(r)
  <2>1. db' \in Databases
    BY <1>0, <1>6 DEF Migrate, Databases
  <2> QED BY <1>0, <1>6, <2>1, MigrateJob, TypeFrame DEF Migrate, JobIs
<1>7. CASE ListKeys(r)
  BY <1>0, <1>7, ListJob, TypeFrame DEF ListKeys, JobIs
<1>8. CASE DeleteKeys(r)
  BY <1>0, <1>8, GotoJob, TypeFrame DEF DeleteKeys, JobIs
<1>9. CASE PutFiles(r)
  BY <1>0, <1>9, GotoJob, TypeFrame DEF PutFiles, JobIs
<1>10. CASE EndSessions(r)
  <2>1. db' \in Databases
    BY <1>0, <1>10 DEF EndSessions, Databases
  <2> QED BY <1>0, <1>10, <2>1, GotoJob, TypeFrame DEF EndSessions, JobIs
<1>11. CASE Reload(r)
  BY <1>0, <1>11, GotoJob, EffectiveType, DbFields, TypeFrame DEF Reload, JobIs
<1>12. CASE MaintenanceOff(r)
  <2>1. job' \in [Restores -> Jobs]
    BY <1>12, GotoJob, ThrowJob DEF MaintenanceOff, JobIs
  <2>2. db' \in Databases /\ cache' \in Modes
    <3>1. [db EXCEPT !.maintenance = "off"] \in Databases
      BY <1>0 DEF Databases
    <3> QED BY <1>0, <1>12, <3>1 DEF MaintenanceOff
  <2> QED BY <1>0, <1>12, <2>1, <2>2, TypeFrame DEF MaintenanceOff
<1> QED BY <1>1, <1>2, <1>3, <1>4, <1>5, <1>6, <1>7, <1>8, <1>9, <1>10, <1>11, <1>12
        DEF ForwardStep

LEMMA TypeRollback ==
  ASSUME TypeOK, NEW r \in Restores, RollbackStep(r)
  PROVE  TypeOK'
<1>0. db \in Databases /\ uploads \subseteq Files /\ cache \in Modes /\ locked \in BOOLEAN
      /\ job[r].dump \in Databases /\ job[r].files \subseteq Files
  BY DEF TypeOK, Jobs
<1>1. CASE RollbackList(r)
  BY <1>0, <1>1, ListJob, TypeFrame DEF RollbackList, JobIs
<1>2. CASE RollbackDelete(r)
  BY <1>0, <1>2, GotoJob, TypeFrame DEF RollbackDelete, JobIs
<1>3. CASE RollbackPut(r)
  BY <1>0, <1>3, GotoJob, TypeFrame DEF RollbackPut, JobIs
<1>4. CASE RollbackDatabase(r)
  BY <1>0, <1>4, GotoJob, TypeFrame DEF RollbackDatabase, JobIs
<1>5. CASE RollbackReload(r)
  BY <1>0, <1>5, GotoJob, EffectiveType, DbFields, TypeFrame DEF RollbackReload, JobIs
<1> QED BY <1>1, <1>2, <1>3, <1>4, <1>5 DEF RollbackStep

LEMMA TypeFail ==
  ASSUME TypeOK, NEW r \in Restores, FailStep(r)
  PROVE  TypeOK'
<1>0. db \in Databases /\ uploads \subseteq Files /\ cache \in Modes /\ locked \in BOOLEAN
      /\ job[r].dump \in Databases /\ job[r].files \subseteq Files
      /\ ArchiveDb \in Databases /\ ArchiveFiles \subseteq Files
  BY ArchiveAssumption DEF TypeOK, Jobs, Files
<1>1. CASE FailCleanly(r)
  BY <1>0, <1>1, ThrowFaultJob, TypeFrame DEF FailCleanly, JobIs
<1>2. CASE FailPgRestore(r)
  <2>1. db' \in Databases
    BY <1>0, <1>2, PartlyRestoredType DEF FailPgRestore
  <2> QED BY <1>0, <1>2, <2>1, ThrowFaultJob, TypeFrame DEF FailPgRestore, JobIs
<1>3. CASE FailDeleteKeys(r)
  <2>1. uploads' \subseteq Files
    BY <1>0, <1>3 DEF FailDeleteKeys
  <2> QED BY <1>0, <1>3, <2>1, ThrowFaultJob, TypeFrame DEF FailDeleteKeys, JobIs
<1>4. CASE FailPutFiles(r)
  <2>1. uploads' \subseteq Files
    BY <1>0, <1>4 DEF FailPutFiles
  <2> QED BY <1>0, <1>4, <2>1, ThrowFaultJob, TypeFrame DEF FailPutFiles, JobIs
<1>5. CASE FailRollbackClear(r)
  <2>1. uploads' \subseteq Files
    BY <1>0, <1>5 DEF FailRollbackClear
  <2> QED BY <1>0, <1>5, <2>1, RollbackFaultJob, TypeFrame DEF FailRollbackClear, JobIs
<1>6. CASE FailRollbackPut(r)
  <2>1. uploads' \subseteq Files
    BY <1>0, <1>6 DEF FailRollbackPut
  <2>2. job' \in [Restores -> Jobs]
    BY <1>6, RollbackFaultJob DEF FailRollbackPut, JobIs
  <2> QED BY <1>0, <1>6, <2>1, <2>2, TypeFrame DEF FailRollbackPut
<1>7. CASE FailRollbackDatabase(r)
  <2>1. db' \in Databases
    BY <1>0, <1>7, PartlyRestoredType DEF FailRollbackDatabase
  <2> QED BY <1>0, <1>7, <2>1, RollbackFaultJob, TypeFrame DEF FailRollbackDatabase, JobIs
<1>8. CASE FailRollbackReload(r)
  BY <1>0, <1>8, RollbackFaultJob, TypeFrame DEF FailRollbackReload, JobIs
<1> QED BY <1>1, <1>2, <1>3, <1>4, <1>5, <1>6, <1>7, <1>8 DEF FailStep

LEMMA TypeClient ==
  ASSUME TypeOK, NEW c \in Clients, ClientStep(c)
  PROVE  TypeOK'
<1>1. ASSUME NEW url \in Urls, Admit(c, url) PROVE TypeOK'
  BY <1>1 DEF Admit, TypeOK
<1>2. CASE PerformWrite(c)
  <2>1. [db EXCEPT !.rows = @ \cup {c}] \in Databases
    BY DEF TypeOK, Databases, Rows
  <2> QED BY <1>2, <2>1 DEF PerformWrite, TypeOK, Files
<1>3. CASE PerformLogin(c)
  <2>1. [db EXCEPT !.sessions = @ \cup {c}] \in Databases
    BY DEF TypeOK, Databases, Sessions
  <2> QED BY <1>3, <2>1 DEF PerformLogin, TypeOK
<1> QED BY <1>1, <1>2, <1>3 DEF ClientStep

LEMMA TypeCrash ==
  ASSUME TypeOK, Crash
  PROVE  TypeOK'
<1>1. PICK left \in {db} \cup UNION {PartlyRestored(ArchiveDb) :
                                       r \in {q \in Restores : At(q, "pgRestore")}} :
        db' = [left EXCEPT !.migrated = TRUE] /\ cache' = Effective(left.maintenance)
  BY DEF Crash
<1>2. left \in Databases
  BY <1>1, PartlyRestoredType, ArchiveAssumption DEF TypeOK
<1>3. db' \in Databases /\ cache' \in Modes
  BY <1>1, <1>2, DbFields, EffectiveType DEF Databases
<1>4. job' \in [Restores -> Jobs] /\ request' \in [Clients -> Urls \cup {<<>>, <<"done">>}]
  BY NoJobType DEF Crash, TypeOK
<1> QED BY <1>3, <1>4 DEF Crash, TypeOK, Outcomes

LEMMA TypeStep == TypeOK /\ [Next]_vars => TypeOK'
<1> SUFFICES ASSUME TypeOK, [Next]_vars PROVE TypeOK'
  OBVIOUS
<1>1. ASSUME NEW r \in Restores, Begin(r) PROVE TypeOK'
  <2>1. before' \in [Restores -> [db : Databases, uploads : SUBSET Files, cache : Modes]]
    BY <1>1 DEF Begin, TypeOK
  <2>2. begun' \in 0..MaxRestores
    BY <1>1, ArchiveAssumption DEF Begin, TypeOK
  <2>3. outcome' \in [Restores -> Outcomes]
    BY <1>1 DEF Begin, TypeOK, Outcomes
  <2>4. job' \in [Restores -> Jobs]
    BY <1>1, BeginJob
  <2> QED BY <1>1, <2>1, <2>2, <2>3, <2>4 DEF Begin, TypeOK
<1>2. ASSUME NEW r \in Restores, Finally(r) PROVE TypeOK'
  <2>1. outcome' \in [Restores -> Outcomes]
    BY <1>2 DEF Finally, TypeOK, Outcomes
  <2>2. job' \in [Restores -> Jobs]
    BY <1>2, FinallyJob
  <2> QED BY <1>2, <2>1, <2>2 DEF Finally, TypeOK
<1>3. CASE UNCHANGED vars
  BY <1>3 DEF vars, TypeOK
<1> QED BY <1>1, <1>2, <1>3, TypeForward, TypeRollback, TypeFail, TypeClient, TypeCrash
        DEF Next, RestoreStep

LEMMA TypeInit == Init => TypeOK
<1> SUFFICES ASSUME Init PROVE TypeOK
  OBVIOUS
<1>1. LiveDb \in Databases /\ LiveFiles \subseteq Files /\ MaxRestores \in Nat
  BY ArchiveAssumption DEF Files
<1>2. cache \in Modes
  BY <1>1, EffectiveType, DbFields DEF Init
<1>3. before \in [Restores -> [db : Databases, uploads : SUBSET Files, cache : Modes]]
  BY <1>1, <1>2 DEF Init
<1>4. job \in [Restores -> Jobs]
  BY NoJobType DEF Init
<1>5. /\ request \in [Clients -> Urls \cup {<<>>, <<"done">>}]
      /\ outcome \in [Restores -> Outcomes]
  BY DEF Init, Outcomes
<1>6. db \in Databases /\ uploads \subseteq Files /\ locked \in BOOLEAN
  BY <1>1 DEF Init
<1>7. begun \in 0..MaxRestores
  <2>1. begun = 0
    BY DEF Init
  <2> QED BY ONLY <1>1, <2>1
<1> QED BY <1>2, <1>3, <1>4, <1>5, <1>6, <1>7 DEF TypeOK

(* Every reachable state is well typed, for any number of restores at once. *)
THEOREM TypeCorrect == Spec => []TypeOK
BY TypeInit, TypeStep, PTL DEF Spec

-----------------------------------------------------------------------------
(* One restore at a time. *)

LEMMA ValidateStep ==
  ASSUME TypeOK, NEW r \in Restores, OneInv(r), Validate(r)
  PROVE  OneInv(r)'
<1>1. job[r].pc = "validate"
  BY DEF Validate, At
<1>2. JobIs(r, "copyUploads", {})
  BY <1>1, GotoJob DEF Validate, OneInv, At
<1>3. UNCHANGED <<db, uploads, locked, cache, before, outcome>>
  BY DEF Validate, OneInv, At, TypeOK, Databases
<1>4. LockInv(r)' /\ FlagsInv(r)'
  BY <1>1, <1>2, <1>3 DEF OneInv, LockInv, FlagsInv, JobIs, Kept
<1>5. CopiesInv(r)'
  BY <1>1, <1>2, <1>3 DEF OneInv, FlagsInv, CopiesInv, JobIs, Kept, SameDb
<1>6. ForwardInv(r)'
  BY <1>1, <1>2, <1>3, ArchiveAssumption DEF OneInv, FlagsInv, ForwardInv, JobIs, Kept, Outside
<1>7. BackwardInv(r)'
  BY <1>1, <1>2, <1>3 DEF OneInv, FlagsInv, CopiesInv, BackwardInv, JobIs, Kept, Outside, SameDb
<1>8. EndedInv(r)'
  BY <1>2 DEF EndedInv, Ended, At, JobIs
<1> QED BY <1>4, <1>5, <1>6, <1>7, <1>8 DEF OneInv

LEMMA CopyUploadsStep ==
  ASSUME TypeOK, NEW r \in Restores, OneInv(r), CopyUploads(r)
  PROVE  OneInv(r)'
<1>1. job[r].pc = "copyUploads"
  BY DEF CopyUploads, At
<1>2. JobIs(r, "lock", {"files"}) /\ job'[r].files = uploads
  BY <1>1, CopyJob DEF CopyUploads, OneInv, At
<1>3. UNCHANGED <<db, uploads, locked, cache, before, outcome>>
  BY DEF CopyUploads, OneInv, At, TypeOK, Databases
<1>4. LockInv(r)' /\ FlagsInv(r)'
  BY <1>1, <1>2, <1>3 DEF OneInv, LockInv, FlagsInv, JobIs, Kept
<1>5. CopiesInv(r)'
  BY <1>1, <1>2, <1>3 DEF OneInv, FlagsInv, CopiesInv, JobIs, Kept, SameDb
<1>6. ForwardInv(r)'
  BY <1>1, <1>2, <1>3, ArchiveAssumption DEF OneInv, FlagsInv, ForwardInv, JobIs, Kept, Outside
<1>7. BackwardInv(r)'
  BY <1>1, <1>2, <1>3 DEF OneInv, FlagsInv, CopiesInv, BackwardInv, JobIs, Kept, Outside, SameDb
<1>8. EndedInv(r)'
  BY <1>2 DEF EndedInv, Ended, At, JobIs
<1> QED BY <1>4, <1>5, <1>6, <1>7, <1>8 DEF OneInv

LEMMA LockStep ==
  ASSUME TypeOK, NEW r \in Restores, OneInv(r), Lock(r)
  PROVE  OneInv(r)'
<1>1. job[r].pc = "lock"
  BY DEF Lock, At
<1>2. JobIs(r, "dump", {})
  BY <1>1, GotoJob DEF Lock, OneInv, LockInv, At
<1>3. locked' = TRUE /\ UNCHANGED <<db, uploads, cache, before, outcome>>
  BY DEF Lock, OneInv, LockInv, At, TypeOK, Databases
<1>4. LockInv(r)' /\ FlagsInv(r)'
  BY <1>1, <1>2, <1>3 DEF OneInv, LockInv, FlagsInv, JobIs, Kept
<1>5. CopiesInv(r)'
  BY <1>1, <1>2, <1>3 DEF OneInv, FlagsInv, CopiesInv, JobIs, Kept, SameDb
<1>6. ForwardInv(r)'
  BY <1>1, <1>2, <1>3, ArchiveAssumption DEF OneInv, FlagsInv, ForwardInv, JobIs, Kept, Outside
<1>7. BackwardInv(r)'
  BY <1>1, <1>2, <1>3 DEF OneInv, FlagsInv, CopiesInv, BackwardInv, JobIs, Kept, Outside, SameDb
<1>8. EndedInv(r)'
  BY <1>2 DEF EndedInv, Ended, At, JobIs
<1> QED BY <1>4, <1>5, <1>6, <1>7, <1>8 DEF OneInv

LEMMA DumpStep ==
  ASSUME TypeOK, NEW r \in Restores, OneInv(r), Dump(r)
  PROVE  OneInv(r)'
<1>1. job[r].pc = "dump"
  BY DEF Dump, At
<1>2. JobIs(r, "pgRestore", {"dump", "dbStarted"}) /\ job'[r].dump = db /\ job'[r].dbStarted
  BY <1>1, DumpJob DEF Dump, OneInv, At
<1>3. UNCHANGED <<db, uploads, locked, cache, before, outcome>>
  BY DEF Dump, OneInv, At, TypeOK, Databases
<1>4. LockInv(r)' /\ FlagsInv(r)'
  BY <1>1, <1>2, <1>3 DEF OneInv, LockInv, FlagsInv, JobIs, Kept
<1>5. CopiesInv(r)'
  BY <1>1, <1>2, <1>3 DEF OneInv, FlagsInv, CopiesInv, JobIs, Kept, SameDb
<1>6. ForwardInv(r)'
  BY <1>1, <1>2, <1>3, ArchiveAssumption DEF OneInv, FlagsInv, ForwardInv, JobIs, Kept, Outside
<1>7. BackwardInv(r)'
  BY <1>1, <1>2, <1>3 DEF OneInv, FlagsInv, CopiesInv, BackwardInv, JobIs, Kept, Outside, SameDb
<1>8. EndedInv(r)'
  BY <1>2 DEF EndedInv, Ended, At, JobIs
<1> QED BY <1>4, <1>5, <1>6, <1>7, <1>8 DEF OneInv

LEMMA PgRestoreStep ==
  ASSUME TypeOK, NEW r \in Restores, OneInv(r), PgRestore(r)
  PROVE  OneInv(r)'
<1>1. job[r].pc = "pgRestore"
  BY DEF PgRestore, At
<1>2. JobIs(r, "migrate", {})
  BY <1>1, GotoJob DEF PgRestore, OneInv, At
<1>3. db' = ArchiveDb /\ UNCHANGED <<uploads, locked, cache, before, outcome>>
  BY DEF PgRestore, OneInv, At, TypeOK, Databases
<1>4. LockInv(r)' /\ FlagsInv(r)'
  BY <1>1, <1>2, <1>3 DEF OneInv, LockInv, FlagsInv, JobIs, Kept
<1>5. CopiesInv(r)'
  BY <1>1, <1>2, <1>3 DEF OneInv, FlagsInv, CopiesInv, JobIs, Kept, SameDb
<1>6. ForwardInv(r)'
  BY <1>1, <1>2, <1>3, ArchiveAssumption DEF OneInv, FlagsInv, ForwardInv, JobIs, Kept, Outside
<1>7. BackwardInv(r)'
  BY <1>1, <1>2, <1>3 DEF OneInv, FlagsInv, CopiesInv, BackwardInv, JobIs, Kept, Outside, SameDb
<1>8. EndedInv(r)'
  BY <1>2 DEF EndedInv, Ended, At, JobIs
<1> QED BY <1>4, <1>5, <1>6, <1>7, <1>8 DEF OneInv

LEMMA MigrateStep ==
  ASSUME TypeOK, NEW r \in Restores, OneInv(r), Migrate(r)
  PROVE  OneInv(r)'
<1>1. job[r].pc = "migrate"
  BY DEF Migrate, At
<1>2. JobIs(r, "listKeys", {"uploadsStarted"}) /\ job'[r].uploadsStarted
  BY <1>1, MigrateJob DEF Migrate, OneInv, At
<1>3. db'.rows = db.rows /\ db'.migrated /\ UNCHANGED <<uploads, locked, cache, before, outcome>>
  BY DEF Migrate, OneInv, At, TypeOK, Databases
<1>4. LockInv(r)' /\ FlagsInv(r)'
  BY <1>1, <1>2, <1>3 DEF OneInv, LockInv, FlagsInv, JobIs, Kept
<1>5. CopiesInv(r)'
  BY <1>1, <1>2, <1>3 DEF OneInv, FlagsInv, CopiesInv, JobIs, Kept, SameDb
<1>6. ForwardInv(r)'
  BY <1>1, <1>2, <1>3, ArchiveAssumption DEF OneInv, FlagsInv, ForwardInv, JobIs, Kept, Outside
<1>7. BackwardInv(r)'
  BY <1>1, <1>2, <1>3 DEF OneInv, FlagsInv, CopiesInv, BackwardInv, JobIs, Kept, Outside, SameDb
<1>8. EndedInv(r)'
  BY <1>2 DEF EndedInv, Ended, At, JobIs
<1> QED BY <1>4, <1>5, <1>6, <1>7, <1>8 DEF OneInv

LEMMA ListKeysStep ==
  ASSUME TypeOK, NEW r \in Restores, OneInv(r), ListKeys(r)
  PROVE  OneInv(r)'
<1>1. job[r].pc = "listKeys"
  BY DEF ListKeys, At
<1>2. JobIs(r, "deleteKeys", {"keys"}) /\ job'[r].keys = uploads
  BY <1>1, ListJob DEF ListKeys, OneInv, At
<1>3. UNCHANGED <<db, uploads, locked, cache, before, outcome>>
  BY DEF ListKeys, OneInv, At, TypeOK, Databases
<1>4. LockInv(r)' /\ FlagsInv(r)'
  BY <1>1, <1>2, <1>3 DEF OneInv, LockInv, FlagsInv, JobIs, Kept
<1>5. CopiesInv(r)'
  BY <1>1, <1>2, <1>3 DEF OneInv, FlagsInv, CopiesInv, JobIs, Kept, SameDb
<1>6. ForwardInv(r)'
  BY <1>1, <1>2, <1>3, ArchiveAssumption DEF OneInv, FlagsInv, ForwardInv, JobIs, Kept, Outside
<1>7. BackwardInv(r)'
  BY <1>1, <1>2, <1>3 DEF OneInv, FlagsInv, CopiesInv, BackwardInv, JobIs, Kept, Outside, SameDb
<1>8. EndedInv(r)'
  BY <1>2 DEF EndedInv, Ended, At, JobIs
<1> QED BY <1>4, <1>5, <1>6, <1>7, <1>8 DEF OneInv

LEMMA DeleteKeysStep ==
  ASSUME TypeOK, NEW r \in Restores, OneInv(r), DeleteKeys(r)
  PROVE  OneInv(r)'
<1>1. job[r].pc = "deleteKeys"
  BY DEF DeleteKeys, At
<1>2. JobIs(r, "putFiles", {})
  BY <1>1, GotoJob DEF DeleteKeys, OneInv, At
<1>3. uploads' = uploads \ job[r].keys /\ UNCHANGED <<db, locked, cache, before, outcome>>
  BY DEF DeleteKeys, OneInv, At, TypeOK, Databases
<1>4. LockInv(r)' /\ FlagsInv(r)'
  BY <1>1, <1>2, <1>3 DEF OneInv, LockInv, FlagsInv, JobIs, Kept
<1>5. CopiesInv(r)'
  BY <1>1, <1>2, <1>3 DEF OneInv, FlagsInv, CopiesInv, JobIs, Kept, SameDb
<1>6. ForwardInv(r)'
  BY <1>1, <1>2, <1>3, ArchiveAssumption DEF OneInv, FlagsInv, ForwardInv, JobIs, Kept, Outside
<1>7. BackwardInv(r)'
  BY <1>1, <1>2, <1>3 DEF OneInv, FlagsInv, CopiesInv, BackwardInv, JobIs, Kept, Outside, SameDb
<1>8. EndedInv(r)'
  BY <1>2 DEF EndedInv, Ended, At, JobIs
<1> QED BY <1>4, <1>5, <1>6, <1>7, <1>8 DEF OneInv

LEMMA PutFilesStep ==
  ASSUME TypeOK, NEW r \in Restores, OneInv(r), PutFiles(r)
  PROVE  OneInv(r)'
<1>1. job[r].pc = "putFiles"
  BY DEF PutFiles, At
<1>2. JobIs(r, "endSessions", {})
  BY <1>1, GotoJob DEF PutFiles, OneInv, At
<1>3. uploads' = uploads \cup ArchiveFiles /\ UNCHANGED <<db, locked, cache, before, outcome>>
  BY DEF PutFiles, OneInv, At, TypeOK, Databases
<1>4. LockInv(r)' /\ FlagsInv(r)'
  BY <1>1, <1>2, <1>3 DEF OneInv, LockInv, FlagsInv, JobIs, Kept
<1>5. CopiesInv(r)'
  BY <1>1, <1>2, <1>3 DEF OneInv, FlagsInv, CopiesInv, JobIs, Kept, SameDb
<1>6. ForwardInv(r)'
  BY <1>1, <1>2, <1>3, ArchiveAssumption DEF OneInv, FlagsInv, ForwardInv, JobIs, Kept, Outside
<1>7. BackwardInv(r)'
  BY <1>1, <1>2, <1>3 DEF OneInv, FlagsInv, CopiesInv, BackwardInv, JobIs, Kept, Outside, SameDb
<1>8. EndedInv(r)'
  BY <1>2 DEF EndedInv, Ended, At, JobIs
<1> QED BY <1>4, <1>5, <1>6, <1>7, <1>8 DEF OneInv

LEMMA EndSessionsStep ==
  ASSUME TypeOK, NEW r \in Restores, OneInv(r), EndSessions(r)
  PROVE  OneInv(r)'
<1>1. job[r].pc = "endSessions"
  BY DEF EndSessions, At
<1>2. JobIs(r, "reload", {})
  BY <1>1, GotoJob DEF EndSessions, OneInv, At
<1>3. db'.rows = db.rows /\ db'.sessions = {} /\ db'.migrated = db.migrated
        /\ UNCHANGED <<uploads, locked, cache, before, outcome>>
  BY DEF EndSessions, OneInv, At, TypeOK, Databases
<1>4. LockInv(r)' /\ FlagsInv(r)'
  BY <1>1, <1>2, <1>3 DEF OneInv, LockInv, FlagsInv, JobIs, Kept
<1>5. CopiesInv(r)'
  BY <1>1, <1>2, <1>3 DEF OneInv, FlagsInv, CopiesInv, JobIs, Kept, SameDb
<1>6. ForwardInv(r)'
  BY <1>1, <1>2, <1>3, ArchiveAssumption DEF OneInv, FlagsInv, ForwardInv, JobIs, Kept, Outside
<1>7. BackwardInv(r)'
  BY <1>1, <1>2, <1>3 DEF OneInv, FlagsInv, CopiesInv, BackwardInv, JobIs, Kept, Outside, SameDb
<1>8. EndedInv(r)'
  BY <1>2 DEF EndedInv, Ended, At, JobIs
<1> QED BY <1>4, <1>5, <1>6, <1>7, <1>8 DEF OneInv

LEMMA ReloadStep ==
  ASSUME TypeOK, NEW r \in Restores, OneInv(r), Reload(r)
  PROVE  OneInv(r)'
<1>1. job[r].pc = "reload"
  BY DEF Reload, At
<1>2. JobIs(r, "maintenanceOff", {})
  BY <1>1, GotoJob DEF Reload, OneInv, At
<1>3. cache' = Effective(db.maintenance) /\ UNCHANGED <<db, uploads, locked, before, outcome>>
  BY DEF Reload, OneInv, At, TypeOK, Databases
<1>4. LockInv(r)' /\ FlagsInv(r)'
  BY <1>1, <1>2, <1>3 DEF OneInv, LockInv, FlagsInv, JobIs, Kept
<1>5. CopiesInv(r)'
  BY <1>1, <1>2, <1>3 DEF OneInv, FlagsInv, CopiesInv, JobIs, Kept, SameDb
<1>6. ForwardInv(r)'
  BY <1>1, <1>2, <1>3, ArchiveAssumption DEF OneInv, FlagsInv, ForwardInv, JobIs, Kept, Outside
<1>7. BackwardInv(r)'
  BY <1>1, <1>2, <1>3 DEF OneInv, FlagsInv, CopiesInv, BackwardInv, JobIs, Kept, Outside, SameDb
<1>8. EndedInv(r)'
  BY <1>2 DEF EndedInv, Ended, At, JobIs
<1> QED BY <1>4, <1>5, <1>6, <1>7, <1>8 DEF OneInv

LEMMA RollbackListStep ==
  ASSUME TypeOK, NEW r \in Restores, OneInv(r), RollbackList(r)
  PROVE  OneInv(r)'
<1>1. job[r].pc = "rollbackList"
  BY DEF RollbackList, At
<1>2. JobIs(r, "rollbackDelete", {"keys"}) /\ job'[r].keys = uploads
  BY <1>1, ListJob DEF RollbackList, OneInv, At
<1>3. UNCHANGED <<db, uploads, locked, cache, before, outcome>>
  BY DEF RollbackList, OneInv, At, TypeOK, Databases
<1>4. LockInv(r)' /\ FlagsInv(r)'
  BY <1>1, <1>2, <1>3 DEF OneInv, LockInv, FlagsInv, JobIs, Kept
<1>5. CopiesInv(r)'
  BY <1>1, <1>2, <1>3 DEF OneInv, FlagsInv, CopiesInv, JobIs, Kept, SameDb
<1>6. ForwardInv(r)'
  BY <1>1, <1>2, <1>3, ArchiveAssumption DEF OneInv, FlagsInv, ForwardInv, JobIs, Kept, Outside
<1>7. BackwardInv(r)'
  BY <1>1, <1>2, <1>3 DEF OneInv, FlagsInv, CopiesInv, BackwardInv, JobIs, Kept, Outside, SameDb
<1>8. EndedInv(r)'
  BY <1>2 DEF EndedInv, Ended, At, JobIs
<1> QED BY <1>4, <1>5, <1>6, <1>7, <1>8 DEF OneInv

LEMMA RollbackDeleteStep ==
  ASSUME TypeOK, NEW r \in Restores, OneInv(r), RollbackDelete(r)
  PROVE  OneInv(r)'
<1>1. job[r].pc = "rollbackDelete"
  BY DEF RollbackDelete, At
<1>2. JobIs(r, "rollbackPut", {})
  BY <1>1, GotoJob DEF RollbackDelete, OneInv, At
<1>3. uploads' = uploads \ job[r].keys /\ UNCHANGED <<db, locked, cache, before, outcome>>
  BY DEF RollbackDelete, OneInv, At, TypeOK, Databases
<1>4. LockInv(r)' /\ FlagsInv(r)'
  BY <1>1, <1>2, <1>3 DEF OneInv, LockInv, FlagsInv, JobIs, Kept
<1>5. CopiesInv(r)'
  BY <1>1, <1>2, <1>3 DEF OneInv, FlagsInv, CopiesInv, JobIs, Kept, SameDb
<1>6. ForwardInv(r)'
  BY <1>1, <1>2, <1>3, ArchiveAssumption DEF OneInv, FlagsInv, ForwardInv, JobIs, Kept, Outside
<1>7. BackwardInv(r)'
  BY <1>1, <1>2, <1>3 DEF OneInv, FlagsInv, CopiesInv, BackwardInv, JobIs, Kept, Outside, SameDb
<1>8. EndedInv(r)'
  BY <1>2 DEF EndedInv, Ended, At, JobIs
<1> QED BY <1>4, <1>5, <1>6, <1>7, <1>8 DEF OneInv

LEMMA RollbackPutStep ==
  ASSUME TypeOK, NEW r \in Restores, OneInv(r), RollbackPut(r)
  PROVE  OneInv(r)'
<1>1. job[r].pc = "rollbackPut"
  BY DEF RollbackPut, At
<1>2. JobIs(r, "rollbackDatabase", {})
  BY <1>1, GotoJob DEF RollbackPut, OneInv, FlagsInv, At
<1>3. uploads' = uploads \cup job[r].files /\ UNCHANGED <<db, locked, cache, before, outcome>>
  BY DEF RollbackPut, OneInv, FlagsInv, At, TypeOK, Databases
<1>4. LockInv(r)' /\ FlagsInv(r)'
  BY <1>1, <1>2, <1>3 DEF OneInv, LockInv, FlagsInv, JobIs, Kept
<1>5. CopiesInv(r)'
  BY <1>1, <1>2, <1>3 DEF OneInv, FlagsInv, CopiesInv, JobIs, Kept, SameDb
<1>6. ForwardInv(r)'
  BY <1>1, <1>2, <1>3, ArchiveAssumption DEF OneInv, FlagsInv, ForwardInv, JobIs, Kept, Outside
<1>7. BackwardInv(r)'
  BY <1>1, <1>2, <1>3 DEF OneInv, FlagsInv, CopiesInv, BackwardInv, JobIs, Kept, Outside, SameDb
<1>8. EndedInv(r)'
  BY <1>2 DEF EndedInv, Ended, At, JobIs
<1> QED BY <1>4, <1>5, <1>6, <1>7, <1>8 DEF OneInv

LEMMA RollbackDatabaseStep ==
  ASSUME TypeOK, NEW r \in Restores, OneInv(r), RollbackDatabase(r)
  PROVE  OneInv(r)'
<1>1. job[r].pc = "rollbackDatabase"
  BY DEF RollbackDatabase, At
<1>2. JobIs(r, "rollbackReload", {})
  BY <1>1, GotoJob DEF RollbackDatabase, OneInv, At
<1>3. db' = job[r].dump /\ UNCHANGED <<uploads, locked, cache, before, outcome>>
  BY DEF RollbackDatabase, OneInv, At, TypeOK, Databases
<1>4. LockInv(r)' /\ FlagsInv(r)'
  BY <1>1, <1>2, <1>3 DEF OneInv, LockInv, FlagsInv, JobIs, Kept
<1>5. CopiesInv(r)'
  BY <1>1, <1>2, <1>3 DEF OneInv, FlagsInv, CopiesInv, JobIs, Kept, SameDb
<1>6. ForwardInv(r)'
  BY <1>1, <1>2, <1>3, ArchiveAssumption DEF OneInv, FlagsInv, ForwardInv, JobIs, Kept, Outside
<1>7. BackwardInv(r)'
  BY <1>1, <1>2, <1>3 DEF OneInv, FlagsInv, CopiesInv, BackwardInv, JobIs, Kept, Outside, SameDb
<1>8. EndedInv(r)'
  BY <1>2 DEF EndedInv, Ended, At, JobIs
<1> QED BY <1>4, <1>5, <1>6, <1>7, <1>8 DEF OneInv

LEMMA RollbackReloadStep ==
  ASSUME TypeOK, NEW r \in Restores, OneInv(r), RollbackReload(r)
  PROVE  OneInv(r)'
<1>1. job[r].pc = "rollbackReload"
  BY DEF RollbackReload, At
<1>2. JobIs(r, "finally", {})
  BY <1>1, GotoJob DEF RollbackReload, OneInv, At
<1>3. cache' = Effective(db.maintenance) /\ UNCHANGED <<db, uploads, locked, before, outcome>>
  BY DEF RollbackReload, OneInv, At, TypeOK, Databases
<1>4. LockInv(r)' /\ FlagsInv(r)'
  BY <1>1, <1>2, <1>3 DEF OneInv, LockInv, FlagsInv, JobIs, Kept
<1>5. CopiesInv(r)'
  BY <1>1, <1>2, <1>3 DEF OneInv, FlagsInv, CopiesInv, JobIs, Kept, SameDb
<1>6. ForwardInv(r)'
  BY <1>1, <1>2, <1>3, ArchiveAssumption DEF OneInv, FlagsInv, ForwardInv, JobIs, Kept, Outside
<1>7. BackwardInv(r)'
  BY <1>1, <1>2, <1>3 DEF OneInv, FlagsInv, CopiesInv, BackwardInv, JobIs, Kept, Outside, SameDb
<1>8. EndedInv(r)'
  BY <1>2 DEF EndedInv, Ended, At, JobIs
<1> QED BY <1>4, <1>5, <1>6, <1>7, <1>8 DEF OneInv

(* Settings the environment manages are refused, and the restore rolled back. *)
LEMMA MaintenanceOffStep ==
  ASSUME TypeOK, NEW r \in Restores, OneInv(r), MaintenanceOff(r)
  PROVE  OneInv(r)'
<1>0. job[r].pc = "maintenanceOff" /\ job[r].uploadsStarted /\ job[r].dbStarted
  BY DEF MaintenanceOff, At, OneInv, FlagsInv
<1>1. CASE EnvMaintenance # "unset"
  <2>1. JobIs(r, "rollbackList", {"error"}) /\ job'[r].error
    BY <1>0, <1>1, ThrowJob DEF MaintenanceOff, CatchPC
  <2>2. UNCHANGED <<db, uploads, locked, cache, before, outcome>>
    BY <1>1 DEF MaintenanceOff
  <2>3. LockInv(r)' /\ FlagsInv(r)' /\ CopiesInv(r)'
    BY <1>0, <2>1, <2>2 DEF OneInv, LockInv, FlagsInv, CopiesInv, JobIs, Kept, SameDb
  <2>4. ForwardInv(r)' /\ BackwardInv(r)' /\ EndedInv(r)'
    BY <1>0, <2>1, <2>2 DEF ForwardInv, BackwardInv, EndedInv, Ended, At, JobIs
  <2> QED BY <2>3, <2>4 DEF OneInv
<1>2. CASE EnvMaintenance = "unset"
  <2>1. JobIs(r, "finally", {})
    BY <1>0, <1>2, GotoJob DEF MaintenanceOff
  <2>2. /\ db'.rows = db.rows /\ db'.sessions = db.sessions /\ db'.migrated = db.migrated
        /\ cache' = Effective(db'.maintenance)
        /\ UNCHANGED <<uploads, locked, before, outcome>>
    BY <1>2 DEF MaintenanceOff, TypeOK, Databases, Effective
  <2>3. LockInv(r)' /\ FlagsInv(r)'
    BY <1>0, <2>1, <2>2 DEF OneInv, LockInv, FlagsInv, JobIs, Kept
  <2>4. CopiesInv(r)'
    BY <1>0, <2>1, <2>2 DEF OneInv, CopiesInv, JobIs, Kept
  <2>5. ForwardInv(r)'
    BY <1>0, <2>1, <2>2 DEF OneInv, ForwardInv, JobIs, Kept
  <2>6. BackwardInv(r)' /\ EndedInv(r)'
    BY <1>0, <2>1, <2>2 DEF OneInv, FlagsInv, BackwardInv, EndedInv, Ended, At, JobIs, Kept
  <2> QED BY <2>3, <2>4, <2>5, <2>6 DEF OneInv
<1> QED BY <1>1, <1>2

(* The beginning: what is there now is what a rollback has to bring back.   *)
LEMMA BeginStep ==
  ASSUME TypeOK, NEW r \in Restores, OneInv(r), Begin(r)
  PROVE  OneInv(r)'
<1>1. job'[r].pc = "validate" /\ Empty(r)
  BY BeginJob
<1>2. /\ ~locked /\ UNCHANGED <<db, uploads, locked, cache>>
      /\ before'[r] = [db |-> db, uploads |-> uploads, cache |-> cache]
  BY DEF Begin, TypeOK
<1>3. LockInv(r)' /\ FlagsInv(r)' /\ CopiesInv(r)'
  BY <1>1, <1>2 DEF LockInv, FlagsInv, CopiesInv, Empty, SameDb
<1>4. ForwardInv(r)' /\ BackwardInv(r)' /\ EndedInv(r)'
  BY <1>1, <1>2 DEF ForwardInv, BackwardInv, EndedInv, Ended, At, Empty
<1> QED BY <1>3, <1>4 DEF OneInv

LEMMA FinallyStep ==
  ASSUME TypeOK, NEW r \in Restores, OneInv(r), Finally(r)
  PROVE  OneInv(r)'
<1>1. job'[r].pc = "idle" /\ Empty(r) /\ job[r].pc = "finally"
  BY FinallyJob DEF Finally, At
<1>2. /\ ~locked' /\ UNCHANGED <<db, uploads, cache, before>>
      /\ outcome'[r] = IF ~job[r].error THEN "ok"
                       ELSE IF job[r].rollbackFault THEN "rollbackFailed" ELSE "failed"
  BY DEF Finally, TypeOK
<1>3. LockInv(r)' /\ FlagsInv(r)' /\ CopiesInv(r)'
  BY <1>1, <1>2 DEF LockInv, FlagsInv, CopiesInv, Empty
<1>4. ForwardInv(r)' /\ BackwardInv(r)'
  BY <1>1, <1>2 DEF ForwardInv, BackwardInv, Empty
<1>5. EndedInv(r)'
  <2>1. CASE ~job[r].error
    <3>1. /\ Outside(db.sessions) = {} /\ Outside(db.rows) = ArchiveDb.rows /\ db.migrated
          /\ Outside(uploads) = ArchiveFiles /\ cache = Effective(db.maintenance)
      BY <1>1, <2>1 DEF OneInv, ForwardInv
    <3>2. outcome'[r] = "ok"
      BY <1>2, <2>1
    <3> QED BY <1>2, <3>1, <3>2 DEF EndedInv, Ended
  <2>2. CASE job[r].error /\ ~job[r].rollbackFault
    <3>1. SameDb(db, before[r].db) /\ Outside(uploads) = Outside(before[r].uploads)
      BY <1>1, <2>2 DEF OneInv, BackwardInv
    <3>2. cache \in {before[r].cache, Effective(db.maintenance)}
      BY <1>1, <2>2 DEF OneInv, BackwardInv, CopiesInv
    <3>3. outcome'[r] = "failed"
      BY <1>2, <2>2
    <3> QED BY <1>2, <3>1, <3>2, <3>3 DEF EndedInv, Ended, SameDb
  <2>3. CASE job[r].error /\ job[r].rollbackFault
    <3>1. outcome'[r] = "rollbackFailed"
      BY <1>2, <2>3
    <3> QED BY <3>1 DEF EndedInv, Ended
  <2> QED BY <2>1, <2>2, <2>3
<1> QED BY <1>3, <1>4, <1>5 DEF OneInv

-----------------------------------------------------------------------------
(* Failures: the catch block finds the flags telling the truth. *)

(* A failing command of the way forward, which may have changed only what   *)
(* the flags say was started.                                              *)
LEMMA CaughtStep ==
  ASSUME TypeOK, NEW r \in Restores, OneInv(r), ThrowFault(r),
         job[r].pc \in {"validate", "copyUploads", "dump"} \cup ReplacePCs,
         UNCHANGED <<locked, cache, before, outcome>>,
         db' = db \/ job[r].dbStarted, uploads' = uploads \/ job[r].uploadsStarted
  PROVE  OneInv(r)'
<1>1. /\ JobIs(r, CatchPC(job[r]), {"error", "fault"}) /\ job'[r].error
      /\ ~job[r].rollbackFault
  BY ThrowFaultJob DEF OneInv, FlagsInv
<1>2. CASE job[r].uploadsStarted
  <2>1. job[r].dbStarted /\ job'[r].pc = "rollbackList" /\ job[r].pc \in ReplacePCs
    BY <1>1, <1>2 DEF OneInv, FlagsInv, CatchPC, JobIs
  <2>2. LockInv(r)' /\ FlagsInv(r)' /\ CopiesInv(r)'
    BY <1>1, <1>2, <2>1 DEF OneInv, LockInv, FlagsInv, CopiesInv, JobIs, Kept, SameDb
  <2>3. ForwardInv(r)' /\ BackwardInv(r)' /\ EndedInv(r)'
    BY <2>1 DEF ForwardInv, BackwardInv, EndedInv, Ended, At
  <2> QED BY <2>2, <2>3 DEF OneInv
<1>3. CASE ~job[r].uploadsStarted /\ job[r].dbStarted
  <2>1. job'[r].pc = "rollbackDatabase" /\ job[r].pc \in ReplacePCs /\ uploads' = uploads
    BY <1>1, <1>3 DEF OneInv, FlagsInv, CatchPC, JobIs
  <2>2. LockInv(r)' /\ FlagsInv(r)' /\ CopiesInv(r)'
    BY <1>1, <1>3, <2>1 DEF OneInv, LockInv, FlagsInv, CopiesInv, JobIs, Kept, SameDb
  <2>3. ForwardInv(r)' /\ BackwardInv(r)' /\ EndedInv(r)'
    BY <1>1, <1>3, <2>1 DEF OneInv, CopiesInv, ForwardInv, BackwardInv, EndedInv, Ended, At, JobIs, Kept
  <2> QED BY <2>2, <2>3 DEF OneInv
<1>4. CASE ~job[r].uploadsStarted /\ ~job[r].dbStarted
  <2>1. job'[r].pc = "finally" /\ UNCHANGED <<db, uploads>>
    BY <1>1, <1>4 DEF CatchPC, JobIs
  <2>2. LockInv(r)' /\ FlagsInv(r)' /\ CopiesInv(r)'
    BY <1>1, <1>4, <2>1 DEF OneInv, LockInv, FlagsInv, CopiesInv, JobIs, Kept, SameDb
  <2>3. ForwardInv(r)' /\ BackwardInv(r)' /\ EndedInv(r)'
    BY <1>1, <1>4, <2>1 DEF OneInv, CopiesInv, ForwardInv, BackwardInv, EndedInv, Ended, At, JobIs, Kept, SameDb
  <2> QED BY <2>2, <2>3 DEF OneInv
<1> QED BY <1>2, <1>3, <1>4

(* A failing command of the rollback: nothing is promised any more but what *)
(* the flags say.                                                          *)
LEMMA UncaughtStep ==
  ASSUME TypeOK, NEW r \in Restores, OneInv(r), NEW pc \in RollbackPCs \cup {"finally"},
         RollbackFault(r, pc), job[r].pc \in RollbackPCs,
         pc \in {"rollbackList", "rollbackDelete", "rollbackPut"} => job[r].uploadsStarted,
         UNCHANGED <<locked, cache, before, outcome>>,
         uploads' = uploads \/ job[r].uploadsStarted
  PROVE  OneInv(r)'
<1>1. /\ JobIs(r, pc, {"rollbackFault"}) /\ job'[r].rollbackFault
      /\ job[r].dbStarted /\ job[r].error
  BY RollbackFaultJob DEF OneInv, FlagsInv
<1>2. LockInv(r)' /\ FlagsInv(r)'
  BY <1>1 DEF OneInv, LockInv, FlagsInv, JobIs, Kept
<1>3. CopiesInv(r)'
  BY <1>1 DEF OneInv, CopiesInv, JobIs, Kept, SameDb
<1>4. ForwardInv(r)' /\ BackwardInv(r)' /\ EndedInv(r)'
  BY <1>1 DEF ForwardInv, BackwardInv, EndedInv, Ended, At, JobIs, Kept
<1> QED BY <1>2, <1>3, <1>4 DEF OneInv

LEMMA FailStepOne ==
  ASSUME TypeOK, NEW r \in Restores, OneInv(r), FailStep(r)
  PROVE  OneInv(r)'
<1>0. FlagsInv(r)
  BY DEF OneInv
<1>1. CASE FailCleanly(r)
  BY <1>1, CaughtStep DEF FailCleanly
<1>2. CASE FailPgRestore(r)
  BY <1>0, <1>2, CaughtStep DEF FailPgRestore, At, FlagsInv
<1>3. CASE FailDeleteKeys(r)
  BY <1>0, <1>3, CaughtStep DEF FailDeleteKeys, At, FlagsInv
<1>4. CASE FailPutFiles(r)
  BY <1>0, <1>4, CaughtStep DEF FailPutFiles, At, FlagsInv
<1>5. CASE FailRollbackClear(r)
  BY <1>0, <1>5, UncaughtStep DEF FailRollbackClear, FlagsInv
<1>6. CASE FailRollbackPut(r)
  BY <1>0, <1>6, UncaughtStep DEF FailRollbackPut, At, FlagsInv
<1>7. CASE FailRollbackDatabase(r)
  BY <1>0, <1>7, UncaughtStep DEF FailRollbackDatabase, At, FlagsInv
<1>8. CASE FailRollbackReload(r)
  BY <1>0, <1>8, UncaughtStep DEF FailRollbackReload, At, FlagsInv
<1> QED BY <1>1, <1>2, <1>3, <1>4, <1>5, <1>6, <1>7, <1>8 DEF FailStep

(* After a crash there is no restore, and nothing is said of the contents.  *)
LEMMA CrashStep ==
  ASSUME TypeOK, NEW r \in Restores, Crash
  PROVE  OneInv(r)'
<1>1. /\ job'[r] = NoJob /\ outcome'[r] = "none" /\ ~locked'
  BY DEF Crash
<1>2. /\ job'[r].pc = "idle" /\ ~job'[r].dbStarted /\ ~job'[r].uploadsStarted
      /\ ~job'[r].error /\ ~job'[r].rollbackFault
  BY <1>1 DEF NoJob
<1> QED BY <1>1, <1>2 DEF OneInv, LockInv, FlagsInv, CopiesInv, ForwardInv, BackwardInv,
        EndedInv, Ended, At

(* Other requests only add what the comparisons leave out. *)
LEMMA ClientStepOne ==
  ASSUME TypeOK, NEW r \in Restores, OneInv(r), NEW c \in Clients, ClientStep(c)
  PROVE  OneInv(r)'
<1>1. UNCHANGED <<locked, cache, job, outcome, before>>
  BY DEF ClientStep, Admit, PerformWrite, PerformLogin
<1>2. /\ Outside(uploads') = Outside(uploads)
      /\ Outside(db'.rows) = Outside(db.rows) /\ Outside(db'.sessions) = Outside(db.sessions)
      /\ db'.maintenance = db.maintenance /\ db'.migrated = db.migrated
  <2>1. /\ \A S : Outside(S \cup {c}) = Outside(S)
        /\ db = [rows |-> db.rows, sessions |-> db.sessions,
                 maintenance |-> db.maintenance, migrated |-> db.migrated]
    BY DEF Outside, TypeOK, Databases
  <2>2. CASE \E url \in Urls : Admit(c, url)
    BY <2>2 DEF Admit
  <2>3. CASE PerformWrite(c)
    <3>1. /\ db'.rows = db.rows \cup {c} /\ db'.sessions = db.sessions
          /\ db'.maintenance = db.maintenance /\ db'.migrated = db.migrated
          /\ uploads' = uploads \cup {c}
      BY <2>1, <2>3 DEF PerformWrite
    <3> QED BY <2>1, <3>1
  <2>4. CASE PerformLogin(c)
    <3>1. /\ db'.rows = db.rows /\ db'.sessions = db.sessions \cup {c}
          /\ db'.maintenance = db.maintenance /\ db'.migrated = db.migrated
          /\ uploads' = uploads
      BY <2>1, <2>4 DEF PerformLogin
    <3> QED BY <2>1, <3>1
  <2> QED BY <2>2, <2>3, <2>4 DEF ClientStep
<1>3. LockInv(r)' /\ FlagsInv(r)'
  BY <1>1 DEF OneInv, LockInv, FlagsInv
<1> HIDE DEF Outside
<1>4. CopiesInv(r)'
  BY <1>1, <1>2 DEF OneInv, CopiesInv, SameDb
<1>5. ForwardInv(r)'
  BY <1>1, <1>2 DEF OneInv, ForwardInv
<1>6. BackwardInv(r)'
  BY <1>1, <1>2 DEF OneInv, BackwardInv, SameDb
<1>7. EndedInv(r)'
  BY <1>1, <1>2 DEF OneInv, EndedInv, Ended, At, SameDb
<1> QED BY <1>3, <1>4, <1>5, <1>6, <1>7 DEF OneInv

-----------------------------------------------------------------------------
(* The theorems of one restore at a time. *)

LEMMA ForwardStepOne ==
  ASSUME TypeOK, NEW r \in Restores, OneInv(r), ForwardStep(r)
  PROVE  OneInv(r)'
BY ValidateStep, CopyUploadsStep, LockStep, DumpStep, PgRestoreStep, MigrateStep,
   ListKeysStep, DeleteKeysStep, PutFilesStep, EndSessionsStep, ReloadStep,
   MaintenanceOffStep DEF ForwardStep

LEMMA RollbackStepOne ==
  ASSUME TypeOK, NEW r \in Restores, OneInv(r), RollbackStep(r)
  PROVE  OneInv(r)'
BY RollbackListStep, RollbackDeleteStep, RollbackPutStep, RollbackDatabaseStep,
   RollbackReloadStep DEF RollbackStep

LEMMA StutterOne ==
  ASSUME NEW r \in Restores, OneInv(r), UNCHANGED vars
  PROVE  OneInv(r)'
BY DEF vars, OneInv, LockInv, FlagsInv, CopiesInv, ForwardInv, BackwardInv, EndedInv, Ended, At,
   SameDb

LEMMA NextOne ==
  ASSUME NEW r, Restores = {r}, TypeOK, OneInv(r), [Next]_vars
  PROVE  OneInv(r)'
<1>0. r \in Restores
  OBVIOUS
<1>1. ASSUME NEW q \in Restores, Begin(q) \/ RestoreStep(q) PROVE OneInv(r)'
  <2>1. q = r
    OBVIOUS
  <2> QED BY <1>1, <2>1, BeginStep, ForwardStepOne, RollbackStepOne, FailStepOne, FinallyStep
          DEF RestoreStep
<1>2. ASSUME NEW c \in Clients, ClientStep(c) PROVE OneInv(r)'
  BY <1>0, <1>2, ClientStepOne
<1>3. CASE Crash
  BY <1>0, <1>3, CrashStep
<1>4. CASE UNCHANGED vars
  BY <1>0, <1>4, StutterOne
<1> QED BY <1>1, <1>2, <1>3, <1>4 DEF Next

LEMMA InitOne ==
  ASSUME NEW r \in Restores, Init
  PROVE  OneInv(r)
<1>1. job[r] = NoJob /\ outcome[r] = "none" /\ ~locked
  BY DEF Init
<1>2. /\ job[r].pc = "idle" /\ ~job[r].dbStarted /\ ~job[r].uploadsStarted
      /\ ~job[r].error /\ ~job[r].rollbackFault
  BY <1>1 DEF NoJob
<1> QED BY <1>1, <1>2 DEF OneInv, LockInv, FlagsInv, CopiesInv, ForwardInv, BackwardInv,
        EndedInv, Ended, At

LEMMA OneInvAlways ==
  ASSUME NEW CONSTANT r, Restores = {r}
  PROVE  Spec => []OneInv(r)
<1>1. r \in Restores
  OBVIOUS
<1>2. Init => OneInv(r)
  BY <1>1, InitOne
<1>3. TypeOK /\ OneInv(r) /\ [Next]_vars => OneInv(r)'
  BY NextOne
<1> QED BY <1>2, <1>3, TypeCorrect, PTL DEF Spec

(* With a single restore at a time, no session of the backup or of the old   *)
(* instance survives a successful restore.                                 *)
THEOREM SessionsEnd ==
  ASSUME NEW CONSTANT r, Restores = {r}
  PROVE  Spec => []RestoredSessionsInvalid
<1>1. OneInv(r) => RestoredSessionsInvalid
  BY ArchiveAssumption DEF OneInv, EndedInv, RestoredSessionsInvalid, Outside
<1> QED BY <1>1, OneInvAlways, PTL

(* With a single restore at a time, a successful restore leaves the rows and *)
(* the files of the backup, migrated, and nothing of the old instance.     *)
THEOREM ContentsReplaced ==
  ASSUME NEW CONSTANT r, Restores = {r}
  PROVE  Spec => []RestoreReplaces
<1>1. OneInv(r) => RestoreReplaces
  BY DEF OneInv, EndedInv, RestoreReplaces, Outside
<1> QED BY <1>1, OneInvAlways, PTL

(* With a single restore at a time, a restore that fails at any step, and     *)
(* whose rollback commands succeed, leaves the contents it found.           *)
THEOREM RollsBack ==
  ASSUME NEW CONSTANT r, Restores = {r}
  PROVE  Spec => []FailedRestoreRollsBack
<1>1. OneInv(r) => FailedRestoreRollsBack
  BY DEF OneInv, EndedInv, FailedRestoreRollsBack, Outside, SameDb
<1> QED BY <1>1, OneInvAlways, PTL

(* With a single restore at a time, the cached maintenance mode agrees with   *)
(* the database and the environment after a restore and after a rollback.   *)
THEOREM CacheFollows ==
  ASSUME NEW CONSTANT r, Restores = {r}
  PROVE  Spec => []CacheFollowsRestore
<1>1. OneInv(r) => CacheFollowsRestore
  BY DEF OneInv, EndedInv, CacheFollowsRestore, SameDb
<1> QED BY <1>1, OneInvAlways, PTL

(* With a single restore at a time, contents are replaced and put back only   *)
(* under the maintenance lock.                                             *)
THEOREM LockHeld ==
  ASSUME NEW CONSTANT r, Restores = {r}
  PROVE  Spec => []LockHeldWhileReplacing
<1>1. OneInv(r) => LockHeldWhileReplacing
  BY DEF OneInv, LockInv, LockHeldWhileReplacing
<1> QED BY <1>1, OneInvAlways, PTL

-----------------------------------------------------------------------------
(* What sends a restore to the catch block. *)

LEMMA ExcusedUnmanaged ==
  ASSUME NEW r, Restores = {r}, EnvMaintenance = "unset",
         TypeOK, OneInv(r), Excused(r), [Next]_vars
  PROVE  Excused(r)'
<1>0. r \in Restores /\ job \in [Restores -> Jobs]
  BY DEF TypeOK
<1>1. CASE Begin(r)
  BY <1>1, BeginJob DEF Excused, Empty
<1>2. CASE ForwardStep(r)
  <2>1. CASE Lock(r)
    <3>1. ~locked
      BY <2>1 DEF Lock, At, OneInv, LockInv
    <3>2. Goto(r, "dump")
      BY <2>1, <3>1 DEF Lock
    <3> QED BY <1>0, <3>2 DEF Goto, Excused, Jobs
  <2>2. CASE MaintenanceOff(r)
    BY <1>0, <2>2 DEF MaintenanceOff, Goto, Excused, Jobs
  <2>3. CASE Validate(r) \/ CopyUploads(r)
    BY <1>0, <2>3 DEF Validate, CopyUploads, Goto, Excused, Jobs
  <2>4. CASE Dump(r) \/ PgRestore(r) \/ Migrate(r)
    BY <1>0, <2>4 DEF Dump, PgRestore, Migrate, Goto, Excused, Jobs
  <2>5. CASE ListKeys(r) \/ DeleteKeys(r) \/ PutFiles(r)
    BY <1>0, <2>5 DEF ListKeys, DeleteKeys, PutFiles, Goto, Excused, Jobs
  <2>6. CASE EndSessions(r) \/ Reload(r)
    BY <1>0, <2>6 DEF EndSessions, Reload, Goto, Excused, Jobs
  <2> QED BY <1>2, <2>1, <2>2, <2>3, <2>4, <2>5, <2>6 DEF ForwardStep
<1>3. CASE RollbackStep(r)
  <2>1. CASE RollbackList(r) \/ RollbackDelete(r) \/ RollbackPut(r)
    BY <1>0, <2>1 DEF RollbackList, RollbackDelete, RollbackPut, Goto, Excused, Jobs
  <2>2. CASE RollbackDatabase(r) \/ RollbackReload(r)
    BY <1>0, <2>2 DEF RollbackDatabase, RollbackReload, Goto, Excused, Jobs
  <2> QED BY <1>3, <2>1, <2>2 DEF RollbackStep
<1>4. CASE FailStep(r)
  <2>1. ThrowFault(r) \/ \E pc \in RollbackPCs \cup {"finally"} : RollbackFault(r, pc)
    BY <1>4 DEF FailStep, FailCleanly, FailPgRestore, FailDeleteKeys, FailPutFiles,
       FailRollbackClear, FailRollbackPut, FailRollbackDatabase, FailRollbackReload, RollbackPCs
  <2>2. CASE ThrowFault(r)
    BY <1>0, <2>2 DEF ThrowFault, Excused, Jobs
  <2>3. ASSUME NEW pc, RollbackFault(r, pc) PROVE Excused(r)'
    BY <1>0, <2>3 DEF RollbackFault, Excused, Jobs
  <2> QED BY <2>1, <2>2, <2>3
<1>5. CASE Finally(r) \/ Crash
  <2>1. job'[r] = NoJob
    BY <1>0, <1>5 DEF Finally, Crash
  <2> QED BY <2>1 DEF Excused, NoJob
<1>6. CASE (\E c \in Clients : ClientStep(c)) \/ UNCHANGED vars
  <2>1. job' = job
    BY <1>6 DEF ClientStep, Admit, PerformWrite, PerformLogin, vars
  <2> QED BY <2>1 DEF Excused
<1>7. (\E q \in Restores : Begin(q) \/ RestoreStep(q)) => Begin(r) \/ RestoreStep(r)
  OBVIOUS
<1> QED BY <1>1, <1>2, <1>3, <1>4, <1>5, <1>6, <1>7 DEF Next, RestoreStep

(* Where the environment manages the setting, every way to the end of a      *)
(* restore leads through the catch block.                                  *)
LEMMA ExcusedManaged ==
  ASSUME NEW r, Restores = {r}, EnvMaintenance # "unset",
         TypeOK, OneInv(r), Excused(r), [Next]_vars
  PROVE  Excused(r)'
<1>0. /\ r \in Restores /\ job \in [Restores -> Jobs] /\ outcome \in [Restores -> Outcomes]
      /\ job[r].pc \in RollbackPCs => job[r].error
  BY DEF TypeOK, OneInv, FlagsInv
<1>1. CASE Begin(r)
  BY <1>0, <1>1 DEF Begin, NoJob, Excused, At
<1>2. CASE ForwardStep(r)
  <2>1. CASE MaintenanceOff(r)
    BY <1>0, <2>1 DEF MaintenanceOff, Throw, Excused, Jobs, At
  <2>2. CASE Lock(r)
    BY <1>0, <2>2 DEF Lock, Throw, Goto, Excused, Jobs, At
  <2>3. CASE Validate(r) \/ CopyUploads(r)
    BY <1>0, <2>3 DEF Validate, CopyUploads, Goto, Excused, Jobs, At
  <2>4. CASE Dump(r) \/ PgRestore(r) \/ Migrate(r)
    BY <1>0, <2>4 DEF Dump, PgRestore, Migrate, Goto, Excused, Jobs, At
  <2>5. CASE ListKeys(r) \/ DeleteKeys(r) \/ PutFiles(r)
    BY <1>0, <2>5 DEF ListKeys, DeleteKeys, PutFiles, Goto, Excused, Jobs, At
  <2>6. CASE EndSessions(r) \/ Reload(r)
    BY <1>0, <2>6 DEF EndSessions, Reload, Goto, Excused, Jobs, At
  <2> QED BY <1>2, <2>1, <2>2, <2>3, <2>4, <2>5, <2>6 DEF ForwardStep
<1>3. CASE RollbackStep(r)
  <2>1. CASE RollbackList(r) \/ RollbackDelete(r) \/ RollbackPut(r)
    BY <1>0, <2>1 DEF RollbackList, RollbackDelete, RollbackPut, Goto, Excused, Jobs, At, RollbackPCs
  <2>2. CASE RollbackDatabase(r) \/ RollbackReload(r)
    BY <1>0, <2>2 DEF RollbackDatabase, RollbackReload, Goto, Excused, Jobs, At, RollbackPCs
  <2> QED BY <1>3, <2>1, <2>2 DEF RollbackStep
<1>4. CASE FailStep(r)
  <2>1. /\ outcome' = outcome
        /\ ThrowFault(r) \/ \E pc \in RollbackPCs \cup {"finally"} : RollbackFault(r, pc)
    BY <1>4 DEF FailStep, FailCleanly, FailPgRestore, FailDeleteKeys, FailPutFiles,
       FailRollbackClear, FailRollbackPut, FailRollbackDatabase, FailRollbackReload, RollbackPCs
  <2>2. CASE ThrowFault(r)
    BY <1>0, <2>1, <2>2 DEF ThrowFault, Excused, Jobs, At
  <2>3. ASSUME NEW pc, RollbackFault(r, pc) PROVE Excused(r)'
    <3>1. job[r].pc \in RollbackPCs \/ ThrowFault(r)
      BY <1>4 DEF FailStep, FailCleanly, FailPgRestore, FailDeleteKeys, FailPutFiles,
         FailRollbackClear, FailRollbackPut, FailRollbackDatabase, FailRollbackReload,
         RollbackPCs, At
    <3> QED BY <1>0, <2>1, <2>2, <2>3, <3>1 DEF RollbackFault, Excused, Jobs, At
  <2> QED BY <2>1, <2>2, <2>3
<1>5. CASE Finally(r)
  <2>1. job'[r] = NoJob /\ outcome'[r] # "ok"
    BY <1>0, <1>5 DEF Finally, Excused, At
  <2> QED BY <2>1 DEF Excused, NoJob, At
<1>6. CASE Crash
  <2>1. job'[r] = NoJob /\ outcome'[r] = "none"
    BY <1>0, <1>6 DEF Crash
  <2> QED BY <2>1 DEF Excused, NoJob, At
<1>7. CASE (\E c \in Clients : ClientStep(c)) \/ UNCHANGED vars
  <2>1. job' = job /\ outcome' = outcome
    BY <1>7 DEF ClientStep, Admit, PerformWrite, PerformLogin, vars
  <2> QED BY <2>1 DEF Excused, At
<1>8. (\E q \in Restores : Begin(q) \/ RestoreStep(q)) => Begin(r) \/ RestoreStep(r)
  OBVIOUS
<1> QED BY <1>1, <1>2, <1>3, <1>4, <1>5, <1>6, <1>7, <1>8 DEF Next, RestoreStep

(* With a single restore at a time: a restore on an instance whose           *)
(* maintenance mode the environment manages never succeeds, and on any     *)
(* other it fails only because a command it ran failed.                    *)
THEOREM WhyRestoresFail ==
  ASSUME NEW CONSTANT r, Restores = {r}
  PROVE  Spec => []OutcomesExplained
<1>1. Init => Excused(r)
  BY DEF Init, Excused, NoJob, At
<1>2. TypeOK /\ OneInv(r) /\ Excused(r) /\ [Next]_vars => Excused(r)'
  BY ExcusedManaged, ExcusedUnmanaged
<1>3. Excused(r) => OutcomesExplained
  BY DEF Excused, OutcomesExplained, FailsOnlyOnFault, Ended
<1> QED BY <1>1, <1>2, <1>3, TypeCorrect, OneInvAlways, PTL DEF Spec
=============================================================================

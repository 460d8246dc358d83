--------------------------- MODULE Settings_proofs ---------------------------
(* The server beside its requests.  For every number of settings, migrations, *)
(* providers, requests and restarts: startup brings schema and providers up   *)
(* in order and served settings follow the stored ones.  And, in the last     *)
(* part (Delivery): what a comment sets off, for every set of accounts,       *)
(* comments and webhooks, reaches each account once, is shown by its bell     *)
(* and recorded truly.                                                      *)
EXTENDS Settings, Delivery, TLAPS

-----------------------------------------------------------------------------
(* Startup.                                                                 *)
StartupInv ==
  /\ StartupTypeOK /\ MigrationsInOrder /\ ProvidersWhole
  /\ phase = "connect" => attempts < MaxAttempts

LEMMA StartupInvInit == StartupInit => StartupInv
<1> SUFFICES ASSUME StartupInit PROVE StartupInv
  OBVIOUS
<1>1. StartupTypeOK /\ attempts < MaxAttempts
  <2>1. 0 \in 0..MaxAttempts /\ 0 < MaxAttempts /\ 1 \in 1..MaxStarts
    BY StartupAssumption
  <2> QED BY <2>1 DEF StartupInit, StartupTypeOK, Phases, Stored
<1>2. MigrationsInOrder /\ ProvidersWhole
  BY DEF StartupInit, MigrationsInOrder, ProvidersWhole
<1> QED BY <1>1, <1>2 DEF StartupInv

(* One more migration: the first of those that are pending.                 *)
LEMMA MigrationApplied ==
  ASSUME StartupInv, ApplyMigration
  PROVE  applied' \subseteq 1..Migrations /\ \A m \in applied' : 1..m \subseteq applied'
<1>1. PICK m \in Pending : (\A n \in Pending : m <= n) /\ applied' = applied \cup {m}
  BY DEF ApplyMigration
<1>2. m \in 1..Migrations /\ applied \subseteq 1..Migrations
  BY DEF Pending, StartupInv, StartupTypeOK
<1>3. ASSUME NEW n \in 1..m PROVE n \in applied'
  <2>1. n \in 1..Migrations
    BY <1>2, StartupAssumption
  <2>2. CASE n \in Pending
    <3>1. m <= n
      BY <1>1, <2>2
    <3>2. n = m
      BY <1>2, <3>1, StartupAssumption
    <3> QED BY <1>1, <3>2
  <2>3. CASE n \notin Pending
    BY <1>1, <2>1, <2>3 DEF Pending
  <2> QED BY <2>2, <2>3
<1>4. ASSUME NEW k \in applied PROVE 1..k \subseteq applied'
  BY <1>1 DEF StartupInv, MigrationsInOrder
<1> QED BY <1>1, <1>2, <1>3, <1>4

LEMMA StartupKeeps == ASSUME StartupInv, StartupStep \/ Restart \/ UNCHANGED startupVars PROVE StartupInv'
<1>0. /\ phase \in Phases /\ attempts \in 0..MaxAttempts /\ applied \subseteq 1..Migrations
      /\ roles \in BOOLEAN /\ provider \in [Templates -> Stored] /\ starts \in 1..MaxStarts
      /\ unlucky \subseteq Templates
      /\ MigrationsInOrder /\ ProvidersWhole /\ (phase = "connect" => attempts < MaxAttempts)
  BY DEF StartupInv, StartupTypeOK
<1>1. CASE Connect
  <2>1. StartupTypeOK'
    BY <1>0, <1>1, StartupAssumption DEF Connect, Enter, StartupTypeOK, Phases
  <2>2. MigrationsInOrder' /\ ProvidersWhole'
    BY <1>0, <1>1 DEF Connect, Enter, MigrationsInOrder, ProvidersWhole
  <2> QED BY <1>1, <2>1, <2>2 DEF StartupInv, Connect, Enter
<1>2. CASE FailToConnect
  <2>1. attempts' = attempts + 1 /\ phase' = (IF attempts + 1 = MaxAttempts THEN "exited" ELSE "connect")
        /\ attempts < MaxAttempts
    BY <1>0, <1>2 DEF FailToConnect, Enter
  <2>2. attempts' \in 0..MaxAttempts /\ (phase' = "connect" => attempts' < MaxAttempts)
    BY <1>0, <2>1, StartupAssumption
  <2>3. StartupTypeOK'
    BY <1>0, <1>2, <2>1, <2>2 DEF FailToConnect, StartupTypeOK, Phases
  <2>4. MigrationsInOrder' /\ ProvidersWhole'
    BY <1>0, <1>2, <2>1 DEF FailToConnect, MigrationsInOrder, ProvidersWhole
  <2> QED BY <2>2, <2>3, <2>4 DEF StartupInv
<1>3. CASE ApplyMigration
  <2>1. applied' \subseteq 1..Migrations /\ \A m \in applied' : 1..m \subseteq applied'
    BY <1>3, MigrationApplied
  <2>2. StartupTypeOK'
    BY <1>0, <1>3, <2>1 DEF ApplyMigration, StartupTypeOK
  <2>3. MigrationsInOrder' /\ ProvidersWhole'
    BY <1>0, <1>3, <2>1 DEF ApplyMigration, MigrationsInOrder, ProvidersWhole
  <2> QED BY <1>0, <1>3, <2>2, <2>3 DEF StartupInv, ApplyMigration
<1>4. CASE FailMigration \/ FinishMigrations
  <2>1. StartupTypeOK'
    BY <1>0, <1>4 DEF FailMigration, FinishMigrations, Enter, StartupTypeOK, Phases
  <2>2. MigrationsInOrder' /\ ProvidersWhole'
    BY <1>0, <1>4 DEF FailMigration, FinishMigrations, Enter, MigrationsInOrder, ProvidersWhole, Pending
  <2> QED BY <1>4, <2>1, <2>2 DEF StartupInv, FailMigration, FinishMigrations, Enter
<1>5. CASE SeedRoles \/ FinishSeeding
  <2>1. StartupTypeOK'
    BY <1>0, <1>5 DEF SeedRoles, FinishSeeding, Enter, StartupTypeOK, Phases
  <2>2. MigrationsInOrder'
    BY <1>0, <1>5 DEF SeedRoles, FinishSeeding, Enter, MigrationsInOrder, Pending
  <2>3. ProvidersWhole'
    BY <1>0, <1>5 DEF SeedRoles, FinishSeeding, Enter, ProvidersWhole
  <2> QED BY <1>5, <2>1, <2>2, <2>3 DEF StartupInv, SeedRoles, FinishSeeding, Enter
<1>6. CASE FailSeeding
  <2>1. StartupTypeOK'
    BY <1>0, <1>6 DEF FailSeeding, Interrupted, Enter, StartupTypeOK, Phases
  <2>2. MigrationsInOrder' /\ ProvidersWhole'
    BY <1>0, <1>6 DEF FailSeeding, Interrupted, Enter, MigrationsInOrder, ProvidersWhole, Pending
  <2> QED BY <1>6, <2>1, <2>2 DEF StartupInv, FailSeeding, Enter
<1>7. ASSUME NEW t \in Templates, SeedProvider(t) \/ SeedConfiguration(t) PROVE StartupInv'
  <2>1. StartupTypeOK'
    BY <1>0, <1>7 DEF SeedProvider, SeedConfiguration, StartupTypeOK, Stored
  <2>2. MigrationsInOrder' /\ ProvidersWhole'
    BY <1>0, <1>7 DEF SeedProvider, SeedConfiguration, MigrationsInOrder, ProvidersWhole, Pending
  <2> QED BY <1>7, <2>1, <2>2 DEF StartupInv, SeedProvider, SeedConfiguration
<1>8. CASE Restart
  <2>1. starts' \in 1..MaxStarts
    BY <1>0, <1>8, StartupAssumption DEF Restart
  <2>2. StartupTypeOK'
    BY <1>0, <1>8, <2>1, StartupAssumption DEF Restart, Interrupted, Enter, StartupTypeOK, Phases
  <2>3. MigrationsInOrder' /\ ProvidersWhole'
    BY <1>0, <1>8 DEF Restart, Enter, MigrationsInOrder, ProvidersWhole
  <2> QED BY <1>8, <2>2, <2>3, StartupAssumption DEF StartupInv, Restart, Enter
<1>9. CASE UNCHANGED startupVars
  BY <1>0, <1>9 DEF StartupInv, StartupTypeOK, MigrationsInOrder, ProvidersWhole, Pending, startupVars
<1> QED BY <1>1, <1>2, <1>3, <1>4, <1>5, <1>6, <1>7, <1>8, <1>9 DEF StartupStep

(* Once the settings are loaded, main goes on to listen or gives up.         *)
LEMMA StartupGoesOn ==
  ASSUME StartupInv, phase \in {"load", "apply"}, Enter("apply") \/ Enter("listening") \/ Enter("exited"),
         UNCHANGED <<attempts, applied, roles, provider, starts, unlucky>>
  PROVE  StartupInv'
<1>1. StartupTypeOK'
  BY DEF StartupInv, StartupTypeOK, Enter, Phases
<1>2. MigrationsInOrder' /\ ProvidersWhole'
  BY DEF StartupInv, MigrationsInOrder, ProvidersWhole, Pending, Enter
<1> QED BY <1>1, <1>2 DEF StartupInv, Enter

-----------------------------------------------------------------------------
(* What a request is while it is under way.                                 *)
ReqKinds == {"none", "set", "storage", "reload"}

SavedForms == [provider : {"local", "s3"}, bucket : {"", "b"}, secret : {"", "k1", "k2"},
               kept : {"", "k1", "k2"}]

Values == [Switches -> {"true", "false"}]

AllForms == {NoForm} \cup {[x \in {k} |-> v] : k \in Keys, v \in Texts} \cup SavedForms \cup Values

Reqs == [pc : ReqPCs, kind : ReqKinds, form : AllForms, todo : SUBSET StorageFields, calm : BOOLEAN]

SetFits(q) ==
  \/ DOMAIN q.form = {"provider"} /\ q.form["provider"] = "s3"
  \/ /\ DOMAIN q.form \subseteq Switches
     /\ \A k \in DOMAIN q.form : q.form[k] \in {"true", "false"} /\ Environment[k] = "unset"

ReqFits(q) ==
  /\ q.kind = "none" => q.pc = "idle"
  /\ q.kind = "set" => q.pc \in {"upsert", "apply"} /\ SetFits(q)
  /\ q.kind = "storage" =>
       /\ q.pc \in {"read", "rows", "strays", "secret", "switch"}
       /\ q.form \in SavedForms
       /\ q.pc # "read" => Valid(Asked(q.form))
  /\ q.kind = "reload" =>
       /\ q.pc \in {"replace", "load", "assign"}
       /\ q.pc = "assign" =>
            /\ q.form \in Values
            /\ \A k \in Switches : Environment[k] # "unset" => q.form[k] = Environment[k]

(* Before the server listens there are no requests and no client.           *)
NotYet == phase # "listening" => client = {} /\ \A r \in Requests : req[r].kind = "none"

ReqsTyped == req \in [Requests -> Reqs]

TablesFit == table \in Tables /\ cache \in Values /\ live \in Configs

SettingsBase ==
  /\ ReqsTyped /\ TablesFit /\ NotYet
  /\ \A r \in Requests : ReqFits(req[r])

LEMMA FormsAreForms == SavedForms \subseteq AllForms /\ Values \subseteq AllForms
BY DEF AllForms

LEMMA NoReqFits ==
  /\ NoReq \in Reqs /\ ReqFits(NoReq) /\ Writes(NoReq) = {}
  /\ NoReq.pc = "idle" /\ NoReq.kind = "none" /\ NoReq.todo = {} /\ NoReq.calm
BY DEF NoReq, Reqs, ReqFits, Writes, ReqPCs, ReqKinds, AllForms

LEMMA WritesAre ==
  ASSUME NEW q
  PROVE  /\ q.kind = "reload" => Writes(q) = Keys
         /\ q.kind = "storage" => Writes(q) = StorageFields \cup {"secret"}
         /\ q.kind = "set" => Writes(q) = DOMAIN q.form
         /\ q.kind = "none" => Writes(q) = {}
BY DEF Writes

(* The rows make a configuration, and values for the switches.              *)
LEMMA RowsMean ==
  ASSUME NEW rows \in Tables
  PROVE  /\ StorageConfig(rows) \in Configs /\ Cached(rows) \in Values
         /\ \A k \in Switches : Environment[k] # "unset" => Cached(rows)[k] = Environment[k]
         /\ Or(rows["secret"], "") \in {"", "k1", "k2"}
<1>1. StorageConfig(rows) \in Configs /\ Or(rows["secret"], "") \in {"", "k1", "k2"}
  BY DEF Tables, StorageConfig, Configs, Or
<1>2. ASSUME NEW k \in Switches
      PROVE  /\ Cached(rows)[k] \in {"true", "false"}
             /\ Environment[k] # "unset" => Cached(rows)[k] = Environment[k]
  BY SettingsAssumption DEF Tables, Cached
<1>3. Cached(rows) \in Values
  BY <1>2 DEF Values, Cached
<1> QED BY <1>1, <1>2, <1>3

LEMMA AskedFits == ASSUME NEW f \in SavedForms PROVE Asked(f) \in Configs
BY DEF SavedForms, Asked, Configs

(* One request becomes q, the others stay.                                  *)
OtherReqs(r) == \A p \in Requests \ {r} : req'[p] = req[p]

LEMMA ReqBecomes ==
  ASSUME ReqsTyped, NEW r \in Requests, NEW q \in Reqs, req' = [req EXCEPT ![r] = q]
  PROVE  ReqsTyped' /\ OtherReqs(r) /\ req'[r] = q
BY DEF ReqsTyped, OtherReqs

LEMMA ReqFinish ==
  ASSUME ReqsTyped, NEW r \in Requests, Finish(r)
  PROVE  ReqsTyped' /\ OtherReqs(r) /\ req'[r] = NoReq
BY NoReqFits, ReqBecomes DEF Finish

(* It goes on, and keeps who it is.                                         *)
GoesOn(r) ==
  /\ ReqsTyped' /\ OtherReqs(r)
  /\ req'[r].kind = req[r].kind /\ req'[r].calm = req[r].calm

LEMMA ReqGoto ==
  ASSUME ReqsTyped, NEW r \in Requests, NEW pc \in ReqPCs, Goto(r, pc)
  PROVE  /\ GoesOn(r) /\ req'[r].pc = pc
         /\ req'[r].form = req[r].form /\ req'[r].todo = req[r].todo
<1> DEFINE q == [req[r] EXCEPT !.pc = pc]
<1>1. req[r] \in Reqs
  BY DEF ReqsTyped
<1>2. req' = [req EXCEPT ![r] = q]
  BY DEF Goto, ReqsTyped
<1>3. /\ q \in Reqs /\ q.pc = pc /\ q.kind = req[r].kind /\ q.calm = req[r].calm
      /\ q.form = req[r].form /\ q.todo = req[r].todo
  BY <1>1 DEF Reqs
<1> HIDE DEF q
<1> QED BY <1>2, <1>3, ReqBecomes DEF GoesOn

LEMMA ReqSwap ==
  ASSUME ReqsTyped, NEW r \in Requests, NEW q \in Reqs, req' = [req EXCEPT ![r] = q],
         q.kind = req[r].kind, q.calm = req[r].calm
  PROVE  GoesOn(r) /\ req'[r] = q
BY ReqBecomes DEF GoesOn

LEMMA SettingsBaseInit == Init => SettingsBase
<1> SUFFICES ASSUME Init PROVE SettingsBase
  OBVIOUS
<1>1. table \in Tables
  <2>1. table \in [Keys -> Texts]
    BY DEF Init, SettingsInit, Keys, Texts
  <2>2. \A k \in Keys : table[k] = "none"
    BY DEF Init, SettingsInit
  <2> QED BY <2>1, <2>2 DEF Tables, Keys, StorageFields
<1>2. cache \in Values /\ live \in Configs
  BY SettingsAssumption DEF Init, SettingsInit, Values, Configs
<1>3. ReqsTyped /\ \A r \in Requests : ReqFits(req[r])
  BY NoReqFits DEF Init, SettingsInit, ReqsTyped
<1>4. NotYet
  BY NoReqFits DEF Init, SettingsInit, NotYet
<1> QED BY <1>1, <1>2, <1>3, <1>4 DEF SettingsBase, TablesFit

-----------------------------------------------------------------------------
(* Who writes what, and what a request knows of the rows.                   *)
Apart ==
  \A r, q \in Requests : r # q /\ req[r].calm => Writes(req[q]) \cap Writes(req[r]) = {}

(* What a calm request has stored, or read, is still there.                 *)
Faithful(q, rows) ==
  /\ q.kind = "set" /\ q.pc = "apply" => \A k \in DOMAIN q.form : rows[k] = q.form[k]
  /\ q.kind = "reload" /\ q.pc = "assign" => q.form = Cached(rows)
  /\ q.kind = "storage" /\ q.pc \in {"rows", "secret", "switch"} =>
       \A k \in StorageFields \ q.todo : rows[k] = q.form[k]
  /\ q.kind = "storage" /\ q.pc \in {"secret", "switch"} => q.todo = {}
  /\ q.kind = "storage" /\ q.pc \in {"rows", "secret"} => q.form["kept"] = Or(rows["secret"], "")
  /\ q.kind = "storage" /\ q.pc = "switch" => Asked(q.form).secret = Or(rows["secret"], "")

FormsKept == \A r \in Requests : req[r].calm => Faithful(req[r], table)

(* The row has been written, the cache not yet.                             *)
Pends(q, k) == q.pc \in {"apply", "load", "assign"} /\ k \in Writes(q)

CacheInv ==
  phase \in {"apply", "listening"} =>
    \A k \in Switches :
      /\ k \notin raced /\ (\A r \in Requests : ~Pends(req[r], k)) => cache[k] = Cached(table)[k]
      /\ Environment[k] # "unset" => cache[k] = Environment[k]

Saves(q) == q.kind = "storage" /\ q.pc \in {"rows", "secret", "switch"}

Saving == \E r \in Requests : Saves(req[r])

StoreInv ==
  /\ \A r \in Requests : req[r].pc = "strays" => spoiled
  /\ phase = "listening" /\ ~spoiled /\ ~Saving => live = StorageConfig(table)
  /\ ~spoiled /\ ~Saving => Valid(StorageConfig(table))
  /\ client \subseteq {live}

SettingsInv == StartupInv /\ SettingsBase /\ Apart /\ FormsKept /\ CacheInv /\ StoreInv

LEMMA SettingsInvInit == Init => SettingsInv
<1> SUFFICES ASSUME Init PROVE SettingsInv
  OBVIOUS
<1>1. StartupInv /\ SettingsBase
  BY StartupInvInit, SettingsBaseInit DEF Init
<1>2. \A r \in Requests : req[r] = NoReq
  BY DEF Init, SettingsInit
<1>3. Apart
  BY <1>2, NoReqFits DEF Apart
<1>4. FormsKept
  <2>1. Faithful(NoReq, table)
    BY NoReqFits DEF Faithful
  <2> QED BY <1>2, <2>1 DEF FormsKept
<1>5. CacheInv
  BY DEF Init, StartupInit, CacheInv
<1>6. StoreInv
  <2>1. StorageConfig(table).provider = "local"
    BY DEF Init, SettingsInit, StorageConfig, Or, Keys, StorageFields
  <2>2. Valid(StorageConfig(table)) /\ client = {} /\ phase # "listening"
    BY <2>1 DEF Valid, Init, SettingsInit, StartupInit
  <2> QED BY <1>2, <2>2, NoReqFits DEF StoreInv
<1> QED BY <1>1, <1>3, <1>4, <1>5, <1>6 DEF SettingsInv

(* Rows that another writes are none of its own.                            *)
LEMMA FaithfulStays ==
  ASSUME NEW q, NEW rows, NEW new, Faithful(q, rows), \A k \in Writes(q) : new[k] = rows[k],
         q.todo \subseteq StorageFields
  PROVE  Faithful(q, new)
<1>1. CASE q.kind = "set"
  BY <1>1, WritesAre DEF Faithful
<1>2. CASE q.kind = "reload"
  <2>1. \A k \in Switches : new[k] = rows[k]
    BY <1>2, WritesAre DEF Keys
  <2>2. Cached(new) = Cached(rows)
    BY <2>1 DEF Cached
  <2> QED BY <1>2, <2>2 DEF Faithful
<1>3. CASE q.kind = "storage"
  <2>1. new["secret"] = rows["secret"] /\ \A k \in StorageFields : new[k] = rows[k]
    BY <1>3, WritesAre
  <2> QED BY <1>3, <2>1 DEF Faithful
<1> QED BY <1>1, <1>2, <1>3 DEF Faithful

LEMMA FaithfulAtFirst ==
  ASSUME NEW q, NEW rows, q.pc \notin {"apply", "assign", "rows", "secret", "switch"}
  PROVE  Faithful(q, rows)
BY DEF Faithful

(* A step of request r within what it writes.                               *)
Lawful(r) ==
  /\ UNCHANGED startupVars /\ ReqsTyped' /\ TablesFit' /\ OtherReqs(r) /\ ReqFits(req'[r])
  /\ \/ req'[r].kind = "none"
     \/ Writes(req'[r]) = Writes(req[r]) /\ req'[r].calm = req[r].calm
  /\ \A k \in Keys \ Writes(req[r]) : table'[k] = table[k]
  /\ req'[r].calm => Faithful(req'[r], table')
  /\ \A k \in Switches :
       \/ k \in raced' \/ Pends(req'[r], k) \/ cache'[k] = Cached(table')[k]
       \/ /\ ~Pends(req[r], k) /\ table'[k] = table[k] /\ cache'[k] = cache[k]
          /\ k \in raced => k \in raced'
  /\ \A k \in Switches : Environment[k] # "unset" => cache'[k] \in {cache[k], Environment[k]}

LEMMA LawfulBase ==
  ASSUME SettingsInv, NEW r \in Requests, Lawful(r), req[r].pc # "idle"
  PROVE  phase = "listening" /\ SettingsBase' /\ StartupInv'
<1>1. phase = "listening" /\ phase' = phase
  BY DEF SettingsInv, SettingsBase, NotYet, ReqFits, Lawful, startupVars
<1>2. NotYet'
  BY <1>1 DEF NotYet
<1>3. \A p \in Requests : ReqFits(req[p])'
  BY DEF SettingsInv, SettingsBase, Lawful, OtherReqs, ReqFits, SetFits
<1>4. ReqsTyped' /\ TablesFit' /\ UNCHANGED startupVars
  BY DEF Lawful
<1>5. StartupInv'
  BY <1>4, StartupKeeps DEF SettingsInv
<1> QED BY <1>1, <1>2, <1>3, <1>4, <1>5 DEF SettingsBase

LEMMA LawfulApart ==
  ASSUME SettingsInv, NEW r \in Requests, Lawful(r)
  PROVE  Apart'
<1>1. Writes(req'[r]) \subseteq Writes(req[r])
  BY WritesAre DEF Lawful
<1>2. \A p \in Requests \ {r} : req'[p] = req[p]
  BY DEF Lawful, OtherReqs
<1>3. req'[r].calm => req[r].calm \/ Writes(req'[r]) = {}
  BY WritesAre DEF Lawful
<1>4. ASSUME NEW a \in Requests, NEW b \in Requests, a # b, req'[a].calm
      PROVE  Writes(req'[b]) \cap Writes(req'[a]) = {}
  <2>1. \A c \in Requests, d \in Requests :
          c # d /\ req[c].calm => Writes(req[d]) \cap Writes(req[c]) = {}
    BY DEF SettingsInv, Apart
  <2>2. CASE a = r
    BY <1>1, <1>2, <1>3, <1>4, <2>1, <2>2
  <2>3. CASE b = r
    BY <1>1, <1>2, <1>4, <2>1, <2>3
  <2>4. CASE a # r /\ b # r
    BY <1>2, <1>4, <2>1, <2>4
  <2> QED BY <2>2, <2>3, <2>4
<1> QED BY <1>4 DEF Apart

LEMMA LawfulForms ==
  ASSUME SettingsInv, NEW r \in Requests, Lawful(r)
  PROVE  FormsKept'
<1>1. ASSUME NEW p \in Requests, p # r, req'[p].calm
      PROVE  Faithful(req'[p], table')
  <2>1. req'[p] = req[p] /\ req[p] \in Reqs
    BY <1>1 DEF Lawful, OtherReqs, SettingsInv, SettingsBase, ReqsTyped
  <2>2. Writes(req[p]) \cap Writes(req[r]) = {}
    BY <1>1, <2>1 DEF SettingsInv, Apart
  <2>3. Writes(req[p]) \subseteq Keys
    <3>1. req[p].kind = "set" => DOMAIN req[p].form \subseteq Keys
      BY DEF SettingsInv, SettingsBase, ReqFits, SetFits, Keys, StorageFields
    <3>2. req[p].kind \in ReqKinds
      BY <2>1 DEF Reqs
    <3> QED BY <3>1, <3>2, WritesAre DEF ReqKinds, Keys
  <2>4. \A k \in Writes(req[p]) : table'[k] = table[k]
    BY <2>2, <2>3 DEF Lawful
  <2>5. Faithful(req[p], table) /\ req[p].todo \subseteq StorageFields
    BY <1>1, <2>1 DEF SettingsInv, FormsKept, Reqs
  <2> QED BY <2>1, <2>4, <2>5, FaithfulStays
<1>2. req'[r].calm => Faithful(req'[r], table')
  BY DEF Lawful
<1> QED BY <1>1, <1>2 DEF FormsKept, Faithful

LEMMA LawfulCache ==
  ASSUME SettingsInv, NEW r \in Requests, Lawful(r), phase = "listening"
  PROVE  CacheInv'
<1> SUFFICES ASSUME NEW k \in Switches
             PROVE  /\ k \notin raced' /\ (\A p \in Requests : ~Pends(req'[p], k)) => cache'[k] = Cached(table')[k]
                    /\ Environment[k] # "unset" => cache'[k] = Environment[k]
  BY DEF CacheInv, Pends, Writes, Cached
<1>1. /\ k \notin raced /\ (\A p \in Requests : ~Pends(req[p], k)) => cache[k] = Cached(table)[k]
      /\ Environment[k] # "unset" => cache[k] = Environment[k]
  BY DEF SettingsInv, CacheInv
<1>2. Environment[k] # "unset" => cache'[k] = Environment[k]
  BY <1>1 DEF Lawful
<1>3. ASSUME k \notin raced', \A p \in Requests : ~Pends(req'[p], k)
      PROVE  cache'[k] = Cached(table')[k]
  <2>1. CASE ~Pends(req[r], k) /\ table'[k] = table[k] /\ cache'[k] = cache[k]
             /\ (k \in raced => k \in raced')
    <3>1. \A p \in Requests : ~Pends(req[p], k)
      BY <1>3, <2>1 DEF Lawful, OtherReqs
    <3>2. Cached(table')[k] = Cached(table)[k]
      BY <2>1 DEF Cached
    <3> QED BY <1>1, <1>3, <2>1, <3>1, <3>2
  <2> QED BY <1>3, <2>1 DEF Lawful
<1> QED BY <1>2, <1>3

(* What such a step does to the storage.                                    *)
Orderly(r) ==
  /\ req'[r].pc = "strays" => spoiled'
  /\ \A p \in Requests \ {r} : req[p].pc = "strays" => spoiled'
  /\ client' \subseteq {live'}
  /\ \/ spoiled' \/ Saves(req'[r])
     \/ live' = StorageConfig(table') /\ Valid(live')
     \/ /\ StorageConfig(table') = StorageConfig(table) /\ live' = live
        /\ ~Saves(req[r]) /\ ~spoiled

LEMMA OrderlyKeeps ==
  ASSUME SettingsInv, NEW r \in Requests, Lawful(r), Orderly(r), phase = "listening"
  PROVE  StoreInv'
<1>1. \A p \in Requests \ {r} : req'[p] = req[p]
  BY DEF Lawful, OtherReqs
<1>2. \A p \in Requests : req'[p].pc = "strays" => spoiled'
  BY <1>1 DEF Orderly
<1>3. client' \subseteq {live'}
  BY DEF Orderly
<1>4. ASSUME ~spoiled', ~Saving'
      PROVE  live' = StorageConfig(table') /\ Valid(StorageConfig(table'))
  <2>1. ~Saves(req'[r])
    BY <1>4 DEF Saving, Saves
  <2>2. CASE live' = StorageConfig(table') /\ Valid(live')
    BY <2>2
  <2>3. CASE /\ StorageConfig(table') = StorageConfig(table) /\ live' = live
             /\ ~Saves(req[r]) /\ ~spoiled
    <3>1. ~Saving
      BY <1>1, <1>4, <2>3 DEF Saving, Saves
    <3>2. live = StorageConfig(table) /\ Valid(StorageConfig(table))
      BY <2>3, <3>1 DEF SettingsInv, StoreInv
    <3> QED BY <2>3, <3>2
  <2> QED BY <1>4, <2>1, <2>2, <2>3 DEF Orderly
<1>5. (~spoiled /\ ~Saving => live = StorageConfig(table) /\ Valid(StorageConfig(table)))'
  BY <1>4 DEF StorageConfig, Valid
<1> QED BY <1>2, <1>3, <1>5 DEF StoreInv

(* A step that leaves table, storage and history alone.                     *)
LEMMA OrderlyAside ==
  ASSUME SettingsInv, NEW r \in Requests, UNCHANGED <<table, live, client, spoiled>>,
         ~Saves(req[r]) \/ Saves(req'[r]), req'[r].pc = "strays" => req[r].pc = "strays"
  PROVE  Orderly(r)
<1>1. StorageConfig(table') = StorageConfig(table)
  OBVIOUS
<1>2. client \subseteq {live} /\ \A p \in Requests : req[p].pc = "strays" => spoiled
  BY DEF SettingsInv, StoreInv
<1> QED BY <1>1, <1>2 DEF Orderly

LEMMA Kept ==
  ASSUME SettingsInv, NEW r \in Requests, Lawful(r), Orderly(r), req[r].pc # "idle"
  PROVE  SettingsInv'
<1>1. phase = "listening" /\ SettingsBase' /\ StartupInv'
  BY LawfulBase
<1>2. Apart' /\ FormsKept' /\ CacheInv'
  BY <1>1, LawfulApart, LawfulForms, LawfulCache
<1>3. StoreInv'
  BY <1>1, OrderlyKeeps
<1> QED BY <1>1, <1>2, <1>3 DEF SettingsInv

(* The request a step belongs to tells what it is by its pc.                *)
LEMMA PcTells ==
  ASSUME SettingsInv, NEW r \in Requests
  PROVE  /\ req[r] \in Reqs /\ ReqFits(req[r]) /\ (req[r].calm => Faithful(req[r], table))
         /\ req[r].pc \in {"upsert", "apply"} => req[r].kind = "set"
         /\ req[r].pc \in {"read", "rows", "strays", "secret", "switch"} => req[r].kind = "storage"
         /\ req[r].pc \in {"replace", "load", "assign"} => req[r].kind = "reload"
         /\ TablesFit
<1>1. req[r] \in Reqs /\ ReqFits(req[r]) /\ TablesFit /\ (req[r].calm => Faithful(req[r], table))
  BY DEF SettingsInv, SettingsBase, ReqsTyped, FormsKept
<1>2. req[r].kind \in ReqKinds
  BY <1>1 DEF Reqs
<1> QED BY <1>1, <1>2 DEF ReqFits, ReqKinds

(* A request that ends and has changed neither table nor cache.             *)
LEMMA LawfulEnd ==
  ASSUME SettingsInv, NEW r \in Requests, Finish(r), UNCHANGED <<table, cache, live, client>>,
         UNCHANGED startupVars,
         \A k \in Switches : k \in raced' \/ (~Pends(req[r], k) /\ (k \in raced => k \in raced'))
  PROVE  Lawful(r)
<1>1. ReqsTyped' /\ OtherReqs(r) /\ req'[r] = NoReq
  BY ReqFinish DEF SettingsInv, SettingsBase
<1>2. ReqFits(req'[r]) /\ req'[r].kind = "none"
  BY <1>1, NoReqFits
<1>3. TablesFit'
  BY PcTells DEF TablesFit
<1>4. Faithful(req'[r], table')
  BY <1>1, NoReqFits, FaithfulAtFirst
<1> QED BY <1>1, <1>2, <1>3, <1>4 DEF Lawful

(* A request that goes on and has changed neither, before it writes switches. *)
LEMMA LawfulOn ==
  ASSUME SettingsInv, NEW r \in Requests, GoesOn(r), Writes(req'[r]) = Writes(req[r]),
         ReqFits(req'[r]), req'[r].calm => Faithful(req'[r], table'),
         UNCHANGED <<cache, live, client, raced>>, UNCHANGED startupVars, table' \in Tables,
         \A k \in Keys \ Writes(req[r]) : table'[k] = table[k],
         \A k \in Switches : Pends(req'[r], k) \/ (~Pends(req[r], k) /\ table'[k] = table[k])
  PROVE  Lawful(r)
<1>1. TablesFit'
  BY PcTells DEF TablesFit
<1> QED BY <1>1 DEF Lawful, GoesOn

-----------------------------------------------------------------------------
(* The handlers, a step at a time.                                          *)
LEMMA UpsertKeeps == ASSUME SettingsInv, NEW r \in Requests, Upsert(r) PROVE SettingsInv'
<1>1. /\ req[r].pc = "upsert" /\ req[r].kind = "set" /\ req[r] \in Reqs /\ SetFits(req[r]) /\ TablesFit
      /\ table' = [k \in Keys |-> IF k \in DOMAIN req[r].form THEN req[r].form[k] ELSE table[k]]
  BY PcTells DEF Upsert, ReqFits
<1>2. /\ GoesOn(r) /\ req'[r].pc = "apply" /\ req'[r].kind = "set"
      /\ req'[r].form = req[r].form /\ req'[r].todo = req[r].todo
  <2>1. "apply" \in ReqPCs /\ ReqsTyped /\ Goto(r, "apply")
    BY DEF ReqPCs, SettingsInv, SettingsBase, Upsert
  <2> QED BY <1>1, <2>1, ReqGoto DEF GoesOn
<1>3. Writes(req'[r]) = DOMAIN req[r].form /\ Writes(req[r]) = DOMAIN req[r].form
  BY <1>1, <1>2, WritesAre
<1>4. table' \in Tables
  <2>1. table \in Tables
    BY <1>1 DEF TablesFit
  <2>2. CASE DOMAIN req[r].form = {"provider"} /\ req[r].form["provider"] = "s3"
    BY <1>1, <2>1, <2>2, SettingsAssumption DEF Tables, Texts, Keys, StorageFields
  <2>3. CASE /\ DOMAIN req[r].form \subseteq Switches
             /\ \A k \in DOMAIN req[r].form : req[r].form[k] \in {"true", "false"}
    BY <1>1, <2>1, <2>3, SettingsAssumption DEF Tables, Texts, Keys, StorageFields
  <2> QED BY <1>1, <2>2, <2>3 DEF SetFits
<1>5. DOMAIN req[r].form \subseteq Keys
  BY <1>1 DEF SetFits, Keys, StorageFields
<1>6. Lawful(r)
  <2>1. ReqFits(req'[r])
    BY <1>1, <1>2 DEF ReqFits, SetFits
  <2>2. Faithful(req'[r], table')
    BY <1>1, <1>2, <1>5 DEF Faithful
  <2>3. \A k \in Keys \ Writes(req[r]) : table'[k] = table[k]
    BY <1>1, <1>3
  <2>4. \A k \in Switches : Pends(req'[r], k) \/ (~Pends(req[r], k) /\ table'[k] = table[k])
    BY <1>1, <1>2, <1>3 DEF Pends, Keys
  <2>5. UNCHANGED <<cache, live, client, raced>> /\ UNCHANGED startupVars
    BY DEF Upsert
  <2> QED BY <1>2, <1>3, <1>4, <2>1, <2>2, <2>3, <2>4, <2>5, LawfulOn
<1>7. Orderly(r)
  <2>1. client \subseteq {live} /\ (\A p \in Requests : req[p].pc = "strays" => spoiled)
    BY DEF SettingsInv, StoreInv
  <2>2. spoiled \/ spoiled' \/ DOMAIN req[r].form \subseteq Switches
    BY <1>1 DEF Upsert, SetFits, StorageFields
  <2>3. (spoiled => spoiled') /\ UNCHANGED <<live, client>>
    BY DEF Upsert
  <2>4. DOMAIN req[r].form \subseteq Switches => StorageConfig(table') = StorageConfig(table)
    BY <1>1, SettingsAssumption DEF StorageConfig, Keys, StorageFields
  <2> QED BY <1>1, <1>2, <2>1, <2>2, <2>3, <2>4 DEF Orderly, Saves
<1> QED BY <1>1, <1>6, <1>7, Kept

LEMMA ApplyKeeps == ASSUME SettingsInv, NEW r \in Requests, ApplySetting(r) PROVE SettingsInv'
<1>1. /\ req[r].pc = "apply" /\ req[r].kind = "set" /\ req[r] \in Reqs /\ SetFits(req[r]) /\ TablesFit
      /\ cache' = [k \in Switches |-> IF k \in DOMAIN req[r].form THEN req[r].form[k] ELSE cache[k]]
      /\ UNCHANGED <<table, live, client, spoiled>> /\ UNCHANGED startupVars
      /\ raced' = IF req[r].calm THEN raced \ Writes(req[r]) ELSE raced \cup Writes(req[r])
  BY PcTells DEF ApplySetting, ReqFits, Settle
<1>2. ReqsTyped' /\ OtherReqs(r) /\ req'[r] = NoReq
  BY ReqFinish DEF SettingsInv, SettingsBase, ApplySetting
<1>3. Writes(req[r]) = DOMAIN req[r].form
  BY <1>1, WritesAre
<1>4. \A k \in Switches \cap DOMAIN req[r].form :
        req[r].form[k] \in {"true", "false"} /\ Environment[k] = "unset"
  BY <1>1, SettingsAssumption DEF SetFits, StorageFields
<1>5. TablesFit'
  BY <1>1, <1>4 DEF TablesFit, Values
<1>6. ASSUME NEW k \in Switches
      PROVE  \/ k \in raced' \/ cache'[k] = Cached(table')[k]
             \/ /\ ~Pends(req[r], k) /\ table'[k] = table[k] /\ cache'[k] = cache[k]
                /\ k \in raced => k \in raced'
  <2>1. CASE k \notin DOMAIN req[r].form
    BY <1>1, <1>3, <2>1 DEF Pends
  <2>2. CASE k \in DOMAIN req[r].form /\ ~req[r].calm
    BY <1>1, <1>3, <2>2
  <2>3. CASE k \in DOMAIN req[r].form /\ req[r].calm
    <3>1. table[k] = req[r].form[k]
      BY <1>1, <2>3, PcTells DEF Faithful
    <3>2. Cached(table)[k] = req[r].form[k]
      BY <1>4, <2>3, <3>1 DEF Cached
    <3> QED BY <1>1, <2>3, <3>2
  <2> QED BY <2>1, <2>2, <2>3
<1>7. \A k \in Switches : Environment[k] # "unset" => cache'[k] \in {cache[k], Environment[k]}
  BY <1>1, <1>4
<1>8. Lawful(r)
  <2>1. ReqFits(req'[r]) /\ req'[r].kind = "none"
    BY <1>2, NoReqFits
  <2>2. Faithful(req'[r], table')
    BY <1>2, NoReqFits, FaithfulAtFirst
  <2> QED BY <1>1, <1>2, <1>5, <1>6, <1>7, <2>1, <2>2 DEF Lawful
<1>9. Orderly(r)
  <2>1. ~Saves(req[r]) /\ req'[r].pc # "strays"
    BY <1>1, <1>2, NoReqFits DEF Saves
  <2> QED BY <1>1, <2>1, OrderlyAside
<1> QED BY <1>1, <1>8, <1>9, Kept

LEMMA ReadStorageKeeps == ASSUME SettingsInv, NEW r \in Requests, ReadStorage(r) PROVE SettingsInv'
<1> DEFINE form == [req[r].form EXCEPT !["kept"] = Or(table["secret"], "")]
           q == [req[r] EXCEPT !.pc = "rows", !.todo = StorageFields, !.form = form]
<1>1. /\ req[r].pc = "read" /\ req[r].kind = "storage" /\ req[r] \in Reqs /\ req[r].form \in SavedForms
      /\ TablesFit /\ ReqsTyped
      /\ UNCHANGED <<table, cache, live, client, raced, spoiled>> /\ UNCHANGED startupVars
  BY PcTells DEF ReadStorage, ReqFits, SettingsInv, SettingsBase
<1>2. \A k : ~Pends(req[r], k)
  BY <1>1 DEF Pends
<1>3. ~Saves(req[r])
  BY <1>1 DEF Saves
<1>4. CASE Finish(r)
  <2>1. Lawful(r)
    BY <1>1, <1>2, <1>4, LawfulEnd
  <2>2. req'[r] = NoReq
    BY <1>1, <1>4, ReqFinish
  <2>3. Orderly(r)
    BY <1>1, <1>3, <2>2, NoReqFits, OrderlyAside
  <2> QED BY <1>1, <2>1, <2>3, Kept
<1>5. CASE Valid(Asked(form)) /\ req' = [req EXCEPT ![r].pc = "rows", ![r].todo = StorageFields, ![r].form = form]
  <2>1. Or(table["secret"], "") \in {"", "k1", "k2"} /\ table \in Tables
    BY <1>1, RowsMean DEF TablesFit
  <2>2. form \in SavedForms /\ form["kept"] = Or(table["secret"], "")
    BY <1>1, <2>1 DEF SavedForms
  <2> HIDE DEF form
  <2>3. /\ q \in Reqs /\ q.kind = "storage" /\ q.calm = req[r].calm /\ q.pc = "rows"
        /\ q.todo = StorageFields /\ q.form = form
    <3>1. form \in AllForms
      BY <2>2, FormsAreForms
    <3>2. "rows" \in ReqPCs
      BY DEF ReqPCs
    <3> QED BY <1>1, <3>1, <3>2 DEF Reqs
  <2>4. req' = [req EXCEPT ![r] = q]
    BY <1>1, <1>5 DEF ReqsTyped
  <2> HIDE DEF q
  <2>5. GoesOn(r) /\ req'[r] = q
    BY <1>1, <2>3, <2>4, ReqSwap
  <2>6. Writes(req'[r]) = Writes(req[r])
    BY <1>1, <2>3, <2>5, WritesAre
  <2>7. ReqFits(req'[r])
    BY <1>5, <2>2, <2>3, <2>5 DEF ReqFits
  <2>8. Faithful(req'[r], table')
    BY <1>1, <2>2, <2>3, <2>5 DEF Faithful
  <2>9. Lawful(r)
    BY <1>1, <1>2, <2>1, <2>5, <2>6, <2>7, <2>8, LawfulOn
  <2>10. Orderly(r)
    BY <1>1, <1>3, <2>3, <2>5, OrderlyAside
  <2> QED BY <1>1, <2>9, <2>10, Kept
<1> QED BY <1>4, <1>5 DEF ReadStorage

(* One row of a save.                                                       *)
LEMMA RowWritten ==
  ASSUME NEW rows \in Tables, NEW f \in SavedForms, NEW k \in StorageFields,
         NEW new \in [Keys -> Texts], new[k] = f[k], \A x \in Keys \ {k} : new[x] = rows[x]
  PROVE  new \in Tables
<1>1. k \in Keys /\ k \notin Switches /\ k # "secret" /\ k \in {"provider", "bucket"}
  BY SettingsAssumption DEF Keys, StorageFields
<1>2. (k = "provider" => f[k] \in {"local", "s3"}) /\ (k = "bucket" => f[k] \in {"", "b"})
  BY DEF SavedForms
<1>3. /\ \A x \in Switches : x \in Keys /\ x # k
      /\ {"provider", "bucket", "secret"} \subseteq Keys
  BY <1>1 DEF Keys, StorageFields
<1>4. \A x \in Switches : new[x] \in {"none", "true", "false"}
  BY <1>3 DEF Tables
<1>5. new["provider"] \in {"none", "local", "s3"} /\ new["bucket"] \in {"none", "", "b"}
  BY <1>1, <1>2, <1>3 DEF Tables
<1>6. new["secret"] \in {"none", "k1", "k2"}
  BY <1>1, <1>3 DEF Tables
<1> QED BY <1>4, <1>5, <1>6 DEF Tables

LEMMA WriteRowKeeps ==
  ASSUME SettingsInv, NEW r \in Requests, NEW k \in StorageFields, WriteRow(r, k)
  PROVE  SettingsInv'
<1> DEFINE q == [req[r] EXCEPT !.todo = @ \ {k}]
<1>1. /\ req[r].pc \in {"rows", "strays"} /\ req[r].kind = "storage" /\ req[r] \in Reqs
      /\ req[r].form \in SavedForms /\ Valid(Asked(req[r].form)) /\ table \in Tables /\ ReqsTyped
      /\ table' = [table EXCEPT ![k] = req[r].form[k]] /\ req' = [req EXCEPT ![r] = q]
      /\ UNCHANGED <<cache, live, client, raced, spoiled>> /\ UNCHANGED startupVars
  <2>1. req' = [req EXCEPT ![r] = q]
    BY DEF WriteRow, SettingsInv, SettingsBase, ReqsTyped
  <2> QED BY <2>1, PcTells DEF WriteRow, ReqFits, SettingsInv, SettingsBase, TablesFit
<1>2. /\ q \in Reqs /\ q.kind = "storage" /\ q.calm = req[r].calm /\ q.pc = req[r].pc
      /\ q.todo = req[r].todo \ {k} /\ q.form = req[r].form
  BY <1>1 DEF Reqs
<1> HIDE DEF q
<1>3. GoesOn(r) /\ req'[r] = q
  BY <1>1, <1>2, ReqSwap
<1>4. table' \in Tables /\ table'[k] = req[r].form[k] /\ \A x \in Keys \ {k} : table'[x] = table[x]
  <2>1. k \in Keys /\ table \in [Keys -> Texts] /\ req[r].form[k] \in Texts
    BY <1>1 DEF Keys, StorageFields, Tables, SavedForms, Texts
  <2>2. /\ table' \in [Keys -> Texts] /\ table'[k] = req[r].form[k]
        /\ \A x \in Keys \ {k} : table'[x] = table[x]
    BY <1>1, <2>1
  <2> QED BY <1>1, <2>2, RowWritten
<1>5. Writes(req'[r]) = Writes(req[r]) /\ Writes(req[r]) = StorageFields \cup {"secret"}
  BY <1>1, <1>2, <1>3, WritesAre
<1>6. ReqFits(req'[r])
  BY <1>1, <1>2, <1>3 DEF ReqFits
<1>7. req'[r].calm => Faithful(req'[r], table')
  <2>1. "secret" \in Keys \ {k} /\ StorageFields \subseteq Keys
    BY DEF Keys, StorageFields
  <2>2. table'["secret"] = table["secret"]
    BY <1>4, <2>1
  <2>3. req[r].calm => Faithful(req[r], table)
    BY PcTells
  <2>4. req[r].calm /\ q.pc = "rows" => \A x \in StorageFields \ q.todo : table'[x] = q.form[x]
    BY <1>1, <1>2, <1>4, <2>1, <2>3 DEF Faithful
  <2>5. req[r].calm /\ q.pc = "rows" => q.form["kept"] = Or(table'["secret"], "")
    BY <1>1, <1>2, <2>2, <2>3 DEF Faithful
  <2>6. q.kind = "storage" /\ q.pc \in {"rows", "strays"}
    BY <1>1, <1>2
  <2>7. req[r].calm => Faithful(q, table')
    BY <2>4, <2>5, <2>6 DEF Faithful
  <2> QED BY <1>2, <1>3, <2>7
<1>8. Lawful(r)
  <2>1. \A x \in Switches : ~Pends(req[r], x) /\ table'[x] = table[x]
    BY <1>1, <1>4, SettingsAssumption DEF Pends, Keys, StorageFields
  <2>2. \A x \in Keys \ Writes(req[r]) : table'[x] = table[x]
    BY <1>4, <1>5
  <2> QED BY <1>1, <1>3, <1>4, <1>5, <1>6, <1>7, <2>1, <2>2, LawfulOn
<1>9. Orderly(r)
  <2>1. client \subseteq {live} /\ \A p \in Requests : req[p].pc = "strays" => spoiled
    BY DEF SettingsInv, StoreInv
  <2>2. spoiled \/ Saves(req'[r])
    BY <1>1, <1>2, <1>3, <2>1 DEF Saves
  <2> QED BY <1>1, <1>2, <1>3, <2>1, <2>2 DEF Orderly
<1> QED BY <1>1, <1>8, <1>9, Kept

LEMMA FailRowKeeps ==
  ASSUME SettingsInv, NEW r \in Requests, NEW k \in StorageFields, FailRow(r, k)
  PROVE  SettingsInv'
<1> DEFINE q == [req[r] EXCEPT !.todo = @ \ {k}, !.pc = "strays"]
<1>1. /\ req[r].pc \in {"rows", "strays"} /\ req[r].kind = "storage" /\ req[r] \in Reqs
      /\ req[r].form \in SavedForms /\ Valid(Asked(req[r].form)) /\ table \in Tables /\ ReqsTyped
      /\ req' = [req EXCEPT ![r] = q] /\ spoiled' = TRUE
      /\ UNCHANGED <<table, cache, live, client, raced>> /\ UNCHANGED startupVars
  <2>1. req' = [req EXCEPT ![r] = q]
    BY DEF FailRow, SettingsInv, SettingsBase, ReqsTyped
  <2> QED BY <2>1, PcTells DEF FailRow, ReqFits, SettingsInv, SettingsBase, TablesFit
<1>2. /\ q \in Reqs /\ q.kind = "storage" /\ q.calm = req[r].calm /\ q.pc = "strays"
      /\ q.form = req[r].form
  BY <1>1 DEF Reqs, ReqPCs
<1> HIDE DEF q
<1>3. GoesOn(r) /\ req'[r] = q
  BY <1>1, <1>2, ReqSwap
<1>4. Writes(req'[r]) = Writes(req[r])
  BY <1>1, <1>2, <1>3, WritesAre
<1>5. ReqFits(req'[r]) /\ Faithful(req'[r], table')
  BY <1>1, <1>2, <1>3 DEF ReqFits, Faithful
<1>6. \A x : ~Pends(req[r], x)
  BY <1>1 DEF Pends
<1>7. Lawful(r)
  BY <1>1, <1>3, <1>4, <1>5, <1>6, LawfulOn
<1>8. Orderly(r)
  BY <1>1 DEF Orderly, SettingsInv, StoreInv
<1> QED BY <1>1, <1>7, <1>8, Kept

LEMMA StraysDoneKeeps == ASSUME SettingsInv, NEW r \in Requests, StraysDone(r) PROVE SettingsInv'
<1>1. req[r].pc = "strays" /\ UNCHANGED <<table, cache, live, client, raced, spoiled>>
      /\ UNCHANGED startupVars /\ Finish(r)
  BY DEF StraysDone
<1>2. (\A k : ~Pends(req[r], k)) /\ ~Saves(req[r])
  BY <1>1 DEF Pends, Saves
<1>3. Lawful(r)
  BY <1>1, <1>2, LawfulEnd
<1>4. Orderly(r)
  BY <1>1, <1>2, OrderlyAside
<1> QED BY <1>1, <1>3, <1>4, Kept

LEMMA RowsWrittenKeeps == ASSUME SettingsInv, NEW r \in Requests, RowsWritten(r) PROVE SettingsInv'
<1>1. /\ req[r].pc = "rows" /\ req[r].todo = {} /\ req[r].kind = "storage" /\ req[r] \in Reqs
      /\ req[r].form \in SavedForms /\ Valid(Asked(req[r].form)) /\ table \in Tables /\ ReqsTyped
      /\ UNCHANGED <<table, cache, live, client, raced, spoiled>> /\ UNCHANGED startupVars
  BY PcTells DEF RowsWritten, ReqFits, SettingsInv, SettingsBase, TablesFit
<1>2. /\ GoesOn(r) /\ req'[r].pc = "secret" /\ req'[r].kind = "storage"
      /\ req'[r].form = req[r].form /\ req'[r].todo = {} /\ req'[r].calm = req[r].calm
  <2>1. "secret" \in ReqPCs /\ Goto(r, "secret")
    BY DEF ReqPCs, RowsWritten
  <2> QED BY <1>1, <2>1, ReqGoto DEF GoesOn
<1>3. Writes(req'[r]) = Writes(req[r])
  BY <1>1, <1>2, WritesAre
<1>4. ReqFits(req'[r])
  BY <1>1, <1>2 DEF ReqFits
<1>5. req'[r].calm => Faithful(req'[r], table')
  <2>1. req[r].calm => Faithful(req[r], table)
    BY PcTells
  <2> QED BY <1>1, <1>2, <2>1 DEF Faithful
<1>6. \A x : ~Pends(req[r], x)
  BY <1>1 DEF Pends
<1>7. Lawful(r)
  BY <1>1, <1>2, <1>3, <1>4, <1>5, <1>6, LawfulOn
<1>8. Saves(req'[r])
  BY <1>2 DEF Saves
<1>9. Orderly(r)
  BY <1>1, <1>2, <1>8, OrderlyAside
<1> QED BY <1>1, <1>7, <1>9, Kept

LEMMA WriteSecretKeeps == ASSUME SettingsInv, NEW r \in Requests, WriteSecret(r) PROVE SettingsInv'
<1> DEFINE f == req[r].form
<1>1. /\ req[r].pc = "secret" /\ req[r].kind = "storage" /\ req[r] \in Reqs
      /\ f \in SavedForms /\ Valid(Asked(f)) /\ table \in Tables /\ ReqsTyped
      /\ table' = IF f["secret"] = "" THEN table ELSE [table EXCEPT !["secret"] = f["secret"]]
      /\ UNCHANGED <<cache, live, client, raced, spoiled>> /\ UNCHANGED startupVars
  BY PcTells DEF WriteSecret, ReqFits, SettingsInv, SettingsBase, TablesFit
<1>2. /\ GoesOn(r) /\ req'[r].pc = "switch" /\ req'[r].kind = "storage"
      /\ req'[r].form = f /\ req'[r].todo = req[r].todo /\ req'[r].calm = req[r].calm
  <2>1. "switch" \in ReqPCs /\ Goto(r, "switch")
    BY DEF ReqPCs, WriteSecret
  <2> QED BY <1>1, <2>1, ReqGoto DEF GoesOn
<1>3. Writes(req'[r]) = Writes(req[r]) /\ Writes(req[r]) = StorageFields \cup {"secret"}
  BY <1>1, <1>2, WritesAre
<1>4. /\ table' \in [Keys -> Texts] /\ \A x \in Keys \ {"secret"} : table'[x] = table[x]
      /\ table'["secret"] = IF f["secret"] = "" THEN table["secret"] ELSE f["secret"]
  <2>1. "secret" \in Keys /\ table \in [Keys -> Texts] /\ f["secret"] \in Texts
    BY <1>1 DEF Keys, Tables, SavedForms, Texts
  <2> QED BY <1>1, <2>1
<1>5. \A x \in Switches : x \in Keys \ {"secret"}
  BY SettingsAssumption DEF Keys
<1>6. StorageFields \subseteq Keys \ {"secret"} /\ "provider" \in StorageFields /\ "bucket" \in StorageFields
  BY DEF Keys, StorageFields
<1>7. f["secret"] \in {"", "k1", "k2"}
  BY <1>1 DEF SavedForms
<1>8. table' \in Tables
  <2>1. table["secret"] \in {"none", "k1", "k2"} /\ table["provider"] \in {"none", "local", "s3"}
        /\ table["bucket"] \in {"none", "", "b"} /\ \A x \in Switches : table[x] \in {"none", "true", "false"}
    BY <1>1 DEF Tables
  <2>2. table'["secret"] \in {"none", "k1", "k2"}
    BY <1>4, <1>7, <2>1
  <2>3. table'["provider"] = table["provider"] /\ table'["bucket"] = table["bucket"]
    BY <1>4, <1>6
  <2>4. \A x \in Switches : table'[x] = table[x]
    BY <1>4, <1>5
  <2> QED BY <1>4, <2>1, <2>2, <2>3, <2>4 DEF Tables
<1> HIDE DEF f
<1>9. ReqFits(req'[r])
  BY <1>1, <1>2 DEF ReqFits
<1>10. req'[r].calm => Faithful(req'[r], table')
  <2>1. SUFFICES ASSUME req[r].calm PROVE Faithful(req'[r], table')
    BY <1>2
  <2>2. /\ \A k \in StorageFields \ req[r].todo : table[k] = f[k]
        /\ req[r].todo = {} /\ f["kept"] = Or(table["secret"], "")
    BY <1>1, <2>1, PcTells DEF Faithful, f
  <2>3. \A k \in StorageFields : table'[k] = f[k]
    BY <1>4, <1>6, <2>2
  <2>4. Asked(f).secret = IF f["secret"] # "" THEN f["secret"] ELSE f["kept"]
    BY DEF Asked
  <2>5. Asked(f).secret = Or(table'["secret"], "")
    BY <1>4, <1>7, <2>2, <2>4 DEF Or
  <2> QED BY <1>2, <2>2, <2>3, <2>5 DEF Faithful
<1>11. Lawful(r)
  <2>1. \A x \in Switches : ~Pends(req[r], x) /\ table'[x] = table[x]
    BY <1>1, <1>4, <1>5 DEF Pends
  <2>2. \A x \in Keys \ Writes(req[r]) : table'[x] = table[x]
    BY <1>3, <1>4
  <2> QED BY <1>1, <1>2, <1>3, <1>8, <1>9, <1>10, <2>1, <2>2, LawfulOn
<1>12. Orderly(r)
  <2>1. client \subseteq {live} /\ \A p \in Requests : req[p].pc = "strays" => spoiled
    BY DEF SettingsInv, StoreInv
  <2>2. Saves(req'[r])
    BY <1>2 DEF Saves
  <2> QED BY <1>1, <1>2, <2>1, <2>2 DEF Orderly
<1> QED BY <1>1, <1>11, <1>12, Kept

LEMMA SwitchStorageKeeps == ASSUME SettingsInv, NEW r \in Requests, SwitchStorage(r) PROVE SettingsInv'
<1> DEFINE f == req[r].form
<1>1. /\ req[r].pc = "switch" /\ req[r].kind = "storage" /\ req[r] \in Reqs
      /\ f \in SavedForms /\ Valid(Asked(f)) /\ TablesFit /\ ReqsTyped /\ Finish(r)
      /\ live' = Asked(f) /\ client' = {} /\ spoiled' = ~req[r].calm
      /\ UNCHANGED <<table, cache, raced>> /\ UNCHANGED startupVars
  BY PcTells DEF SwitchStorage, ReqFits, SettingsInv, SettingsBase
<1>2. OtherReqs(r) /\ ReqsTyped' /\ req'[r] = NoReq
  BY <1>1, ReqFinish
<1>3. TablesFit'
  BY <1>1, AskedFits DEF TablesFit
<1>4. \A x : ~Pends(req[r], x)
  BY <1>1 DEF Pends
<1>5. Lawful(r)
  <2>1. ReqFits(req'[r]) /\ req'[r].kind = "none" /\ Faithful(req'[r], table')
    BY <1>2, NoReqFits, FaithfulAtFirst
  <2> QED BY <1>1, <1>2, <1>3, <1>4, <2>1 DEF Lawful
<1>6. req[r].calm => live' = StorageConfig(table')
  <2>1. SUFFICES ASSUME req[r].calm PROVE Asked(f) = StorageConfig(table)
    BY <1>1
  <2>2. /\ \A k \in StorageFields \ req[r].todo : table[k] = f[k]
        /\ req[r].todo = {} /\ Asked(f).secret = Or(table["secret"], "")
    BY <1>1, <2>1, PcTells DEF Faithful
  <2>3. table["provider"] = f["provider"] /\ table["bucket"] = f["bucket"]
    BY <2>2 DEF StorageFields
  <2>4. f["provider"] # "none" /\ f["bucket"] # "none"
    BY <1>1 DEF SavedForms
  <2>5. f["provider"] = Or(table["provider"], "local") /\ f["bucket"] = Or(table["bucket"], "")
    BY <2>3, <2>4 DEF Or
  <2>6. Asked(f) = [provider |-> f["provider"], bucket |-> f["bucket"], secret |-> Asked(f).secret]
    BY DEF Asked
  <2> QED BY <2>2, <2>5, <2>6 DEF StorageConfig
<1>7. Orderly(r)
  <2>1. ASSUME NEW p \in Requests \ {r}, req[p].pc = "strays", req[r].calm PROVE FALSE
    <3>1. req[p].kind = "storage"
      BY <2>1, PcTells
    <3>2. Writes(req[p]) \cap Writes(req[r]) = {}
      BY <2>1 DEF SettingsInv, Apart
    <3> QED BY <1>1, <3>1, <3>2, WritesAre DEF StorageFields
  <2>2. req'[r].pc # "strays"
    BY <1>2, NoReqFits
  <2>3. spoiled' \/ (live' = StorageConfig(table') /\ Valid(live'))
    BY <1>1, <1>6
  <2> QED BY <1>1, <2>1, <2>2, <2>3 DEF Orderly
<1> QED BY <1>1, <1>5, <1>7, Kept

-----------------------------------------------------------------------------
(* A restore, and failures.                                                 *)
LEMMA ReplaceKeeps == ASSUME SettingsInv, NEW r \in Requests, Replace(r) PROVE SettingsInv'
<1>1. /\ req[r].pc = "replace" /\ req[r].kind = "reload" /\ req[r] \in Reqs /\ ReqsTyped
      /\ table' = Backup /\ spoiled' = TRUE
      /\ UNCHANGED <<cache, live, client, raced>> /\ UNCHANGED startupVars
  BY PcTells DEF Replace, SettingsInv, SettingsBase
<1>2. GoesOn(r) /\ req'[r].pc = "load" /\ req'[r].kind = "reload"
  <2>1. "load" \in ReqPCs /\ Goto(r, "load")
    BY DEF ReqPCs, Replace
  <2> QED BY <1>1, <2>1, ReqGoto DEF GoesOn
<1>3. Writes(req'[r]) = Keys /\ Writes(req[r]) = Keys
  BY <1>1, <1>2, WritesAre
<1>4. ReqFits(req'[r]) /\ Faithful(req'[r], table')
  BY <1>2 DEF ReqFits, Faithful
<1>5. \A k \in Switches : Pends(req'[r], k)
  BY <1>2, <1>3 DEF Pends, Keys
<1>6. Lawful(r)
  BY <1>1, <1>2, <1>3, <1>4, <1>5, SettingsAssumption, LawfulOn
<1>7. Orderly(r)
  BY <1>1, <1>2 DEF Orderly, SettingsInv, StoreInv
<1> QED BY <1>1, <1>6, <1>7, Kept

LEMMA FindAllKeeps == ASSUME SettingsInv, NEW r \in Requests, FindAll(r) PROVE SettingsInv'
<1> DEFINE q == [req[r] EXCEPT !.pc = "assign", !.form = Cached(table)]
<1>1. /\ req[r].pc = "load" /\ req[r].kind = "reload" /\ req[r] \in Reqs /\ ReqsTyped
      /\ table \in Tables /\ req' = [req EXCEPT ![r] = q]
      /\ UNCHANGED <<table, cache, live, client, raced, spoiled>> /\ UNCHANGED startupVars
  <2>1. req' = [req EXCEPT ![r] = q]
    BY DEF FindAll, SettingsInv, SettingsBase, ReqsTyped
  <2> QED BY <2>1, PcTells DEF FindAll, SettingsInv, SettingsBase, TablesFit
<1>2. /\ Cached(table) \in Values
      /\ \A k \in Switches : Environment[k] # "unset" => Cached(table)[k] = Environment[k]
  BY <1>1, RowsMean
<1>3. q \in Reqs /\ q.kind = "reload" /\ q.calm = req[r].calm /\ q.pc = "assign" /\ q.form = Cached(table)
  <2>1. "assign" \in ReqPCs /\ Cached(table) \in AllForms
    BY <1>2, FormsAreForms DEF ReqPCs
  <2> QED BY <1>1, <2>1 DEF Reqs
<1> HIDE DEF q
<1>4. GoesOn(r) /\ req'[r] = q
  BY <1>1, <1>3, ReqSwap
<1>5. Writes(req'[r]) = Keys /\ Writes(req[r]) = Keys
  BY <1>1, <1>3, <1>4, WritesAre
<1>6. ReqFits(req'[r]) /\ Faithful(req'[r], table')
  <2>1. ReqFits(q)
    BY <1>2, <1>3 DEF ReqFits
  <2>2. Faithful(q, table)
    BY <1>3 DEF Faithful
  <2> QED BY <1>1, <1>4, <2>1, <2>2
<1>7. \A k \in Switches : Pends(req'[r], k)
  BY <1>3, <1>4, <1>5 DEF Pends, Keys
<1>8. Lawful(r)
  BY <1>1, <1>4, <1>5, <1>6, <1>7, LawfulOn
<1>9. Orderly(r)
  <2>1. ~Saves(req[r]) /\ req'[r].pc # "strays"
    BY <1>1, <1>3, <1>4 DEF Saves
  <2> QED BY <1>1, <2>1, OrderlyAside
<1> QED BY <1>1, <1>8, <1>9, Kept

LEMMA AssignKeeps == ASSUME SettingsInv, NEW r \in Requests, Assign(r) PROVE SettingsInv'
<1>1. /\ req[r].pc = "assign" /\ req[r].kind = "reload" /\ req[r] \in Reqs /\ TablesFit
      /\ req[r].form \in Values
      /\ \A k \in Switches : Environment[k] # "unset" => req[r].form[k] = Environment[k]
      /\ cache' = req[r].form /\ UNCHANGED <<table, live, client, spoiled>> /\ UNCHANGED startupVars
      /\ raced' = IF req[r].calm THEN raced \ Writes(req[r]) ELSE raced \cup Writes(req[r])
  BY PcTells DEF Assign, ReqFits, Settle
<1>2. ReqsTyped' /\ OtherReqs(r) /\ req'[r] = NoReq
  BY ReqFinish DEF SettingsInv, SettingsBase, Assign
<1>3. TablesFit'
  BY <1>1 DEF TablesFit
<1>4. \A k \in Switches : k \in raced' \/ cache'[k] = Cached(table')[k]
  <2>1. CASE req[r].calm
    <3>1. req[r].form = Cached(table)
      BY <1>1, <2>1, PcTells DEF Faithful
    <3> QED BY <1>1, <3>1
  <2>2. CASE ~req[r].calm
    BY <1>1, <2>2, WritesAre DEF Keys
  <2> QED BY <2>1, <2>2
<1>5. Lawful(r)
  <2>1. ReqFits(req'[r]) /\ req'[r].kind = "none" /\ Faithful(req'[r], table')
    BY <1>2, NoReqFits, FaithfulAtFirst
  <2> QED BY <1>1, <1>2, <1>3, <1>4, <2>1 DEF Lawful
<1>6. Orderly(r)
  <2>1. ~Saves(req[r]) /\ req'[r].pc # "strays"
    BY <1>1, <1>2, NoReqFits DEF Saves
  <2> QED BY <1>1, <2>1, OrderlyAside
<1> QED BY <1>1, <1>5, <1>6, Kept

LEMMA FailKeeps == ASSUME SettingsInv, NEW r \in Requests, Fail(r) PROVE SettingsInv'
<1>1. /\ req[r].pc \in {"upsert", "read", "secret", "replace", "load"} /\ Finish(r)
      /\ UNCHANGED <<table, cache, live, client>> /\ UNCHANGED startupVars
      /\ raced' = (IF req[r].kind = "reload" THEN Switches ELSE raced)
      /\ spoiled' = (spoiled \/ req[r].pc = "secret")
  BY DEF Fail
<1>2. req'[r] = NoReq
  BY <1>1, ReqFinish DEF SettingsInv, SettingsBase
<1>3. ASSUME NEW k \in Switches PROVE k \in raced' \/ (~Pends(req[r], k) /\ (k \in raced => k \in raced'))
  <2>1. CASE req[r].pc = "load"
    BY <1>1, <2>1, PcTells
  <2>2. CASE req[r].pc # "load"
    BY <1>1, <2>2 DEF Pends
  <2> QED BY <2>1, <2>2
<1>4. Lawful(r)
  BY <1>1, <1>3, LawfulEnd
<1>5. Orderly(r)
  <2>1. client \subseteq {live} /\ \A p \in Requests : req[p].pc = "strays" => spoiled
    BY DEF SettingsInv, StoreInv
  <2>2. spoiled \in BOOLEAN => (spoiled => spoiled') /\ (spoiled' \/ (~spoiled /\ ~Saves(req[r])))
    BY <1>1 DEF Saves
  <2>3. (spoiled => spoiled') /\ (spoiled' \/ (~spoiled /\ ~Saves(req[r])))
    BY <1>1 DEF Saves
  <2> QED BY <1>1, <1>2, <2>1, <2>3, NoReqFits DEF Orderly
<1> QED BY <1>1, <1>4, <1>5, Kept

-----------------------------------------------------------------------------
(* A request begins; whoever writes the same is no longer calm.             *)
LEMMA BeginKeeps ==
  ASSUME SettingsInv, NEW r \in Requests, NEW new \in Reqs, Begin(r, new), ReqFits(new),
         new.pc \in {"upsert", "read", "replace"}
  PROVE  SettingsInv'
<1> DEFINE q == [new EXCEPT !.calm = Rivals(r, Writes(new)) = {}]
<1>1. /\ phase = "listening" /\ req[r].pc = "idle" /\ ReqsTyped
      /\ req' = [p \in Requests |->
            IF p = r THEN q
            ELSE IF p \in Rivals(r, Writes(new)) THEN [req[p] EXCEPT !.calm = FALSE] ELSE req[p]]
      /\ UNCHANGED <<table, cache, live, client, raced, spoiled>> /\ UNCHANGED startupVars
  BY DEF Begin, SettingsInv, SettingsBase
<1>2. /\ q \in Reqs /\ q.pc = new.pc /\ q.kind = new.kind /\ q.form = new.form
      /\ q.calm = (Rivals(r, Writes(new)) = {})
  BY DEF Reqs
<1>3. req'[r] = q
  BY <1>1
<1> HIDE DEF q
<1>4. ASSUME NEW p \in Requests, p # r
      PROVE  /\ req'[p] \in Reqs /\ req'[p].pc = req[p].pc /\ req'[p].kind = req[p].kind
             /\ req'[p].form = req[p].form /\ req'[p].todo = req[p].todo
             /\ req'[p].calm => req[p].calm /\ req'[p] = req[p] /\ p \notin Rivals(r, Writes(new))
  <2>1. req[p] \in Reqs
    BY <1>1 DEF ReqsTyped
  <2>2. CASE p \in Rivals(r, Writes(new))
    <3>1. req'[p] = [req[p] EXCEPT !.calm = FALSE]
      BY <1>1, <1>4, <2>2
    <3> QED BY <2>1, <3>1 DEF Reqs
  <2>3. CASE p \notin Rivals(r, Writes(new))
    BY <1>1, <1>4, <2>1, <2>3
  <2> QED BY <2>2, <2>3
<1>5. Writes(q) = Writes(new)
  BY <1>2 DEF Writes
<1>6. ASSUME NEW p \in Requests, p # r PROVE Writes(req'[p]) = Writes(req[p])
  BY <1>4, <1>6 DEF Writes
<1>7. SettingsBase'
  <2>1. ReqsTyped'
    BY <1>1, <1>2, <1>3, <1>4 DEF ReqsTyped
  <2>2. TablesFit' /\ NotYet'
    BY <1>1 DEF SettingsInv, SettingsBase, TablesFit, NotYet, startupVars
  <2>3. \A p \in Requests : ReqFits(req[p])
    BY DEF SettingsInv, SettingsBase
  <2>4. \A p \in Requests : ReqFits(req'[p])
    BY <1>2, <1>3, <1>4, <2>3 DEF ReqFits, SetFits
  <2>5. (\A p \in Requests : ReqFits(req[p]))'
    BY <2>4 DEF ReqFits, SetFits
  <2> QED BY <2>1, <2>2, <2>5 DEF SettingsBase
<1>8. ASSUME NEW a \in Requests, NEW b \in Requests, a # b, req'[a].calm
      PROVE  Writes(req'[b]) \cap Writes(req'[a]) = {}
  <2>1. CASE a = r
    <3>1. b \notin Rivals(r, Writes(new))
      BY <1>2, <1>3, <1>8, <2>1
    <3>2. Writes(req[b]) \cap Writes(new) = {}
      BY <1>8, <2>1, <3>1 DEF Rivals
    <3> QED BY <1>3, <1>5, <1>6, <1>8, <2>1, <3>2
  <2>2. CASE b = r
    <3>1. a \notin Rivals(r, Writes(new))
      BY <1>4, <1>8, <2>2
    <3>2. Writes(req[a]) \cap Writes(new) = {}
      BY <1>8, <2>2, <3>1 DEF Rivals
    <3> QED BY <1>3, <1>5, <1>6, <1>8, <2>2, <3>2
  <2>3. CASE a # r /\ b # r
    <3>1. Writes(req[b]) \cap Writes(req[a]) = {}
      BY <1>4, <1>8, <2>3 DEF SettingsInv, Apart
    <3> QED BY <1>6, <2>3, <3>1
  <2> QED BY <2>1, <2>2, <2>3
<1>9. Apart'
  BY <1>8 DEF Apart
<1>10. ASSUME NEW p \in Requests, req'[p].calm PROVE Faithful(req'[p], table')
  <2>1. CASE p = r
    BY <1>2, <1>3, <2>1, FaithfulAtFirst
  <2>2. CASE p # r
    BY <1>1, <1>4, <1>10, <2>2 DEF SettingsInv, FormsKept
  <2> QED BY <2>1, <2>2
<1>11. FormsKept'
  BY <1>10 DEF FormsKept, Faithful
<1>12. ASSUME NEW p \in Requests
       PROVE  /\ \A k : Pends(req'[p], k) <=> Pends(req[p], k)
              /\ Saves(req'[p]) <=> Saves(req[p])
              /\ req'[p].pc = "strays" => req[p].pc = "strays"
  <2>1. CASE p = r
    BY <1>1, <1>2, <1>3, <2>1 DEF Pends, Saves
  <2>2. CASE p # r
    BY <1>4, <1>6, <2>2 DEF Pends, Saves
  <2> QED BY <2>1, <2>2
<1>13. CacheInv'
  <2>1. phase' = phase /\ cache' = cache /\ raced' = raced /\ Cached(table') = Cached(table)
    BY <1>1 DEF startupVars
  <2>2. \A k \in Switches :
          /\ k \notin raced' /\ (\A p \in Requests : ~Pends(req'[p], k)) => cache'[k] = Cached(table')[k]
          /\ Environment[k] # "unset" => cache'[k] = Environment[k]
    BY <1>1, <1>12, <2>1 DEF SettingsInv, CacheInv
  <2> QED BY <2>2 DEF CacheInv, Pends, Writes, Cached
<1>14. StoreInv'
  <2>1. (Saving <=> Saving') /\ \A p \in Requests : req'[p].pc = "strays" => spoiled
    BY <1>12 DEF Saving, Saves, SettingsInv, StoreInv
  <2> QED BY <1>1, <2>1 DEF SettingsInv, StoreInv, StorageConfig, Valid, startupVars
<1>15. StartupInv'
  BY <1>1, StartupKeeps DEF SettingsInv
<1> QED BY <1>7, <1>9, <1>11, <1>13, <1>14, <1>15 DEF SettingsInv

LEMMA SubmitKeeps == ASSUME SettingsInv, NEW r \in Requests, Submit(r) PROVE SettingsInv'
<1>1. ASSUME NEW k \in Keys, NEW v \in Texts, SendSetting(r, k, v),
             (k \in Switches /\ v \in {"true", "false"}) \/ (k = "provider" /\ v = "s3")
      PROVE  SettingsInv'
  <2> DEFINE q == SettingForm(k, v)
  <2>1. [x \in {k} |-> v] \in AllForms
    BY DEF AllForms
  <2>2. "upsert" \in ReqPCs /\ "set" \in ReqKinds /\ NoReq \in Reqs
    BY NoReqFits DEF ReqPCs, ReqKinds
  <2>3. q \in Reqs /\ q.pc = "upsert" /\ q.kind = "set" /\ q.form = [x \in {k} |-> v]
    BY <2>1, <2>2 DEF SettingForm, Reqs
  <2>4. (k \in Switches => Environment[k] = "unset") /\ Begin(r, q)
    BY <1>1 DEF SendSetting
  <2> HIDE DEF q
  <2>5. DOMAIN q.form = {k} /\ q.form[k] = v
    BY <2>3
  <2>6. SetFits(q)
    BY <1>1, <2>4, <2>5 DEF SetFits
  <2>7. ReqFits(q)
    BY <2>3, <2>6 DEF ReqFits
  <2> QED BY <2>3, <2>4, <2>7, BeginKeeps
<1>2. ASSUME NEW form \in StorageForms, SendStorage(r, form) PROVE SettingsInv'
  <2> DEFINE q == [NoReq EXCEPT !.pc = "read", !.kind = "storage", !.form = form]
  <2>1. form \in SavedForms
    BY DEF StorageForms, SavedForms
  <2>2. "read" \in ReqPCs /\ "storage" \in ReqKinds /\ form \in AllForms /\ NoReq \in Reqs
    BY <2>1, FormsAreForms, NoReqFits DEF ReqPCs, ReqKinds
  <2>3. q \in Reqs /\ q.pc = "read" /\ q.kind = "storage" /\ q.form = form
    BY <2>2 DEF Reqs
  <2>4. Begin(r, q)
    BY <1>2 DEF SendStorage
  <2> HIDE DEF q
  <2>5. ReqFits(q)
    BY <2>1, <2>3 DEF ReqFits
  <2> QED BY <2>3, <2>4, <2>5, BeginKeeps
<1>3. CASE SendRestore(r)
  <2> DEFINE q == [NoReq EXCEPT !.pc = "replace", !.kind = "reload"]
  <2>2. "replace" \in ReqPCs /\ "reload" \in ReqKinds /\ NoReq \in Reqs
    BY NoReqFits DEF ReqPCs, ReqKinds
  <2>3. q \in Reqs /\ q.pc = "replace" /\ q.kind = "reload"
    BY <2>2 DEF Reqs
  <2>4. Begin(r, q)
    BY <1>3 DEF SendRestore
  <2> HIDE DEF q
  <2>5. ReqFits(q)
    BY <2>3 DEF ReqFits
  <2> QED BY <2>3, <2>4, <2>5, BeginKeeps
<1>4. CASE \E k \in Switches, v \in {"true", "false"} : SendSetting(r, k, v)
  <2>1. PICK k \in Switches, v \in {"true", "false"} : SendSetting(r, k, v)
    BY <1>4
  <2>2. k \in Keys /\ v \in Texts
    BY DEF Keys, Texts
  <2> QED BY <1>1, <2>1, <2>2
<1>5. CASE SendSetting(r, "provider", "s3")
  <2>1. "provider" \in Keys /\ "s3" \in Texts
    BY DEF Keys, StorageFields, Texts
  <2> QED BY <1>1, <1>5, <2>1
<1> QED BY <1>2, <1>3, <1>4, <1>5 DEF Submit

LEMMA ServeKeeps == ASSUME SettingsInv, NEW r \in Requests, Serve(r) PROVE SettingsInv'
BY UpsertKeeps, ApplyKeeps, ReadStorageKeeps, RowsWrittenKeeps, StraysDoneKeeps, WriteSecretKeeps,
   SwitchStorageKeeps, WriteRowKeeps, FailRowKeeps, ReplaceKeeps, FindAllKeeps, AssignKeeps, FailKeeps
DEF Serve

-----------------------------------------------------------------------------
(* The process: its start, its storage, its end.                            *)
LEMMA BootKeeps == ASSUME SettingsInv, Boot PROVE SettingsInv'
<1>1. CASE StartupStep /\ UNCHANGED settingsVars
  <2>1. StartupInv'
    BY <1>1, StartupKeeps DEF SettingsInv
  <2>2. /\ phase \notin {"load", "apply", "listening", "exited"}
        /\ phase' \notin {"apply", "listening"}
    BY <1>1 DEF StartupStep, Connect, FailToConnect, ApplyMigration, FailMigration, FinishMigrations,
                SeedRoles, FailSeeding, FinishSeeding, SeedProvider, SeedConfiguration, Enter
  <2>3. SettingsBase'
    BY <1>1, <2>2 DEF SettingsInv, SettingsBase, ReqsTyped, TablesFit, NotYet, settingsVars, ReqFits, SetFits
  <2>4. Apart' /\ FormsKept'
    BY <1>1 DEF SettingsInv, Apart, FormsKept, settingsVars
  <2>5. CacheInv'
    BY <2>2 DEF CacheInv
  <2>6. StoreInv'
    BY <1>1, <2>2 DEF SettingsInv, StoreInv, Saving, settingsVars
  <2> QED BY <2>1, <2>3, <2>4, <2>5, <2>6 DEF SettingsInv
<1>2. CASE LoadSettings
  <2>1. /\ phase = "load" /\ phase' = "apply" /\ cache' = Cached(table) /\ raced' = {}
        /\ UNCHANGED <<table, live, client, req, begun, spoiled>> /\ table \in Tables
    BY <1>2 DEF LoadSettings, Enter, SettingsInv, SettingsBase, TablesFit
  <2>2. StartupInv'
    BY <1>2, StartupGoesOn DEF LoadSettings, SettingsInv
  <2>3. cache' \in Values /\ \A k \in Switches : Environment[k] # "unset" => cache'[k] = Environment[k]
    BY <2>1, RowsMean
  <2>4. SettingsBase'
    BY <2>1, <2>3 DEF SettingsInv, SettingsBase, ReqsTyped, TablesFit, NotYet, ReqFits, SetFits
  <2>5. Apart' /\ FormsKept'
    BY <2>1 DEF SettingsInv, Apart, FormsKept
  <2>6. CacheInv'
    BY <2>1, <2>3 DEF CacheInv
  <2>7. StoreInv'
    BY <2>1 DEF SettingsInv, StoreInv, Saving
  <2> QED BY <2>2, <2>4, <2>5, <2>6, <2>7 DEF SettingsInv
<1>3. CASE LoadStorage
  <2>1. /\ phase = "apply" /\ UNCHANGED <<table, cache, client, req, begun, raced>> /\ table \in Tables
        /\ \/ /\ Valid(StorageConfig(table)) /\ live' = StorageConfig(table)
              /\ phase' = "listening" /\ spoiled' = FALSE
           \/ UNCHANGED <<live, spoiled>> /\ phase' = "exited"
        /\ client = {} /\ \A r \in Requests : req[r].kind = "none"
    BY <1>3 DEF LoadStorage, Enter, SettingsInv, SettingsBase, TablesFit, NotYet
  <2>2. StartupInv'
    BY <1>3, StartupGoesOn DEF LoadStorage, SettingsInv
  <2>3. \A r \in Requests : req[r].pc = "idle"
    BY <2>1 DEF SettingsInv, SettingsBase, ReqFits
  <2>4. live' \in Configs
    BY <2>1, RowsMean DEF SettingsInv, SettingsBase, TablesFit
  <2>5. SettingsBase'
    BY <2>1, <2>4 DEF SettingsInv, SettingsBase, ReqsTyped, TablesFit, NotYet, ReqFits, SetFits
  <2>6. Apart' /\ FormsKept'
    BY <2>1 DEF SettingsInv, Apart, FormsKept
  <2>7. CacheInv'
    BY <2>1 DEF SettingsInv, CacheInv
  <2>8. StoreInv'
    BY <2>1, <2>3 DEF SettingsInv, StoreInv, Saving
  <2> QED BY <2>2, <2>5, <2>6, <2>7, <2>8 DEF SettingsInv
<1> QED BY <1>1, <1>2, <1>3 DEF Boot

LEMMA RebootKeeps == ASSUME SettingsInv, Reboot PROVE SettingsInv'
<1>1. /\ Restart /\ phase' = "connect" /\ cache' = Defaults /\ client' = {} /\ table' = table
      /\ live' = [provider |-> "local", bucket |-> "", secret |-> ""]
      /\ req' = [r \in Requests |-> NoReq] /\ \A r \in Requests : req'[r] = NoReq
      /\ table \in Tables
  BY DEF Reboot, Restart, Enter, SettingsInv, SettingsBase, TablesFit
<1>2. StartupInv'
  BY <1>1, StartupKeeps DEF SettingsInv
<1>3. SettingsBase'
  <2>1. ReqsTyped'
    BY <1>1, NoReqFits DEF ReqsTyped
  <2>2. TablesFit'
    BY <1>1, SettingsAssumption DEF TablesFit, Values, Configs
  <2>3. NotYet'
    BY <1>1, NoReqFits DEF NotYet
  <2>4. \A r \in Requests : ReqFits(req[r])'
    BY <1>1, NoReqFits DEF ReqFits, SetFits
  <2> QED BY <2>1, <2>2, <2>3, <2>4 DEF SettingsBase
<1>4. Apart'
  BY <1>1, NoReqFits DEF Apart
<1>5. FormsKept'
  <2>1. \A rows : Faithful(NoReq, rows)
    BY NoReqFits, FaithfulAtFirst
  <2> QED BY <1>1, <2>1 DEF FormsKept
<1>6. CacheInv'
  BY <1>1 DEF CacheInv
<1>7. StoreInv'
  <2>1. spoiled' \/ (~spoiled /\ ~Saving)
    BY DEF Reboot, Saving, Saves
  <2>2. spoiled' \/ Valid(StorageConfig(table))
    BY <2>1 DEF SettingsInv, StoreInv
  <2> QED BY <1>1, <2>2, NoReqFits DEF StoreInv
<1> QED BY <1>2, <1>3, <1>4, <1>5, <1>6, <1>7 DEF SettingsInv

LEMMA UseStorageKeeps == ASSUME SettingsInv, UseStorage PROVE SettingsInv'
<1>1. /\ phase = "listening" /\ client' = {live}
      /\ UNCHANGED <<table, cache, live, req, begun, raced, spoiled>> /\ UNCHANGED startupVars
      /\ phase' = phase
  BY DEF UseStorage, startupVars
<1>2. StartupInv'
  BY <1>1, StartupKeeps DEF SettingsInv
<1>3. SettingsBase'
  BY <1>1 DEF SettingsInv, SettingsBase, ReqsTyped, TablesFit, NotYet, ReqFits, SetFits
<1>4. Apart' /\ FormsKept'
  BY <1>1 DEF SettingsInv, Apart, FormsKept
<1>5. CacheInv' /\ StoreInv'
  BY <1>1 DEF SettingsInv, CacheInv, StoreInv, Saving
<1> QED BY <1>2, <1>3, <1>4, <1>5 DEF SettingsInv

LEMMA SettingsInvStep == SettingsInv /\ [Next]_vars => SettingsInv'
<1> SUFFICES ASSUME SettingsInv, [Next]_vars PROVE SettingsInv'
  OBVIOUS
<1>1. CASE UNCHANGED vars
  <2>1. UNCHANGED startupVars /\ UNCHANGED settingsVars
    BY <1>1 DEF vars, startupVars, settingsVars
  <2>2. StartupInv'
    BY <2>1, StartupKeeps DEF SettingsInv
  <2>3. SettingsBase'
    BY <1>1 DEF vars, SettingsInv, SettingsBase, ReqsTyped, TablesFit, NotYet, ReqFits, SetFits
  <2>4. Apart' /\ FormsKept' /\ CacheInv' /\ StoreInv'
    BY <1>1 DEF vars, SettingsInv, Apart, FormsKept, CacheInv, StoreInv, Saving
  <2> QED BY <2>2, <2>3, <2>4 DEF SettingsInv
<1> QED BY <1>1, BootKeeps, RebootKeeps, UseStorageKeeps, SubmitKeeps, ServeKeeps DEF Next

LEMMA AgreementFollows == SettingsInv => SettingsAgree
<1> SUFFICES ASSUME SettingsInv PROVE SettingsAgree
  OBVIOUS
<1>1. TypeOK
  <2>1. \A r \in Requests : req[r].pc \in ReqPCs /\ req[r].todo \subseteq Keys
    BY DEF SettingsInv, SettingsBase, ReqsTyped, Reqs, Keys
  <2> QED BY <2>1 DEF SettingsInv, StartupInv, SettingsBase, TablesFit, Values, TypeOK
<1>2. MigrationsInOrder /\ ProvidersWhole
  BY DEF SettingsInv, StartupInv
<1>3. ASSUME phase = "listening", NEW k \in Switches, k \notin raced, ~Writing({k})
      PROVE  cache[k] = Cached(table)[k]
  <2>1. \A r \in Requests : ~Pends(req[r], k)
    BY <1>3 DEF Writing, Pends
  <2> QED BY <1>3, <2>1 DEF SettingsInv, CacheInv
<1>4. EnvironmentWins
  BY DEF EnvironmentWins, SettingsInv, CacheInv
<1>5. ~Writing(StorageFields) => ~Saving
  BY WritesAre DEF Writing, Saving, Saves, StorageFields
<1>6. LiveFollowsTable /\ StoredConfigBoots /\ ClientFollows
  BY <1>5 DEF LiveFollowsTable, StoredConfigBoots, ClientFollows, SettingsInv, StoreInv
<1> QED BY <1>1, <1>2, <1>3, <1>4, <1>6 DEF SettingsAgree, CacheSettles

LEMMA SettingsAlways == Spec => []SettingsInv
BY SettingsInvInit, SettingsInvStep, PTL DEF Spec

(* For every set of settings, every environment and backup, any number of     *)
(* requests and restarts: migrations run in order, providers are seeded whole, *)
(* served switches are the stored ones once their writers are done, and the    *)
(* storage in use is the stored one.                                         *)
THEOREM SettingsStayInAgreement == Spec => []SettingsAgree
BY SettingsAlways, AgreementFollows, PTL

(* A stored secret is replaced by another or by a restore, never lost: an      *)
(* empty field of the form keeps it (storageSettingsService.update).         *)
THEOREM SecretIsKept == Spec => SecretKept
<1> DEFINE Keeps == table["secret"] \in {"k1", "k2"} /\ table'["secret"] \notin {"k1", "k2"} => table' = Backup
<1>1. ASSUME SettingsInv, Next PROVE Keeps
  <2>1. ASSUME NEW r \in Requests, Upsert(r) PROVE Keeps
    <3>1. DOMAIN req[r].form \subseteq Keys \ {"secret"}
      <4>1. SetFits(req[r])
        BY <1>1, <2>1, PcTells DEF Upsert, ReqFits
      <4> QED BY <4>1, SettingsAssumption DEF SetFits, Keys, StorageFields
    <3>2. "secret" \in Keys
      BY DEF Keys
    <3> QED BY <2>1, <3>1, <3>2 DEF Upsert
  <2>2. ASSUME NEW r \in Requests, NEW k \in StorageFields, WriteRow(r, k) PROVE Keeps
    <3>1. k # "secret" /\ "secret" \in Keys /\ table \in [Keys -> Texts]
      BY <1>1 DEF StorageFields, Keys, SettingsInv, SettingsBase, TablesFit, Tables
    <3>2. table'["secret"] = table["secret"]
      BY <2>2, <3>1 DEF WriteRow
    <3> QED BY <3>2
  <2>3. ASSUME NEW r \in Requests, WriteSecret(r) PROVE Keeps
    <3>1. req[r].form["secret"] \in {"", "k1", "k2"}
      BY <1>1, <2>3, PcTells DEF WriteSecret, ReqFits, SavedForms
    <3>2. table \in [Keys -> Texts] /\ "secret" \in Keys
      BY <1>1 DEF SettingsInv, SettingsBase, TablesFit, Tables, Keys
    <3> QED BY <2>3, <3>1, <3>2 DEF WriteSecret
  <2>4. ASSUME NEW r \in Requests, Replace(r) PROVE Keeps
    BY <2>4 DEF Replace
  <2>5. ASSUME UNCHANGED table PROVE Keeps
    BY <2>5
  <2>6. ASSUME NEW r \in Requests, Serve(r) PROVE Keeps
    BY <2>1, <2>2, <2>3, <2>4, <2>5, <2>6
    DEF Serve, ApplySetting, ReadStorage, RowsWritten, StraysDone, SwitchStorage, FailRow,
        FindAll, Assign, Fail
  <2>7. ASSUME NEW r \in Requests, Submit(r) PROVE Keeps
    BY <2>7, <2>5 DEF Submit, SendSetting, SendStorage, SendRestore, Begin
  <2>8. ASSUME Boot \/ Reboot \/ UseStorage PROVE Keeps
    BY <2>8, <2>5 DEF Boot, LoadSettings, LoadStorage, Reboot, UseStorage, settingsVars
  <2> QED BY <1>1, <2>6, <2>7, <2>8 DEF Next
<1>2. SettingsInv /\ [Next]_vars => [Keeps]_vars
  BY <1>1
<1> QED BY <1>2, SettingsAlways, PTL DEF Spec, SecretKept

-----------------------------------------------------------------------------
(* The values of the state, as far as the argument needs them.              *)
Abouts == [actor : Accounts, owner : Accounts, parent : Accounts \cup {"none"}]

Notifying ==
  [pc : {"none", "read", "parent", "createReply", "owner", "createComment", "done"},
   told : SUBSET Accounts]

Sends ==
  [pc : {"none", "calling", "called", "caught", "done"},
   outcome : {"none", "answered", "refused", "threw"},
   row : {"none", "success", "failure"}]

Bells ==
  [have : BOOLEAN, shows : SUBSET Comments, fetch : {"none", "asked", "read"},
   got : SUBSET Comments]

Streams == [open : BOOLEAN, told : {0, 1}]

DeliveryTypes ==
  /\ about \in [Comments -> Abouts]
  /\ notify \in [Comments -> Notifying]
  /\ sends \in [Comments -> [Hooked -> Sends]]
  /\ notices \in [Comments -> [Accounts -> Nat]]
  /\ bell \in [Accounts -> Bells]
  /\ stream \in [Accounts -> Streams]

(* Where the notification of a comment has come to, and whom it has told.   *)
NoticesGood(c) ==
  /\ notices[c][about[c].actor] = 0
  /\ \A u \in Accounts : notices[c][u] <= 1
  /\ notify[c].pc \in {"none", "read", "parent", "createReply"} =>
       \A u \in Accounts : notices[c][u] = 0
  /\ notify[c].pc \in {"owner", "createComment"} =>
       \A u \in Accounts : notices[c][u] # 0 => u \in notify[c].told
  /\ notify[c].pc \in {"none", "read"} => notify[c].told = {}
  /\ notify[c].pc \in {"parent", "createReply"} => about[c].parent \notin {"none", about[c].actor}
  /\ notify[c].pc = "createReply" => notify[c].told = {about[c].parent}
  /\ notify[c].pc = "createComment" =>
       about[c].owner # about[c].actor /\ about[c].owner \notin notify[c].told

(* What a fetch has read is what there is, as long as nothing is announced. *)
BellGood(u) ==
  "notifications" \in features /\ u \notin deaf /\ stream[u].told = 0 =>
    /\ bell[u].fetch = "none" => bell[u].shows = Mine(u)
    /\ bell[u].fetch = "read" => bell[u].got = Mine(u)

(* A row is kept of a finished call only; the catch block runs for a call   *)
(* that threw, unless storing its row did.                                  *)
SendGood(c, h) ==
  /\ sends[c][h].pc # "done" => sends[c][h].row = "none"
  /\ sends[c][h].pc = "caught" /\ <<c, h>> \notin dbFault => sends[c][h].outcome = "threw"
  /\ sends[c][h].row # "none" /\ <<c, h>> \notin dbFault =>
       (sends[c][h].row = "success" <=> sends[c][h].outcome = "answered")

(* A comment that has not been posted notifies nobody.                      *)
Dispatches == [pc : {"none", "context", "targets", "sending", "done"}, mine : BOOLEAN]

Posted ==
  /\ dispatch \in [Comments -> Dispatches]
  /\ \A c \in Comments : dispatch[c].pc = "none" => notify[c].pc = "none"

DeliveryInv ==
  /\ DeliveryTypes
  /\ \A c \in Comments : NoticesGood(c)
  /\ \A u \in Accounts : BellGood(u)
  /\ \A c \in Comments, h \in Hooked : SendGood(c, h)

-----------------------------------------------------------------------------
LEMMA NoSendType == NoSend \in Sends /\ NoSend.row = "none"
BY DEF NoSend, Sends

LEMMA InitGood == DeliveryInit => DeliveryInv
<1> SUFFICES ASSUME DeliveryInit PROVE DeliveryInv
  OBVIOUS
<1> USE DEF DeliveryInit
<1>1. DeliveryTypes
  <2>1. about \in [Comments -> Abouts]
    BY DEF Abouts
  <2>2. notify \in [Comments -> Notifying]
    BY DEF Notifying
  <2>3. sends \in [Comments -> [Hooked -> Sends]]
    BY NoSendType
  <2>4. bell \in [Accounts -> Bells] /\ stream \in [Accounts -> Streams]
    BY DEF Bells, Streams
  <2> QED BY <2>1, <2>2, <2>3, <2>4 DEF DeliveryTypes
<1>2. ASSUME NEW c \in Comments PROVE NoticesGood(c)
  <2>1. about[c].actor \in Accounts
    BY <1>1 DEF DeliveryTypes, Abouts
  <2> QED BY <2>1 DEF NoticesGood
<1>3. ASSUME NEW u \in Accounts PROVE BellGood(u)
  BY DEF BellGood, Mine
<1>4. ASSUME NEW c \in Comments, NEW h \in Hooked PROVE SendGood(c, h)
  BY DEF SendGood, NoSend
<1> QED BY <1>1, <1>2, <1>3, <1>4 DEF DeliveryInv

-----------------------------------------------------------------------------
(* The three parts of the state: the notification of a comment with the     *)
(* rows it stores, the bells, the calls of the webhooks.                    *)
CallsKept == UNCHANGED <<sends, dbFault>>
NoticesKept == UNCHANGED <<about, notify, notices>>
BellsKept == UNCHANGED <<notices, bell, stream, deaf>> /\ features' \subseteq features

LEMMA CallsStay ==
  ASSUME NEW c \in Comments, NEW h \in Hooked, SendGood(c, h), CallsKept
  PROVE  SendGood(c, h)'
BY DEF SendGood, CallsKept

LEMMA NoticesStay ==
  ASSUME NEW c \in Comments, NoticesGood(c), NoticesKept
  PROVE  NoticesGood(c)'
BY DEF NoticesGood, NoticesKept

LEMMA BellsStay ==
  ASSUME NEW u \in Accounts, BellGood(u), BellsKept
  PROVE  BellGood(u)'
BY DEF BellGood, BellsKept, Mine

(* The notification of one comment goes on, without a row.                  *)
LEMMA NotifyOn ==
  ASSUME DeliveryInv, NEW c \in Comments, NEW n \in Notifying,
         notify' = [notify EXCEPT ![c] = n], NoticesGood(c)',
         UNCHANGED <<about, notices, bell, stream, deaf, sends, dbFault>>,
         features' \subseteq features
  PROVE  DeliveryInv'
<1>1. DeliveryTypes'
  BY DEF DeliveryInv, DeliveryTypes
<1>2. ASSUME NEW x \in Comments PROVE NoticesGood(x)'
  <2>1. x # c => notify'[x] = notify[x]
    BY DEF DeliveryInv, DeliveryTypes
  <2> QED BY <2>1 DEF DeliveryInv, NoticesGood
<1>3. \A u \in Accounts : BellGood(u)'
  BY BellsStay DEF DeliveryInv, BellsKept
<1>4. \A x \in Comments, h \in Hooked : SendGood(x, h)'
  BY CallsStay DEF DeliveryInv, CallsKept
<1> QED BY <1>1, <1>2, <1>3, <1>4 DEF DeliveryInv

(* ... or with a row for an account, which its open streams announce.       *)
LEMMA NotifyCreates ==
  ASSUME DeliveryInv, NEW c \in Comments, NEW n \in Notifying, NEW u \in Accounts,
         notify' = [notify EXCEPT ![c] = n], Create(c, u), NoticesGood(c)',
         UNCHANGED <<about, features, bell, sends, dbFault>>
  PROVE  DeliveryInv'
<1>0. DeliveryTypes
  BY DEF DeliveryInv
<1>1. /\ notices' = [notices EXCEPT ![c] = [notices[c] EXCEPT ![u] = notices[c][u] + 1]]
      /\ stream' = [stream EXCEPT ![u] = [stream[u] EXCEPT !.told = IF stream[u].open THEN 1 ELSE 0]]
      /\ deaf' = IF stream[u].open THEN deaf ELSE deaf \cup {u}
  BY <1>0 DEF Create, Announce, DeliveryTypes
<1>2. DeliveryTypes'
  <2>1. [stream[u] EXCEPT !.told = IF stream[u].open THEN 1 ELSE 0] \in Streams
    BY <1>0 DEF DeliveryTypes, Streams
  <2>2. stream' \in [Accounts -> Streams]
    BY <1>0, <1>1, <2>1 DEF DeliveryTypes
  <2>3. [notices[c] EXCEPT ![u] = notices[c][u] + 1] \in [Accounts -> Nat]
    BY <1>0 DEF DeliveryTypes
  <2>4. notices' \in [Comments -> [Accounts -> Nat]]
    BY <1>0, <1>1, <2>3 DEF DeliveryTypes
  <2> QED BY <1>0, <2>2, <2>4 DEF DeliveryTypes
<1>3. ASSUME NEW x \in Comments PROVE NoticesGood(x)'
  <2>1. x # c => notify'[x] = notify[x] /\ notices'[x] = notices[x]
    BY <1>0, <1>1 DEF DeliveryTypes
  <2> QED BY <2>1 DEF DeliveryInv, NoticesGood
<1>4. ASSUME NEW w \in Accounts PROVE BellGood(w)'
  <2>1. CASE w = u
    BY <1>0, <1>1, <2>1 DEF BellGood, DeliveryTypes, Streams
  <2>2. CASE w # u
    <3>1. stream'[w] = stream[w] /\ (w \in deaf' <=> w \in deaf)
      BY <1>0, <1>1, <2>2 DEF DeliveryTypes
    <3>2. \A x \in Comments : notices'[x][w] = notices[x][w]
      BY <1>0, <1>1, <2>2 DEF DeliveryTypes
    <3>3. Mine(w)' = Mine(w)
      BY <3>2 DEF Mine
    <3> QED BY <3>1, <3>3 DEF DeliveryInv, BellGood
  <2> QED BY <2>1, <2>2
<1>5. \A x \in Comments, h \in Hooked : SendGood(x, h)'
  BY CallsStay DEF DeliveryInv, CallsKept
<1> QED BY <1>2, <1>3, <1>4, <1>5 DEF DeliveryInv

(* A bell or its stream goes on, or the settings change.                    *)
LEMMA BellOn ==
  ASSUME DeliveryInv, UNCHANGED <<about, notify, notices, sends, dbFault>>,
         bell' \in [Accounts -> Bells], stream' \in [Accounts -> Streams],
         \A u \in Accounts : BellGood(u)'
  PROVE  DeliveryInv'
<1>1. DeliveryTypes'
  BY DEF DeliveryInv, DeliveryTypes
<1>2. \A c \in Comments : NoticesGood(c)'
  BY NoticesStay DEF DeliveryInv, NoticesKept
<1>3. \A c \in Comments, h \in Hooked : SendGood(c, h)'
  BY CallsStay DEF DeliveryInv, CallsKept
<1> QED BY <1>1, <1>2, <1>3 DEF DeliveryInv

(* One account's bell or stream changes, the others' stay.                  *)
LEMMA OneBell ==
  ASSUME DeliveryInv, UNCHANGED <<about, notify, notices, sends, dbFault, features>>,
         NEW u \in Accounts, NEW b \in Bells, NEW t \in Streams,
         bell' = [bell EXCEPT ![u] = b], stream' = [stream EXCEPT ![u] = t],
         deaf' \ {u} = deaf \ {u}, BellGood(u)'
  PROVE  DeliveryInv'
<1>1. bell' \in [Accounts -> Bells] /\ stream' \in [Accounts -> Streams]
  BY DEF DeliveryInv, DeliveryTypes
<1>2. ASSUME NEW w \in Accounts, w # u PROVE BellGood(w)'
  <2>1. bell'[w] = bell[w] /\ stream'[w] = stream[w] /\ (w \in deaf' <=> w \in deaf)
    BY <1>2
  <2> QED BY <2>1 DEF DeliveryInv, BellGood, Mine
<1> QED BY <1>1, <1>2, BellOn

(* A dispatch or a call goes on; only rows of calls change.                 *)
LEMMA CallsOn ==
  ASSUME DeliveryInv, UNCHANGED <<about, notify, notices, bell, stream, deaf>>,
         features' \subseteq features, sends' \in [Comments -> [Hooked -> Sends]],
         \A c \in Comments, h \in Hooked : SendGood(c, h)'
  PROVE  DeliveryInv'
<1>1. DeliveryTypes'
  BY DEF DeliveryInv, DeliveryTypes
<1>2. \A c \in Comments : NoticesGood(c)'
  BY NoticesStay DEF DeliveryInv, NoticesKept
<1>3. \A u \in Accounts : BellGood(u)'
  BY BellsStay DEF DeliveryInv, BellsKept
<1> QED BY <1>1, <1>2, <1>3 DEF DeliveryInv

LEMMA OneCall ==
  ASSUME DeliveryInv, UNCHANGED <<about, notify, notices, bell, stream, deaf, features>>,
         NEW c \in Comments, NEW h \in Hooked, NEW q \in Sends,
         sends' = [sends EXCEPT ![c] = [sends[c] EXCEPT ![h] = q]],
         dbFault' \ {<<c, h>>} = dbFault \ {<<c, h>>}, SendGood(c, h)'
  PROVE  DeliveryInv'
<1>0. sends \in [Comments -> [Hooked -> Sends]]
  BY DEF DeliveryInv, DeliveryTypes
<1>1. sends' \in [Comments -> [Hooked -> Sends]]
  <2>1. [sends[c] EXCEPT ![h] = q] \in [Hooked -> Sends]
    BY <1>0
  <2> QED BY <1>0, <2>1
<1>2. ASSUME NEW x \in Comments, NEW y \in Hooked, <<x, y>> # <<c, h>> PROVE SendGood(x, y)'
  <2>1. sends'[x][y] = sends[x][y]
    BY <1>0, <1>2
  <2>2. <<x, y>> \in dbFault' <=> <<x, y>> \in dbFault
    BY <1>2
  <2> QED BY <2>1, <2>2 DEF DeliveryInv, SendGood
<1> QED BY <1>1, <1>2, CallsOn

-----------------------------------------------------------------------------
LEMMA NotifyStep ==
  ASSUME DeliveryInv, Posted, NEW c \in Comments,
         \/ PostComment(c) \/ ReadComment(c) \/ TellParent(c) \/ CreateReply(c)
         \/ TellOwner(c) \/ CreateComment(c) \/ NotifyThrows(c)
  PROVE  DeliveryInv'
<1> USE DEF Quiet
<1>0. /\ about \in [Comments -> Abouts] /\ notify \in [Comments -> Notifying]
      /\ notices \in [Comments -> [Accounts -> Nat]] /\ NoticesGood(c)
  BY DEF DeliveryInv, DeliveryTypes
<1>a. /\ about[c].actor \in Accounts /\ about[c].owner \in Accounts
      /\ about[c].parent \in Accounts \cup {"none"} /\ notices[c] \in [Accounts -> Nat]
  BY <1>0 DEF Abouts
<1>1. CASE PostComment(c)
  <2> DEFINE n == [notify[c] EXCEPT !.pc = IF "notifications" \in features THEN "read" ELSE "done"]
  <2>1. /\ n \in Notifying /\ n.told = notify[c].told
        /\ n.pc = IF "notifications" \in features THEN "read" ELSE "done"
    BY <1>0 DEF Notifying
  <2>2. notify' = [notify EXCEPT ![c] = n]
    BY <1>1 DEF PostComment
  <2> HIDE DEF n
  <2>3. notify[c].pc = "none"
    BY <1>1 DEF PostComment, Posted
  <2>4. NoticesGood(c)'
    BY <1>0, <1>1, <2>1, <2>2, <2>3 DEF PostComment, NoticesGood
  <2> QED BY <1>1, <2>1, <2>2, <2>4, NotifyOn DEF PostComment
<1>2. CASE ReadComment(c)
  <2> DEFINE n == [notify[c] EXCEPT !.pc =
                     IF about[c].parent \notin {"none", about[c].actor} THEN "parent" ELSE "owner"]
  <2>1. /\ n \in Notifying
        /\ n.pc = IF about[c].parent \notin {"none", about[c].actor} THEN "parent" ELSE "owner"
    BY <1>0 DEF Notifying
  <2>2. notify' = [notify EXCEPT ![c] = n]
    BY <1>2 DEF ReadComment
  <2> HIDE DEF n
  <2>3. NoticesGood(c)'
    BY <1>0, <1>2, <2>1, <2>2 DEF ReadComment, NoticesGood
  <2> QED BY <1>2, <2>1, <2>2, <2>3, NotifyOn DEF ReadComment
<1>3. CASE TellParent(c)
  <2>0. about[c].parent \in Accounts
    BY <1>0, <1>a, <1>3 DEF TellParent, NoticesGood
  <2> DEFINE pc == IF <<about[c].parent, "reply">> \in wants THEN "createReply" ELSE "owner"
             n == [notify[c] EXCEPT !.pc = pc, !.told = {about[c].parent}]
  <2>2. notify' = [notify EXCEPT ![c] = n]
    BY <1>0, <1>3 DEF TellParent
  <2>5. pc \in {"createReply", "owner"}
    OBVIOUS
  <2> HIDE DEF pc
  <2>1. n \in Notifying
    BY <1>0, <2>0, <2>5 DEF Notifying
  <2>3. n.pc \in {"createReply", "owner"} /\ n.told = {about[c].parent}
    BY <1>0, <2>5 DEF Notifying
  <2> HIDE DEF n
  <2>4. NoticesGood(c)'
    BY <1>0, <1>3, <2>2, <2>3 DEF TellParent, NoticesGood
  <2> QED BY <1>3, <2>1, <2>2, <2>4, NotifyOn DEF TellParent
<1>4. CASE CreateReply(c)
  <2> DEFINE n == [notify[c] EXCEPT !.pc = "owner"]
  <2>1. n \in Notifying /\ n.pc = "owner" /\ n.told = {about[c].parent}
    BY <1>0, <1>4 DEF Notifying, CreateReply, NoticesGood
  <2>2. notify' = [notify EXCEPT ![c] = n] /\ about[c].parent \in Accounts
    BY <1>0, <1>a, <1>4 DEF CreateReply, NoticesGood
  <2> HIDE DEF n
  <2>3. CASE "notifications" \in features
    <3>1. Create(c, about[c].parent)
      BY <1>4, <2>3 DEF CreateReply
    <3>2. notices'[c] = [notices[c] EXCEPT ![about[c].parent] = notices[c][about[c].parent] + 1]
      BY <1>0, <3>1 DEF Create
    <3>3. NoticesGood(c)'
      BY <1>0, <1>a, <1>4, <2>1, <2>2, <3>2 DEF CreateReply, NoticesGood
    <3> QED BY <1>4, <2>1, <2>2, <3>1, <3>3, NotifyCreates DEF CreateReply
  <2>4. CASE "notifications" \notin features
    <3>1. NoticesGood(c)'
      BY <1>0, <1>4, <2>1, <2>2, <2>4 DEF CreateReply, NoticesGood
    <3> QED BY <1>4, <2>1, <2>2, <2>4, <3>1, NotifyOn DEF CreateReply
  <2> QED BY <2>3, <2>4
<1>5. CASE TellOwner(c)
  <2> DEFINE pc == IF Untold(c) /\ <<about[c].owner, "comment">> \in wants
                   THEN "createComment" ELSE "done"
             n == [notify[c] EXCEPT !.pc = pc]
  <2>1. /\ n \in Notifying /\ n.told = notify[c].told /\ n.pc \in {"createComment", "done"}
        /\ n.pc = "createComment" => Untold(c)
    BY <1>0 DEF Notifying
  <2>2. notify' = [notify EXCEPT ![c] = n]
    BY <1>5 DEF TellOwner
  <2> HIDE DEF n
  <2>3. NoticesGood(c)'
    BY <1>0, <1>5, <2>1, <2>2 DEF TellOwner, NoticesGood, Untold
  <2> QED BY <1>5, <2>1, <2>2, <2>3, NotifyOn DEF TellOwner
<1>6. CASE CreateComment(c)
  <2> DEFINE n == [notify[c] EXCEPT !.pc = "done"]
  <2>1. n \in Notifying /\ n.pc = "done"
    BY <1>0 DEF Notifying
  <2>2. notify' = [notify EXCEPT ![c] = n]
    BY <1>6 DEF CreateComment
  <2> HIDE DEF n
  <2>3. CASE "notifications" \in features
    <3>1. Create(c, about[c].owner)
      BY <1>6, <2>3 DEF CreateComment
    <3>2. notices'[c] = [notices[c] EXCEPT ![about[c].owner] = notices[c][about[c].owner] + 1]
      BY <1>0, <3>1 DEF Create
    <3>3. notices[c][about[c].owner] = 0
      BY <1>0, <1>a, <1>6 DEF CreateComment, NoticesGood
    <3>4. NoticesGood(c)'
      BY <1>0, <1>a, <1>6, <2>1, <2>2, <3>2, <3>3 DEF CreateComment, NoticesGood
    <3> QED BY <1>a, <1>6, <2>1, <2>2, <3>1, <3>4, NotifyCreates DEF CreateComment
  <2>4. CASE "notifications" \notin features
    <3>1. NoticesGood(c)'
      BY <1>0, <1>6, <2>1, <2>2, <2>4 DEF CreateComment, NoticesGood
    <3> QED BY <1>6, <2>1, <2>2, <2>4, <3>1, NotifyOn DEF CreateComment
  <2> QED BY <2>3, <2>4
<1>7. CASE NotifyThrows(c)
  <2> DEFINE n == [notify[c] EXCEPT !.pc = "done"]
  <2>1. n \in Notifying /\ n.pc = "done"
    BY <1>0 DEF Notifying
  <2>2. notify' = [notify EXCEPT ![c] = n]
    BY <1>7 DEF NotifyThrows
  <2> HIDE DEF n
  <2>3. NoticesGood(c)'
    BY <1>0, <1>7, <2>1, <2>2 DEF NotifyThrows, NoticesGood
  <2> QED BY <1>7, <2>1, <2>2, <2>3, NotifyOn DEF NotifyThrows
<1> QED BY <1>1, <1>2, <1>3, <1>4, <1>5, <1>6, <1>7

LEMMA CallStep ==
  ASSUME DeliveryInv, NEW c \in Comments, NEW h \in Hooked,
         Call(c, h) \/ Record(c, h) \/ RecordFails(c, h)
  PROVE  DeliveryInv'
<1>0. sends \in [Comments -> [Hooked -> Sends]] /\ SendGood(c, h)
  BY DEF DeliveryInv, DeliveryTypes
<1>1. CASE Call(c, h)
  <2>1. PICK outcome \in {"answered", "refused", "threw"} :
          sends' = [sends EXCEPT ![c][h].pc = IF outcome = "threw" THEN "caught" ELSE "called",
                                 ![c][h].outcome = outcome]
    BY <1>1 DEF Call
  <2> DEFINE pc == IF outcome = "threw" THEN "caught" ELSE "called"
             q == [sends[c][h] EXCEPT !.pc = pc, !.outcome = outcome]
  <2>2. sends' = [sends EXCEPT ![c] = [sends[c] EXCEPT ![h] = q]]
    BY <1>0, <2>1
  <2>3. pc \in {"caught", "called"} /\ (pc = "caught" => outcome = "threw")
    OBVIOUS
  <2> HIDE DEF pc
  <2>4. q \in Sends /\ q.pc = pc /\ q.outcome = outcome /\ q.row = "none"
    BY <1>0, <1>1, <2>3 DEF Sends, Call, SendGood
  <2> HIDE DEF q
  <2>5. SendGood(c, h)'
    BY <1>0, <2>2, <2>3, <2>4 DEF SendGood
  <2> QED BY <1>1, <2>2, <2>4, <2>5, OneCall DEF Call
<1>2. CASE Record(c, h)
  <2> DEFINE row == IF sends[c][h].pc = "called" /\ sends[c][h].outcome = "answered"
                    THEN "success" ELSE "failure"
             q == [sends[c][h] EXCEPT !.pc = "done", !.row = row]
  <2>1. sends' = [sends EXCEPT ![c] = [sends[c] EXCEPT ![h] = q]]
    BY <1>0, <1>2 DEF Record
  <2>2. row \in {"success", "failure"}
    OBVIOUS
  <2>3. <<c, h>> \notin dbFault => (row = "success" <=> sends[c][h].outcome = "answered")
    BY <1>0, <1>2 DEF Record, SendGood
  <2> HIDE DEF row
  <2>6. sends[c][h] \in Sends
    BY <1>0
  <2>4. q \in Sends /\ q.pc = "done" /\ q.row = row /\ q.outcome = sends[c][h].outcome
    BY <2>2, <2>6 DEF Sends
  <2> HIDE DEF q
  <2>5. SendGood(c, h)'
    BY <1>0, <1>2, <2>1, <2>3, <2>4 DEF SendGood, Record
  <2> QED BY <1>2, <2>1, <2>4, <2>5, OneCall DEF Record
<1>3. CASE RecordFails(c, h)
  <2> DEFINE pc == IF sends[c][h].pc = "called" THEN "caught" ELSE "done"
             q == [sends[c][h] EXCEPT !.pc = pc]
  <2>1. sends' = [sends EXCEPT ![c] = [sends[c] EXCEPT ![h] = q]]
    BY <1>0, <1>3 DEF RecordFails
  <2>2. pc \in {"caught", "done"}
    OBVIOUS
  <2> HIDE DEF pc
  <2>a. sends[c][h] \in Sends /\ sends[c][h].row = "none"
    BY <1>0, <1>3 DEF RecordFails, SendGood
  <2>3. q \in Sends /\ q.row = "none"
    BY ONLY <2>2, <2>a DEF Sends
  <2> HIDE DEF q
  <2>4. SendGood(c, h)'
    BY <1>0, <1>3, <2>1, <2>3 DEF SendGood, RecordFails
  <2> QED BY <1>3, <2>1, <2>3, <2>4, OneCall DEF RecordFails
<1> QED BY <1>1, <1>2, <1>3

LEMMA BellStep ==
  ASSUME DeliveryInv, NEW u \in Accounts,
         \/ AskNotices(u) \/ ReadNotices(u) \/ ShowNotices(u)
         \/ OpenStream(u) \/ BreakStream(u) \/ Hear(u)
  PROVE  DeliveryInv'
<1>0. /\ bell \in [Accounts -> Bells] /\ stream \in [Accounts -> Streams] /\ BellGood(u)
      /\ Mine(u) \in SUBSET Comments
  BY DEF DeliveryInv, DeliveryTypes, Mine
<1>a. /\ bell[u] \in Bells /\ stream[u] \in Streams
      /\ bell = [bell EXCEPT ![u] = bell[u]] /\ stream = [stream EXCEPT ![u] = stream[u]]
  BY <1>0
<1>1. CASE AskNotices(u)
  <2> DEFINE b == [bell[u] EXCEPT !.fetch = "asked"]
  <2>1. b \in Bells /\ b.fetch = "asked"
    BY <1>a DEF Bells
  <2>2. bell' = [bell EXCEPT ![u] = b] /\ stream' = [stream EXCEPT ![u] = stream[u]]
    BY <1>a, <1>1 DEF AskNotices
  <2> HIDE DEF b
  <2>3. BellGood(u)'
    BY <1>0, <2>1, <2>2 DEF BellGood
  <2> QED BY <1>a, <1>1, <2>1, <2>2, <2>3, OneBell DEF AskNotices
<1>2. CASE ReadNotices(u)
  <2> DEFINE got == IF "notifications" \in features THEN Mine(u) ELSE {}
             b == [bell[u] EXCEPT !.fetch = "read", !.got = got]
  <2>1. b \in Bells /\ b.fetch = "read" /\ b.got = got
    BY <1>0, <1>a DEF Bells
  <2>2. bell' = [bell EXCEPT ![u] = b] /\ stream' = [stream EXCEPT ![u] = stream[u]]
    BY <1>0, <1>a, <1>2 DEF ReadNotices
  <2> HIDE DEF b
  <2>3. BellGood(u)'
    BY <1>0, <1>2, <2>1, <2>2 DEF BellGood, ReadNotices, Mine
  <2> QED BY <1>a, <1>2, <2>1, <2>2, <2>3, OneBell DEF ReadNotices
<1>3. CASE ShowNotices(u)
  <2> DEFINE b == [have |-> TRUE, shows |-> bell[u].got, fetch |-> "none", got |-> {}]
  <2>1. b \in Bells
    BY <1>a DEF Bells
  <2>2. bell' = [bell EXCEPT ![u] = b] /\ stream' = [stream EXCEPT ![u] = stream[u]]
    BY <1>a, <1>3 DEF ShowNotices
  <2>3. BellGood(u)'
    BY <1>0, <1>3, <2>2 DEF BellGood, ShowNotices, Mine
  <2> QED BY <1>a, <1>3, <2>1, <2>2, <2>3, OneBell DEF ShowNotices
<1>4. CASE OpenStream(u)
  <2> DEFINE t == [stream[u] EXCEPT !.open = TRUE]
  <2>1. t \in Streams /\ t.told = stream[u].told
    BY <1>a DEF Streams
  <2>2. stream' = [stream EXCEPT ![u] = t] /\ bell' = [bell EXCEPT ![u] = bell[u]]
    BY <1>a, <1>4 DEF OpenStream
  <2> HIDE DEF t
  <2>3. BellGood(u)'
    BY <1>0, <1>4, <2>1, <2>2 DEF BellGood, OpenStream, Mine
  <2> QED BY <1>a, <1>4, <2>1, <2>2, <2>3, OneBell DEF OpenStream
<1>5. CASE BreakStream(u)
  <2> DEFINE t == [open |-> FALSE, told |-> 0]
  <2>1. t \in Streams
    BY DEF Streams
  <2>2. stream' = [stream EXCEPT ![u] = t] /\ bell' = [bell EXCEPT ![u] = bell[u]]
    BY <1>a, <1>5 DEF BreakStream
  <2>3. BellGood(u)'
    BY <1>0, <1>a, <1>5, <2>2 DEF BellGood, BreakStream, Mine, Streams
  <2> QED BY <1>a, <1>5, <2>1, <2>2, <2>3, OneBell DEF BreakStream
<1>6. CASE Hear(u)
  <2> DEFINE t == [stream[u] EXCEPT !.told = 0]
  <2>1. t \in Streams
    BY <1>a DEF Streams
  <2>2. stream' = [stream EXCEPT ![u] = t]
    BY <1>6 DEF Hear
  <2>3. CASE bell[u].have \/ bell[u].fetch = "none"
    <3> DEFINE b == [bell[u] EXCEPT !.fetch = "asked", !.got = {}]
    <3>1. b \in Bells /\ b.fetch = "asked"
      BY <1>a DEF Bells
    <3>2. bell' = [bell EXCEPT ![u] = b] /\ deaf' = deaf
      BY <1>0, <1>6, <2>3 DEF Hear
    <3> HIDE DEF b
    <3>3. BellGood(u)'
      BY <1>0, <3>1, <3>2 DEF BellGood
    <3> QED BY <1>6, <2>1, <2>2, <3>1, <3>2, <3>3, OneBell DEF Hear
  <2>4. CASE ~(bell[u].have \/ bell[u].fetch = "none")
    <3>1. bell' = [bell EXCEPT ![u] = bell[u]] /\ deaf' = deaf \cup {u}
      BY <1>a, <1>6, <2>4 DEF Hear
    <3>2. BellGood(u)'
      BY <3>1 DEF BellGood
    <3> QED BY <1>a, <1>6, <2>1, <2>2, <3>1, <3>2, OneBell DEF Hear
  <2> QED BY <2>3, <2>4
<1> QED BY <1>1, <1>2, <1>3, <1>4, <1>5, <1>6

(* The dispatch of a comment, and the settings.                             *)
LEMMA OtherStep ==
  ASSUME DeliveryInv,
         \/ \E c \in Comments : BuildContext(c) \/ FindTargets(c) \/ DispatchThrows(c)
         \/ \E f \in Features : TurnOff(f)
         \/ \E h \in Hooked : Deactivate(h)
  PROVE  DeliveryInv'
<1>0. sends \in [Comments -> [Hooked -> Sends]]
  BY DEF DeliveryInv, DeliveryTypes
<1>1. ASSUME NEW c \in Comments, FindTargets(c) PROVE DeliveryInv'
  <2> DEFINE row == [h \in Hooked |-> [NoSend EXCEPT !.pc =
                       IF h \in active /\ Selected(c, h) THEN "calling" ELSE "none"]]
  <2>1. sends' = [sends EXCEPT ![c] = row]
    BY <1>1 DEF FindTargets
  <2>2. ASSUME NEW h \in Hooked
        PROVE  row[h] \in Sends /\ row[h].row = "none" /\ row[h].pc \in {"calling", "none"}
    BY DEF Sends, NoSend
  <2>3. row \in [Hooked -> Sends]
    BY <2>2
  <2> HIDE DEF row
  <2>4. sends' \in [Comments -> [Hooked -> Sends]]
    BY <1>0, <2>1, <2>3
  <2>5. ASSUME NEW x \in Comments, NEW h \in Hooked PROVE SendGood(x, h)'
    <3>1. CASE x = c
      <4>1. sends'[x][h] = row[h]
        BY <1>0, <2>1, <3>1
      <4> QED BY <2>2, <4>1 DEF SendGood
    <3>2. CASE x # c
      <4>1. sends'[x] = sends[x]
        BY <1>0, <2>1, <3>2
      <4> QED BY <1>1, <4>1 DEF SendGood, DeliveryInv, FindTargets
    <3> QED BY <3>1, <3>2
  <2> QED BY <1>1, <2>4, <2>5, CallsOn DEF FindTargets
<1>2. ASSUME UNCHANGED <<about, notify, notices, bell, stream, deaf, sends, dbFault>>,
             features' \subseteq features
      PROVE  DeliveryInv'
  <2>1. \A c \in Comments, h \in Hooked : SendGood(c, h)'
    BY <1>2, CallsStay DEF DeliveryInv, CallsKept
  <2> QED BY <1>0, <1>2, <2>1, CallsOn
<1>3. ASSUME NEW c \in Comments, BuildContext(c) \/ DispatchThrows(c) PROVE DeliveryInv'
  BY <1>2, <1>3 DEF BuildContext, DispatchThrows
<1>4. ASSUME NEW f \in Features, TurnOff(f) PROVE DeliveryInv'
  BY <1>2, <1>4 DEF TurnOff
<1>5. ASSUME NEW h \in Hooked, Deactivate(h) PROVE DeliveryInv'
  BY <1>2, <1>5 DEF Deactivate
<1> QED BY <1>1, <1>3, <1>4, <1>5

-----------------------------------------------------------------------------
LEMMA PostedStep ==
  ASSUME DeliveryTypes, Posted, [DeliveryNext]_deliveryVars
  PROVE  Posted'
<1> USE DEF Posted
<1>0. notify \in [Comments -> Notifying]
  BY DEF DeliveryTypes
<1>1. CASE UNCHANGED deliveryVars
  BY <1>1 DEF deliveryVars
<1>2. ASSUME NEW c \in Comments, PostComment(c) PROVE Posted'
  <2>1. [dispatch[c] EXCEPT !.pc = "context"] \in Dispatches
    BY DEF Dispatches
  <2>2. dispatch' = [dispatch EXCEPT ![c] = [dispatch[c] EXCEPT !.pc = "context"]]
    BY <1>2 DEF PostComment
  <2>3. dispatch' \in [Comments -> Dispatches] /\ dispatch'[c].pc = "context"
    BY <2>1, <2>2 DEF Dispatches
  <2>4. ASSUME NEW x \in Comments, x # c
        PROVE  dispatch'[x] = dispatch[x] /\ notify'[x] = notify[x]
    BY <1>0, <1>2, <2>4 DEF PostComment
  <2> QED BY <2>3, <2>4
<1>3. ASSUME NEW c \in Comments, NEW d \in Dispatches, d.pc # "none",
             dispatch' = [dispatch EXCEPT ![c] = d], notify' = notify
      PROVE  Posted'
  BY <1>3
<1>4. ASSUME NEW c \in Comments, BuildContext(c) PROVE Posted'
  <2> DEFINE d == [pc |-> IF "webhooks" \in features THEN "targets" ELSE "done",
                   mine |-> "userWebhooks" \in features]
  <2>1. d \in Dispatches /\ d.pc # "none"
    BY DEF Dispatches
  <2>2. dispatch' = [dispatch EXCEPT ![c] = d] /\ notify' = notify
    BY <1>4 DEF BuildContext
  <2> HIDE DEF d
  <2> QED BY <1>3, <2>1, <2>2
<1>5. ASSUME NEW c \in Comments, NEW pc \in {"sending", "done"},
             dispatch' = [dispatch EXCEPT ![c].pc = pc], notify' = notify
      PROVE  Posted'
  <2>1. [dispatch[c] EXCEPT !.pc = pc] \in Dispatches /\ [dispatch[c] EXCEPT !.pc = pc].pc # "none"
    BY DEF Dispatches
  <2> QED BY <1>3, <1>5, <2>1
<1>6. ASSUME NEW c \in Comments, FindTargets(c) \/ DispatchThrows(c) PROVE Posted'
  BY <1>5, <1>6 DEF FindTargets, DispatchThrows
<1>7. ASSUME NEW c \in Comments,
             \/ ReadComment(c) \/ TellParent(c) \/ CreateReply(c)
             \/ TellOwner(c) \/ CreateComment(c) \/ NotifyThrows(c)
      PROVE  Posted'
  <2>1. dispatch' = dispatch /\ notify[c].pc # "none"
    BY <1>7 DEF ReadComment, TellParent, CreateReply, TellOwner, CreateComment, NotifyThrows
  <2>2. ASSUME NEW x \in Comments, x # c PROVE notify'[x] = notify[x]
    BY <1>0, <1>7, <2>2
       DEF ReadComment, TellParent, CreateReply, TellOwner, CreateComment, NotifyThrows
  <2> QED BY <2>1, <2>2
<1>8. ASSUME NEW c \in Comments, NEW h \in Hooked,
             Call(c, h) \/ Record(c, h) \/ RecordFails(c, h)
      PROVE  Posted'
  BY <1>8 DEF Call, Record, RecordFails
<1>9. ASSUME NEW u \in Accounts,
             \/ AskNotices(u) \/ ReadNotices(u) \/ ShowNotices(u)
             \/ OpenStream(u) \/ BreakStream(u) \/ Hear(u)
      PROVE  Posted'
  BY <1>9 DEF AskNotices, ReadNotices, ShowNotices, OpenStream, BreakStream, Hear
<1>10. ASSUME NEW f \in Features, TurnOff(f) PROVE Posted'
  BY <1>10 DEF TurnOff
<1>11. ASSUME NEW h \in Hooked, Deactivate(h) PROVE Posted'
  BY <1>11 DEF Deactivate
<1> QED BY <1>1, <1>2, <1>4, <1>6, <1>7, <1>8, <1>9, <1>10, <1>11 DEF DeliveryNext

LEMMA DeliveryInvariant == DeliverySpec => [](DeliveryInv /\ Posted)
<1>1. DeliveryInit => DeliveryInv /\ Posted
  <2> SUFFICES ASSUME DeliveryInit PROVE Posted
    BY InitGood
  <2> QED BY DEF DeliveryInit, Posted, Dispatches
<1>2. DeliveryInv /\ Posted /\ [DeliveryNext]_deliveryVars => (DeliveryInv /\ Posted)'
  <2> SUFFICES ASSUME DeliveryInv, Posted, [DeliveryNext]_deliveryVars
               PROVE  DeliveryInv' /\ Posted'
    OBVIOUS
  <2>1. Posted'
    BY PostedStep DEF DeliveryInv
  <2>2. CASE UNCHANGED deliveryVars
    <3>1. \A c \in Comments, h \in Hooked : SendGood(c, h)'
      BY <2>2, CallsStay DEF DeliveryInv, CallsKept, deliveryVars
    <3> QED BY <2>1, <2>2, <3>1, CallsOn DEF deliveryVars, DeliveryInv, DeliveryTypes
  <2>3. CASE DeliveryNext
    BY <2>1, <2>3, NotifyStep, CallStep, BellStep, OtherStep DEF DeliveryNext
  <2> QED BY <2>2, <2>3
<1> QED BY <1>1, <1>2, PTL DEF DeliverySpec

(* What a comment sets off reaches an account at most once and not its      *)
(* author, a bell that was told shows it, and the row of a webhook call     *)
(* says what its target did.                                                *)
THEOREM CommentsDelivered == DeliverySpec => []DeliveryKept
<1>1. DeliveryInv => DeliveryKept
  <2> SUFFICES ASSUME DeliveryInv PROVE DeliveryKept
    OBVIOUS
  <2>1. OneNotice
    BY DEF DeliveryInv, NoticesGood, OneNotice
  <2>2. BellsRing
    BY DEF DeliveryInv, BellGood, BellsRing
  <2>3. RecordsTrue
    BY DEF DeliveryInv, SendGood, RecordsTrue
  <2> QED BY <2>1, <2>2, <2>3 DEF DeliveryKept
<1> QED BY <1>1, DeliveryInvariant, PTL
=============================================================================

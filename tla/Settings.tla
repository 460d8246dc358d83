------------------------------ MODULE Settings ------------------------------
(***************************************************************************)
(* The server_settings table and what one process makes of it: the cache   *)
(* of ServerSettingsService, the storage configuration in force with its   *)
(* client.  Requests write rows one by one, the storage form several at    *)
(* once by Promise.all; a restore replaces the table and reloads the cache. *)
(***************************************************************************)
EXTENDS Startup

CONSTANTS
  Requests,     \* requests that can be in flight together
  Switches,     \* cached settings, each with the values "true" and "false"
  Defaults,     \* defaultSettings
  Environment,  \* KUON_SETTING_*: a value per switch, or "unset"
  Backup,       \* rows of the table a restore puts in its place
  MaxRequests   \* bound on the requests of a behaviour

VARIABLES
  table,   \* server_settings: a value per key, "none" where there is no row
  cache,   \* ServerSettingsService.settings
  live,    \* storageConfig, as applyStorageConfig left it
  client,  \* configuration of the FileStorage in use, or no element
  req,     \* requests in flight
  begun,   \* how many requests have begun
  raced,   \* keys whose last writers overlapped (history)
  spoiled  \* storage rows that no single save left behind (history)

settingsVars == <<table, cache, live, client, req, begun, raced, spoiled>>
vars == <<phase, attempts, applied, roles, provider, starts, unlucky,
          table, cache, live, client, req, begun, raced, spoiled>>

StorageFields == {"provider", "bucket"}
Keys == Switches \cup StorageFields \cup {"secret"}
Texts == {"none", "true", "false", "local", "s3", "b", "k1", "k2", ""}

(* What an instance can have stored under each key. *)
Tables ==
  {rows \in [Keys -> Texts] :
     /\ \A k \in Switches : rows[k] \in {"none", "true", "false"}
     /\ rows["provider"] \in {"none", "local", "s3"}
     /\ rows["bucket"] \in {"none", "", "b"}
     /\ rows["secret"] \in {"none", "k1", "k2"}}

ASSUME SettingsAssumption ==
  /\ Switches \cap (StorageFields \cup {"secret"}) = {}
  /\ Defaults \in [Switches -> {"true", "false"}]
  /\ Environment \in [Switches -> {"true", "false", "unset"}]
  /\ Backup \in Tables
  /\ MaxRequests \in Nat

ReqPCs == {"idle", "upsert", "apply", "read", "rows", "strays", "secret", "switch",
           "replace", "load", "assign"}

NoForm == [k \in {} |-> ""]
NoReq == [pc |-> "idle", kind |-> "none", form |-> NoForm, todo |-> {}, calm |-> TRUE]

SettingsInit ==
  /\ table = [k \in Keys |-> "none"]
  /\ cache = Defaults
  /\ live = [provider |-> "local", bucket |-> "", secret |-> ""]
  /\ client = {}
  /\ req = [r \in Requests |-> NoReq]
  /\ begun = 0
  /\ raced = {}
  /\ spoiled = FALSE

Init == StartupInit /\ SettingsInit

-----------------------------------------------------------------------------
(* What the rows mean. *)

Cached(rows) ==
  [k \in Switches |-> IF Environment[k] # "unset" THEN Environment[k]
                      ELSE IF rows[k] # "none" THEN rows[k] ELSE Defaults[k]]

(* getDatabaseConfig: a missing row has a default. *)
Or(value, default) == IF value = "none" THEN default ELSE value

StorageConfig(rows) ==
  [provider |-> Or(rows["provider"], "local"), bucket |-> Or(rows["bucket"], ""),
   secret |-> Or(rows["secret"], "")]

(* validateStorageConfig. *)
Valid(config) == config.provider = "s3" => config.bucket # "" /\ config.secret # ""

-----------------------------------------------------------------------------
(* Requests.  A request that writes what another is writing is not calm.   *)
Writes(q) == CASE q.kind = "reload" -> Keys
               [] q.kind = "storage" -> StorageFields \cup {"secret"}
               [] q.kind = "set" -> DOMAIN q.form
               [] OTHER -> {}

Rivals(r, keys) == {q \in Requests \ {r} : Writes(req[q]) \cap keys # {}}

Begin(r, new) ==
  LET q == [new EXCEPT !.calm = Rivals(r, Writes(new)) = {}] IN
    /\ phase = "listening" /\ begun < MaxRequests /\ req[r].pc = "idle"
    /\ begun' = begun + 1
    /\ req' = [p \in Requests |->
         IF p = r THEN q
         ELSE IF p \in Rivals(r, Writes(new)) THEN [req[p] EXCEPT !.calm = FALSE] ELSE req[p]]
    /\ UNCHANGED <<table, cache, live, client, raced, spoiled>>
    /\ UNCHANGED startupVars

Goto(r, pc) == req' = [req EXCEPT ![r].pc = pc]

Finish(r) == req' = [req EXCEPT ![r] = NoReq]

SettingForm(k, v) ==
  [NoReq EXCEPT !.pc = "upsert", !.kind = "set", !.form = [x \in {k} |-> v]]

(* PUT /server-settings: any key, but none the environment manages. *)
SendSetting(r, k, v) ==
  /\ k \in Switches => Environment[k] = "unset"
  /\ Begin(r, SettingForm(k, v))

Upsert(r) ==
  /\ req[r].pc = "upsert"
  /\ table' = [k \in Keys |-> IF k \in DOMAIN req[r].form THEN req[r].form[k] ELSE table[k]]
  /\ spoiled' = (spoiled \/ DOMAIN req[r].form \subseteq StorageFields)
  /\ Goto(r, "apply")
  /\ UNCHANGED <<cache, live, client, begun, raced>>
  /\ UNCHANGED startupVars

Settle(r) == raced' = IF req[r].calm THEN raced \ Writes(req[r]) ELSE raced \cup Writes(req[r])

(* applySetting, when the row has been stored. *)
ApplySetting(r) ==
  /\ req[r].pc = "apply"
  /\ cache' = [k \in Switches |-> IF k \in DOMAIN req[r].form THEN req[r].form[k] ELSE cache[k]]
  /\ Settle(r)
  /\ Finish(r)
  /\ UNCHANGED <<table, live, client, begun, spoiled>>
  /\ UNCHANGED startupVars

(* PUT storage settings: a value for every field; an empty secret means the  *)
(* stored one.                                                             *)
SendStorage(r, form) ==
  Begin(r, [NoReq EXCEPT !.pc = "read", !.kind = "storage", !.form = form])

(* The configuration a form asks for, with the secret kept from the table.   *)
Asked(form) ==
  [provider |-> form["provider"], bucket |-> form["bucket"],
   secret |-> IF form["secret"] # "" THEN form["secret"] ELSE form["kept"]]

(* getDatabaseConfig, then validateStorageConfig; a refused form ends here.  *)
ReadStorage(r) ==
  LET form == [req[r].form EXCEPT !["kept"] = Or(table["secret"], "")] IN
    /\ req[r].pc = "read"
    /\ IF Valid(Asked(form))
       THEN req' = [req EXCEPT ![r].pc = "rows", ![r].todo = StorageFields, ![r].form = form]
       ELSE Finish(r)
    /\ UNCHANGED <<table, cache, live, client, begun, raced, spoiled>>
    /\ UNCHANGED startupVars

(* Promise.all: the rows not yet written come in any order; when one fails    *)
(* the request fails, and the others are still written or not (strays).     *)
WriteRow(r, k) ==
  /\ req[r].pc \in {"rows", "strays"} /\ k \in req[r].todo
  /\ table' = [table EXCEPT ![k] = req[r].form[k]]
  /\ req' = [req EXCEPT ![r].todo = @ \ {k}]
  /\ UNCHANGED <<cache, live, client, begun, raced, spoiled>>
  /\ UNCHANGED startupVars

FailRow(r, k) ==
  /\ req[r].pc \in {"rows", "strays"} /\ k \in req[r].todo
  /\ spoiled' = TRUE
  /\ req' = [req EXCEPT ![r].todo = @ \ {k}, ![r].pc = "strays"]
  /\ UNCHANGED <<table, cache, live, client, begun, raced>>
  /\ UNCHANGED startupVars

(* Mutant of StraysDone: the answer waits for the write that failed. *)
StraysStay(r) ==
  /\ req[r].pc = "strays" /\ req[r].todo = StorageFields
  /\ Finish(r)
  /\ UNCHANGED <<table, cache, live, client, begun, raced, spoiled>>
  /\ UNCHANGED startupVars

StraysDone(r) ==
  /\ req[r].pc = "strays" /\ req[r].todo = {}
  /\ Finish(r)
  /\ UNCHANGED <<table, cache, live, client, begun, raced, spoiled>>
  /\ UNCHANGED startupVars

RowsWritten(r) ==
  /\ req[r].pc = "rows" /\ req[r].todo = {}
  /\ Goto(r, "secret")
  /\ UNCHANGED <<table, cache, live, client, begun, raced, spoiled>>
  /\ UNCHANGED startupVars

(* The secret, encrypted, only when the form has one. *)
WriteSecret(r) ==
  LET secret == req[r].form["secret"] IN
    /\ req[r].pc = "secret"
    /\ table' = IF secret = "" THEN table ELSE [table EXCEPT !["secret"] = secret]
    /\ Goto(r, "switch")
    /\ UNCHANGED <<cache, live, client, begun, raced, spoiled>>
    /\ UNCHANGED startupVars

(* applyStorageConfig and resetFileStorage. *)
SwitchStorage(r) ==
  /\ req[r].pc = "switch"
  /\ live' = Asked(req[r].form)
  /\ client' = {}
  /\ spoiled' = ~req[r].calm
  /\ Finish(r)
  /\ UNCHANGED <<table, cache, begun, raced>>
  /\ UNCHANGED startupVars

(* A restore replaces the table and has the settings read again; the rows   *)
(* come back in one answer and are assigned without another await.          *)
SendRestore(r) == Begin(r, [NoReq EXCEPT !.pc = "replace", !.kind = "reload"])

Replace(r) ==
  /\ req[r].pc = "replace"
  /\ table' = Backup
  /\ spoiled' = TRUE
  /\ Goto(r, "load")
  /\ UNCHANGED <<cache, live, client, begun, raced>>
  /\ UNCHANGED startupVars

FindAll(r) ==
  /\ req[r].pc = "load"
  /\ req' = [req EXCEPT ![r].pc = "assign", ![r].form = Cached(table)]
  /\ UNCHANGED <<table, cache, live, client, begun, raced, spoiled>>
  /\ UNCHANGED startupVars

Assign(r) ==
  /\ req[r].pc = "assign"
  /\ cache' = req[r].form
  /\ Settle(r)
  /\ Finish(r)
  /\ UNCHANGED <<table, live, client, begun, spoiled>>
  /\ UNCHANGED startupVars

(* A query fails and the request with it; what is stored stays stored.       *)
Fail(r) ==
  /\ req[r].pc \in {"upsert", "read", "secret", "replace", "load"}
  /\ raced' = IF req[r].kind = "reload" THEN Switches ELSE raced
  /\ spoiled' = (spoiled \/ req[r].pc = "secret")
  /\ Finish(r)
  /\ UNCHANGED <<table, cache, live, client, begun>>
  /\ UNCHANGED startupVars

(* getFileStorage. *)
UseStorage ==
  /\ phase = "listening" /\ client = {}
  /\ client' = {live}
  /\ UNCHANGED <<table, cache, live, req, begun, raced, spoiled>>
  /\ UNCHANGED startupVars

-----------------------------------------------------------------------------
(* The end of main(). *)
LoadSettings ==
  /\ phase = "load"
  /\ cache' = Cached(table)
  /\ raced' = {}
  /\ Enter("apply")
  /\ UNCHANGED <<table, live, client, req, begun, spoiled>>
  /\ UNCHANGED <<attempts, applied, roles, provider, starts, unlucky>>

(* StorageSettingsService.initialize; rows that make no valid configuration *)
(* end the process.                                                        *)
LoadStorage ==
  /\ phase = "apply"
  /\ IF Valid(StorageConfig(table))
     THEN live' = StorageConfig(table) /\ Enter("listening") /\ spoiled' = FALSE
     ELSE UNCHANGED <<live, spoiled>> /\ Enter("exited")
  /\ UNCHANGED <<table, cache, client, req, begun, raced>>
  /\ UNCHANGED <<attempts, applied, roles, provider, starts, unlucky>>

(* Requests in flight and everything in memory are gone.                    *)
Reboot ==
  /\ Restart
  /\ cache' = Defaults
  /\ live' = [provider |-> "local", bucket |-> "", secret |-> ""]
  /\ client' = {}
  /\ req' = [r \in Requests |-> NoReq]
  /\ spoiled' = (spoiled \/ \E r \in Requests : req[r].kind = "storage"
                                              /\ req[r].pc \in {"rows", "strays", "secret", "switch"})
  /\ UNCHANGED <<table, begun, raced>>

StorageForms == [provider : {"local", "s3"}, bucket : {"", "b"}, secret : {"", "k1", "k2"}, kept : {""}]

Submit(r) ==
  \/ \E k \in Switches, v \in {"true", "false"} : SendSetting(r, k, v)
  \/ SendSetting(r, "provider", "s3")
  \/ \E form \in StorageForms : SendStorage(r, form)
  \/ SendRestore(r)

Serve(r) ==
  \/ Upsert(r) \/ ApplySetting(r)
  \/ ReadStorage(r) \/ RowsWritten(r) \/ StraysDone(r) \/ WriteSecret(r) \/ SwitchStorage(r)
  \/ \E k \in StorageFields : WriteRow(r, k) \/ FailRow(r, k)
  \/ Replace(r) \/ FindAll(r) \/ Assign(r)
  \/ Fail(r)

Boot == (StartupStep /\ UNCHANGED settingsVars) \/ LoadSettings \/ LoadStorage

Next == Boot \/ Reboot \/ UseStorage \/ \E r \in Requests : Submit(r) \/ Serve(r)

Spec == Init /\ [][Next]_vars /\ WF_vars(Boot) /\ \A r \in Requests : WF_vars(Serve(r))

-----------------------------------------------------------------------------
Configs == [provider : {"local", "s3"}, bucket : {"", "b"}, secret : {"", "k1", "k2"}]

TypeOK ==
  /\ StartupTypeOK
  /\ table \in Tables
  /\ cache \in [Switches -> {"true", "false"}]
  /\ live \in Configs
  /\ \A r \in Requests : req[r].pc \in ReqPCs /\ req[r].todo \subseteq Keys

Writing(keys) == \E r \in Requests : Writes(req[r]) \cap keys # {}

(* Once nobody is writing a switch, and its last writers did not overlap,    *)
(* requests are served by the value that is stored and that a restart would *)
(* load, through failures, restores and restarts.                           *)
CacheSettles ==
  phase = "listening" =>
    \A k \in Switches : k \notin raced /\ ~Writing({k}) => cache[k] = Cached(table)[k]

(* A switch set by the environment has that value from the first request on, *)
(* and no request, restore or reload ever changes it.                       *)
EnvironmentWins ==
  phase = "listening" =>
    \A k \in Switches : Environment[k] # "unset" => cache[k] = Environment[k]

(* Unless a save failed half-way, was interrupted, overlapped another or was  *)
(* made behind the form's back, the storage in use is the stored one.       *)
LiveFollowsTable ==
  phase = "listening" /\ ~spoiled /\ ~Writing(StorageFields) => live = StorageConfig(table)

(* Unless that happened, the stored storage settings let the server start.    *)
StoredConfigBoots ==
  ~spoiled /\ ~Writing(StorageFields) => Valid(StorageConfig(table))

(* Files go to the storage that is configured, never to the one before.       *)
ClientFollows == client \subseteq {live}

(* A secret, once stored, is replaced by another or by a restore, not lost:   *)
(* an empty field of the form means the stored one.                         *)
SecretKept ==
  [][table["secret"] \in {"k1", "k2"} /\ table'["secret"] \notin {"k1", "k2"} => table' = Backup]_vars

(* main() ends: the server listens, or it has given up.                       *)
StartupEnds == phase = "connect" ~> phase \in {"listening", "exited"}

(* Every save is answered, and leaves nothing under way.                      *)
SavesEnd == \A r \in Requests : req[r].pc # "idle" ~> req[r].pc = "idle"

(* Startup brings the schema and the providers up in order and served values   *)
(* follow the stored ones: what was saved is what requests meet, now and    *)
(* after the next start.                                                    *)
SettingsAgree ==
  /\ TypeOK /\ MigrationsInOrder /\ ProvidersWhole
  /\ CacheSettles /\ EnvironmentWins
  /\ LiveFollowsTable /\ StoredConfigBoots /\ ClientFollows

(* Starts and saves come to an end, and none of them loses the secret.         *)
SettingsEnd == StartupEnds /\ SavesEnd /\ SecretKept
=============================================================================

------------------------------- MODULE Startup -------------------------------
(***************************************************************************)
(* main(): waiting for the database, the pending migrations in the order   *)
(* of their names, the seeded roles and identity providers.  What follows, *)
(* loading the settings, is in Settings.  The process can die at any await *)
(* and is started again; the database stays.                               *)
(***************************************************************************)
EXTENDS Naturals, FiniteSets

CONSTANTS
  Migrations,   \* how many files the migration directory holds
  Templates,    \* identity providers that init creates
  MaxAttempts,  \* DB_CONNECT_MAX_ATTEMPTS
  MaxStarts     \* bound on the starts of the process

VARIABLES
  phase,      \* where main() is
  attempts,   \* failed attempts to reach the database
  applied,    \* files whose transaction has been committed
  roles,      \* are the built-in roles in the table
  provider,   \* what init has stored of each provider
  starts,     \* how many times the process was started
  unlucky     \* templates whose two inserts were interrupted (history)

startupVars == <<phase, attempts, applied, roles, provider, starts, unlucky>>

Phases == {"connect", "migrate", "seedRoles", "seedProviders", "load", "apply",
           "listening", "exited"}
Stored == {"absent", "bare", "full"}

ASSUME StartupAssumption ==
  /\ Migrations \in Nat /\ MaxAttempts \in Nat \ {0} /\ MaxStarts \in Nat \ {0}

StartupInit ==
  /\ phase = "connect"
  /\ attempts = 0
  /\ applied = {}
  /\ roles = FALSE
  /\ provider = [t \in Templates |-> "absent"]
  /\ starts = 1
  /\ unlucky = {}

Enter(p) == phase' = p

(* connectDatabaseWithRetry: SELECT 1 answers, and the loop is left. *)
Connect ==
  /\ phase = "connect"
  /\ attempts' = 0
  /\ Enter("migrate")
  /\ UNCHANGED <<applied, roles, provider, starts, unlucky>>

(* One attempt fails; the last one ends the process. *)
FailToConnect ==
  /\ phase = "connect"
  /\ attempts' = attempts + 1
  /\ Enter(IF attempts + 1 = MaxAttempts THEN "exited" ELSE "connect")
  /\ UNCHANGED <<applied, roles, provider, starts, unlucky>>

Pending == (1..Migrations) \ applied

(* Mutant of ApplyMigration: takes the pending files in any order. *)
ApplyAnyMigration ==
  /\ phase = "migrate" /\ Pending # {}
  /\ \E m \in Pending : applied' = applied \cup {m}
  /\ UNCHANGED <<phase, attempts, roles, provider, starts, unlucky>>

(* The first pending file and its row in kuon_migrations, in one transaction. *)
ApplyMigration ==
  /\ phase = "migrate" /\ Pending # {}
  /\ \E m \in Pending :
       /\ \A n \in Pending : m <= n
       /\ applied' = applied \cup {m}
  /\ UNCHANGED <<phase, attempts, roles, provider, starts, unlucky>>

FailMigration ==
  /\ phase = "migrate" /\ Pending # {}
  /\ Enter("exited")
  /\ UNCHANGED <<attempts, applied, roles, provider, starts, unlucky>>

FinishMigrations ==
  /\ phase = "migrate" /\ Pending = {}
  /\ Enter("seedRoles")
  /\ UNCHANGED <<attempts, applied, roles, provider, starts, unlucky>>

(* createMany with skipDuplicates. *)
SeedRoles ==
  /\ phase = "seedRoles"
  /\ roles' = TRUE
  /\ Enter("seedProviders")
  /\ UNCHANGED <<attempts, applied, provider, starts, unlucky>>

(* findUnique finds nothing: the row of the provider. *)
SeedProvider(t) ==
  /\ phase = "seedProviders" /\ provider[t] = "absent"
  /\ \A s \in Templates : provider[s] = "bare" => s \in unlucky
  /\ provider' = [provider EXCEPT ![t] = "bare"]
  /\ UNCHANGED <<phase, attempts, applied, roles, starts, unlucky>>

(* Then the row of its configuration. *)
SeedConfiguration(t) ==
  /\ phase = "seedProviders" /\ provider[t] = "bare" /\ t \notin unlucky
  /\ provider' = [provider EXCEPT ![t] = "full"]
  /\ UNCHANGED <<phase, attempts, applied, roles, starts, unlucky>>

Interrupted == unlucky \cup {t \in Templates : provider[t] = "bare"}

(* A query fails: init logs it and main goes on. *)
FailSeeding ==
  /\ phase \in {"seedRoles", "seedProviders"}
  /\ Enter("load")
  /\ unlucky' = Interrupted
  /\ UNCHANGED <<attempts, applied, roles, provider, starts>>

FinishSeeding ==
  /\ phase = "seedProviders"
  /\ \A t \in Templates : provider[t] = "full" \/ t \in unlucky
  /\ Enter("load")
  /\ UNCHANGED <<attempts, applied, roles, provider, starts, unlucky>>

(* The process ends, of itself or not, and is started again. *)
Restart ==
  /\ starts < MaxStarts
  /\ starts' = starts + 1
  /\ Enter("connect")
  /\ attempts' = 0
  /\ unlucky' = Interrupted
  /\ UNCHANGED <<applied, roles, provider>>

StartupStep ==
  \/ Connect \/ FailToConnect
  \/ ApplyMigration \/ FailMigration \/ FinishMigrations
  \/ SeedRoles \/ FailSeeding \/ FinishSeeding
  \/ \E t \in Templates : SeedProvider(t) \/ SeedConfiguration(t)

-----------------------------------------------------------------------------
StartupTypeOK ==
  /\ phase \in Phases
  /\ attempts \in 0..MaxAttempts
  /\ applied \subseteq 1..Migrations
  /\ roles \in BOOLEAN
  /\ provider \in [Templates -> Stored]
  /\ starts \in 1..MaxStarts
  /\ unlucky \subseteq Templates

(* However often the process dies, a migration is applied only after all     *)
(* that come before it, and nothing that needs the schema runs before all. *)
MigrationsInOrder ==
  /\ \A m \in applied : 1..m \subseteq applied
  /\ phase \in {"seedRoles", "seedProviders", "load", "apply", "listening"} => Pending = {}

(* A provider is left without its configuration only when init was           *)
(* interrupted between its two inserts; then no later start repairs it.     *)
ProvidersWhole ==
  phase \in {"load", "apply", "listening"} =>
    \A t \in Templates : provider[t] = "bare" => t \in unlucky
=============================================================================

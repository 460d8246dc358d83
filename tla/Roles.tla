------------------------------- MODULE Roles -------------------------------
(***************************************************************************)
(* Role based access control: the handlers behind /api/admin/roles and     *)
(* /api/admin/settings/users/:userId/roles, which PermissionService runs   *)
(* over three tables: roles, role_permissions and user_roles.              *)
(*                                                                         *)
(* One Node process serves every request, so a handler is interrupted only *)
(* where it awaits the database.  Each action below is the code between    *)
(* two awaits together with the statement or transaction it waits for; two *)
(* reads stand in one action when nothing another handler can do between   *)
(* them changes the outcome (role names and is_builtin never change).      *)
(***************************************************************************)
EXTENDS Naturals, FiniteSets

CONSTANTS
  Users,              \* accounts
  Actors,             \* the accounts that send requests
  RoleIds,            \* ids a role may have
  Admin,              \* the id of the role named "admin"
  BuiltinRoles,       \* roles created by the migrations, is_builtin = TRUE
  InitialRoles,       \* roles that exist at the start, built-in ones included
  Permissions,        \* keys of the permission catalog
  Requires,           \* pairs <<p, q>>: the definition of p requires q
  AdminRequired,      \* ADMIN_REQUIRED_PERMISSIONS
  RoleCreate, RoleUpdate, RoleDelete, RoleAssign,   \* keys the routes ask for
  SeedPermissions,    \* role_permissions of the initial roles
  SeedRoles,          \* the roles every account has at the start
  Handlers,           \* requests the process can be serving at once
  NoUser,             \* not an account: a request that names none
  Seed,               \* author of the user_roles rows present at the start
  PermissionRequests, \* permission lists a request body may hold
  RoleRequests        \* role id lists a request body may hold

VARIABLES
  roles,       \* ids in the roles table
  rolePerms,   \* role_permissions, {} for an id that has no row
  userRoles,   \* user_roles: the rows of every account
  job          \* what each request has read and where it is

vars == <<roles, rolePerms, userRoles, job>>

(* A row of user_roles has an id of its own and no uniqueness constraint;  *)
(* a request inserts each role once, so (role, author) tells rows apart.   *)
Rows == [role : RoleIds, by : Handlers \cup {Seed}]

RolePCs == {"createCheck", "createWrite", "updateCheck", "updateWrite", "delete"}
AssignPCs == {"assignRead", "assignCheck", "assignCurrent", "assignCount",
              "assignErase", "assignCommit"}
PCs == {"idle"} \cup RolePCs \cup AssignPCs

Jobs == [pc : PCs, actor : Users \cup {NoUser}, target : Users \cup {NoUser},
         ids : SUBSET RoleIds, perms : SUBSET Permissions, rows : SUBSET Rows]

NoJob == [pc |-> "idle", actor |-> NoUser, target |-> NoUser,
          ids |-> {}, perms |-> {}, rows |-> {}]

Closed(S) == \A d \in Requires : d[1] \in S => d[2] \in S

(* Mutant: the request is stored as it came. *)
NormalizeNothing(S) == S

(* normalizePermissionDependencies: the request and all it requires.       *)
Normalize(S) ==
  {p \in Permissions :
     \A C \in SUBSET Permissions : S \subseteq C /\ Closed(C) => p \in C}

ASSUME ConstantsAssumption ==
  /\ IsFiniteSet(Users)
  /\ Actors \subseteq Users
  /\ Admin \in BuiltinRoles /\ BuiltinRoles \subseteq RoleIds
  /\ BuiltinRoles \subseteq InitialRoles /\ InitialRoles \subseteq RoleIds
  /\ Requires \subseteq Permissions \X Permissions
  /\ AdminRequired \subseteq Permissions
  /\ {RoleCreate, RoleUpdate, RoleDelete, RoleAssign} \subseteq Permissions
  /\ Seed \notin Handlers /\ NoUser \notin Users
  /\ PermissionRequests \subseteq SUBSET Permissions
  /\ RoleRequests \subseteq (SUBSET RoleIds) \ {{}}

(* Where observation starts: roles as migrations 004 to 012 and earlier    *)
(* requests left them, and accounts that registration gave a role.         *)
ASSUME SeedAssumption ==
  /\ SeedPermissions \in [InitialRoles -> SUBSET Permissions]
  /\ \A r \in InitialRoles : Closed(SeedPermissions[r])
  /\ AdminRequired \subseteq SeedPermissions[Admin]
  /\ SeedRoles \in [Users -> (SUBSET InitialRoles) \ {{}}]
  /\ \E u \in Users : Admin \in SeedRoles[u]

-----------------------------------------------------------------------------
(* getRoleIds and getUserPermissions: the union over the account's rows.   *)
RolesOf(u) == {x.role : x \in userRoles[u]}
Perms(u) == UNION {rolePerms[r] : r \in RolesOf(u)}
Admins == {u \in Users : Admin \in RolesOf(u)}

Init ==
  /\ roles = InitialRoles
  /\ rolePerms = [r \in RoleIds |->
                    IF r \in InitialRoles THEN SeedPermissions[r] ELSE {}]
  /\ userRoles = [u \in Users |-> {[role |-> r, by |-> Seed] : r \in SeedRoles[u]}]
  /\ job = [h \in Handlers |-> NoJob]

(* A request passed authenticateToken and requirePermission(p): from here  *)
(* on the handler never looks at the permission again.                     *)
Authorized(h, a, p) == job[h].pc = "idle" /\ p \in Perms(a)

(* Mutant: the target of the request is lost. *)
StartUntargeted(h, pc, a, t, ids, perms) ==
  /\ job' = [job EXCEPT ![h] = [pc |-> pc, actor |-> a, target |-> NoUser,
                                ids |-> ids, perms |-> perms, rows |-> {}]]
  /\ UNCHANGED <<roles, rolePerms, userRoles>>

Start(h, pc, a, t, ids, perms) ==
  /\ job' = [job EXCEPT ![h] = [pc |-> pc, actor |-> a, target |-> t,
                                ids |-> ids, perms |-> perms, rows |-> {}]]
  /\ UNCHANGED <<roles, rolePerms, userRoles>>

Goto(h, pc) == job' = [job EXCEPT ![h].pc = pc]
Finish(h) == job' = [job EXCEPT ![h] = NoJob]

(* assertActorCanGrantPermissions reads the actor's permissions afresh.    *)
ActorCanGrant(h) == job[h].perms \subseteq Perms(job[h].actor)

-----------------------------------------------------------------------------
(* createRole: validateAndNormalize before the first await, then the       *)
(* escalation check, then one transaction for the role and its rows.       *)
RequestCreate(h, a, want) ==
  /\ Authorized(h, a, RoleCreate)
  /\ Start(h, "createCheck", a, NoUser, {}, Normalize(want))

CheckCreate(h) ==
  /\ job[h].pc = "createCheck"
  /\ IF ActorCanGrant(h) THEN Goto(h, "createWrite") ELSE Finish(h)
  /\ UNCHANGED <<roles, rolePerms, userRoles>>

(* Ids are fresh UUIDs: never one a table or a running request still names. *)
WriteCreate(h, r) ==
  /\ job[h].pc = "createWrite"
  /\ r \notin roles /\ \A g \in Handlers : r \notin job[g].ids
  /\ roles' = roles \cup {r}
  /\ rolePerms' = [rolePerms EXCEPT ![r] = job[h].perms]
  /\ Finish(h)
  /\ UNCHANGED userRoles

-----------------------------------------------------------------------------
(* updateRole.  A role deleted after CheckUpdate makes the UPDATE touch no  *)
(* row and the INSERT of permissions violate its foreign key.              *)
RequestUpdate(h, a, r, want) ==
  /\ Authorized(h, a, RoleUpdate)
  /\ Start(h, "updateCheck", a, NoUser, {r}, Normalize(want))

CheckUpdate(h) ==
  /\ job[h].pc = "updateCheck"
  /\ IF /\ job[h].ids \subseteq roles
        /\ ActorCanGrant(h)
        /\ Admin \in job[h].ids => AdminRequired \subseteq job[h].perms
     THEN Goto(h, "updateWrite")
     ELSE Finish(h)
  /\ UNCHANGED <<roles, rolePerms, userRoles>>

WriteUpdate(h) ==
  /\ job[h].pc = "updateWrite"
  /\ rolePerms' = [r \in RoleIds |-> IF r \in job[h].ids \cap roles
                                     THEN job[h].perms ELSE rolePerms[r]]
  /\ Finish(h)
  /\ UNCHANGED <<roles, userRoles>>

-----------------------------------------------------------------------------
(* deleteRole: built-in roles are refused; role_permissions cascades, while *)
(* user_roles does not, so the statement fails for a role somebody has.     *)
RequestDelete(h, a, r) ==
  /\ Authorized(h, a, RoleDelete)
  /\ Start(h, "delete", a, NoUser, {r}, {})

Deletable(r) ==
  r \in roles \ BuiltinRoles /\ \A u \in Users : r \notin RolesOf(u)

DeleteRole(h) ==
  /\ job[h].pc = "delete"
  /\ LET gone == {r \in job[h].ids : Deletable(r)} IN
       /\ roles' = roles \ gone
       /\ rolePerms' = [r \in RoleIds |-> IF r \in gone THEN {} ELSE rolePerms[r]]
  /\ Finish(h)
  /\ UNCHANGED userRoles

-----------------------------------------------------------------------------
(* assignRoles. *)
RequestAssign(h, a, t, ids) ==
  /\ Authorized(h, a, RoleAssign)
  /\ Start(h, "assignRead", a, t, ids, {})

(* roleIdsExist, then getRoles: the permissions of the selected roles.     *)
ReadRoles(h) ==
  /\ job[h].pc = "assignRead"
  /\ IF job[h].ids \subseteq roles
     THEN job' = [job EXCEPT ![h].pc = "assignCheck",
                             ![h].perms = UNION {rolePerms[r] : r \in job[h].ids}]
     ELSE Finish(h)
  /\ UNCHANGED <<roles, rolePerms, userRoles>>

(* Mutant: one of the permissions is enough, as in hasAnyPermission.       *)
CheckAssignAny(h) ==
  /\ job[h].pc = "assignCheck"
  /\ IF job[h].perms \cap Perms(job[h].actor) # {}
     THEN job' = [job EXCEPT ![h].pc = "assignCurrent", ![h].perms = {}]
     ELSE Finish(h)
  /\ UNCHANGED <<roles, rolePerms, userRoles>>

CheckAssign(h) ==
  /\ job[h].pc = "assignCheck"
  /\ IF ActorCanGrant(h)
     THEN job' = [job EXCEPT ![h].pc = "assignCurrent", ![h].perms = {}]
     ELSE Finish(h)
  /\ UNCHANGED <<roles, rolePerms, userRoles>>

(* removesAdmin, from the roles the target has now.                        *)
ReadCurrent(h) ==
  /\ job[h].pc = "assignCurrent"
  /\ IF Admin \in RolesOf(job[h].target) \ job[h].ids
     THEN Goto(h, "assignCount") ELSE Goto(h, "assignErase")
  /\ UNCHANGED <<roles, rolePerms, userRoles>>

(* Mutant: one admin left counts as enough. *)
CountAdminsOffByOne(h) ==
  /\ job[h].pc = "assignCount"
  /\ IF Cardinality(Admins) < 1 THEN Finish(h) ELSE Goto(h, "assignErase")
  /\ UNCHANGED <<roles, rolePerms, userRoles>>

(* countUsersWithRoleName("admin") *)
CountAdmins(h) ==
  /\ job[h].pc = "assignCount"
  /\ IF Cardinality(Admins) <= 1 THEN Finish(h) ELSE Goto(h, "assignErase")
  /\ UNCHANGED <<roles, rolePerms, userRoles>>

(* Mutant: the old rows are not deleted. *)
EraseNothing(h) ==
  /\ job[h].pc = "assignErase"
  /\ job' = [job EXCEPT ![h].pc = "assignCommit"]
  /\ UNCHANGED <<roles, rolePerms, userRoles>>

(* replaceUserRoles, first statement: at READ COMMITTED the DELETE covers  *)
(* the rows committed when it starts and never sees later ones.            *)
EraseRows(h) ==
  /\ job[h].pc = "assignErase"
  /\ job' = [job EXCEPT ![h].pc = "assignCommit",
                        ![h].rows = userRoles[job[h].target]]
  /\ UNCHANGED <<roles, rolePerms, userRoles>>

(* Mutant: no transaction, so an insert that fails leaves the rows erased. *)
CommitPartly(h) ==
  /\ job[h].pc = "assignCommit"
  /\ userRoles' = [userRoles EXCEPT ![job[h].target] =
       (@ \ job[h].rows) \cup {[role |-> r, by |-> h] : r \in job[h].ids \cap roles}]
  /\ Finish(h)
  /\ UNCHANGED <<roles, rolePerms>>

(* The inserts and the commit.  A role deleted meanwhile violates the      *)
(* foreign key and rolls everything back.  Rows erased here are no longer  *)
(* there to erase for a transaction that waited on them.                   *)
CommitRows(h) ==
  /\ job[h].pc = "assignCommit"
  /\ IF job[h].ids \subseteq roles
     THEN LET t == job[h].target IN
          /\ userRoles' = [userRoles EXCEPT ![t] =
               (@ \ job[h].rows) \cup {[role |-> r, by |-> h] : r \in job[h].ids}]
          /\ job' = [g \in Handlers |->
               IF g = h THEN NoJob
               ELSE [job[g] EXCEPT !.rows = IF job[g].target = t
                                            THEN @ \ job[h].rows ELSE @]]
     ELSE Finish(h) /\ UNCHANGED userRoles
  /\ UNCHANGED <<roles, rolePerms>>

-----------------------------------------------------------------------------
(* Any database call may throw; the open transaction rolls back.           *)
Fail(h) ==
  /\ job[h].pc # "idle"
  /\ Finish(h)
  /\ UNCHANGED <<roles, rolePerms, userRoles>>

RoleStep(h) ==
  \/ CheckCreate(h)
  \/ \E r \in RoleIds : WriteCreate(h, r)
  \/ CheckUpdate(h)
  \/ WriteUpdate(h)
  \/ DeleteRole(h)

AssignStep(h) ==
  \/ ReadRoles(h)
  \/ CheckAssign(h)
  \/ ReadCurrent(h)
  \/ CountAdmins(h)
  \/ EraseRows(h)
  \/ CommitRows(h)

Request(h, a) ==
  \/ \E want \in PermissionRequests :
       \/ RequestCreate(h, a, want)
       \/ \E r \in RoleIds : RequestUpdate(h, a, r, want)
  \/ \E r \in RoleIds : RequestDelete(h, a, r)
  \/ \E t \in Users, ids \in RoleRequests : RequestAssign(h, a, t, ids)

Next == \E h \in Handlers :
          \/ \E a \in Actors : Request(h, a)
          \/ RoleStep(h)
          \/ AssignStep(h)
          \/ Fail(h)

Spec == Init /\ [][Next]_vars

-----------------------------------------------------------------------------
(* The tables and the requests in flight hold values of their types, and a *)
(* request in flight has an actor, an assignment a target and some roles.  *)
TypeOK ==
  /\ roles \subseteq RoleIds
  /\ rolePerms \in [RoleIds -> SUBSET Permissions]
  /\ userRoles \in [Users -> SUBSET Rows]
  /\ job \in [Handlers -> Jobs]
  /\ \A h \in Handlers :
       /\ job[h].pc # "idle" => job[h].actor \in Actors
       /\ job[h].pc \in AssignPCs => job[h].target \in Users /\ job[h].ids # {}

SeedPerms(u) == UNION {SeedPermissions[r] : r \in SeedRoles[u]}

(* What the accounts that send requests could do, together, at the start.  *)
Pool == UNION {SeedPerms(a) : a \in Actors}

(* No account ever gains a permission that none of the accounts sending    *)
(* requests held at the start (e2e README: a permission one does not have  *)
(* cannot be granted), whatever roles are edited, recreated or reassigned  *)
(* between a handler's check and its write.                                *)
NoEscalation == \A u \in Users : Perms(u) \subseteq SeedPerms(u) \cup Pool

(* Somebody can always manage accounts, roles and settings: an account     *)
(* holding the admin role exists and that role still has the permissions   *)
(* ADMIN_REQUIRED_PERMISSIONS names.  True of one handler at a time.       *)
AdministrationRecoverable == \E u \in Admins : AdminRequired \subseteq Perms(u)

(* The last admin cannot be demoted (e2e README, Scenario 7), however many *)
(* requests run at once.                                                   *)
LastAdminStays == Admins # {}

(* Every account keeps at least one role, and only roles that exist, also   *)
(* when a role that an assignment has read as existing is deleted before   *)
(* the assignment erases the old rows and inserts the new ones.            *)
NobodyLeftRoleless == \A u \in Users : RolesOf(u) # {} /\ RolesOf(u) \subseteq roles

(* Every role holds what its permissions require, built-in and edited ones *)
(* alike, so a check of one key never passes without its dependencies.     *)
PermissionsClosed == \A r \in roles : Closed(rolePerms[r])

(* Why NoEscalation holds: what a checked request is about to write or     *)
(* assign lies within the pool.  Between ReadRoles and CheckAssign another *)
(* request may edit a selected role, but only to something in the pool.    *)
PermsInPool(h) ==
  /\ job[h].pc \in {"createWrite", "updateWrite"} => job[h].perms \subseteq Pool
  /\ job[h].pc = "assignCheck" =>
       \A r \in job[h].ids : rolePerms[r] \subseteq job[h].perms \cup Pool
  /\ job[h].pc \in {"assignCurrent", "assignCount", "assignErase", "assignCommit"} =>
       \A r \in job[h].ids : rolePerms[r] \subseteq Pool

EscalationInv == NoEscalation /\ \A h \in Handlers : PermsInPool(h)

(* Why PermissionsClosed holds: requests carry normalized permissions.     *)
ClosedInv ==
  /\ PermissionsClosed
  /\ \A h \in Handlers : job[h].pc \in RolePCs => Closed(job[h].perms)

(* Why AdministrationRecoverable holds for one handler: a demotion past    *)
(* CountAdmins leaves another admin behind.                                *)
DemotionSafe(h) ==
  /\ job[h].pc \in {"assignErase", "assignCommit"} =>
       \/ Admin \in job[h].ids
       \/ \E u \in Admins : u # job[h].target
  /\ job[h].pc = "updateWrite" /\ Admin \in job[h].ids =>
       AdminRequired \subseteq job[h].perms

AdminInv ==
  /\ Admins # {}
  /\ BuiltinRoles \subseteq roles
  /\ AdminRequired \subseteq rolePerms[Admin]
  /\ \A h \in Handlers : DemotionSafe(h)

(* A successful assignment leaves the account exactly the roles it names:  *)
(* a permission removed with its role is gone (e2e README, multiple roles). *)
AssignmentReplacesRoles ==
  [][\A h \in Handlers :
       job[h].pc = "assignCommit" /\ userRoles' # userRoles /\ job'[h].pc = "idle"
         => {x.role : x \in userRoles'[job[h].target]} = job[h].ids]_vars
=============================================================================

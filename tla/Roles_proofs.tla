---------------------------- MODULE Roles_proofs ----------------------------
(* Theorems about Roles for every set of accounts, roles, permissions and   *)
(* handlers: the tables stay well typed, no account gains a permission      *)
(* that the accounts sending requests lacked at the start, and, with one    *)
(* handler, an account able to administer the server always remains and an  *)
(* assignment leaves the roles it names.  The last parts are about Browser  *)
(* (the client's query cache shows what its own calls wrote) and about      *)
(* Navigation (who is shown a page, the server admits; redirects end).      *)
EXTENDS Roles, Browser, Navigation, FiniteSetTheorems, TLAPS

USE DEF PCs, RolePCs, AssignPCs, Jobs

-----------------------------------------------------------------------------
(* Facts about the operators. *)

LEMMA NormalizeType == \A S : Normalize(S) \in SUBSET Permissions
BY DEF Normalize

LEMMA NoJobType == NoJob \in Jobs /\ NoJob.pc = "idle"
BY DEF NoJob

(* What normalization returns is closed under the dependencies.            *)
LEMMA NormalizeClosed ==
  ASSUME NEW S \in SUBSET Permissions
  PROVE  Closed(Normalize(S))
<1> SUFFICES ASSUME NEW d \in Requires, d[1] \in Normalize(S)
             PROVE  d[2] \in Normalize(S)
  BY DEF Closed
<1>1. d \in Permissions \X Permissions
  BY ConstantsAssumption
<1>2. ASSUME NEW C \in SUBSET Permissions, S \subseteq C, Closed(C)
      PROVE  d[2] \in C
  <2>1. d[1] \in C
    BY <1>2 DEF Normalize
  <2> QED BY <2>1, <1>2 DEF Closed
<1> QED BY <1>1, <1>2 DEF Normalize

-----------------------------------------------------------------------------
(* Every step keeps the type invariant. *)
LEMMA TypeStep == TypeOK /\ [Next]_vars => TypeOK'
<1> SUFFICES ASSUME TypeOK, [Next]_vars PROVE TypeOK'
  OBVIOUS
<1> USE ConstantsAssumption, NormalizeType, NoJobType DEF TypeOK
<1>0. CASE UNCHANGED vars
  BY <1>0 DEF vars
<1>1. ASSUME NEW h \in Handlers, NEW a \in Actors, Request(h, a) PROVE TypeOK'
  <2>1. ASSUME NEW want \in PermissionRequests, RequestCreate(h, a, want)
        PROVE TypeOK'
    BY <2>1 DEF RequestCreate, Start
  <2>2. ASSUME NEW want \in PermissionRequests, NEW r \in RoleIds,
               RequestUpdate(h, a, r, want)
        PROVE TypeOK'
    BY <2>2 DEF RequestUpdate, Start
  <2>3. ASSUME NEW r \in RoleIds, RequestDelete(h, a, r) PROVE TypeOK'
    BY <2>3 DEF RequestDelete, Start
  <2>4. ASSUME NEW t \in Users, NEW ids \in RoleRequests, RequestAssign(h, a, t, ids)
        PROVE TypeOK'
    BY <2>4 DEF RequestAssign, Start
  <2> QED BY <1>1, <2>1, <2>2, <2>3, <2>4 DEF Request
<1>2. ASSUME NEW h \in Handlers, RoleStep(h) PROVE TypeOK'
  <2>1. CASE CheckCreate(h)
    BY <2>1 DEF CheckCreate, Goto, Finish
  <2>2. ASSUME NEW r \in RoleIds, WriteCreate(h, r) PROVE TypeOK'
    BY <2>2 DEF WriteCreate, Finish
  <2>3. CASE CheckUpdate(h)
    <3>1. job[h].pc = "updateCheck" /\ UNCHANGED <<roles, rolePerms, userRoles>>
      BY <2>3 DEF CheckUpdate
    <3>2. CASE Goto(h, "updateWrite")
      BY <3>1, <3>2 DEF Goto
    <3>3. CASE Finish(h)
      BY <3>1, <3>3 DEF Finish
    <3> QED BY <2>3, <3>2, <3>3 DEF CheckUpdate
  <2>4. CASE WriteUpdate(h)
    BY <2>4 DEF WriteUpdate, Finish
  <2>5. CASE DeleteRole(h)
    BY <2>5 DEF DeleteRole, Finish
  <2> QED BY <1>2, <2>1, <2>2, <2>3, <2>4, <2>5 DEF RoleStep
<1>3. ASSUME NEW h \in Handlers, AssignStep(h) PROVE TypeOK'
  <2>1. CASE ReadRoles(h)
    BY <2>1 DEF ReadRoles, Finish
  <2>2. CASE CheckAssign(h)
    BY <2>2 DEF CheckAssign, Finish
  <2>3. CASE ReadCurrent(h)
    BY <2>3 DEF ReadCurrent, Goto
  <2>4. CASE CountAdmins(h)
    BY <2>4 DEF CountAdmins, Goto, Finish
  <2>5. CASE EraseRows(h)
    <3>1. job[h].target \in Users /\ userRoles[job[h].target] \subseteq Rows
      BY <2>5 DEF EraseRows
    <3>2. /\ job' = [job EXCEPT ![h] = [job[h] EXCEPT !.pc = "assignCommit",
                                            !.rows = userRoles[job[h].target]]]
          /\ UNCHANGED <<roles, rolePerms, userRoles>>
      BY <2>5 DEF EraseRows
    <3>3. [job[h] EXCEPT !.pc = "assignCommit",
                         !.rows = userRoles[job[h].target]] \in Jobs
      <4>1. job[h] \in Jobs /\ "assignCommit" \in PCs
        OBVIOUS
      <4> QED BY ONLY <3>1, <4>1 DEF Jobs
    <3>4. job' \in [Handlers -> Jobs]
      BY <3>2, <3>3
    <3>5. job[h].pc = "assignErase"
      BY <2>5 DEF EraseRows
    <3> QED BY <3>2, <3>4, <3>5
  <2>6. CASE CommitRows(h)
    <3>1. CASE ~(job[h].ids \subseteq roles)
      BY <2>6, <3>1 DEF CommitRows, Finish
    <3>2. CASE job[h].ids \subseteq roles
      <4> DEFINE t == job[h].target
                 new == {[role |-> r, by |-> h] : r \in job[h].ids}
      <4>1. job[h] \in Jobs /\ t \in Users /\ new \subseteq Rows
        BY <2>6 DEF CommitRows, Rows
      <4>2. userRoles' = [userRoles EXCEPT ![t] = (@ \ job[h].rows) \cup new]
        BY <2>6, <3>2 DEF CommitRows
      <4>3. userRoles' \in [Users -> SUBSET Rows]
        BY <4>1, <4>2
      <4>4. job' = [g \in Handlers |->
                      IF g = h THEN NoJob
                      ELSE [job[g] EXCEPT !.rows = IF job[g].target = t
                                                   THEN @ \ job[h].rows ELSE @]]
        BY <2>6, <3>2 DEF CommitRows
      <4>5. job' \in [Handlers -> Jobs]
        BY <4>1, <4>4
      <4>6. \A g \in Handlers : g # h => /\ job'[g].pc = job[g].pc
                                         /\ job'[g].actor = job[g].actor
                                         /\ job'[g].target = job[g].target
                                         /\ job'[g].ids = job[g].ids
        BY <4>4
      <4>7. job'[h].pc = "idle"
        BY <4>4
      <4>8. UNCHANGED <<roles, rolePerms>>
        BY <2>6 DEF CommitRows
      <4> HIDE DEF new, t
      <4> QED BY <4>3, <4>5, <4>6, <4>7, <4>8
    <3> QED BY <3>1, <3>2
  <2> QED BY <1>3, <2>1, <2>2, <2>3, <2>4, <2>5, <2>6 DEF AssignStep
<1>4. ASSUME NEW h \in Handlers, Fail(h) PROVE TypeOK'
  BY <1>4 DEF Fail, Finish
<1> QED BY <1>0, <1>1, <1>2, <1>3, <1>4 DEF Next

LEMMA TypeInit == Init => TypeOK
<1> SUFFICES ASSUME Init PROVE TypeOK
  OBVIOUS
<1>1. rolePerms \in [RoleIds -> SUBSET Permissions]
  BY SeedAssumption DEF Init
<1>2. userRoles \in [Users -> SUBSET Rows]
  BY SeedAssumption, ConstantsAssumption DEF Init, Rows
<1> QED BY <1>1, <1>2, ConstantsAssumption, NoJobType DEF Init, TypeOK

(* The tables and the requests keep their types. *)
THEOREM TypeCorrect == Spec => []TypeOK
<1> QED BY TypeInit, TypeStep, PTL DEF Spec

-----------------------------------------------------------------------------
(* At the start an account has its seed roles. *)
LEMMA InitialRolesOf == ASSUME Init, NEW u \in Users PROVE RolesOf(u) = SeedRoles[u]
<1>1. userRoles[u] = {[role |-> r, by |-> Seed] : r \in SeedRoles[u]}
  BY DEF Init
<1>2. ASSUME NEW r \in SeedRoles[u] PROVE r \in RolesOf(u)
  <2>1. [role |-> r, by |-> Seed] \in userRoles[u]
    BY <1>1
  <2> QED BY <2>1 DEF RolesOf
<1>3. RolesOf(u) \subseteq SeedRoles[u]
  BY <1>1 DEF RolesOf
<1> QED BY <1>2, <1>3

(* NoEscalation. *)

LEMMA EscalationInit == Init => EscalationInv
<1> SUFFICES ASSUME Init PROVE EscalationInv
  OBVIOUS
<1>1. NoEscalation
  <2> SUFFICES ASSUME NEW u \in Users, NEW p \in Perms(u)
               PROVE  p \in SeedPerms(u)
    BY DEF NoEscalation
  <2>1. PICK r \in RolesOf(u) : p \in rolePerms[r]
    BY DEF Perms
  <2>2. r \in SeedRoles[u]
    BY <2>1 DEF Init, RolesOf
  <2>3. r \in InitialRoles /\ r \in RoleIds
    BY <2>2, SeedAssumption, ConstantsAssumption
  <2>4. p \in SeedPermissions[r]
    BY <2>1, <2>3 DEF Init
  <2> QED BY <2>2, <2>4 DEF SeedPerms
<1>2. \A h \in Handlers : PermsInPool(h)
  BY NoJobType DEF Init, PermsInPool
<1> QED BY <1>1, <1>2 DEF EscalationInv

(* What an actor may do now lies in the pool. *)
LEMMA ActorInPool ==
  ASSUME TypeOK, NoEscalation, NEW a \in Actors
  PROVE  Perms(a) \subseteq Pool
BY ConstantsAssumption DEF NoEscalation, Pool

(* An edit of role_permissions that stays in the pool keeps NoEscalation.  *)
LEMMA EditInPool ==
  ASSUME NoEscalation, UNCHANGED userRoles,
         \A r \in RoleIds : rolePerms'[r] \subseteq rolePerms[r] \cup Pool,
         TypeOK
  PROVE  NoEscalation'
<1> SUFFICES ASSUME NEW u \in Users, NEW p, p \in Perms(u)'
             PROVE  p \in SeedPerms(u) \cup Pool
  BY DEF NoEscalation
<1>1. PICK x \in userRoles[u] : p \in rolePerms'[x.role]
  BY DEF Perms, RolesOf
<1>2. x.role \in RoleIds
  BY <1>1 DEF TypeOK, Rows
<1>3. p \in rolePerms[x.role] \cup Pool
  BY <1>1, <1>2
<1>4. rolePerms[x.role] \subseteq Perms(u)
  BY <1>1 DEF Perms, RolesOf
<1> QED BY <1>3, <1>4 DEF NoEscalation

LEMMA EscalationStep == TypeOK /\ EscalationInv /\ [Next]_vars => EscalationInv'
<1> SUFFICES ASSUME TypeOK, EscalationInv, [Next]_vars PROVE EscalationInv'
  OBVIOUS
<1> USE DEF EscalationInv
<1>t. TypeOK'
  BY TypeStep
<1>a. ASSUME UNCHANGED <<rolePerms, userRoles>> PROVE NoEscalation'
  BY <1>a DEF NoEscalation, Perms, RolesOf
<1>0. CASE UNCHANGED vars
  BY <1>0, <1>a DEF vars, PermsInPool
<1>1. ASSUME NEW h \in Handlers, NEW a \in Actors, Request(h, a)
      PROVE  EscalationInv'
  <2>1. UNCHANGED <<roles, rolePerms, userRoles>>
    BY <1>1 DEF Request, RequestCreate, RequestUpdate, RequestDelete,
                RequestAssign, Start
  <2>2. /\ job'[h].pc \in {"createCheck", "updateCheck", "delete", "assignRead"}
        /\ \A g \in Handlers : g # h => job'[g] = job[g]
    BY <1>1 DEF Request, RequestCreate, RequestUpdate, RequestDelete,
                RequestAssign, Start, TypeOK
  <2> QED BY <2>1, <2>2, <1>a DEF PermsInPool
<1>2. ASSUME NEW h \in Handlers, RoleStep(h) PROVE EscalationInv'
  <2>1. CASE CheckCreate(h)
    <3>1. job[h].pc = "createCheck" /\ UNCHANGED <<roles, rolePerms, userRoles>>
      BY <2>1 DEF CheckCreate
    <3>2. CASE ActorCanGrant(h) /\ Goto(h, "createWrite")
      <4>1. job[h].perms \subseteq Pool
        BY <3>1, <3>2, ActorInPool DEF ActorCanGrant, TypeOK
      <4> QED BY <3>1, <3>2, <4>1, <1>a DEF Goto, PermsInPool, TypeOK
    <3>3. CASE Finish(h)
      BY <3>1, <3>3, <1>a, NoJobType DEF Finish, PermsInPool
    <3> QED BY <2>1, <3>2, <3>3 DEF CheckCreate
  <2>2. ASSUME NEW r \in RoleIds, WriteCreate(h, r) PROVE EscalationInv'
    <3>1. /\ job[h].perms \subseteq Pool
          /\ rolePerms' = [rolePerms EXCEPT ![r] = job[h].perms]
          /\ Finish(h)
          /\ UNCHANGED userRoles
      BY <2>2 DEF WriteCreate, PermsInPool
    <3>2. \A q \in RoleIds : rolePerms'[q] \subseteq rolePerms[q] \cup Pool
      BY <3>1 DEF TypeOK
    <3>3. NoEscalation'
      BY <3>1, <3>2, EditInPool
    <3>4. \A g \in Handlers : PermsInPool(g)'
      BY <3>1, <3>2, NoJobType DEF Finish, PermsInPool, TypeOK
    <3> QED BY <3>3, <3>4
  <2>3. CASE CheckUpdate(h)
    <3>1. job[h].pc = "updateCheck" /\ UNCHANGED <<roles, rolePerms, userRoles>>
      BY <2>3 DEF CheckUpdate
    <3>2. CASE ActorCanGrant(h) /\ Goto(h, "updateWrite")
      <4>1. job[h].perms \subseteq Pool
        BY <3>1, <3>2, ActorInPool DEF ActorCanGrant, TypeOK
      <4> QED BY <3>1, <3>2, <4>1, <1>a DEF Goto, PermsInPool, TypeOK
    <3>3. CASE Finish(h)
      BY <3>1, <3>3, <1>a, NoJobType DEF Finish, PermsInPool
    <3> QED BY <2>3, <3>2, <3>3 DEF CheckUpdate
  <2>4. CASE WriteUpdate(h)
    <3>1. /\ job[h].perms \subseteq Pool
          /\ rolePerms' = [r \in RoleIds |-> IF r \in job[h].ids \cap roles
                                             THEN job[h].perms ELSE rolePerms[r]]
          /\ Finish(h)
          /\ UNCHANGED userRoles
      BY <2>4 DEF WriteUpdate, PermsInPool
    <3>2. \A q \in RoleIds : rolePerms'[q] \subseteq rolePerms[q] \cup Pool
      BY <3>1
    <3>3. NoEscalation'
      BY <3>1, <3>2, EditInPool
    <3>4. \A g \in Handlers : PermsInPool(g)'
      BY <3>1, <3>2, NoJobType DEF Finish, PermsInPool, TypeOK
    <3> QED BY <3>3, <3>4
  <2>5. CASE DeleteRole(h)
    <3>1. \A q \in RoleIds : rolePerms'[q] \subseteq rolePerms[q] \cup Pool
      BY <2>5 DEF DeleteRole
    <3>2. Finish(h) /\ UNCHANGED userRoles
      BY <2>5 DEF DeleteRole
    <3>3. NoEscalation'
      BY <3>1, <3>2, EditInPool
    <3>4. \A g \in Handlers : PermsInPool(g)'
      BY <3>1, <3>2, NoJobType DEF Finish, PermsInPool, TypeOK
    <3> QED BY <3>3, <3>4
  <2> QED BY <1>2, <2>1, <2>2, <2>3, <2>4, <2>5 DEF RoleStep
<1>3. ASSUME NEW h \in Handlers, AssignStep(h) PROVE EscalationInv'
  <2>1. CASE ReadRoles(h)
    BY <2>1, <1>a, NoJobType DEF ReadRoles, Finish, PermsInPool, TypeOK
  <2>2. CASE CheckAssign(h)
    <3>1. job[h].pc = "assignCheck" /\ UNCHANGED <<roles, rolePerms, userRoles>>
      BY <2>2 DEF CheckAssign
    <3>2. CASE /\ ActorCanGrant(h)
               /\ job' = [job EXCEPT ![h].pc = "assignCurrent", ![h].perms = {}]
      <4>1. job[h].perms \subseteq Pool
        BY <3>1, <3>2, ActorInPool DEF ActorCanGrant, TypeOK
      <4>2. \A r \in job[h].ids : rolePerms[r] \subseteq Pool
        BY <3>1, <4>1 DEF PermsInPool
      <4> QED BY <3>1, <3>2, <4>2, <1>a DEF PermsInPool, TypeOK
    <3>3. CASE Finish(h)
      BY <3>1, <3>3, <1>a, NoJobType DEF Finish, PermsInPool
    <3> QED BY <2>2, <3>2, <3>3 DEF CheckAssign
  <2>3. CASE ReadCurrent(h)
    BY <2>3, <1>a DEF ReadCurrent, Goto, PermsInPool, TypeOK
  <2>4. CASE CountAdmins(h)
    BY <2>4, <1>a, NoJobType DEF CountAdmins, Goto, Finish, PermsInPool, TypeOK
  <2>5. CASE EraseRows(h)
    <3>1. /\ job[h].pc = "assignErase" /\ job'[h].pc = "assignCommit"
          /\ job'[h].ids = job[h].ids
          /\ \A g \in Handlers : g # h => job'[g] = job[g]
          /\ UNCHANGED <<roles, rolePerms, userRoles>>
      BY <2>5 DEF EraseRows, TypeOK
    <3> QED BY <3>1, <1>a DEF PermsInPool
  <2>6. CASE CommitRows(h)
    <3>1. CASE ~(job[h].ids \subseteq roles)
      <4>1. Finish(h) /\ UNCHANGED <<roles, rolePerms, userRoles>>
        BY <2>6, <3>1 DEF CommitRows
      <4> QED BY <4>1, <1>a, NoJobType DEF Finish, PermsInPool
    <3>2. CASE job[h].ids \subseteq roles
      <4> DEFINE t == job[h].target
                 new == {[role |-> r, by |-> h] : r \in job[h].ids}
      <4>1. /\ userRoles' = [userRoles EXCEPT ![t] = (@ \ job[h].rows) \cup new]
            /\ UNCHANGED rolePerms
        BY <2>6, <3>2 DEF CommitRows
      <4>2. \A r \in job[h].ids : rolePerms[r] \subseteq Pool
        BY <2>6 DEF CommitRows, PermsInPool
      <4>3. NoEscalation'
        <5> SUFFICES ASSUME NEW u \in Users, NEW x \in userRoles'[u]
                     PROVE  rolePerms[x.role] \subseteq SeedPerms(u) \cup Pool
          BY <4>1 DEF NoEscalation, Perms, RolesOf
        <5>1. CASE x \in userRoles[u]
          BY <5>1 DEF NoEscalation, Perms, RolesOf
        <5>2. CASE x \in new
          BY <5>2, <4>2
        <5> QED BY <4>1, <5>1, <5>2 DEF TypeOK
      <4>4. \A g \in Handlers : PermsInPool(g)'
        <5>1. job'[h] = NoJob
          BY <2>6, <3>2 DEF CommitRows
        <5>2. \A g \in Handlers : g # h => /\ job'[g].pc = job[g].pc
                                           /\ job'[g].ids = job[g].ids
                                           /\ job'[g].perms = job[g].perms
          BY <2>6, <3>2 DEF CommitRows, TypeOK
        <5> QED BY <4>1, <5>1, <5>2, NoJobType DEF PermsInPool
      <4> QED BY <4>3, <4>4
    <3> QED BY <3>1, <3>2
  <2> QED BY <1>3, <2>1, <2>2, <2>3, <2>4, <2>5, <2>6 DEF AssignStep
<1>4. ASSUME NEW h \in Handlers, Fail(h) PROVE EscalationInv'
  BY <1>4, <1>a, NoJobType DEF Fail, Finish, PermsInPool
<1> QED BY <1>0, <1>1, <1>2, <1>3, <1>4 DEF Next

(* No account gains a permission none of the requesting accounts had.      *)
THEOREM PermissionsNeverEscalate == Spec => []NoEscalation
<1>1. Init => TypeOK /\ EscalationInv
  BY TypeInit, EscalationInit
<1>2. TypeOK /\ EscalationInv /\ [Next]_vars => TypeOK' /\ EscalationInv'
  BY TypeStep, EscalationStep
<1>3. EscalationInv => NoEscalation
  BY DEF EscalationInv
<1> QED BY <1>1, <1>2, <1>3, PTL DEF Spec

-----------------------------------------------------------------------------
(* PermissionsClosed. *)

LEMMA ClosedInit == Init => ClosedInv
BY SeedAssumption, ConstantsAssumption, NoJobType
   DEF Init, ClosedInv, PermissionsClosed

LEMMA ClosedStep == TypeOK /\ ClosedInv /\ [Next]_vars => ClosedInv'
<1> SUFFICES ASSUME TypeOK, ClosedInv, [Next]_vars PROVE ClosedInv'
  OBVIOUS
<1> USE NoJobType, ConstantsAssumption DEF ClosedInv
<1>a. ASSUME UNCHANGED <<roles, rolePerms>> PROVE PermissionsClosed'
  BY <1>a DEF PermissionsClosed
<1>b. ASSUME NEW h \in Handlers, UNCHANGED <<roles, rolePerms>>,
             \A g \in Handlers : \/ job'[g].pc = job[g].pc /\ job'[g].perms = job[g].perms
                                 \/ job'[g].pc \notin RolePCs
                                 \/ job'[g].pc \in RolePCs /\ Closed(job'[g].perms)
      PROVE  ClosedInv'
  BY <1>a, <1>b
<1>c. Closed({})
  BY DEF Closed
<1>0. CASE UNCHANGED vars
  BY <1>0, <1>a DEF vars
<1>1. ASSUME NEW h \in Handlers, NEW a \in Actors, Request(h, a) PROVE ClosedInv'
  <2>1. UNCHANGED <<roles, rolePerms>>
    BY <1>1 DEF Request, RequestCreate, RequestUpdate, RequestDelete,
                RequestAssign, Start
  <2>2. \A g \in Handlers : g # h => job'[g] = job[g]
    BY <1>1 DEF Request, RequestCreate, RequestUpdate, RequestDelete,
                RequestAssign, Start, TypeOK
  <2>3. job'[h].pc \in RolePCs => Closed(job'[h].perms)
    <3>1. ASSUME NEW want \in PermissionRequests, RequestCreate(h, a, want)
          PROVE  Closed(job'[h].perms)
      BY <3>1, NormalizeClosed DEF RequestCreate, Start, TypeOK
    <3>2. ASSUME NEW want \in PermissionRequests, NEW r \in RoleIds,
                 RequestUpdate(h, a, r, want)
          PROVE  Closed(job'[h].perms)
      BY <3>2, NormalizeClosed DEF RequestUpdate, Start, TypeOK
    <3>3. ASSUME NEW r \in RoleIds, RequestDelete(h, a, r)
          PROVE  Closed(job'[h].perms)
      BY <3>3, <1>c DEF RequestDelete, Start, TypeOK
    <3>4. ASSUME NEW t \in Users, NEW ids \in RoleRequests, RequestAssign(h, a, t, ids)
          PROVE  job'[h].pc \notin RolePCs
      BY <3>4 DEF RequestAssign, Start, TypeOK
    <3> QED BY <1>1, <3>1, <3>2, <3>3, <3>4 DEF Request
  <2> QED BY <2>1, <2>2, <2>3, <1>a
<1>2. ASSUME NEW h \in Handlers, RoleStep(h) PROVE ClosedInv'
  <2>1. CASE CheckCreate(h)
    BY <2>1, <1>a DEF CheckCreate, Goto, Finish, TypeOK
  <2>2. ASSUME NEW r \in RoleIds, WriteCreate(h, r) PROVE ClosedInv'
    BY <2>2 DEF WriteCreate, Finish, PermissionsClosed, TypeOK
  <2>3. CASE CheckUpdate(h)
    <3>1. job[h].pc = "updateCheck" /\ UNCHANGED <<roles, rolePerms, userRoles>>
      BY <2>3 DEF CheckUpdate
    <3>2. Goto(h, "updateWrite") \/ Finish(h)
      BY <2>3 DEF CheckUpdate
    <3> QED BY <3>1, <3>2, <1>a DEF Goto, Finish, TypeOK
  <2>4. CASE WriteUpdate(h)
    <3>1. PermissionsClosed'
      BY <2>4 DEF WriteUpdate, PermissionsClosed, TypeOK
    <3> QED BY <2>4, <3>1 DEF WriteUpdate, Finish
  <2>5. CASE DeleteRole(h)
    <3>1. PermissionsClosed'
      BY <2>5, <1>c DEF DeleteRole, PermissionsClosed, TypeOK
    <3> QED BY <2>5, <3>1 DEF DeleteRole, Finish
  <2> QED BY <1>2, <2>1, <2>2, <2>3, <2>4, <2>5 DEF RoleStep
<1>3. ASSUME NEW h \in Handlers, AssignStep(h) PROVE ClosedInv'
  <2>1. UNCHANGED <<roles, rolePerms>>
    BY <1>3 DEF AssignStep, ReadRoles, CheckAssign, ReadCurrent, CountAdmins,
                EraseRows, CommitRows
  <2>2. \A g \in Handlers :
          \/ (job'[g].pc = job[g].pc /\ job'[g].perms = job[g].perms)
          \/ job'[g].pc \notin RolePCs
    BY <1>3 DEF AssignStep, ReadRoles, CheckAssign, ReadCurrent, CountAdmins,
                EraseRows, CommitRows, Goto, Finish, TypeOK
  <2> QED BY <2>1, <2>2, <1>b
<1>4. ASSUME NEW h \in Handlers, Fail(h) PROVE ClosedInv'
  BY <1>4, <1>a DEF Fail, Finish
<1> QED BY <1>0, <1>1, <1>2, <1>3, <1>4 DEF Next

(* A role always holds what its permissions require. *)
THEOREM RolesStayClosed == Spec => []PermissionsClosed
<1>1. Init => TypeOK /\ ClosedInv
  BY TypeInit, ClosedInit
<1>2. TypeOK /\ ClosedInv /\ [Next]_vars => TypeOK' /\ ClosedInv'
  BY TypeStep, ClosedStep
<1>3. ClosedInv => PermissionsClosed
  BY DEF ClosedInv
<1> QED BY <1>1, <1>2, <1>3, PTL DEF Spec

-----------------------------------------------------------------------------
(* NobodyLeftRoleless. *)

LEMMA RolelessInit == Init => NobodyLeftRoleless
BY InitialRolesOf, SeedAssumption DEF Init, NobodyLeftRoleless

LEMMA RolelessStep ==
  TypeOK /\ NobodyLeftRoleless /\ [Next]_vars => NobodyLeftRoleless'
<1> SUFFICES ASSUME TypeOK, NobodyLeftRoleless, [Next]_vars
             PROVE  NobodyLeftRoleless'
  OBVIOUS
<1>a. ASSUME roles \subseteq roles', UNCHANGED userRoles PROVE NobodyLeftRoleless'
  BY <1>a DEF NobodyLeftRoleless, RolesOf
<1>0. CASE UNCHANGED vars
  BY <1>0, <1>a DEF vars
<1>1. ASSUME NEW h \in Handlers, NEW a \in Actors, Request(h, a)
      PROVE  NobodyLeftRoleless'
  BY <1>1, <1>a DEF Request, RequestCreate, RequestUpdate, RequestDelete,
                    RequestAssign, Start
<1>2. ASSUME NEW h \in Handlers, RoleStep(h) PROVE NobodyLeftRoleless'
  <2>1. CASE DeleteRole(h)
    <3>1. \A u \in Users : \A r \in RolesOf(u) : r \in roles'
      BY <2>1 DEF DeleteRole, Deletable, NobodyLeftRoleless
    <3> QED BY <2>1, <3>1 DEF DeleteRole, NobodyLeftRoleless, RolesOf
  <2>2. CASE ~DeleteRole(h)
    <3>1. UNCHANGED userRoles /\ roles \subseteq roles'
      BY <1>2, <2>2 DEF RoleStep, CheckCreate, WriteCreate, CheckUpdate, WriteUpdate
    <3> QED BY <3>1, <1>a
  <2> QED BY <2>1, <2>2
<1>3. ASSUME NEW h \in Handlers, AssignStep(h) PROVE NobodyLeftRoleless'
  <2>1. CASE CommitRows(h) /\ job[h].ids \subseteq roles
    <3> DEFINE t == job[h].target
               new == {[role |-> r, by |-> h] : r \in job[h].ids}
    <3>1. /\ t \in Users /\ job[h].ids # {}
          /\ UNCHANGED roles
          /\ userRoles' = [userRoles EXCEPT ![t] = (@ \ job[h].rows) \cup new]
      BY <2>1 DEF CommitRows, TypeOK
    <3> SUFFICES ASSUME NEW u \in Users
                   PROVE  RolesOf(u)' # {} /\ RolesOf(u)' \subseteq roles
      BY <3>1 DEF NobodyLeftRoleless
    <3>3. CASE u # t
      BY <3>1, <3>3 DEF NobodyLeftRoleless, RolesOf, TypeOK
    <3>4. CASE u = t
      <4>1. userRoles'[u] = (userRoles[u] \ job[h].rows) \cup new
        BY <3>1, <3>4 DEF TypeOK
      <4>2. PICK r : r \in job[h].ids
        BY <3>1
      <4>3. [role |-> r, by |-> h] \in userRoles'[u]
        BY <4>1, <4>2
      <4>4. RolesOf(u)' # {}
        BY <4>3 DEF RolesOf
      <4>5. \A x \in userRoles'[u] : x.role \in roles
        BY <2>1, <4>1 DEF NobodyLeftRoleless, RolesOf
      <4> QED BY <4>4, <4>5 DEF RolesOf
    <3> QED BY <3>3, <3>4
  <2>2. CASE ~(CommitRows(h) /\ job[h].ids \subseteq roles)
    <3>1. UNCHANGED <<roles, userRoles>>
      BY <1>3, <2>2 DEF AssignStep, ReadRoles, CheckAssign, ReadCurrent,
                        CountAdmins, EraseRows, CommitRows
    <3> QED BY <3>1, <1>a
  <2> QED BY <2>1, <2>2
<1>4. ASSUME NEW h \in Handlers, Fail(h) PROVE NobodyLeftRoleless'
  BY <1>4, <1>a DEF Fail
<1> QED BY <1>0, <1>1, <1>2, <1>3, <1>4 DEF Next

(* Every account keeps a role, and only roles that exist. *)
THEOREM EveryoneKeepsARole == Spec => []NobodyLeftRoleless
<1>1. Init => TypeOK /\ NobodyLeftRoleless
  BY TypeInit, RolelessInit
<1>2. TypeOK /\ NobodyLeftRoleless /\ [Next]_vars => TypeOK' /\ NobodyLeftRoleless'
  BY TypeStep, RolelessStep
<1> QED BY <1>1, <1>2, PTL DEF Spec

-----------------------------------------------------------------------------
(* AdministrationRecoverable, for one handler. *)

LEMMA AdminInit == Init => AdminInv
<1> SUFFICES ASSUME Init PROVE AdminInv
  OBVIOUS
<1>1. Admins # {}
  BY InitialRolesOf, SeedAssumption DEF Admins
<1>2. AdminRequired \subseteq rolePerms[Admin]
  BY SeedAssumption, ConstantsAssumption DEF Init
<1> QED BY <1>1, <1>2, ConstantsAssumption, NoJobType DEF Init, AdminInv, DemotionSafe

(* More than one admin: there is one besides any given account. *)
LEMMA AnotherAdmin ==
  ASSUME Cardinality(Admins) > 1, NEW t
  PROVE  \E u \in Admins : u # t
<1> SUFFICES ASSUME Admins \subseteq {t} PROVE FALSE
  OBVIOUS
<1>1. IsFiniteSet({t}) /\ Cardinality({t}) = 1
  BY FS_Singleton
<1>2. Cardinality(Admins) <= 1
  BY <1>1, FS_Subset
<1>3. Cardinality(Admins) \in Nat
  BY <1>1, FS_Subset, FS_CardinalityType
<1> QED BY <1>2, <1>3

(* A step that touches neither table keeps the invariant when the request  *)
(* it moves stays safe.                                                    *)
LEMMA AdminJobOnly ==
  ASSUME AdminInv, UNCHANGED <<roles, rolePerms, userRoles>>,
         NEW h \in Handlers, DemotionSafe(h)',
         \A g \in Handlers : g # h => job'[g] = job[g]
  PROVE  AdminInv'
<1>1. UNCHANGED Admins
  BY DEF Admins, RolesOf
<1>2. ASSUME NEW g \in Handlers, g # h PROVE DemotionSafe(g)'
  BY <1>1, <1>2 DEF AdminInv, DemotionSafe
<1> QED BY <1>1, <1>2 DEF AdminInv

LEMMA AdminStep ==
  ASSUME NEW h0, Handlers = {h0}
  PROVE  TypeOK /\ AdminInv /\ [Next]_vars => AdminInv'
<1> SUFFICES ASSUME TypeOK, AdminInv, [Next]_vars PROVE AdminInv'
  OBVIOUS
<1> USE NoJobType, ConstantsAssumption
<1>0. CASE UNCHANGED vars
  BY <1>0 DEF vars, AdminInv, DemotionSafe, Admins, RolesOf
<1> SUFFICES ASSUME NEW h \in Handlers,
                    \/ \E a \in Actors : Request(h, a)
                    \/ RoleStep(h)
                    \/ AssignStep(h)
                    \/ Fail(h)
             PROVE  AdminInv'
  BY <1>0 DEF Next
<1>h. \A g \in Handlers : g = h
  OBVIOUS
<1>f. ASSUME Finish(h), UNCHANGED userRoles, BuiltinRoles \subseteq roles',
             AdminRequired \subseteq rolePerms'[Admin]
      PROVE  AdminInv'
  <2>1. UNCHANGED Admins
    BY <1>f DEF Admins, RolesOf
  <2>2. job'[h].pc = "idle"
    BY <1>f DEF Finish, TypeOK
  <2> QED BY <1>f, <1>h, <2>1, <2>2 DEF AdminInv, DemotionSafe
<1>1. ASSUME NEW a \in Actors, Request(h, a) PROVE AdminInv'
  <2>1. UNCHANGED <<roles, rolePerms, userRoles>>
    BY <1>1 DEF Request, RequestCreate, RequestUpdate, RequestDelete,
                RequestAssign, Start
  <2>2. job'[h].pc \in {"createCheck", "updateCheck", "delete", "assignRead"}
    BY <1>1 DEF Request, RequestCreate, RequestUpdate, RequestDelete,
                RequestAssign, Start, TypeOK
  <2> QED BY <2>1, <2>2, <1>h, AdminJobOnly DEF DemotionSafe
<1>2. CASE RoleStep(h)
  <2>1. CASE CheckCreate(h)
    <3>1. UNCHANGED <<roles, rolePerms, userRoles>>
      BY <2>1 DEF CheckCreate
    <3>2. job'[h].pc \in {"createWrite", "idle"}
      BY <2>1 DEF CheckCreate, Goto, Finish, TypeOK
    <3> QED BY <3>1, <3>2, <1>h, AdminJobOnly DEF DemotionSafe
  <2>2. ASSUME NEW r \in RoleIds, WriteCreate(h, r) PROVE AdminInv'
    BY <2>2, <1>f DEF WriteCreate, AdminInv, TypeOK
  <2>3. CASE CheckUpdate(h)
    <3>1. job[h].pc = "updateCheck" /\ UNCHANGED <<roles, rolePerms, userRoles>>
      BY <2>3 DEF CheckUpdate
    <3>2. CASE /\ Admin \in job[h].ids => AdminRequired \subseteq job[h].perms
               /\ Goto(h, "updateWrite")
      <4>1. DemotionSafe(h)'
        BY <3>2 DEF Goto, DemotionSafe, TypeOK
      <4> QED BY <3>1, <4>1, <1>h, AdminJobOnly
    <3>3. CASE Finish(h)
      BY <3>1, <3>3, <1>f DEF AdminInv
    <3> QED BY <2>3, <3>2, <3>3 DEF CheckUpdate
  <2>4. CASE WriteUpdate(h)
    <3>1. AdminRequired \subseteq rolePerms'[Admin]
      BY <2>4 DEF WriteUpdate, AdminInv, DemotionSafe
    <3> QED BY <2>4, <3>1, <1>f DEF WriteUpdate, AdminInv
  <2>5. CASE DeleteRole(h)
    <3>1. BuiltinRoles \subseteq roles' /\ rolePerms'[Admin] = rolePerms[Admin]
      BY <2>5 DEF DeleteRole, Deletable, AdminInv
    <3> QED BY <2>5, <3>1, <1>f DEF DeleteRole, AdminInv
  <2> QED BY <1>2, <2>1, <2>2, <2>3, <2>4, <2>5 DEF RoleStep
<1>3. CASE AssignStep(h)
  <2>1. CASE ReadRoles(h)
    <3>1. UNCHANGED <<roles, rolePerms, userRoles>>
      BY <2>1 DEF ReadRoles
    <3>2. job'[h].pc \in {"assignCheck", "idle"}
      BY <2>1 DEF ReadRoles, Finish, TypeOK
    <3> QED BY <3>1, <3>2, <1>h, AdminJobOnly DEF DemotionSafe
  <2>2. CASE CheckAssign(h)
    <3>1. UNCHANGED <<roles, rolePerms, userRoles>>
      BY <2>2 DEF CheckAssign
    <3>2. job'[h].pc \in {"assignCurrent", "idle"}
      BY <2>2 DEF CheckAssign, Finish, TypeOK
    <3> QED BY <3>1, <3>2, <1>h, AdminJobOnly DEF DemotionSafe
  <2>3. CASE ReadCurrent(h)
    <3> DEFINE t == job[h].target
    <3>1. /\ UNCHANGED <<roles, rolePerms, userRoles>>
          /\ job[h].pc = "assignCurrent" /\ t \in Users
      BY <2>3 DEF ReadCurrent, TypeOK
    <3>2. CASE Goto(h, "assignCount")
      <4>1. job'[h].pc = "assignCount"
        BY <3>2 DEF Goto, TypeOK
      <4> QED BY <3>1, <4>1, <1>h, AdminJobOnly DEF DemotionSafe
    <3>3. CASE Admin \notin RolesOf(t) \ job[h].ids /\ Goto(h, "assignErase")
      <4>1. Admin \in job[h].ids \/ \E u \in Admins : u # t
        BY <3>1, <3>3 DEF AdminInv, Admins
      <4>2. /\ job'[h].pc = "assignErase" /\ job'[h].target = t
            /\ job'[h].ids = job[h].ids
        BY <3>3 DEF Goto, TypeOK
      <4>3. UNCHANGED Admins
        BY <3>1 DEF Admins, RolesOf
      <4>4. DemotionSafe(h)'
        BY <4>1, <4>2, <4>3 DEF DemotionSafe
      <4> QED BY <3>1, <4>4, <1>h, AdminJobOnly
    <3> QED BY <2>3, <3>2, <3>3 DEF ReadCurrent
  <2>4. CASE CountAdmins(h)
    <3>1. UNCHANGED <<roles, rolePerms, userRoles>>
      BY <2>4 DEF CountAdmins
    <3>2. CASE Finish(h)
      BY <3>1, <3>2, <1>f DEF AdminInv
    <3>3. CASE ~(Cardinality(Admins) <= 1) /\ Goto(h, "assignErase")
      <4>1. \E u \in Admins : u # job[h].target
        <5>1. IsFiniteSet(Admins)
          BY FS_Subset DEF Admins
        <5>2. Cardinality(Admins) \in Nat
          BY <5>1, FS_CardinalityType
        <5> QED BY <3>3, <5>2, AnotherAdmin
      <4>2. job'[h].pc = "assignErase" /\ job'[h].target = job[h].target
        BY <3>3 DEF Goto, TypeOK
      <4>3. UNCHANGED Admins
        BY <3>1 DEF Admins, RolesOf
      <4>4. DemotionSafe(h)'
        BY <4>1, <4>2, <4>3 DEF DemotionSafe
      <4> QED BY <3>1, <4>4, <1>h, AdminJobOnly
    <3> QED BY <2>4, <3>2, <3>3 DEF CountAdmins
  <2>5. CASE EraseRows(h)
    <3>1. UNCHANGED <<roles, rolePerms, userRoles>> /\ job[h].pc = "assignErase"
      BY <2>5 DEF EraseRows
    <3>2. /\ job'[h].pc = "assignCommit" /\ job'[h].target = job[h].target
          /\ job'[h].ids = job[h].ids
      BY <2>5 DEF EraseRows, TypeOK
    <3>3. UNCHANGED Admins
      BY <3>1 DEF Admins, RolesOf
    <3>4. DemotionSafe(h)'
      BY <3>1, <3>2, <3>3 DEF AdminInv, DemotionSafe
    <3> QED BY <3>1, <3>4, <1>h, AdminJobOnly
  <2>6. CASE CommitRows(h)
    <3>1. CASE ~(job[h].ids \subseteq roles)
      <4>1. Finish(h) /\ UNCHANGED <<roles, rolePerms, userRoles>>
        BY <2>6, <3>1 DEF CommitRows
      <4> QED BY <4>1, <1>f DEF AdminInv
    <3>2. CASE job[h].ids \subseteq roles
      <4> DEFINE t == job[h].target
                 new == {[role |-> r, by |-> h] : r \in job[h].ids}
      <4>1. /\ t \in Users /\ UNCHANGED <<roles, rolePerms>>
            /\ userRoles' = [userRoles EXCEPT ![t] = (@ \ job[h].rows) \cup new]
        BY <2>6, <3>2 DEF CommitRows, TypeOK
      <4>2. job'[h].pc = "idle"
        BY <2>6, <3>2 DEF CommitRows
      <4>3. DemotionSafe(h)
        BY DEF AdminInv
      <4>4. Admins' # {}
        <5>1. CASE Admin \in job[h].ids
          <6>1. [role |-> Admin, by |-> h] \in userRoles'[t]
            BY <4>1, <5>1 DEF TypeOK
          <6> QED BY <4>1, <6>1 DEF Admins, RolesOf
        <5>2. CASE \E u \in Admins : u # t
          <6>1. PICK u \in Admins : u # t
            BY <5>2
          <6>2. userRoles'[u] = userRoles[u]
            BY <4>1, <6>1 DEF Admins, TypeOK
          <6> QED BY <6>1, <6>2 DEF Admins, RolesOf
        <5> QED BY <2>6, <4>3, <5>1, <5>2 DEF CommitRows, DemotionSafe
      <4>5. DemotionSafe(h)'
        BY <4>2 DEF DemotionSafe
      <4> QED BY <4>1, <4>4, <4>5, <1>h DEF AdminInv
    <3> QED BY <3>1, <3>2
  <2> QED BY <1>3, <2>1, <2>2, <2>3, <2>4, <2>5, <2>6 DEF AssignStep
<1>4. CASE Fail(h)
  BY <1>4, <1>f DEF Fail, AdminInv
<1> QED BY <1>1, <1>2, <1>3, <1>4

(* With one handler somebody can always administer the server. *)
THEOREM OneHandlerKeepsAnAdministrator ==
  ASSUME NEW h0, Handlers = {h0}
  PROVE  Spec => []AdministrationRecoverable
<1>1. Init => TypeOK /\ AdminInv
  BY TypeInit, AdminInit
<1>2. TypeOK /\ AdminInv /\ [Next]_vars => TypeOK' /\ AdminInv'
  BY TypeStep, AdminStep
<1>3. AdminInv => AdministrationRecoverable
  BY DEF AdminInv, AdministrationRecoverable, Perms, Admins
<1> QED BY <1>1, <1>2, <1>3, PTL DEF Spec

(* What the open transaction of an assignment has erased is all there is.    *)
ErasedInv ==
  \A h \in Handlers : job[h].pc = "assignCommit" => userRoles[job[h].target] \subseteq job[h].rows

LEMMA ErasedStep ==
  ASSUME NEW h0, Handlers = {h0}
  PROVE  TypeOK /\ ErasedInv /\ [Next]_vars => ErasedInv'
<1> SUFFICES ASSUME TypeOK, ErasedInv, [Next]_vars, job'[h0].pc = "assignCommit"
             PROVE  userRoles'[job'[h0].target] \subseteq job'[h0].rows
  BY DEF ErasedInv
<1>0. job \in [Handlers -> Jobs] /\ h0 \in Handlers /\ job[h0] \in Jobs
  BY DEF TypeOK
<1>1. CASE UNCHANGED vars
  BY <1>0, <1>1 DEF vars, ErasedInv
<1>2. CASE EraseRows(h0)
  <2>1. /\ job'[h0].target = job[h0].target /\ job'[h0].rows = userRoles[job[h0].target]
        /\ userRoles' = userRoles
    BY <1>0, <1>2 DEF EraseRows
  <2> QED BY <2>1
<1>3. CASE CommitRows(h0) \/ Fail(h0)
  BY <1>0, <1>3, NoJobType DEF CommitRows, Fail, Finish
<1>4. CASE \E a \in Actors : Request(h0, a)
  BY <1>0, <1>4 DEF Request, RequestCreate, RequestUpdate, RequestDelete, RequestAssign, Start
<1>5. CASE RoleStep(h0)
  BY <1>0, <1>5, NoJobType DEF RoleStep, CheckCreate, WriteCreate, CheckUpdate, WriteUpdate, DeleteRole, Finish, Goto
<1>6. CASE ReadRoles(h0) \/ CheckAssign(h0) \/ ReadCurrent(h0) \/ CountAdmins(h0)
  BY <1>0, <1>6, NoJobType DEF ReadRoles, CheckAssign, ReadCurrent, CountAdmins, Finish, Goto
<1> QED BY <1>1, <1>2, <1>3, <1>4, <1>5, <1>6 DEF Next, AssignStep

(* One assignment at a time leaves the account exactly the roles it names:    *)
(* replaceUserRoles erases what is there and inserts what was asked for.     *)
THEOREM OneHandlerReplacesRoles ==
  ASSUME NEW h0, Handlers = {h0}
  PROVE  Spec => AssignmentReplacesRoles
<1> DEFINE Replaced(h) ==
      job[h].pc = "assignCommit" /\ userRoles' # userRoles /\ job'[h].pc = "idle"
        => {x.role : x \in userRoles'[job[h].target]} = job[h].ids
<1>1. Init => TypeOK /\ ErasedInv
  BY TypeInit, NoJobType DEF Init, ErasedInv
<1>2. TypeOK /\ ErasedInv /\ [Next]_vars => TypeOK' /\ ErasedInv'
  BY TypeStep, ErasedStep
<1>3. ASSUME TypeOK, ErasedInv, Next, NEW h \in Handlers PROVE Replaced(h)
  <2> SUFFICES ASSUME job[h].pc = "assignCommit", userRoles' # userRoles
               PROVE  {x.role : x \in userRoles'[job[h].target]} = job[h].ids
    OBVIOUS
  <2>1. CommitRows(h)
    BY <1>3 DEF Next, Request, RequestCreate, RequestUpdate, RequestDelete, RequestAssign, Authorized, Start,
         RoleStep, CheckCreate, WriteCreate, CheckUpdate, WriteUpdate, DeleteRole, AssignStep, ReadRoles,
         CheckAssign, ReadCurrent, CountAdmins, EraseRows, Fail
  <2> DEFINE t == job[h].target
  <2>2. t \in Users /\ userRoles \in [Users -> SUBSET Rows] /\ userRoles[t] \subseteq job[h].rows
    BY <1>3 DEF TypeOK, ErasedInv
  <2>3. userRoles' = [userRoles EXCEPT ![t] = (@ \ job[h].rows) \cup {[role |-> r, by |-> h] : r \in job[h].ids}]
    BY <2>1 DEF CommitRows
  <2> DEFINE new == {[role |-> r, by |-> h] : r \in job[h].ids}
  <2>4. userRoles'[t] = new
    BY <2>2, <2>3
  <2>5. {x.role : x \in new} \subseteq job[h].ids
    OBVIOUS
  <2>6. ASSUME NEW r \in job[h].ids PROVE r \in {x.role : x \in new}
    <3>1. [role |-> r, by |-> h] \in new /\ [role |-> r, by |-> h].role = r
      OBVIOUS
    <3> HIDE DEF new
    <3> QED BY <3>1
  <2> HIDE DEF new
  <2> QED BY <2>4, <2>5, <2>6
<1>4. TypeOK /\ ErasedInv /\ [Next]_vars => [\A h \in Handlers : Replaced(h)]_vars
  BY <1>3
<1> QED BY <1>1, <1>2, <1>4, PTL DEF Spec, AssignmentReplacesRoles

-----------------------------------------------------------------------------
(* The query cache of the client.                                           *)
Entries == [have : BOOLEAN, rev : Nat, invalid : BOOLEAN, aged : BOOLEAN,
            failed : BOOLEAN, missed : BOOLEAN]

CallRecords ==
  [pc : {"idle", "sent", "applied", "settling"}, rev : Nat, prior : Entries]

CacheTypes ==
  /\ scene \in Scenes
  /\ table \in Nat /\ acked \in Nat
  /\ entry \in Entries
  /\ mounted \in BOOLEAN
  /\ fetch \in [pc : {"none", "asked", "read"}, rev : Nat]
  /\ call \in CallRecords

(* What was read after the last success, or will be.  A success or a press that *)
(* met a request the cache does not restart is remembered (missed) until the   *)
(* query is asked for anew; what is shown is asked for when it was invalidated; *)
(* and what a failed guess puts back is no older.                             *)
FreshInv ==
  /\ acked <= table /\ (call.pc = "applied" => call.rev <= table)
  /\ ~entry.missed /\ fetch.pc = "read" => fetch.rev >= acked
  /\ fetch.pc = "none" /\ ~entry.missed /\ ~entry.failed /\ entry.have /\ ~entry.invalid =>
       entry.rev >= acked
  /\ mounted /\ fetch.pc = "none" /\ ~entry.failed /\ ~entry.missed => ~entry.invalid
  /\ call.prior.have /\ ~call.prior.failed /\ ~call.prior.missed => call.prior.rev >= acked
  /\ call.pc \in {"idle", "settling"} => ~call.prior.have

BrowserInv == CacheTypes /\ (Covers(mutation, query) => FreshInv)

LEMMA BrowserInvInit == BrowserInit => BrowserInv
<1> SUFFICES ASSUME BrowserInit PROVE BrowserInv
  OBVIOUS
<1>1. Empty \in Entries /\ ~Empty.have /\ ~Empty.invalid
  BY DEF Empty, Entries
<1>2. /\ NoFetch \in [pc : {"none", "asked", "read"}, rev : Nat] /\ NoFetch.pc = "none"
      /\ NoCall \in CallRecords /\ NoCall.pc = "idle" /\ ~NoCall.prior.have
  BY <1>1 DEF NoFetch, NoCall, CallRecords
<1>3. /\ scene \in Scenes /\ table = 0 /\ entry = Empty /\ mounted = FALSE /\ fetch = NoFetch
      /\ call = NoCall /\ acked = 0
  BY DEF BrowserInit
<1>4. CacheTypes
  BY <1>1, <1>2, <1>3 DEF CacheTypes
<1>5. FreshInv
  BY <1>1, <1>2, <1>3 DEF FreshInv
<1> QED BY <1>4, <1>5 DEF BrowserInv

LEMMA LoadTypes ==
  ASSUME CacheTypes, Load
  PROVE  /\ entry' \in Entries /\ fetch' \in [pc : {"none", "asked", "read"}, rev : Nat]
         /\ \/ /\ fetch.pc = "none" /\ fetch' = Asked /\ entry'.have = entry.have
               /\ entry'.invalid = entry.invalid /\ entry'.failed = entry.failed
               /\ entry'.rev = entry.rev
            \/ entry' = entry /\ fetch' = fetch /\ (fetch.pc # "none" \/ ~entry.invalid)
<1>1. entry \in Entries /\ fetch \in [pc : {"none", "asked", "read"}, rev : Nat]
  BY DEF CacheTypes
<1>2. CASE fetch.pc = "none" /\ (~entry.have \/ entry.invalid \/ entry.aged)
  <2>1. fetch' = Asked /\ entry' = [entry EXCEPT !.missed = FALSE]
    BY <1>2 DEF Load
  <2>2. Asked \in [pc : {"none", "asked", "read"}, rev : Nat]
    BY DEF Asked
  <2>3. /\ entry' \in Entries /\ entry'.have = entry.have /\ entry'.invalid = entry.invalid
        /\ entry'.failed = entry.failed /\ entry'.rev = entry.rev
    BY <1>1, <2>1 DEF Entries
  <2> QED BY <1>2, <2>1, <2>2, <2>3
<1>3. CASE fetch.pc # "none" \/ ~(~entry.have \/ entry.invalid \/ entry.aged)
  BY <1>1, <1>3 DEF Load
<1> QED BY <1>2, <1>3

LEMMA BrowserStep == BrowserInv /\ [BrowserNext]_browserVars => BrowserInv'
<1> SUFFICES ASSUME BrowserInv, [BrowserNext]_browserVars PROVE BrowserInv'
  OBVIOUS
<1>1. CacheTypes /\ (Covers(mutation, query) => FreshInv)
  BY DEF BrowserInv
<1>0. NoCall \in CallRecords /\ NoCall.pc = "idle" /\ ~NoCall.prior.have
  BY DEF NoCall, CallRecords, Empty, Entries
<1>2. CASE UNCHANGED browserVars
  BY <1>1, <1>2 DEF browserVars, BrowserInv, CacheTypes, FreshInv, mutation, query
<1>3. CASE Show
  <2>1. Load /\ mounted' = TRUE /\ UNCHANGED <<scene, table, call, acked>>
    BY <1>3 DEF Show
  <2>2. CacheTypes'
    BY <1>1, <2>1, LoadTypes DEF CacheTypes
  <2>3. FreshInv => FreshInv'
    BY <1>1, <2>1, LoadTypes DEF FreshInv, Asked
  <2> QED BY <1>1, <2>1, <2>2, <2>3 DEF BrowserInv, mutation, query
<1>4. CASE Leave \/ Elsewhere
  <2>1. CacheTypes'
    <3>1. /\ table' \in {table, table + 1} /\ mounted' \in {mounted, FALSE}
          /\ UNCHANGED <<scene, entry, fetch, acked, call>>
      BY <1>4 DEF Leave, Elsewhere
    <3>2. table' \in Nat
      BY <1>1, <3>1 DEF CacheTypes
    <3>3. mounted' \in BOOLEAN
      BY <1>1, <3>1, Zenon DEF CacheTypes
    <3> QED BY <1>1, <3>1, <3>2, <3>3 DEF CacheTypes
  <2>2. FreshInv => FreshInv'
    <3>1. /\ UNCHANGED <<entry, fetch, acked, call>> /\ (mounted' => mounted)
          /\ table' = table \/ table' = table + 1
      BY <1>4 DEF Leave, Elsewhere
    <3>2. acked \in Nat /\ table \in Nat /\ (call.pc = "applied" => call.rev \in Nat)
      BY <1>1 DEF CacheTypes, CallRecords
    <3>3. acked <= table /\ (call.pc = "applied" => call.rev <= table) =>
            acked' <= table' /\ (call'.pc = "applied" => call'.rev <= table')
      BY <3>1, <3>2
    <3> QED BY <3>1, <3>3, Zenon DEF FreshInv
  <2>3. UNCHANGED scene
    BY <1>4 DEF Leave, Elsewhere
  <2> QED BY <1>1, <2>1, <2>2, <2>3 DEF BrowserInv, mutation, query
<1>12. CASE Press
  <2> DEFINE gone == Cancels(mutation, query) /\ fetch.pc # "none"
             kept == IF gone THEN [entry EXCEPT !.missed = TRUE] ELSE entry
             guess == Guesses(mutation, query)
  <2>1. /\ mounted /\ UNCHANGED <<scene, table, mounted, acked>>
        /\ call' = [pc |-> "sent", rev |-> 0, prior |-> IF guess THEN kept ELSE Empty]
        /\ fetch' = IF gone THEN NoFetch ELSE fetch
        /\ entry' \in {kept, [kept EXCEPT !.invalid = FALSE, !.aged = FALSE]}
        /\ entry' = kept \/ guess
    BY <1>12 DEF Press
  <2>2. /\ kept \in Entries /\ kept.have = entry.have /\ kept.rev = entry.rev
        /\ kept.failed = entry.failed /\ kept.invalid = entry.invalid
        /\ IF gone THEN kept.missed ELSE kept = entry
    BY <1>1 DEF CacheTypes, Entries
  <2>3. guess /\ ~gone => fetch.pc = "none"
    BY DEF Guesses
  <2>4. Empty \in Entries /\ ~Empty.have
    BY DEF Empty, Entries
  <2> HIDE DEF gone, kept, guess
  <2>5. /\ call' \in CallRecords /\ call'.pc = "sent"
        /\ call'.prior = IF guess THEN kept ELSE Empty
    BY <2>1, <2>2, <2>4 DEF CallRecords
  <2>6. /\ entry' \in Entries /\ entry'.have = kept.have /\ entry'.rev = kept.rev
        /\ entry'.failed = kept.failed /\ entry'.missed = kept.missed
        /\ entry' = kept \/ guess
    BY <2>1, <2>2 DEF Entries
  <2>7. CacheTypes'
    BY <1>1, <2>1, <2>5, <2>6 DEF CacheTypes, NoFetch
  <2>8. FreshInv => FreshInv'
    <3> SUFFICES ASSUME FreshInv PROVE FreshInv'
      OBVIOUS
    <3>1. CASE gone
      <4>1. entry'.missed /\ fetch'.pc = "none" /\ (call'.prior.have => call'.prior.missed)
        BY <2>1, <2>2, <2>4, <2>5, <2>6, <3>1 DEF NoFetch
      <4> QED BY <2>1, <2>5, <4>1 DEF FreshInv
    <3>2. CASE ~gone
      <4>1. /\ fetch' = fetch /\ kept = entry /\ (guess => fetch.pc = "none")
            /\ call'.prior = IF guess THEN entry ELSE Empty
        BY <2>1, <2>2, <2>3, <2>5, <3>2
      <4>2. entry' = entry \/ (guess /\ ~entry'.invalid)
        BY <2>1, <2>2, <4>1 DEF Entries
      <4>3. fetch.pc = "none" /\ ~entry.missed /\ ~entry.failed /\ entry.have => entry.rev >= acked
        BY <2>1 DEF FreshInv
      <4> QED BY <2>1, <2>4, <2>5, <2>6, <4>1, <4>2, <4>3 DEF FreshInv
    <3> QED BY <3>1, <3>2
  <2> QED BY <1>1, <2>1, <2>7, <2>8 DEF BrowserInv, mutation, query
<1>13. CASE CallFails
  <2>1. /\ call' = NoCall /\ UNCHANGED <<scene, table, mounted, fetch, acked>>
        /\ call.pc \in {"sent", "applied"}
    BY <1>13 DEF CallFails
  <2>2. /\ entry' \in Entries
        /\ \/ entry' = entry
           \/ /\ call.prior.have /\ ~entry'.invalid /\ entry'.rev = call.prior.rev
              /\ entry'.failed = call.prior.failed
              /\ entry'.missed = (call.prior.missed \/ entry.missed)
    <3> DEFINE e == [call.prior EXCEPT !.invalid = FALSE, !.aged = FALSE,
                                       !.missed = @ \/ entry.missed]
    <3>1. call.prior \in Entries /\ entry \in Entries
      BY <1>1 DEF CacheTypes, CallRecords
    <3>2. /\ e \in Entries /\ ~e.invalid /\ e.rev = call.prior.rev
          /\ e.failed = call.prior.failed /\ e.missed = (call.prior.missed \/ entry.missed)
      BY <3>1 DEF Entries
    <3>3. entry' = IF call.prior.have THEN e ELSE entry
      BY <1>13 DEF CallFails
    <3> HIDE DEF e
    <3> QED BY <3>1, <3>2, <3>3
  <2>3. CacheTypes'
    BY <1>0, <1>1, <2>1, <2>2 DEF CacheTypes
  <2>4. FreshInv => FreshInv'
    BY <1>0, <1>1, <2>1, <2>2 DEF CacheTypes, FreshInv
  <2> QED BY <1>1, <2>1, <2>3, <2>4 DEF BrowserInv, mutation, query
<1>5. CASE Age
  <2>1. CacheTypes'
    BY <1>1, <1>5 DEF CacheTypes, Age, Entries
  <2>2. FreshInv => FreshInv'
    BY <1>1, <1>5 DEF CacheTypes, FreshInv, Age, Entries
  <2>3. UNCHANGED scene
    BY <1>5 DEF Age
  <2> QED BY <1>1, <2>1, <2>2, <2>3 DEF BrowserInv, mutation, query
<1>6. CASE Collect
  <2>1. CacheTypes'
    BY <1>1, <1>6 DEF CacheTypes, Collect, Entries, Empty
  <2>2. FreshInv => FreshInv'
    BY <1>1, <1>6 DEF CacheTypes, FreshInv, Collect, Empty
  <2>3. UNCHANGED scene
    BY <1>6 DEF Collect
  <2> QED BY <1>1, <2>1, <2>2, <2>3 DEF BrowserInv, mutation, query
<1>7. CASE Read
  <2>1. CacheTypes'
    BY <1>1, <1>7 DEF CacheTypes, Read
  <2>2. FreshInv => FreshInv'
    BY <1>1, <1>7 DEF CacheTypes, FreshInv, Read
  <2>3. UNCHANGED scene
    BY <1>7 DEF Read
  <2> QED BY <1>1, <2>1, <2>2, <2>3 DEF BrowserInv, mutation, query
<1>8. CASE Receive
  <2>1. /\ entry'.have /\ entry'.rev = fetch.rev /\ ~entry'.invalid /\ entry'.missed = entry.missed
        /\ entry' \in Entries /\ UNCHANGED <<scene, table, mounted, acked>>
    BY <1>1, <1>8 DEF CacheTypes, Receive, Entries, Empty
  <2>2. fetch' = NoFetch /\ fetch.pc = "read" /\ (call' = NoCall \/ call' = call)
    BY <1>8 DEF Receive, Settled
  <2>3. CacheTypes'
    BY <1>0, <1>1, <2>1, <2>2 DEF CacheTypes, NoFetch
  <2>4. FreshInv => FreshInv'
    BY <1>0, <2>1, <2>2 DEF FreshInv, NoFetch
  <2> QED BY <1>1, <2>1, <2>3, <2>4 DEF BrowserInv, mutation, query
<1>9. CASE FetchFails
  <2>1. entry' \in Entries /\ entry'.failed = TRUE /\ UNCHANGED <<scene, table, mounted, acked>>
    BY <1>1, <1>9 DEF CacheTypes, FetchFails, Entries
  <2>2. fetch' = NoFetch /\ (call' = NoCall \/ call' = call)
    BY <1>9 DEF FetchFails, Settled
  <2>3. CacheTypes'
    BY <1>0, <1>1, <2>1, <2>2 DEF CacheTypes, NoFetch
  <2>4. FreshInv => FreshInv'
    BY <1>0, <2>1, <2>2 DEF FreshInv, NoFetch
  <2> QED BY <1>1, <2>1, <2>3, <2>4 DEF BrowserInv, mutation, query
<1>10. CASE Apply
  <2>1. /\ table' = table + 1 /\ UNCHANGED <<scene, entry, mounted, fetch, acked>>
        /\ call.pc = "sent" /\ call' = [call EXCEPT !.pc = "applied", !.rev = table']
    BY <1>10 DEF Apply
  <2>2. /\ table' \in Nat /\ call' \in CallRecords /\ call'.pc = "applied"
        /\ call'.rev = table' /\ call'.prior = call.prior
    <3>1. call \in CallRecords /\ table' \in Nat
      BY <1>1, <2>1 DEF CacheTypes
    <3> HIDE DEF Entries
    <3> QED BY <2>1, <3>1 DEF CallRecords
  <2>3. CacheTypes'
    BY <1>1, <2>1, <2>2 DEF CacheTypes
  <2>4. FreshInv => FreshInv'
    BY <1>1, <2>1, <2>2 DEF CacheTypes, FreshInv
  <2> QED BY <1>1, <2>1, <2>3, <2>4 DEF BrowserInv, mutation, query
<1>11. CASE Succeed
  <2>1. /\ call.pc = "applied" /\ acked' = call.rev /\ UNCHANGED <<scene, table, mounted>>
        /\ call' = NoCall \/ call' = [NoCall EXCEPT !.pc = "settling"]
    BY <1>11 DEF Succeed
  <2>2. call' \in CallRecords /\ call'.pc \in {"idle", "settling"} /\ ~call'.prior.have
    BY <1>0, <2>1 DEF CallRecords
  <2>3. acked' \in Nat /\ (FreshInv => acked' <= table')
    BY <1>1, <2>1 DEF CacheTypes, CallRecords, FreshInv
  <2>4. CASE Store
    <3>1. /\ entry' \in Entries /\ entry'.rev = acked' /\ ~entry'.invalid /\ fetch' = fetch
          /\ fetch.pc # "none" => entry'.missed
      BY <1>1, <2>1, <2>4 DEF CacheTypes, CallRecords, Store, Entries, Empty
    <3>2. CacheTypes'
      BY <1>1, <2>1, <2>2, <2>3, <3>1 DEF CacheTypes
    <3>3. FreshInv => FreshInv'
      BY <1>1, <2>1, <2>2, <2>3, <3>1 DEF CacheTypes, FreshInv
    <3> QED BY <1>1, <2>1, <3>2, <3>3 DEF BrowserInv, mutation, query
  <2>5. CASE Refetch
    <3>1. /\ entry' \in Entries /\ entry'.invalid = TRUE /\ entry'.have = entry.have
          /\ entry'.failed = entry.failed
          /\ entry'.missed = (fetch.pc # "none" /\ (~mounted \/ ~entry.have))
      BY <1>1, <2>5 DEF CacheTypes, Refetch, Entries
    <3>2. fetch' = IF mounted /\ ~entry'.missed THEN Asked ELSE fetch
      BY <2>5, <3>1 DEF Refetch
    <3>3. CacheTypes'
      BY <1>1, <2>1, <2>2, <2>3, <3>1, <3>2 DEF CacheTypes, Asked
    <3>4. FreshInv => FreshInv'
      BY <1>1, <2>1, <2>2, <2>3, <3>1, <3>2 DEF CacheTypes, FreshInv, Asked
    <3> QED BY <1>1, <2>1, <3>3, <3>4 DEF BrowserInv, mutation, query
  <2>6. CASE Flip
    <3>1. /\ entry' \in Entries /\ fetch' = fetch /\ (fetch.pc # "none" => entry'.missed)
          /\ IF entry.have THEN ~entry'.invalid /\ (entry'.missed \/ entry'.rev = acked')
             ELSE /\ ~entry'.have /\ entry'.invalid = entry.invalid
                  /\ entry'.failed = entry.failed /\ (entry.missed => entry'.missed)
      <4>1. entry \in Entries /\ call.rev \in Nat
        BY <1>1 DEF CacheTypes, CallRecords
      <4>2. CASE entry.have
        <5> DEFINE b == fetch.pc # "none" \/ entry.rev + 1 # call.rev
                   n == entry.rev + 1
                   e == [Empty EXCEPT !.have = TRUE, !.rev = n, !.missed = b]
        <5>0. b \in BOOLEAN /\ n \in Nat
          BY <4>1 DEF Entries
        <5>2. entry' = e /\ fetch' = fetch
          BY <2>6, <4>2 DEF Flip
        <5>3. (fetch.pc # "none" => b) /\ (b \/ n = call.rev)
          OBVIOUS
        <5> HIDE DEF b, n
        <5>1. e \in Entries /\ ~e.invalid /\ e.rev = n /\ e.missed = b
          BY <5>0 DEF Entries, Empty
        <5> HIDE DEF e
        <5> QED BY <2>1, <4>2, <5>1, <5>2, <5>3
      <4>3. CASE ~entry.have
        BY <2>6, <4>1, <4>3 DEF Flip, Entries
      <4> QED BY <4>2, <4>3
    <3>2. CacheTypes'
      BY <1>1, <2>1, <2>2, <2>3, <3>1 DEF CacheTypes
    <3>3. FreshInv => FreshInv'
      BY <1>1, <2>1, <2>2, <2>3, <3>1 DEF CacheTypes, FreshInv
    <3> QED BY <1>1, <2>1, <3>2, <3>3 DEF BrowserInv, mutation, query
  <2>7. CASE UNCHANGED <<entry, fetch>> /\ ~Covers(mutation, query)
    <3>1. CacheTypes'
      BY <1>1, <2>1, <2>2, <2>3, <2>7 DEF CacheTypes
    <3> QED BY <2>1, <2>7, <3>1 DEF BrowserInv, mutation, query
  <2> QED BY <1>11, <2>4, <2>5, <2>6, <2>7 DEF Succeed, Covers
<1> QED BY <1>2, <1>3, <1>4, <1>5, <1>6, <1>7, <1>8, <1>9, <1>10, <1>11, <1>12, <1>13
        DEF BrowserNext

LEMMA BrowserAlways == BrowserSpec => []BrowserInv
BY BrowserInvInit, BrowserStep, PTL DEF BrowserSpec

(* A page at rest shows what its own mutations changed, where their hooks do    *)
(* something about the query, for any number of changes and however fetches,  *)
(* invalidations, guesses and leaving the page overlap: invalidateQueries is   *)
(* enough, with the excuses that ShowsOwnWrites names for setQueryData and     *)
(* cancelQueries.                                                            *)
THEOREM PagesShowOwnWrites == BrowserSpec => []ShowsOwnWrites
<1>1. BrowserInv => ShowsOwnWrites
  BY DEF BrowserInv, FreshInv, ShowsOwnWrites, AtRest
<1> QED BY <1>1, BrowserAlways, PTL

-----------------------------------------------------------------------------
(* The router of the client.  A page that is shown is one at which no guard   *)
(* throws, and after a redirect the guards either end or are at Home, from    *)
(* where they lead to the notice of a maintenance or to Login.                *)
Final(p) == Thrown(p) = {}

NavInv ==
  /\ viewer \in Viewers
  /\ settled => Final(place)
  /\ hops \in 0..2
  /\ hops = 1 => place = "Home" \/ Final(place)
  /\ hops = 2 => Final(place)

LEMMA NavInvInit == NavInit => NavInv
BY DEF NavInit, NavInv

(* The pages of the redirects: the notice and Login are left no more, and     *)
(* Home is left for one of them.                                             *)
LEMMA NoticeIsFinal ==
  ASSUME known.maintenance, ~Bypasses
  PROVE  Final("Maintenance")
<1>1. "Maintenance" \notin AnonymousRoutes \cup OwnRoutes \cup DOMAIN AdminPages
  BY RouteNames
<1> QED BY <1>1 DEF Final, Thrown, RootGuard, RootGuardPast, PageGuard, MaintenanceRoutes

LEMMA LoginIsFinal ==
  ASSUME ~viewer.signedIn
  PROVE  Final("Login")
<1>1. "Login" \in AnonymousRoutes /\ "Login" \notin OwnRoutes \cup DOMAIN AdminPages
  BY RouteNames
<1> QED BY <1>1 DEF Final, Thrown, RootGuard, RootGuardPast, PageGuard, MaintenanceRoutes

LEMMA HomeIsLeftOnce ==
  ASSUME NEW p \in Thrown("Home") PROVE p \in {"Maintenance", "Login"} /\ Final(p)
<1>1. "Home" \notin AnonymousRoutes \cup OwnRoutes \cup DOMAIN AdminPages
  BY RouteNames
<1>2. PageGuard("Home") = {}
  BY <1>1 DEF PageGuard
<1>3. p \in RootGuard("Home")
  BY <1>2 DEF Thrown
<1>4. \/ p = "Maintenance" /\ known.maintenance /\ ~Bypasses
      \/ p = "Login" /\ ~viewer.signedIn
  BY <1>1, <1>3 DEF RootGuard, RootGuardPast
<1> QED BY <1>4, NoticeIsFinal, LoginIsFinal

LEMMA RedirectsLead ==
  ASSUME NEW q, NEW p \in Thrown(q) PROVE p = "Home" \/ Final(p)
<1>1. \/ p = "Maintenance" /\ known.maintenance /\ ~Bypasses
      \/ p = "Login" /\ ~viewer.signedIn
      \/ p = "Home"
  BY DEF Thrown, RootGuard, RootGuardPast, PageGuard
<1> QED BY <1>1, NoticeIsFinal, LoginIsFinal

LEMMA NavInvStep == NavInv /\ [NavNext]_navVars => NavInv'
<1> SUFFICES ASSUME NavInv, [NavNext]_navVars PROVE NavInv'
  OBVIOUS
<1>1. CASE Redirect
  <2>0. /\ UNCHANGED <<viewer, known, settled>> /\ ~settled /\ hops' = hops + 1
        /\ place' \in Thrown(place)
    BY <1>1 DEF Redirect
  <2>1. hops # 2
    BY <2>0 DEF NavInv, Final
  <2>2. CASE hops = 0
    <3>1. place' = "Home" \/ Final(place')
      BY <2>0, RedirectsLead
    <3>2. Final(place') => Final(place)'
      BY <2>0 DEF Final, Thrown, RootGuard, RootGuardPast, PageGuard, Bypasses
    <3> QED BY <2>0, <2>2, <3>1, <3>2 DEF NavInv
  <2>3. CASE hops = 1
    <3>1. place = "Home"
      BY <2>0, <2>3 DEF NavInv, Final
    <3>2. Final(place')
      BY <2>0, <3>1, HomeIsLeftOnce
    <3>3. Final(place)'
      BY <2>0, <3>2 DEF Final, Thrown, RootGuard, RootGuardPast, PageGuard, Bypasses
    <3> QED BY <2>0, <2>3, <3>3 DEF NavInv
  <2> QED BY <2>1, <2>2, <2>3 DEF NavInv
<1>2. CASE ShowPage
  <2>1. UNCHANGED <<viewer, known, place, hops>> /\ Final(place)
    BY <1>2 DEF ShowPage, Final
  <2>2. Final(place)'
    BY <2>1 DEF Final, Thrown, RootGuard, RootGuardPast, PageGuard, Bypasses
  <2> QED BY <2>1, <2>2 DEF NavInv
<1>3. CASE FetchSettings \/ \E p \in Places : Go(p)
  <2>1. viewer' = viewer /\ ~settled' /\ hops' = 0
    BY <1>3 DEF FetchSettings, Go
  <2> QED BY <2>1 DEF NavInv
<1>4. CASE (\E s \in Sites \ {site} : ChangeSite(s)) \/ UNCHANGED navVars
  <2>1. UNCHANGED <<viewer, known, place, settled, hops>>
    BY <1>4 DEF ChangeSite, navVars
  <2>2. Final(place)' = Final(place)
    BY <2>1 DEF Final, Thrown, RootGuard, RootGuardPast, PageGuard, Bypasses
  <2> QED BY <2>1, <2>2 DEF NavInv
<1> QED BY <1>1, <1>2, <1>3, <1>4 DEF NavNext

(* Nobody is shown a page of a site that the server does not admit them to,   *)
(* for any set of users, however the settings change and whatever is asked    *)
(* for: what the root route redirects is all that requireSiteAuthentication   *)
(* refuses, but for the bypass without the role admin.                        *)
THEOREM ShownAreAdmitted == NavSpec => []ShownPagesAreAdmitted
<1>1. NavInv => ShownPagesAreAdmitted
  <2> SUFFICES ASSUME NavInv, settled, known = site, place \in DOMAIN AllPages \ AnonymousRoutes,
                      Bypasses => viewer.admin
               PROVE  SiteAdmits(viewer, Mode)
    BY DEF ShownPagesAreAdmitted
  <2>1. RootGuard(place) = {}
    BY DEF NavInv, Final, Thrown
  <2>2. place # "Maintenance" /\ place # "Login"
    BY RouteNames
  <2>3. CASE site.maintenance
    <3>1. Bypasses
      BY <2>1, <2>2, <2>3 DEF RootGuard, RootGuardPast, MaintenanceRoutes
    <3>2. viewer.signedIn
      BY <3>1, ViewersAssumption DEF NavInv, Bypasses
    <3> QED BY <2>3, <3>1, <3>2 DEF SiteAdmits, Mode
  <2>4. CASE ~site.maintenance /\ site.requireAuth
    <3>1. viewer.signedIn
      BY <2>1, <2>2, <2>4 DEF RootGuard, RootGuardPast
    <3> QED BY <2>4, <3>1 DEF SiteAdmits, Mode
  <2>5. CASE ~site.maintenance /\ ~site.requireAuth
    BY <2>5 DEF SiteAdmits, Mode
  <2> QED BY <2>3, <2>4, <2>5
<1> QED BY <1>1, NavInvInit, NavInvStep, PTL DEF NavSpec

(* Two redirects at most, for any set of users and however settings change.   *)
THEOREM GuardsEnd == NavSpec => []RedirectsEnd
<1>1. NavInv => RedirectsEnd
  BY DEF NavInv, RedirectsEnd
<1> QED BY <1>1, NavInvInit, NavInvStep, PTL DEF NavSpec
=============================================================================

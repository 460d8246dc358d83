-------------------------------- MODULE Groups --------------------------------
(***************************************************************************)
(* GroupsService: groups, the role each account has in them and who follows *)
(* them.  A request reads the role of its sender, then the membership it    *)
(* changes, then writes; another request can run between any two of these. *)
(***************************************************************************)
EXTENDS Naturals, FiniteSets

CONSTANTS
  Users,          \* accounts
  GroupIds,       \* ids a group can get; an id is never used again
  GroupHandlers,  \* group requests that can be in flight together
  FirstGroups,    \* groups there are at the start
  FirstRoles,     \* roles of the accounts in them
  MaxGroupJobs    \* bound on the group requests of a behaviour

VARIABLES
  groups,     \* rows of groups
  used,       \* ids that have been given to a group
  member,     \* user_groups: a role for each account and group, or "none"
  followers,  \* group_follows
  gjob,       \* requests in flight
  gbegun,     \* how many requests have begun
  readded     \* groups whose owner was added again by another manager (history)

groupsVars == <<groups, used, member, followers, gjob, gbegun, readded>>

GroupRoles == {"owner", "admin", "member"}
Managers == {"owner", "admin"}
Operations == {"create", "rename", "remove", "add", "update", "expel", "leave", "follow"}
GroupPCs == {"idle", "authorize", "check", "write"}

ASSUME GroupsAssumption ==
  /\ FirstGroups \subseteq GroupIds
  /\ FirstRoles \in [FirstGroups -> [Users -> GroupRoles \cup {"none"}]]
  /\ MaxGroupJobs \in Nat

(* A group is stored with its owner, in one statement. *)
ASSUME FirstOwners ==
  \A g \in FirstGroups : \E u \in Users : {w \in Users : FirstRoles[g][w] = "owner"} = {u}

(* held and seen are the roles read for the sender and for the target.       *)
IdleGroupJob ==
  [pc |-> "idle", op |-> "create", actor |-> CHOOSE u \in Users : TRUE,
   group |-> CHOOSE g \in GroupIds : TRUE, target |-> CHOOSE u \in Users : TRUE,
   role |-> "member", held |-> "none", seen |-> "none", follows |-> FALSE, overtaken |-> FALSE]

GroupsInit ==
  /\ groups = FirstGroups
  /\ used = FirstGroups
  /\ member = [g \in GroupIds |-> [u \in Users |->
                 IF g \in FirstGroups THEN FirstRoles[g][u] ELSE "none"]]
  /\ followers = [g \in GroupIds |-> {}]
  /\ gjob = [h \in GroupHandlers |-> IdleGroupJob]
  /\ gbegun = 0
  /\ readded = {}

MemberOf(u, g) == g \in groups /\ member[g][u] # "none"
Owners(g) == {u \in Users : member[g][u] = "owner"}

-----------------------------------------------------------------------------
SendGroup(h, op, actor, g, target, role) ==
  /\ gjob[h].pc = "idle" /\ gbegun < MaxGroupJobs
  /\ gbegun' = gbegun + 1
  /\ gjob' = [gjob EXCEPT ![h] =
       [IdleGroupJob EXCEPT !.pc = "authorize", !.op = op, !.actor = actor, !.group = g,
                            !.target = target, !.role = role]]
  /\ UNCHANGED <<groups, used, member, followers, readded>>

GroupAnswer(h) == gjob' = [gjob EXCEPT ![h] = IdleGroupJob]

Is(h, op, pc) == gjob[h].op = op /\ gjob[h].pc = pc

(* create: the group and its owner in one statement; a slug that is taken is  *)
(* an answer.                                                               *)
CreateGroup(h) ==
  LET g == gjob[h].group IN
    /\ Is(h, "create", "authorize")
    /\ IF g \in used
       THEN UNCHANGED <<groups, used, member>>
       ELSE /\ groups' = groups \cup {g} /\ used' = used \cup {g}
            /\ member' = [member EXCEPT ![g][gjob[h].actor] = "owner"]
    /\ GroupAnswer(h)
    /\ UNCHANGED <<followers, gbegun, readded>>

(* requireManager; only the owner removes the group and cannot leave it.      *)
MayProceed(op, held) ==
  CASE op = "remove" -> held = "owner"
    [] op = "leave" -> held \notin {"none", "owner"}
    [] OTHER -> held \in Managers

(* requireGroup and the role of the sender. *)
Authorize(h) ==
  LET g == gjob[h].group
      held == member[g][gjob[h].actor]
  IN /\ gjob[h].pc = "authorize" /\ gjob[h].op \notin {"create", "follow"}
     /\ IF g \in groups /\ MayProceed(gjob[h].op, held)
        THEN gjob' = [gjob EXCEPT ![h].held = held,
                ![h].pc = IF gjob[h].op \in {"add", "update", "expel"} THEN "check" ELSE "write"]
        ELSE GroupAnswer(h)
     /\ UNCHANGED <<groups, used, member, followers, gbegun, readded>>

(* The rules of addMember, updateMember and removeMember. *)
TargetAllowed(job, seen) ==
  CASE job.op = "add" -> job.role # "owner" /\ job.target # job.actor
    [] job.op = "update" -> /\ seen \notin {"none", "owner"} /\ job.role # "owner"
                            /\ job.held # "owner" => seen # "admin"
    [] job.op = "expel" -> /\ seen \notin {"none", "owner"}
                           /\ job.held # "owner" => seen # "admin"

CheckTarget(h) ==
  LET seen == member[gjob[h].group][gjob[h].target] IN
    /\ gjob[h].pc = "check"
    /\ IF TargetAllowed(gjob[h], seen)
       THEN gjob' = [gjob EXCEPT ![h].pc = "write", ![h].seen = seen]
       ELSE GroupAnswer(h)
    /\ UNCHANGED <<groups, used, member, followers, gbegun, readded>>

(* A write that changes a role overtakes the requests that have read it.      *)
Overtaken(p, g, u) ==
  gjob[p].group = g /\ gjob[p].pc \in {"check", "write"} /\ u \in {gjob[p].actor, gjob[p].target}

WriteRole(h, role) ==
  LET g == gjob[h].group
      u == IF gjob[h].op = "leave" THEN gjob[h].actor ELSE gjob[h].target
  IN /\ member' = [member EXCEPT ![g][u] = role]
     /\ gjob' = [p \in GroupHandlers |->
          IF p = h THEN IdleGroupJob
          ELSE [gjob[p] EXCEPT !.overtaken = @ \/ (Overtaken(p, g, u) /\ member[g][u] # role)]]

(* An upsert, whatever the role of an account that already belongs.           *)
AddMember(h) ==
  LET g == gjob[h].group IN
    /\ Is(h, "add", "write")
    /\ IF g \in groups
       THEN /\ WriteRole(h, gjob[h].role)
            /\ readded' = IF member[g][gjob[h].target] = "owner" THEN readded \cup {g} ELSE readded
       ELSE GroupAnswer(h) /\ UNCHANGED <<member, readded>>
    /\ UNCHANGED <<groups, used, followers, gbegun>>

(* A row that is gone by now fails the statement. *)
UpdateMember(h) ==
  /\ Is(h, "update", "write")
  /\ IF MemberOf(gjob[h].target, gjob[h].group)
     THEN WriteRole(h, gjob[h].role)
     ELSE GroupAnswer(h) /\ UNCHANGED member
  /\ UNCHANGED <<groups, used, followers, gbegun, readded>>

RemoveMember(h) ==
  /\ Is(h, "expel", "write") \/ Is(h, "leave", "write")
  /\ IF MemberOf(IF gjob[h].op = "leave" THEN gjob[h].actor ELSE gjob[h].target, gjob[h].group)
     THEN WriteRole(h, "none")
     ELSE GroupAnswer(h) /\ UNCHANGED member
  /\ UNCHANGED <<groups, used, followers, gbegun, readded>>

(* update: names and description. *)
RenameGroup(h) ==
  /\ Is(h, "rename", "write")
  /\ GroupAnswer(h)
  /\ UNCHANGED <<groups, used, member, followers, gbegun, readded>>

(* Memberships and follows go with the group; its articles stay (Articles).   *)
DeleteGroup(h) ==
  LET g == gjob[h].group IN
    /\ Is(h, "remove", "write") /\ g \in groups
    /\ groups' = groups \ {g}
    /\ member' = [member EXCEPT ![g] = [u \in Users |-> "none"]]
    /\ followers' = [followers EXCEPT ![g] = {}]
    /\ gjob' = [p \in GroupHandlers |->
         IF p = h THEN IdleGroupJob
         ELSE [gjob[p] EXCEPT !.overtaken = @ \/ gjob[p].group = g]]
    /\ UNCHANGED <<used, gbegun, readded>>

(* toggleFollowing: look, then add or remove; a row that is already there or  *)
(* already gone fails the statement.                                        *)
FindFollow(h) ==
  LET g == gjob[h].group IN
    /\ Is(h, "follow", "authorize")
    /\ IF g \in groups
       THEN gjob' = [gjob EXCEPT ![h].pc = "write", ![h].follows = gjob[h].actor \in followers[g]]
       ELSE GroupAnswer(h)
    /\ UNCHANGED <<groups, used, member, followers, gbegun, readded>>

ToggleFollow(h) ==
  LET g == gjob[h].group IN
    /\ Is(h, "follow", "write")
    /\ followers' = IF g \notin groups THEN followers
                    ELSE [followers EXCEPT ![g] = IF gjob[h].follows THEN @ \ {gjob[h].actor}
                                                  ELSE @ \cup {gjob[h].actor}]
    /\ GroupAnswer(h)
    /\ UNCHANGED <<groups, used, member, gbegun, readded>>

FailGroup(h) ==
  /\ gjob[h].pc # "idle"
  /\ GroupAnswer(h)
  /\ UNCHANGED <<groups, used, member, followers, gbegun, readded>>

(* Everything but DeleteGroup, which Articles joins to the articles.          *)
GroupStep(h) ==
  \/ CreateGroup(h) \/ Authorize(h) \/ CheckTarget(h)
  \/ AddMember(h) \/ UpdateMember(h) \/ RemoveMember(h) \/ RenameGroup(h)
  \/ FindFollow(h) \/ ToggleFollow(h)

-----------------------------------------------------------------------------
GroupsTypeOK ==
  /\ groups \subseteq used /\ used \subseteq GroupIds
  /\ member \in [GroupIds -> [Users -> GroupRoles \cup {"none"}]]
  /\ followers \in [GroupIds -> SUBSET Users]
  /\ \A h \in GroupHandlers :
       gjob[h].pc \in GroupPCs /\ gjob[h].op \in Operations /\ gjob[h].role \in GroupRoles
  /\ gbegun \in 0..MaxGroupJobs

(* A group has one owner, who is never removed, demoted or doubled by any     *)
(* interleaving of requests (groupsService OwnerCannotLeave), unless another *)
(* manager adds the owner again, which overwrites the role.                 *)
OneOwner ==
  \A g \in GroupIds :
    IF g \in groups THEN Cardinality(Owners(g)) = 1 \/ g \in readded
    ELSE \A u \in Users : member[g][u] = "none"

(* A membership is changed by its account or by a manager whose role still    *)
(* stands at the write, and who may change it by the role it then has; only  *)
(* a request that was overtaken by another, or one that adds a member, goes *)
(* past that.                                                               *)
ChangeAllowed(h, g, u) ==
  LET job == gjob[h] IN
    /\ job.pc = "write" /\ job.group = g
    /\ \/ job.op = "create" \/ job.overtaken
       \/ job.op = "leave" /\ u = job.actor /\ member[g][u] # "owner"
       \/ job.op = "remove" /\ member[g][job.actor] = "owner"
       \/ job.op = "add" /\ u = job.target /\ member[g][job.actor] \in Managers
       \/ /\ job.op \in {"update", "expel"} /\ u = job.target
          /\ member[g][job.actor] = "owner"
             \/ (member[g][job.actor] = "admin" /\ member[g][u] = "member")

MembershipsManaged ==
  [][\A g \in GroupIds, u \in Users :
       g \in groups /\ member'[g][u] # member[g][u] =>
         \E h \in GroupHandlers : ChangeAllowed(h, g, u)]_groupsVars
=============================================================================

--------------------------- MODULE Articles_proofs ---------------------------
(* For every set of accounts, groups, articles and handlers: groups keep    *)
(* one owner and articles one text, and whoever changes either may do so    *)
(* when the change takes effect.                                            *)
EXTENDS Articles, FiniteSetTheorems, TLAPS

-----------------------------------------------------------------------------
(* Groups.  The requests, by what they are made of.                         *)
AnyUser == Users \cup {CHOOSE u \in Users : TRUE}
AnyGroup == GroupIds \cup {CHOOSE g \in GroupIds : TRUE}
Held == GroupRoles \cup {"none"}

GroupJobs ==
  [pc : GroupPCs, op : Operations, actor : AnyUser, group : AnyGroup, target : AnyUser,
   role : GroupRoles, held : Held, seen : Held, follows : BOOLEAN, overtaken : BOOLEAN]

GroupTypes ==
  /\ groups \subseteq used /\ used \subseteq GroupIds
  /\ member \in [GroupIds -> [Users -> Held]]
  /\ followers \in [GroupIds -> SUBSET Users]
  /\ gjob \in [GroupHandlers -> GroupJobs]
  /\ gbegun \in 0..MaxGroupJobs

(* One owner while the group is there, and nobody in it before and after.   *)
Owned(g) ==
  IF g \in groups THEN (\E u \in Users : Owners(g) = {u}) \/ g \in readded
  ELSE \A u \in Users : member[g][u] = "none"

(* What a request may rely on at its write: rules that no other request can *)
(* take back, and rules that hold until another overtakes it.               *)
Lasting(j) ==
  /\ j.pc # "idle" => j.actor \in Users /\ j.target \in Users /\ j.group \in GroupIds
  /\ j.pc = "check" => j.op \in {"add", "update", "expel"}
  /\ j.pc \in {"check", "write"} /\ j.op # "follow" => j.group \in used /\ j.op # "create"
  /\ j.pc = "write" /\ j.op \in {"add", "update"} => j.role # "owner"
  /\ j.pc = "write" /\ j.op \in {"update", "expel"} => member[j.group][j.target] # "owner"
  /\ j.pc = "write" /\ j.op = "leave" => member[j.group][j.actor] # "owner"

Current(j) ==
  ~j.overtaken =>
    /\ j.pc \in {"check", "write"} /\ j.op # "follow" =>
         member[j.group][j.actor] = j.held /\ MayProceed(j.op, j.held)
    /\ j.pc = "write" /\ j.op \in {"add", "update", "expel"} =>
         member[j.group][j.target] = j.seen /\ TargetAllowed(j, j.seen)

GroupInv ==
  /\ GroupTypes
  /\ \A g \in GroupIds : Owned(g)
  /\ \A h \in GroupHandlers : Lasting(gjob[h]) /\ Current(gjob[h])

-----------------------------------------------------------------------------
LEMMA IdleType ==
  IdleGroupJob \in GroupJobs /\ IdleGroupJob.pc = "idle"
BY DEF IdleGroupJob, GroupJobs, GroupPCs, Operations, AnyUser, AnyGroup, GroupRoles, Held

LEMMA IdleGood == Lasting(IdleGroupJob) /\ Current(IdleGroupJob)
BY IdleType DEF Lasting, Current

LEMMA GroupsInitInv == GroupsInit => GroupTypes /\ \A h \in GroupHandlers :
                         Lasting(gjob[h]) /\ Current(gjob[h])
<1> SUFFICES ASSUME GroupsInit
             PROVE  GroupTypes /\ \A h \in GroupHandlers : Lasting(gjob[h]) /\ Current(gjob[h])
  OBVIOUS
<1>1. member \in [GroupIds -> [Users -> Held]]
  BY GroupsAssumption DEF GroupsInit, Held
<1>2. GroupTypes
  BY <1>1, GroupsAssumption, IdleType DEF GroupsInit, GroupTypes
<1> QED BY <1>2, IdleGood DEF GroupsInit

(* A request changes and the tables stay.                                   *)
LEMMA GroupJobOn ==
  ASSUME GroupInv, NEW h \in GroupHandlers, NEW j \in GroupJobs, Lasting(j), Current(j),
         gjob' = [gjob EXCEPT ![h] = j], UNCHANGED <<groups, used, member, followers, readded>>,
         gbegun' \in 0..MaxGroupJobs
  PROVE  GroupInv'
<1>1. GroupTypes'
  BY DEF GroupInv, GroupTypes
<1>2. \A g \in GroupIds : Owned(g)'
  BY DEF GroupInv, Owned, Owners
<1>3. \A p \in GroupHandlers : Lasting(gjob'[p]) /\ Current(gjob'[p])
  BY DEF GroupInv, GroupTypes
<1>4. \A p \in GroupHandlers : Lasting(gjob[p])' /\ Current(gjob[p])'
  BY <1>3 DEF Lasting, Current
<1> QED BY <1>1, <1>2, <1>4 DEF GroupInv

LEMMA GroupAnswered ==
  ASSUME GroupInv, NEW h \in GroupHandlers, GroupAnswer(h),
         UNCHANGED <<groups, used, member, followers, readded, gbegun>>
  PROVE  GroupInv'
BY GroupJobOn, IdleType, IdleGood DEF GroupAnswer, GroupInv, GroupTypes

(* Nothing of the groups changes.                                           *)
LEMMA GroupsStay ==
  ASSUME GroupInv, UNCHANGED groupsVars
  PROVE  GroupInv'
<1>1. GroupTypes' /\ (\A g \in GroupIds : Owned(g)')
  BY DEF groupsVars, GroupInv, GroupTypes, Owned, Owners
<1>2. \A p \in GroupHandlers : Lasting(gjob[p])' /\ Current(gjob[p])'
  BY DEF groupsVars, GroupInv, Lasting, Current
<1> QED BY <1>1, <1>2 DEF GroupInv

LEMMA SubmitGroupStep ==
  ASSUME GroupInv, NEW h \in GroupHandlers, SubmitGroup(h)
  PROVE  GroupInv' /\ member' = member
<1>1. PICK op \in Operations, actor \in Users, target \in Users, role \in GroupRoles,
           g \in GroupIds : SendGroup(h, op, actor, g, target, role)
  BY DEF SubmitGroup
<1> DEFINE j == [IdleGroupJob EXCEPT !.pc = "authorize", !.op = op, !.actor = actor,
                   !.group = g, !.target = target, !.role = role]
<1>2. j \in GroupJobs
  BY IdleType DEF GroupJobs, GroupPCs, AnyUser, AnyGroup
<1>3. j.pc = "authorize" /\ j.actor = actor /\ j.group = g /\ j.target = target
  BY IdleType DEF GroupJobs
<1>4. gjob' = [gjob EXCEPT ![h] = j] /\ UNCHANGED <<groups, used, member, followers, readded>>
      /\ gbegun' \in 0..MaxGroupJobs
  BY <1>1, GroupsAssumption DEF SendGroup, GroupInv, GroupTypes
<1> HIDE DEF j
<1>5. Lasting(j) /\ Current(j)
  BY <1>3 DEF Lasting, Current
<1> QED BY <1>2, <1>4, <1>5, GroupJobOn

LEMMA AuthorizeStep ==
  ASSUME GroupInv, NEW h \in GroupHandlers, Authorize(h)
  PROVE  GroupInv' /\ member' = member
<1> DEFINE g == gjob[h].group  held == member[g][gjob[h].actor]
<1>0. gjob[h] \in GroupJobs /\ gjob[h].pc = "authorize" /\ Lasting(gjob[h])
  BY DEF GroupInv, GroupTypes, Authorize
<1>1. UNCHANGED <<groups, used, member, followers, gbegun, readded>>
  BY DEF Authorize
<1>2. CASE g \in groups /\ MayProceed(gjob[h].op, held)
  <2> DEFINE pc == IF gjob[h].op \in {"add", "update", "expel"} THEN "check" ELSE "write"
             j == [gjob[h] EXCEPT !.held = held, !.pc = pc]
  <2>1. gjob' = [gjob EXCEPT ![h] = j] /\ gjob[h].op \notin {"create", "follow"}
    BY <1>2 DEF Authorize
  <2>2. /\ pc \in {"check", "write"} /\ (pc = "check" <=> gjob[h].op \in {"add", "update", "expel"})
        /\ held \in Held /\ g \in used
    BY <1>0, <1>2 DEF GroupInv, GroupTypes, Lasting
  <2>3. MayProceed(gjob[h].op, held)
    BY <1>2
  <2>4. gjob[h].op = "leave" => held # "owner"
    BY <2>3 DEF MayProceed
  <2>5. held = member[gjob[h].group][gjob[h].actor]
    OBVIOUS
  <2> HIDE DEF held, pc
  <2>6. /\ j \in GroupJobs /\ j.pc = pc /\ j.held = held /\ j.op = gjob[h].op /\ j.group = g
        /\ j.actor = gjob[h].actor /\ j.target = gjob[h].target
    BY <1>0, <2>2 DEF GroupJobs, GroupPCs
  <2> HIDE DEF j
  <2>7. Lasting(j)
    BY <1>0, <2>1, <2>2, <2>4, <2>5, <2>6 DEF Lasting
  <2>8. Current(j)
    BY <2>2, <2>3, <2>5, <2>6 DEF Current
  <2> QED BY <1>1, <2>1, <2>6, <2>7, <2>8, GroupJobOn DEF GroupInv, GroupTypes
<1>3. CASE ~(g \in groups /\ MayProceed(gjob[h].op, held))
  <2>1. GroupAnswer(h)
    BY <1>3 DEF Authorize
  <2> QED BY <1>1, <2>1, GroupAnswered
<1> QED BY <1>2, <1>3

LEMMA CheckTargetStep ==
  ASSUME GroupInv, NEW h \in GroupHandlers, CheckTarget(h)
  PROVE  GroupInv' /\ member' = member
<1> DEFINE seen == member[gjob[h].group][gjob[h].target]
<1>0. /\ gjob[h] \in GroupJobs /\ gjob[h].pc = "check" /\ Lasting(gjob[h])
      /\ Current(gjob[h])
  BY DEF GroupInv, GroupTypes, CheckTarget
<1>1. UNCHANGED <<groups, used, member, followers, gbegun, readded>>
  BY DEF CheckTarget
<1>2. CASE TargetAllowed(gjob[h], seen)
  <2> DEFINE j == [gjob[h] EXCEPT !.pc = "write", !.seen = seen]
  <2>1. gjob' = [gjob EXCEPT ![h] = j]
    BY <1>2 DEF CheckTarget
  <2>2. seen \in Held /\ gjob[h].op \in {"add", "update", "expel"}
    BY <1>0 DEF GroupInv, GroupTypes, Lasting
  <2>3. /\ j \in GroupJobs /\ j.pc = "write" /\ j.seen = seen /\ j.op = gjob[h].op
        /\ j.group = gjob[h].group /\ j.actor = gjob[h].actor /\ j.target = gjob[h].target
        /\ j.role = gjob[h].role /\ j.held = gjob[h].held /\ j.overtaken = gjob[h].overtaken
    BY <1>0, <2>2 DEF GroupJobs, GroupPCs
  <2>4. seen = member[gjob[h].group][gjob[h].target]
    OBVIOUS
  <2> HIDE DEF j, seen
  <2>5. TargetAllowed(j, seen)
    BY <1>2, <2>2, <2>3 DEF TargetAllowed
  <2>6. /\ j.op \in {"add", "update"} => j.role # "owner"
        /\ j.op \in {"update", "expel"} => seen # "owner"
    BY <2>2, <2>3, <2>5 DEF TargetAllowed
  <2>7. Lasting(j)
    BY <1>0, <2>2, <2>3, <2>4, <2>6 DEF Lasting
  <2>8. Current(j)
    BY <1>0, <2>2, <2>3, <2>4, <2>5 DEF Current
  <2> QED BY <1>1, <2>1, <2>3, <2>7, <2>8, GroupJobOn DEF GroupInv, GroupTypes
<1>3. CASE ~TargetAllowed(gjob[h], seen)
  <2>1. GroupAnswer(h)
    BY <1>3 DEF CheckTarget
  <2> QED BY <1>1, <2>1, GroupAnswered
<1> QED BY <1>2, <1>3

LEMMA FollowStep ==
  ASSUME GroupInv, NEW h \in GroupHandlers, FindFollow(h) \/ ToggleFollow(h)
  PROVE  GroupInv' /\ member' = member
<1>0. gjob[h] \in GroupJobs /\ Lasting(gjob[h])
  BY DEF GroupInv, GroupTypes
<1>1. CASE FindFollow(h)
  <2> DEFINE follows == gjob[h].actor \in followers[gjob[h].group]
             j == [gjob[h] EXCEPT !.pc = "write", !.follows = follows]
  <2>0. UNCHANGED <<groups, used, member, followers, gbegun, readded>>
    BY <1>1 DEF FindFollow
  <2>1. CASE gjob[h].group \in groups
    <3>1. gjob' = [gjob EXCEPT ![h] = j] /\ gjob[h].op = "follow" /\ gjob[h].pc = "authorize"
      BY <1>1, <2>1 DEF FindFollow, Is
    <3>2. follows \in BOOLEAN
      OBVIOUS
    <3> HIDE DEF follows
    <3>3. /\ j \in GroupJobs /\ j.pc = "write" /\ j.op = "follow" /\ j.actor = gjob[h].actor
          /\ j.target = gjob[h].target /\ j.group = gjob[h].group
      BY <1>0, <3>1, <3>2 DEF GroupJobs, GroupPCs
    <3> HIDE DEF j
    <3>4. Lasting(j) /\ Current(j)
      BY <1>0, <3>1, <3>3 DEF Lasting, Current
    <3> QED BY <2>0, <3>1, <3>3, <3>4, GroupJobOn DEF GroupInv, GroupTypes
  <2>2. CASE gjob[h].group \notin groups
    BY <1>1, <2>0, <2>2, GroupAnswered DEF FindFollow
  <2> QED BY <2>1, <2>2
<1>2. CASE ToggleFollow(h)
  <2>1. gjob[h].actor \in Users
    BY <1>0, <1>2 DEF ToggleFollow, Is, Lasting
  <2>2. followers' \in [GroupIds -> SUBSET Users]
    BY <1>2, <2>1 DEF ToggleFollow, GroupInv, GroupTypes
  <2>3. GroupAnswer(h) /\ UNCHANGED <<groups, used, member, gbegun, readded>>
    BY <1>2 DEF ToggleFollow
  <2>4. GroupTypes'
    BY <2>2, <2>3, IdleType DEF GroupAnswer, GroupInv, GroupTypes
  <2>5. \A g \in GroupIds : Owned(g)'
    BY <2>3 DEF GroupInv, Owned, Owners
  <2>6. \A p \in GroupHandlers : Lasting(gjob'[p]) /\ Current(gjob'[p])
    BY <2>3, IdleGood DEF GroupAnswer, GroupInv, GroupTypes
  <2>7. \A p \in GroupHandlers : Lasting(gjob[p])' /\ Current(gjob[p])'
    BY <2>3, <2>6 DEF Lasting, Current
  <2> QED BY <2>3, <2>4, <2>5, <2>7 DEF GroupInv
<1> QED BY <1>1, <1>2

-----------------------------------------------------------------------------
(* A request is overtaken: nothing else of it changes.                      *)
SameRequest(j, k) ==
  /\ k.pc = j.pc /\ k.op = j.op /\ k.actor = j.actor /\ k.group = j.group
  /\ k.target = j.target /\ k.role = j.role /\ k.held = j.held /\ k.seen = j.seen

LEMMA Overtake ==
  ASSUME NEW j \in GroupJobs, NEW b \in BOOLEAN
  PROVE  /\ [j EXCEPT !.overtaken = b] \in GroupJobs
         /\ [j EXCEPT !.overtaken = b].overtaken = b
         /\ SameRequest(j, [j EXCEPT !.overtaken = b])
BY DEF GroupJobs, SameRequest

LEMMA SameTarget ==
  ASSUME NEW j, NEW k, NEW seen, SameRequest(j, k)
  PROVE  TargetAllowed(k, seen) <=> TargetAllowed(j, seen)
BY DEF SameRequest, TargetAllowed

(* A role is written: for those it concerns, a request that read another    *)
(* role is overtaken.                                                       *)
LEMMA RoleWritten ==
  ASSUME GroupInv, NEW h \in GroupHandlers, NEW g \in groups, NEW u \in Users,
         NEW role \in Held \ {"owner"},
         member' = [member EXCEPT ![g] = [member[g] EXCEPT ![u] = role]],
         gjob' = [p \in GroupHandlers |->
           IF p = h THEN IdleGroupJob
           ELSE [gjob[p] EXCEPT !.overtaken =
                   gjob[p].overtaken \/ (Overtaken(p, g, u) /\ member[g][u] # role)]],
         UNCHANGED <<groups, used, followers, gbegun>>, readded \subseteq readded',
         member[g][u] = "owner" => g \in readded'
  PROVE  GroupInv'
<1>0. g \in GroupIds
  BY DEF GroupInv, GroupTypes
<1>1. /\ member' \in [GroupIds -> [Users -> Held]] /\ member'[g][u] = role
      /\ \A f \in GroupIds, w \in Users : f # g \/ w # u => member'[f][w] = member[f][w]
  <2>1. [member[g] EXCEPT ![u] = role] \in [Users -> Held]
    BY <1>0 DEF GroupInv, GroupTypes
  <2> QED BY <1>0, <2>1 DEF GroupInv, GroupTypes
<1>2. ASSUME NEW p \in GroupHandlers, p # h
      PROVE  /\ gjob'[p] \in GroupJobs /\ SameRequest(gjob[p], gjob'[p])
             /\ (~gjob'[p].overtaken => ~gjob[p].overtaken)
             /\ (~gjob'[p].overtaken /\ Overtaken(p, g, u) => member[g][u] = role)
  <2> DEFINE overtaken == gjob[p].overtaken \/ (Overtaken(p, g, u) /\ member[g][u] # role)
  <2>0. gjob[p] \in GroupJobs
    BY DEF GroupInv, GroupTypes
  <2>1. gjob'[p] = [gjob[p] EXCEPT !.overtaken = overtaken]
    BY <1>2
  <2>2. overtaken \in BOOLEAN
    OBVIOUS
  <2>3. /\ (~overtaken => ~gjob[p].overtaken)
        /\ (~overtaken /\ Overtaken(p, g, u) => member[g][u] = role)
    OBVIOUS
  <2> HIDE DEF overtaken
  <2>4. /\ gjob'[p] \in GroupJobs /\ SameRequest(gjob[p], gjob'[p])
        /\ gjob'[p].overtaken = overtaken
    <3> DEFINE j == [gjob[p] EXCEPT !.overtaken = overtaken]
    <3>1. j \in GroupJobs /\ j.overtaken = overtaken /\ SameRequest(gjob[p], j)
      BY ONLY <2>0, <2>2, Overtake
    <3> QED BY ONLY <2>1, <3>1
  <2> QED BY <2>3, <2>4
<1>3. GroupTypes'
  <2>1. \A p \in GroupHandlers : gjob'[p] \in GroupJobs
    BY <1>2, IdleType
  <2>2. gjob' \in [GroupHandlers -> GroupJobs]
    BY <2>1
  <2> QED BY <1>1, <2>2 DEF GroupInv, GroupTypes
<1>4. ASSUME NEW f \in GroupIds PROVE Owned(f)'
  <2>1. CASE f \in groups /\ f # g
    <3>1. Owners(f)' = Owners(f)
      BY <1>1, <2>1 DEF Owners
    <3> QED BY <2>1, <3>1 DEF GroupInv, Owned
  <2>2. CASE f = g /\ member[g][u] # "owner"
    <3>1. Owners(f)' = Owners(f)
      BY <1>1, <2>2 DEF Owners
    <3> QED BY <2>2, <3>1 DEF GroupInv, Owned
  <2>3. CASE f = g /\ member[g][u] = "owner"
    BY <2>3 DEF Owned
  <2>4. CASE f \notin groups
    BY <1>1, <2>4 DEF GroupInv, Owned
  <2> QED BY <2>1, <2>2, <2>3, <2>4
<1>5. ASSUME NEW p \in GroupHandlers PROVE Lasting(gjob[p])'
  <2>1. CASE p = h
    BY <2>1, IdleType DEF Lasting
  <2>2. CASE p # h
    <3>1. Lasting(gjob[p]) /\ gjob[p] \in GroupJobs
      BY DEF GroupInv, GroupTypes
    <3>2. gjob[p].pc # "idle" =>
            /\ gjob[p].actor \in Users /\ gjob[p].target \in Users /\ gjob[p].group \in GroupIds
            /\ \A w \in {gjob[p].actor, gjob[p].target} :
                 \/ member'[gjob[p].group][w] = member[gjob[p].group][w]
                 \/ member'[gjob[p].group][w] # "owner"
      BY <1>0, <1>1, <3>1 DEF Lasting
    <3> DEFINE k == gjob'[p]
    <3>3. SameRequest(gjob[p], k)
      BY <1>2, <2>2
    <3> HIDE DEF k
    <3>4. /\ (k.pc # "idle" => k.actor \in Users /\ k.target \in Users /\ k.group \in GroupIds)
          /\ (k.pc = "check" => k.op \in {"add", "update", "expel"})
          /\ (k.pc \in {"check", "write"} /\ k.op # "follow" => k.group \in used /\ k.op # "create")
          /\ (k.pc = "write" /\ k.op \in {"add", "update"} => k.role # "owner")
          /\ (k.pc = "write" /\ k.op \in {"update", "expel"} => member'[k.group][k.target] # "owner")
          /\ (k.pc = "write" /\ k.op = "leave" => member'[k.group][k.actor] # "owner")
      BY ONLY <3>1, <3>2, <3>3 DEF Lasting, SameRequest
    <3> QED BY <3>4 DEF Lasting, k
  <2> QED BY <2>1, <2>2
<1>6. ASSUME NEW p \in GroupHandlers PROVE Current(gjob[p])'
  <2>1. CASE p = h
    BY <2>1, IdleType DEF Current
  <2>2. CASE p # h
    <3>1. Lasting(gjob[p]) /\ Current(gjob[p]) /\ gjob[p] \in GroupJobs
      BY DEF GroupInv, GroupTypes
    <3> SUFFICES ASSUME ~gjob'[p].overtaken, gjob[p].pc \in {"check", "write"}
                 PROVE  Current(gjob[p])'
      BY <1>2, <2>2 DEF Current, SameRequest
    <3>2. gjob[p].actor \in Users /\ gjob[p].target \in Users /\ gjob[p].group \in GroupIds
      BY <3>1 DEF Lasting
    <3>3. /\ member'[gjob[p].group][gjob[p].actor] = member[gjob[p].group][gjob[p].actor]
          /\ member'[gjob[p].group][gjob[p].target] = member[gjob[p].group][gjob[p].target]
      BY <1>0, <1>1, <1>2, <2>2, <3>2 DEF Overtaken
    <3>4. gjob[p].op \in {"add", "update", "expel"} =>
            (TargetAllowed(gjob'[p], gjob[p].seen) <=> TargetAllowed(gjob[p], gjob[p].seen))
      BY <1>2, <2>2, SameTarget
    <3> QED BY <1>2, <2>2, <3>1, <3>3, <3>4 DEF Current, SameRequest
  <2> QED BY <2>1, <2>2
<1> QED BY <1>3, <1>4, <1>5, <1>6 DEF GroupInv

-----------------------------------------------------------------------------
(* Who may change which membership.                                         *)
Managed ==
  \A g \in GroupIds, u \in Users :
    g \in groups /\ member'[g][u] # member[g][u] =>
      \E h \in GroupHandlers : ChangeAllowed(h, g, u)

LEMMA MembersStay == member' = member => Managed
BY DEF Managed

LEMMA RoleManaged ==
  ASSUME GroupInv, NEW h \in GroupHandlers, NEW g \in groups, NEW u \in Users, NEW role,
         member' = [member EXCEPT ![g] = [member[g] EXCEPT ![u] = role]],
         ChangeAllowed(h, g, u)
  PROVE  Managed
<1> SUFFICES ASSUME NEW f \in GroupIds, NEW w \in Users, member'[f][w] # member[f][w]
             PROVE  f = g /\ w = u
  BY DEF Managed
<1> QED BY DEF GroupInv, GroupTypes

LEMMA AddMemberStep ==
  ASSUME GroupInv, NEW h \in GroupHandlers, AddMember(h)
  PROVE  GroupInv' /\ Managed
<1> DEFINE g == gjob[h].group  u == gjob[h].target  role == gjob[h].role
<1>0. /\ gjob[h] \in GroupJobs /\ Lasting(gjob[h]) /\ Current(gjob[h])
      /\ gjob[h].op = "add" /\ gjob[h].pc = "write"
  BY DEF GroupInv, GroupTypes, AddMember, Is
<1>1. /\ u \in Users /\ g \in GroupIds /\ role \in Held \ {"owner"}
  BY <1>0 DEF Lasting, GroupJobs, Held
<1>2. CASE g \in groups
  <2>1. /\ member' = [member EXCEPT ![g] = [member[g] EXCEPT ![u] = role]]
        /\ gjob' = [p \in GroupHandlers |->
             IF p = h THEN IdleGroupJob
             ELSE [gjob[p] EXCEPT !.overtaken =
                     gjob[p].overtaken \/ (Overtaken(p, g, u) /\ member[g][u] # role)]]
    BY <1>0, <1>1, <1>2 DEF AddMember, WriteRole, GroupInv, GroupTypes
  <2>2. /\ UNCHANGED <<groups, used, followers, gbegun>> /\ readded \subseteq readded'
        /\ member[g][u] = "owner" => g \in readded'
    BY <1>2 DEF AddMember
  <2>3. ChangeAllowed(h, g, u)
    BY <1>0 DEF ChangeAllowed, Current, MayProceed
  <2> HIDE DEF g, u, role
  <2>4. GroupInv'
    BY ONLY GroupInv, h \in GroupHandlers, <1>1, <1>2, <2>1, <2>2, RoleWritten, ZenonT(60)
  <2>5. Managed
    BY <1>1, <1>2, <2>1, <2>3, RoleManaged
  <2> QED BY <2>4, <2>5
<1>3. CASE g \notin groups
  BY <1>3, GroupAnswered, MembersStay DEF AddMember
<1> QED BY <1>2, <1>3

LEMMA UpdateMemberStep ==
  ASSUME GroupInv, NEW h \in GroupHandlers, UpdateMember(h)
  PROVE  GroupInv' /\ Managed
<1> DEFINE g == gjob[h].group  u == gjob[h].target  role == gjob[h].role
<1>0. /\ gjob[h] \in GroupJobs /\ Lasting(gjob[h]) /\ Current(gjob[h])
      /\ gjob[h].op = "update" /\ gjob[h].pc = "write"
  BY DEF GroupInv, GroupTypes, UpdateMember, Is
<1>1. /\ u \in Users /\ g \in GroupIds /\ role \in Held \ {"owner"} /\ member[g][u] # "owner"
  BY <1>0 DEF Lasting, GroupJobs, Held
<1>2. CASE MemberOf(u, g)
  <2>1. /\ member' = [member EXCEPT ![g] = [member[g] EXCEPT ![u] = role]]
        /\ gjob' = [p \in GroupHandlers |->
             IF p = h THEN IdleGroupJob
             ELSE [gjob[p] EXCEPT !.overtaken =
                     gjob[p].overtaken \/ (Overtaken(p, g, u) /\ member[g][u] # role)]]
    BY <1>0, <1>1, <1>2 DEF UpdateMember, WriteRole, GroupInv, GroupTypes
  <2>2. UNCHANGED <<groups, used, followers, gbegun, readded>> /\ g \in groups
    BY <1>2 DEF UpdateMember, MemberOf
  <2>3. ChangeAllowed(h, g, u)
    <3>1. member[g][u] \in Held
      BY <1>1 DEF GroupInv, GroupTypes
    <3> QED BY <1>0, <3>1
            DEF ChangeAllowed, Current, MayProceed, TargetAllowed, Managers, Held, GroupRoles
  <2> HIDE DEF g, u, role
  <2>a. readded \subseteq readded' /\ (member[g][u] = "owner" => g \in readded')
    BY <1>1, <2>2
  <2>4. GroupInv'
    BY ONLY GroupInv, h \in GroupHandlers, <1>1, <2>1, <2>2, <2>a, RoleWritten, ZenonT(60)
  <2>5. Managed
    BY <1>1, <2>1, <2>2, <2>3, RoleManaged
  <2> QED BY <2>4, <2>5
<1>3. CASE ~MemberOf(u, g)
  BY <1>3, GroupAnswered, MembersStay DEF UpdateMember
<1> QED BY <1>2, <1>3

LEMMA RemoveMemberStep ==
  ASSUME GroupInv, NEW h \in GroupHandlers, RemoveMember(h)
  PROVE  GroupInv' /\ Managed
<1> DEFINE g == gjob[h].group
           u == IF gjob[h].op = "leave" THEN gjob[h].actor ELSE gjob[h].target
<1>0. /\ gjob[h] \in GroupJobs /\ Lasting(gjob[h]) /\ Current(gjob[h])
      /\ gjob[h].op \in {"expel", "leave"} /\ gjob[h].pc = "write"
  BY DEF GroupInv, GroupTypes, RemoveMember, Is
<1>1. /\ u \in Users /\ g \in GroupIds /\ member[g][u] # "owner"
  BY <1>0 DEF Lasting
<1>2. CASE MemberOf(u, g)
  <2>1. /\ member' = [member EXCEPT ![g] = [member[g] EXCEPT ![u] = "none"]]
        /\ gjob' = [p \in GroupHandlers |->
             IF p = h THEN IdleGroupJob
             ELSE [gjob[p] EXCEPT !.overtaken =
                     gjob[p].overtaken \/ (Overtaken(p, g, u) /\ member[g][u] # "none")]]
    BY <1>0, <1>1, <1>2 DEF RemoveMember, WriteRole, GroupInv, GroupTypes
  <2>2. UNCHANGED <<groups, used, followers, gbegun, readded>> /\ g \in groups
    BY <1>2 DEF RemoveMember, MemberOf
  <2>3. ChangeAllowed(h, g, u)
    <3>1. member[g][u] \in Held
      BY <1>1 DEF GroupInv, GroupTypes
    <3> QED BY <1>0, <1>1, <3>1
            DEF ChangeAllowed, Current, MayProceed, TargetAllowed, Managers, Held, GroupRoles
  <2>4. "none" \in Held \ {"owner"}
    BY DEF Held
  <2> HIDE DEF g, u
  <2> QED BY <1>1, <2>1, <2>2, <2>3, <2>4, RoleWritten, RoleManaged
<1>3. CASE ~MemberOf(u, g)
  BY <1>3, GroupAnswered, MembersStay DEF RemoveMember
<1> QED BY <1>2, <1>3

LEMMA CreateGroupStep ==
  ASSUME GroupInv, NEW h \in GroupHandlers, CreateGroup(h)
  PROVE  GroupInv' /\ Managed /\ groups \subseteq groups'
<1> DEFINE g == gjob[h].group  u == gjob[h].actor
<1>0. Lasting(gjob[h]) /\ gjob[h].pc = "authorize" /\ u \in Users /\ g \in GroupIds
  BY DEF GroupInv, CreateGroup, Is, Lasting
<1>1. CASE g \in used
  BY <1>1, GroupAnswered, MembersStay DEF CreateGroup
<1>2. CASE g \notin used
  <2>0. /\ groups' = groups \cup {g} /\ used' = used \cup {g}
        /\ member' = [member EXCEPT ![g] = [member[g] EXCEPT ![u] = "owner"]]
        /\ gjob' = [gjob EXCEPT ![h] = IdleGroupJob]
        /\ UNCHANGED <<followers, gbegun, readded>>
    BY <1>0, <1>2 DEF CreateGroup, GroupAnswer, GroupInv, GroupTypes
  <2>1. g \notin groups /\ \A w \in Users : member[g][w] = "none"
    BY <1>0, <1>2 DEF GroupInv, GroupTypes, Owned
  <2> HIDE DEF g, u
  <2>2. /\ member' \in [GroupIds -> [Users -> Held]]
        /\ \A w \in Users : member'[g][w] = IF w = u THEN "owner" ELSE "none"
        /\ \A f \in GroupIds \ {g} : member'[f] = member[f]
    <3>1. [member[g] EXCEPT ![u] = "owner"] \in [Users -> Held]
      BY <1>0 DEF GroupInv, GroupTypes, Held, GroupRoles
    <3> QED BY <1>0, <2>0, <2>1, <3>1 DEF GroupInv, GroupTypes
  <2>3. GroupTypes'
    BY <1>0, <2>0, <2>2, IdleType DEF GroupInv, GroupTypes
  <2>4. ASSUME NEW f \in GroupIds PROVE Owned(f)'
    <3>1. CASE f = g
      <4>1. Owners(f)' = {u}
        BY <1>0, <2>2, <3>1 DEF Owners
      <4> QED BY <1>0, <2>0, <3>1, <4>1 DEF Owned
    <3>2. CASE f # g
      <4>1. Owners(f)' = Owners(f) /\ member'[f] = member[f]
        BY <2>2, <3>2 DEF Owners
      <4> QED BY <2>0, <3>2, <4>1 DEF GroupInv, Owned
    <3> QED BY <3>1, <3>2
  <2>5. ASSUME NEW p \in GroupHandlers PROVE Lasting(gjob[p])' /\ Current(gjob[p])'
    <3>1. CASE p = h
      <4>1. gjob'[p] = IdleGroupJob
        BY <2>0, <3>1 DEF GroupInv, GroupTypes
      <4> QED BY <4>1, IdleType DEF Lasting, Current
    <3>2. CASE p # h
      <4>1. gjob'[p] = gjob[p] /\ Lasting(gjob[p]) /\ Current(gjob[p])
        BY <2>0, <3>2 DEF GroupInv, GroupTypes
      <4>2. gjob[p].pc \in {"check", "write"} /\ gjob[p].op # "follow" =>
              /\ gjob[p].group # g /\ gjob[p].group \in GroupIds
              /\ member'[gjob[p].group] = member[gjob[p].group]
        BY <1>2, <2>2, <4>1 DEF Lasting, g
      <4> QED BY <2>0, <4>1, <4>2 DEF Lasting, Current
    <3> QED BY <3>1, <3>2
  <2>6. Managed
    BY <2>1, <2>2 DEF Managed
  <2> QED BY <2>0, <2>3, <2>4, <2>5, <2>6 DEF GroupInv
<1> QED BY <1>1, <1>2

LEMMA DeleteGroupStep ==
  ASSUME GroupInv, NEW h \in GroupHandlers, DeleteGroup(h)
  PROVE  GroupInv' /\ Managed
<1> DEFINE g == gjob[h].group
<1>0. /\ Lasting(gjob[h]) /\ Current(gjob[h]) /\ g \in GroupIds /\ g \in groups
      /\ gjob[h].pc = "write" /\ gjob[h].op = "remove"
  BY DEF GroupInv, GroupTypes, DeleteGroup, Is
<1>1. /\ groups' = groups \ {g}
      /\ member' = [member EXCEPT ![g] = [u \in Users |-> "none"]]
      /\ followers' = [followers EXCEPT ![g] = {}]
      /\ gjob' = [p \in GroupHandlers |->
           IF p = h THEN IdleGroupJob
           ELSE [gjob[p] EXCEPT !.overtaken = gjob[p].overtaken \/ gjob[p].group = g]]
      /\ UNCHANGED <<used, gbegun, readded>>
  BY DEF DeleteGroup
<1>2. ChangeAllowed(h, g, gjob[h].actor) /\ \A u \in Users : ChangeAllowed(h, g, u)
  BY <1>0 DEF ChangeAllowed, Current, MayProceed
<1> HIDE DEF g
<1>3. /\ member' \in [GroupIds -> [Users -> Held]]
      /\ \A u \in Users : member'[g][u] = "none"
      /\ \A f \in GroupIds \ {g} : member'[f] = member[f]
  <2>1. [u \in Users |-> "none"] \in [Users -> Held]
    BY DEF Held
  <2> QED BY <1>0, <1>1, <2>1 DEF GroupInv, GroupTypes
<1>4. Managed
  BY <1>2, <1>3 DEF Managed
<1>5. ASSUME NEW p \in GroupHandlers, p # h
      PROVE  /\ gjob'[p] \in GroupJobs /\ SameRequest(gjob[p], gjob'[p])
             /\ (~gjob'[p].overtaken => ~gjob[p].overtaken /\ gjob[p].group # g)
  <2> DEFINE overtaken == gjob[p].overtaken \/ gjob[p].group = g
  <2>0. gjob[p] \in GroupJobs
    BY DEF GroupInv, GroupTypes
  <2>1. gjob'[p] = [gjob[p] EXCEPT !.overtaken = overtaken]
    BY <1>1, <1>5
  <2>2. overtaken \in BOOLEAN
    OBVIOUS
  <2>3. ~overtaken => ~gjob[p].overtaken /\ gjob[p].group # g
    OBVIOUS
  <2> HIDE DEF overtaken
  <2>4. /\ gjob'[p] \in GroupJobs /\ SameRequest(gjob[p], gjob'[p])
        /\ gjob'[p].overtaken = overtaken
    <3> DEFINE j == [gjob[p] EXCEPT !.overtaken = overtaken]
    <3>1. j \in GroupJobs /\ j.overtaken = overtaken /\ SameRequest(gjob[p], j)
      BY ONLY <2>0, <2>2, Overtake
    <3> QED BY ONLY <2>1, <3>1
  <2> QED BY <2>3, <2>4
<1>6. GroupTypes'
  <2>1. \A p \in GroupHandlers : gjob'[p] \in GroupJobs
    BY <1>1, <1>5, IdleType
  <2>2. gjob' \in [GroupHandlers -> GroupJobs]
    BY <1>1, <2>1
  <2>3. followers' \in [GroupIds -> SUBSET Users]
    BY <1>1 DEF GroupInv, GroupTypes
  <2> QED BY <1>1, <1>3, <2>2, <2>3 DEF GroupInv, GroupTypes
<1>7. ASSUME NEW f \in GroupIds PROVE Owned(f)'
  <2>1. CASE f = g
    BY <1>1, <1>3, <2>1 DEF Owned
  <2>2. CASE f # g
    <3>1. Owners(f)' = Owners(f) /\ member'[f] = member[f]
      BY <1>3, <2>2 DEF Owners
    <3> QED BY <1>1, <2>2, <3>1 DEF GroupInv, Owned
  <2> QED BY <2>1, <2>2
<1>8. ASSUME NEW p \in GroupHandlers PROVE Lasting(gjob[p])' /\ Current(gjob[p])'
  <2>1. CASE p = h
    <3>1. gjob'[p] = IdleGroupJob
      BY <1>1, <2>1
    <3> QED BY <3>1, IdleType DEF Lasting, Current
  <2>2. CASE p # h
    <3>1. Lasting(gjob[p]) /\ Current(gjob[p]) /\ gjob[p] \in GroupJobs
      BY DEF GroupInv, GroupTypes
    <3>2. Lasting(gjob[p])'
      <4>1. \A f \in GroupIds, w \in Users :
              member'[f][w] = member[f][w] \/ member'[f][w] # "owner"
        BY <1>3
      <4> DEFINE k == gjob'[p]
      <4>2. SameRequest(gjob[p], k)
        BY <1>5, <2>2
      <4> HIDE DEF k
      <4>3. /\ (k.pc # "idle" => k.actor \in Users /\ k.target \in Users /\ k.group \in GroupIds)
            /\ (k.pc = "check" => k.op \in {"add", "update", "expel"})
            /\ (k.pc \in {"check", "write"} /\ k.op # "follow" =>
                  k.group \in used /\ k.op # "create")
            /\ (k.pc = "write" /\ k.op \in {"add", "update"} => k.role # "owner")
            /\ (k.pc = "write" /\ k.op \in {"update", "expel"} =>
                  member'[k.group][k.target] # "owner")
            /\ (k.pc = "write" /\ k.op = "leave" => member'[k.group][k.actor] # "owner")
        BY ONLY <3>1, <4>1, <4>2 DEF Lasting, SameRequest
      <4> QED BY <1>1, <4>3 DEF Lasting, k
    <3>3. Current(gjob[p])'
      <4> SUFFICES ASSUME ~gjob'[p].overtaken, gjob[p].pc \in {"check", "write"}
                   PROVE  Current(gjob[p])'
        BY <1>5, <2>2 DEF Current, SameRequest
      <4>1. member'[gjob[p].group] = member[gjob[p].group]
        BY <1>3, <1>5, <2>2, <3>1 DEF Lasting
      <4>2. gjob[p].op \in {"add", "update", "expel"} =>
              (TargetAllowed(gjob'[p], gjob[p].seen) <=> TargetAllowed(gjob[p], gjob[p].seen))
        BY <1>5, <2>2, SameTarget
      <4> QED BY <1>5, <2>2, <3>1, <4>1, <4>2 DEF Current, SameRequest
    <3> QED BY <3>2, <3>3
  <2> QED BY <2>1, <2>2
<1> QED BY <1>4, <1>6, <1>7, <1>8 DEF GroupInv

LEMMA GroupStepInv ==
  ASSUME GroupInv, NEW h \in GroupHandlers, GroupStep(h) \/ FailGroup(h)
  PROVE  GroupInv' /\ Managed /\ groups \subseteq groups'
<1>1. ASSUME CreateGroup(h) PROVE GroupInv' /\ Managed /\ groups \subseteq groups'
  BY <1>1, CreateGroupStep
<1>2. ASSUME ~CreateGroup(h) PROVE GroupInv' /\ Managed /\ groups \subseteq groups'
  <2>1. groups' = groups
    BY <1>2 DEF GroupStep, Authorize, CheckTarget, AddMember, UpdateMember, RemoveMember,
                RenameGroup, FindFollow, ToggleFollow, FailGroup
  <2>2. CASE RenameGroup(h) \/ FailGroup(h)
    BY <2>1, <2>2, GroupAnswered, MembersStay DEF RenameGroup, FailGroup
  <2> QED BY <1>2, <2>1, <2>2, AuthorizeStep, CheckTargetStep, FollowStep, AddMemberStep,
             UpdateMemberStep, RemoveMemberStep, MembersStay DEF GroupStep
<1> QED BY <1>1, <1>2
-----------------------------------------------------------------------------
(* Articles.                                                                *)
Words == Texts \cup {NoText}
GroupOrNone == GroupIds \cup {NoGroup}

Rows ==
  [exists : BOOLEAN, author : Users \cup {"nobody"}, group : GroupOrNone,
   visibility : Visibilities, published : BOOLEAN, private : BOOLEAN,
   status : {"draft", "public"}, raw : Words, rendered : Words, last : Words, deleted : BOOLEAN]

FormType ==
  [visibility : Visibilities \cup {Kept}, group : GroupOrNone \cup {Kept}, text : Words,
   published : BOOLEAN, private : BOOLEAN, column : Columns, owner : Users \cup {"nobody"}]

ArticleJobs ==
  [pc : ArticlePCs, op : ArticleOps, actor : Users \cup {"nobody"},
   article : ArticleIds \cup {"none"}, form : FormType, row : Rows, calm : BOOLEAN]

ArticleTypes ==
  /\ article \in [ArticleIds -> Rows]
  /\ ajob \in [ArticleHandlers -> ArticleJobs]
  /\ abegun \in 0..MaxJobs
  /\ notice \in [ArticleIds -> {"idle", "read", "store"}]
  /\ notified \subseteq ArticleIds /\ stale \subseteq ArticleIds /\ torn \subseteq ArticleIds

(* The published text and the last published one are one; the draft is the  *)
(* third copy, and group and visibility keep the constraints.               *)
OneText(row) ==
  /\ row.rendered = row.last
  /\ row.exists /\ row.status = "public" => row.raw = row.last

RowGood(a) ==
  /\ a \notin torn => OneText(article[a])
  /\ article[a].visibility = "members" => article[a].group \in groups
  /\ article[a].group \in groups \cup {NoGroup}

NoticeGood(a) == notice[a] = "store" /\ a \notin stale => Announceable(article[a])

(* The row a request has read is the row that stands; a group that is gone  *)
(* was not one of a members-only article.                                   *)
Fresh(j) ==
  LET row == article[j.article] IN
    /\ j.row.exists = row.exists /\ j.row.author = row.author /\ j.row.deleted = row.deleted
    /\ j.row.visibility = row.visibility /\ j.row.private = row.private /\ j.row.last = row.last
    /\ j.row.visibility = "members" => j.row.group = row.group

(* What a request relies on at its write, or its answer.                    *)
JobGood(j) ==
  /\ j.pc # "idle" => j.article \in ArticleIds /\ j.actor \in Users
  /\ j.pc = "check" => j.op \in Editing \cup {"create", "read"}
  /\ j.pc = "write" => j.op # "read"
  /\ j.pc # "idle" /\ j.op = "create" => ~article[j.article].exists
  /\ j.pc \in {"check", "write"} /\ j.op \notin {"create", "read"} => MayTouch(j.actor, j.row)
  /\ j.pc = "check" /\ j.op = "read" => ForMembers(j.row)
  /\ j.pc \in {"check", "write"} /\ j.op # "create" /\ j.calm => Fresh(j)

(* A request that shares its article with one that writes is not calm, and  *)
(* one that creates its article shares it with none.                        *)
Together(h, p) ==
  h # p /\ ajob[h].pc # "idle" /\ ajob[p].pc # "idle" /\ ajob[h].article = ajob[p].article

Apart(h, p) == ajob[h].op # "create" /\ (ajob[p].op # "read" => ~ajob[h].calm)

ArtInv ==
  /\ ArticleTypes
  /\ \A a \in ArticleIds : RowGood(a) /\ NoticeGood(a)
  /\ \A h \in ArticleHandlers : JobGood(ajob[h])
  /\ \A h, p \in ArticleHandlers : Together(h, p) => Apart(h, p)

(* What the action properties say of one step.                              *)
Reads ==
  \A h \in ArticleHandlers :
    ajob[h].pc # "answer" /\ ajob'[h].pc = "answer" =>
      /\ Readable(ajob[h].actor, ajob'[h].row)
      /\ ajob[h].calm => Readable(ajob[h].actor, article[ajob[h].article])

Writes ==
  /\ \A a \in ArticleIds :
       article[a].exists /\ article'[a] # article[a] =>
         \/ article'[a] = [article[a] EXCEPT !.group = NoGroup]
         \/ \E h \in ArticleHandlers :
              /\ MayWrite(h, a)
              /\ article'[a].exists /\ article'[a].author # article[a].author =>
                   ajob[h].op \in Editing /\ ajob[h].form.column = "author"
  /\ \A a \in ArticleIds \ stale :
       a \in notified' \ notified =>
         /\ article[a].visibility = "public" /\ article[a].status = "public"
         /\ article[a].published /\ ~article[a].private

Acts == Reads /\ Writes

LEMMA NothingWritten == article' = article /\ notified' = notified => Writes
BY DEF Writes

LEMMA NobodyReads ==
  ASSUME \A h \in ArticleHandlers : ajob'[h].pc = "answer" => ajob[h].pc = "answer"
  PROVE  Reads
BY DEF Reads

LEMMA NothingDone ==
  ASSUME UNCHANGED <<article, ajob, notified>>
  PROVE  Acts
BY NothingWritten, NobodyReads DEF Acts

LEMMA GoneType == Gone \in Rows /\ ~Gone.exists
BY DEF Gone, Rows, GroupOrNone, Visibilities, Words, NoText

LEMMA IdleFormType == NoForm \in FormType
BY DEF NoForm, FormType, Visibilities, GroupOrNone, Words, Columns

LEMMA IdleArticleType ==
  NoArticleJob \in ArticleJobs /\ NoArticleJob.pc = "idle"
<1> QED BY IdleFormType, GoneType DEF NoArticleJob, ArticleJobs, ArticlePCs, ArticleOps

LEMMA IdleArticleGood == JobGood(NoArticleJob)
BY IdleArticleType DEF JobGood

LEMMA ArticlesInitInv == GroupsInit /\ ArticlesInit => ArtInv
<1> SUFFICES ASSUME GroupsInit, ArticlesInit PROVE ArtInv
  OBVIOUS
<1>1. ArticleTypes
  BY GoneType, IdleArticleType, ArticlesAssumption DEF ArticlesInit, ArticleTypes
<1>2. \A a \in ArticleIds : RowGood(a) /\ NoticeGood(a)
  BY DEF ArticlesInit, RowGood, OneText, NoticeGood, Gone
<1>3. \A h \in ArticleHandlers : ajob[h] = NoArticleJob
  BY DEF ArticlesInit
<1> QED BY <1>1, <1>2, <1>3, IdleArticleType, IdleArticleGood DEF ArtInv, Together
-----------------------------------------------------------------------------
(* The groups move on under the articles.                                   *)
LEMMA ArticlesStay ==
  ASSUME ArtInv, UNCHANGED articleVars, groups \subseteq groups'
  PROVE  ArtInv'
<1>1. ArticleTypes'
  BY DEF articleVars, ArtInv, ArticleTypes
<1>2. ASSUME NEW a \in ArticleIds PROVE RowGood(a)' /\ NoticeGood(a)'
  BY DEF articleVars, ArtInv, RowGood, OneText, NoticeGood, Announceable
<1>3. \A h \in ArticleHandlers : JobGood(ajob[h])'
  BY DEF articleVars, ArtInv, JobGood, Fresh
<1>4. \A h, p \in ArticleHandlers : Together(h, p)' => Apart(h, p)'
  BY DEF articleVars, ArtInv, Together, Apart
<1> QED BY <1>1, <1>2, <1>3, <1>4 DEF ArtInv

(* A request moves on, or is answered, and the rows stay.                   *)
LEMMA ArticleJobOn ==
  ASSUME ArtInv, NEW h \in ArticleHandlers, NEW j \in ArticleJobs, JobGood(j),
         \/ j.pc = "idle"
         \/ ajob[h].pc # "idle" /\ j.article = ajob[h].article /\ j.op = ajob[h].op
              /\ j.calm = ajob[h].calm,
         ajob' = [ajob EXCEPT ![h] = j],
         UNCHANGED <<article, abegun, notice, notified, stale, torn>>, UNCHANGED groupsVars
  PROVE  ArtInv' /\ (j.pc # "answer" => Acts)
<1>0. j.pc # "answer" => Acts
  BY NothingWritten, NobodyReads DEF Acts, ArtInv, ArticleTypes
<1>1. ArticleTypes'
  BY DEF ArtInv, ArticleTypes
<1>2. ASSUME NEW a \in ArticleIds PROVE RowGood(a)' /\ NoticeGood(a)'
  BY DEF groupsVars, ArtInv, RowGood, OneText, NoticeGood, Announceable
<1>3. \A p \in ArticleHandlers : JobGood(ajob'[p])
  BY DEF ArtInv, ArticleTypes
<1>4. \A p \in ArticleHandlers : JobGood(ajob[p])'
  BY <1>3 DEF JobGood, Fresh
<1>5. ASSUME NEW q \in ArticleHandlers, NEW p \in ArticleHandlers, Together(q, p)'
      PROVE  Apart(q, p)'
  <2>1. /\ ajob'[h] = j /\ j \in ArticleJobs /\ ajob[h] \in ArticleJobs
        /\ \A r \in ArticleHandlers \ {h} : ajob'[r] = ajob[r]
    BY DEF ArtInv, ArticleTypes
  <2>2. Together(q, p)
    BY <1>5, <2>1 DEF Together
  <2> QED BY <1>5, <2>1, <2>2 DEF ArtInv, Together, Apart
<1> QED BY <1>0, <1>1, <1>2, <1>4, <1>5 DEF ArtInv

LEMMA ArticleAnswered ==
  ASSUME ArtInv, NEW h \in ArticleHandlers, ArticleAnswer(h),
         UNCHANGED <<article, abegun, notice, notified, stale, torn>>, UNCHANGED groupsVars
  PROVE  ArtInv' /\ Acts
BY ArticleJobOn, IdleArticleType, IdleArticleGood DEF ArticleAnswer

LEMMA FindArticleStep ==
  ASSUME ArtInv, NEW h \in ArticleHandlers, FindArticle(h)
  PROVE  ArtInv' /\ Acts
<1> DEFINE row == article[ajob[h].article]
           pc == IF ajob[h].op \in Editing THEN "check" ELSE "write"
           j == [ajob[h] EXCEPT !.row = row, !.pc = pc]
<1>1. UNCHANGED <<article, abegun, notice, notified, stale, torn>> /\ UNCHANGED groupsVars
  BY DEF FindArticle
<1>2. CASE /\ row.exists /\ MayTouch(ajob[h].actor, row)
           /\ ajob[h].op = "rollback" => row.last # NoText
  <2>1. ajob' = [ajob EXCEPT ![h] = j]
    BY <1>2 DEF FindArticle
  <2>2. /\ ajob[h] \in ArticleJobs /\ ajob[h].pc = "find" /\ JobGood(ajob[h])
        /\ ajob[h].article \in ArticleIds /\ ajob[h].actor \in Users /\ ajob[h].op # "read"
    BY DEF ArtInv, ArticleTypes, FindArticle, JobGood
  <2>3. /\ row \in Rows /\ pc \in {"check", "write"}
        /\ pc = "check" => ajob[h].op \in Editing
    BY <2>2 DEF ArtInv, ArticleTypes
  <2>4. row = article[ajob[h].article]
    OBVIOUS
  <2> HIDE DEF row, pc
  <2>5. /\ j \in ArticleJobs /\ j.pc = pc /\ j.row = row /\ j.op = ajob[h].op
        /\ j.actor = ajob[h].actor /\ j.article = ajob[h].article /\ j.calm = ajob[h].calm
    BY <2>2, <2>3 DEF ArticleJobs, ArticlePCs
  <2> HIDE DEF j
  <2>6. JobGood(j)
    <3>1. Fresh(j)
      BY <2>4, <2>5 DEF Fresh
    <3> QED BY <1>2, <2>2, <2>3, <2>4, <2>5, <3>1 DEF JobGood
  <2> QED BY <1>1, <2>1, <2>2, <2>3, <2>5, <2>6, ArticleJobOn
<1>3. CASE ~(/\ row.exists /\ MayTouch(ajob[h].actor, row)
             /\ ajob[h].op = "rollback" => row.last # NoText)
  <2>1. ArticleAnswer(h)
    BY <1>3 DEF FindArticle
  <2> QED BY <1>1, <2>1, ArticleAnswered
<1> QED BY <1>2, <1>3

LEMMA CheckFormStep ==
  ASSUME ArtInv, NEW h \in ArticleHandlers, CheckForm(h)
  PROVE  ArtInv' /\ Acts
<1> DEFINE author == IF ajob[h].op = "create" THEN ajob[h].actor ELSE ajob[h].row.author
           status == article[ajob[h].article].status
           j == [ajob[h] EXCEPT !.pc = "write", !.row.status = status]
<1>1. UNCHANGED <<article, abegun, notice, notified, stale, torn>> /\ UNCHANGED groupsVars
  BY DEF CheckForm
<1>2. CASE FormAllowed(author, ajob[h])
  <2>1. /\ ajob[h] \in ArticleJobs /\ ajob[h].pc = "check" /\ JobGood(ajob[h])
        /\ ajob[h].article \in ArticleIds /\ ajob[h].op # "read"
    BY DEF ArtInv, ArticleTypes, CheckForm, JobGood
  <2>2. ajob' = [ajob EXCEPT ![h] = j]
    BY <1>2, <2>1 DEF CheckForm, ArtInv, ArticleTypes
  <2>3. status \in {"draft", "public"}
    BY <2>1 DEF ArtInv, ArticleTypes, Rows
  <2> HIDE DEF status
  <2>4. [ajob[h].row EXCEPT !.status = status] \in Rows
    BY <2>1, <2>3 DEF ArticleJobs, Rows
  <2>5. /\ j \in ArticleJobs /\ j.pc = "write" /\ j.op = ajob[h].op
        /\ j.actor = ajob[h].actor /\ j.article = ajob[h].article /\ j.calm = ajob[h].calm
    BY <2>1, <2>4 DEF ArticleJobs, ArticlePCs
  <2>6. /\ j.row.exists = ajob[h].row.exists /\ j.row.author = ajob[h].row.author
        /\ j.row.deleted = ajob[h].row.deleted /\ j.row.visibility = ajob[h].row.visibility
        /\ j.row.private = ajob[h].row.private /\ j.row.last = ajob[h].row.last
        /\ j.row.group = ajob[h].row.group
    BY <2>1 DEF ArticleJobs, Rows
  <2> HIDE DEF j
  <2>7. JobGood(j)
    <3>1. Fresh(ajob[h]) => Fresh(j)
      BY <2>5, <2>6 DEF Fresh
    <3>2. MayTouch(ajob[h].actor, ajob[h].row) => MayTouch(j.actor, j.row)
      BY <2>5, <2>6 DEF MayTouch
    <3> QED BY <2>1, <2>5, <3>1, <3>2 DEF JobGood
  <2> QED BY <1>1, <2>1, <2>2, <2>5, <2>7, ArticleJobOn
<1>3. CASE ~FormAllowed(author, ajob[h])
  <2>1. ArticleAnswer(h)
    BY <1>3 DEF CheckForm
  <2> QED BY <1>1, <2>1, ArticleAnswered
<1> QED BY <1>2, <1>3

(* A reader with the row, at once or after the look for the membership.      *)
LEMMA OpenArticleStep ==
  ASSUME ArtInv, NEW h \in ArticleHandlers, OpenArticle(h)
  PROVE  ArtInv' /\ Acts
<1> DEFINE row == article[ajob[h].article]
<1>1. UNCHANGED <<article, abegun, notice, notified, stale, torn>> /\ UNCHANGED groupsVars
  BY DEF OpenArticle
<1>2. /\ ajob[h] \in ArticleJobs /\ ajob[h].pc = "find" /\ ajob[h].op = "read"
      /\ ajob[h].article \in ArticleIds /\ ajob[h].actor \in Users /\ row \in Rows
  BY DEF ArtInv, ArticleTypes, OpenArticle, On, JobGood
<1>3. row = article[ajob[h].article]
  OBVIOUS
<1> HIDE DEF row
<1>4. ASSUME NEW pc \in {"answer", "check"}, pc = "answer" => Open(ajob[h].actor, row),
             pc = "check" => ForMembers(row),
             ajob' = [ajob EXCEPT ![h].row = row, ![h].pc = pc]
      PROVE  ArtInv' /\ Acts
  <2> DEFINE j == [ajob[h] EXCEPT !.row = row, !.pc = pc]
  <2>1. ajob' = [ajob EXCEPT ![h] = j]
    BY <1>4 DEF ArtInv, ArticleTypes
  <2>2. /\ j \in ArticleJobs /\ j.pc = pc /\ j.row = row /\ j.op = "read"
        /\ j.actor = ajob[h].actor /\ j.article = ajob[h].article /\ j.calm = ajob[h].calm
    BY <1>2 DEF ArticleJobs, ArticlePCs
  <2>3. ajob'[h] = j /\ \A p \in ArticleHandlers \ {h} : ajob'[p] = ajob[p]
    BY <2>1 DEF ArtInv, ArticleTypes
  <2> HIDE DEF j
  <2>4. JobGood(j)
    BY <1>2, <1>3, <1>4, <2>2 DEF JobGood, Fresh
  <2>5. ArtInv'
    BY <1>1, <1>2, <2>1, <2>2, <2>4, ArticleJobOn
  <2>6. Reads
    BY <1>3, <1>4, <2>2, <2>3 DEF Reads, Open, Readable
  <2> QED BY <1>1, <2>5, <2>6, NothingWritten DEF Acts
<1>5. CASE Open(ajob[h].actor, row)
  BY <1>3, <1>4, <1>5 DEF OpenArticle
<1>6. CASE ~Open(ajob[h].actor, row) /\ ForMembers(row)
  BY <1>3, <1>4, <1>6 DEF OpenArticle
<1>7. CASE ~Open(ajob[h].actor, row) /\ ~ForMembers(row)
  BY <1>1, <1>3, <1>7, ArticleAnswered DEF OpenArticle
<1> QED BY <1>5, <1>6, <1>7

LEMMA CheckReaderStep ==
  ASSUME ArtInv, NEW h \in ArticleHandlers, CheckReader(h)
  PROVE  ArtInv' /\ Acts
<1> DEFINE j == [ajob[h] EXCEPT !.pc = "answer"]
<1>1. UNCHANGED <<article, abegun, notice, notified, stale, torn>> /\ UNCHANGED groupsVars
  BY DEF CheckReader
<1>2. /\ ajob[h] \in ArticleJobs /\ ajob[h].pc = "check" /\ ajob[h].op = "read"
      /\ ajob[h].article \in ArticleIds /\ ajob[h].actor \in Users
      /\ ForMembers(ajob[h].row) /\ (ajob[h].calm => Fresh(ajob[h]))
  BY DEF ArtInv, ArticleTypes, CheckReader, On, JobGood
<1>3. CASE Belongs(ajob[h].actor, ajob[h].row)
  <2>1. ajob' = [ajob EXCEPT ![h] = j]
    BY <1>3 DEF CheckReader
  <2>2. /\ j \in ArticleJobs /\ j.pc = "answer" /\ j.row = ajob[h].row /\ j.op = "read"
        /\ j.actor = ajob[h].actor /\ j.article = ajob[h].article /\ j.calm = ajob[h].calm
    BY <1>2 DEF ArticleJobs, ArticlePCs
  <2>3. ajob'[h] = j /\ \A p \in ArticleHandlers \ {h} : ajob'[p] = ajob[p]
    BY <2>1 DEF ArtInv, ArticleTypes
  <2> HIDE DEF j
  <2>4. JobGood(j)
    BY <1>2, <2>2 DEF JobGood
  <2>5. ArtInv'
    BY <1>1, <1>2, <2>1, <2>2, <2>4, ArticleJobOn
  <2>6. Readable(ajob[h].actor, ajob[h].row)
    BY <1>2, <1>3 DEF Belongs, ForMembers, Readable
  <2>7. ajob[h].calm => Readable(ajob[h].actor, article[ajob[h].article])
    BY <1>2, <1>3 DEF Belongs, ForMembers, Readable, Fresh
  <2>8. Reads
    BY <2>2, <2>3, <2>6, <2>7 DEF Reads
  <2> QED BY <1>1, <2>5, <2>8, NothingWritten DEF Acts
<1>4. CASE ~Belongs(ajob[h].actor, ajob[h].row)
  BY <1>1, <1>4, ArticleAnswered DEF CheckReader
<1> QED BY <1>3, <1>4

(* A request comes in: the others on its article, and itself if there are   *)
(* any, are not alone any more.                                             *)
LEMMA SendStep ==
  ASSUME ArtInv, NEW h \in ArticleHandlers, NEW op \in ArticleOps, NEW u \in Users,
         NEW a \in ArticleIds, NEW form \in FormType, SendArticle(h, op, u, a, form),
         op = "create" => ~article[a].exists /\ a \notin {ajob[p].article : p \in ArticleHandlers},
         gbegun \in Nat
  PROVE  ArtInv' /\ Acts
<1> DEFINE calm == Writers(h, a) = {}
           pc == IF op = "create" THEN "check" ELSE "find"
           j == [NoArticleJob EXCEPT !.pc = pc, !.op = op, !.actor = u, !.article = a,
                   !.form = form, !.calm = calm]
<1>1. /\ UNCHANGED <<article, notice, notified, stale, torn>> /\ UNCHANGED groupsVars
      /\ abegun' \in 0..MaxJobs /\ ajob[h].pc = "idle" /\ (op # "create" => article[a].exists)
  <2>1. abegun + gbegun < MaxJobs /\ abegun' = abegun + 1 /\ abegun \in Nat /\ MaxJobs \in Nat
    <3>1. abegun \in Nat /\ MaxJobs \in Nat
      BY ArticlesAssumption DEF ArtInv, ArticleTypes
    <3>2. abegun + gbegun < MaxJobs /\ abegun' = abegun + 1
      BY DEF SendArticle
    <3> QED BY <3>1, <3>2
  <2>2. abegun' \in 0..MaxJobs
    BY ONLY <2>1, gbegun \in Nat
  <2> QED BY <2>2 DEF SendArticle
<1>2. /\ ajob' = [p \in ArticleHandlers |->
           IF p = h THEN j
           ELSE IF op # "read" /\ p \in Others(h, a) THEN [ajob[p] EXCEPT !.calm = FALSE]
           ELSE ajob[p]]
  BY DEF SendArticle
<1>3. calm \in BOOLEAN /\ pc \in {"check", "find"} /\ (pc = "check" => op = "create")
      /\ (calm <=> Writers(h, a) = {})
  OBVIOUS
<1> HIDE DEF calm, pc
<1>4. /\ j \in ArticleJobs /\ j.pc = pc /\ j.op = op /\ j.actor = u /\ j.article = a
      /\ j.calm = calm
  BY <1>3, IdleArticleType DEF ArticleJobs, ArticlePCs
<1> HIDE DEF j
<1>5. ASSUME NEW p \in ArticleHandlers \ {h}
      PROVE  /\ ajob'[p] \in ArticleJobs
             /\ ajob'[p].pc = ajob[p].pc /\ ajob'[p].op = ajob[p].op
             /\ ajob'[p].actor = ajob[p].actor /\ ajob'[p].article = ajob[p].article
             /\ ajob'[p].row = ajob[p].row
             /\ (ajob'[p].calm => ajob[p].calm /\ ~(op # "read" /\ p \in Others(h, a)))
  <2>0. ajob[p] \in ArticleJobs
    BY DEF ArtInv, ArticleTypes
  <2>1. CASE op # "read" /\ p \in Others(h, a)
    <3>1. ajob'[p] = [ajob[p] EXCEPT !.calm = FALSE]
      BY <1>2, <2>1
    <3> QED BY <2>0, <3>1 DEF ArticleJobs
  <2>2. CASE ~(op # "read" /\ p \in Others(h, a))
    BY <1>2, <2>0, <2>2
  <2> QED BY <2>1, <2>2
<1>6. ArticleTypes'
  <2>1. \A p \in ArticleHandlers : ajob'[p] \in ArticleJobs
    BY <1>2, <1>4, <1>5
  <2>2. ajob' \in [ArticleHandlers -> ArticleJobs]
    BY <1>2, <2>1
  <2> QED BY <1>1, <2>2 DEF ArtInv, ArticleTypes
<1>7. ASSUME NEW b \in ArticleIds PROVE RowGood(b)' /\ NoticeGood(b)'
  BY <1>1 DEF groupsVars, ArtInv, RowGood, OneText, NoticeGood, Announceable
<1>8. ASSUME NEW p \in ArticleHandlers PROVE JobGood(ajob[p])'
  <2>1. CASE p = h
    <3>1. ajob'[h] = j
      BY <1>2
    <3>2. JobGood(j)
      BY <1>1, <1>3, <1>4 DEF JobGood
    <3> QED BY <1>1, <2>1, <3>1, <3>2 DEF JobGood, Fresh
  <2>2. CASE p # h
    <3>1. JobGood(ajob[p])
      BY DEF ArtInv
    <3> QED BY <1>1, <1>5, <2>2, <3>1 DEF JobGood, Fresh
  <2> QED BY <2>1, <2>2
<1>9. ASSUME NEW q \in ArticleHandlers, NEW p \in ArticleHandlers, Together(q, p)'
      PROVE  Apart(q, p)'
  <2>0. ajob'[h] = j
    BY <1>2
  <2>1. CASE q = h
    <3>1. p \in Others(h, a)
      BY <1>4, <1>5, <1>9, <2>0, <2>1 DEF Together, Others
    <3>2. ajob[p].op # "read" => ~calm
      BY <1>3, <3>1 DEF Writers
    <3>3. op # "create"
      BY <3>1 DEF Others
    <3>4. p # h
      BY <1>9, <2>1 DEF Together
    <3> QED BY <1>4, <1>5, <2>0, <2>1, <3>2, <3>3, <3>4 DEF Apart
  <2>2. CASE q # h /\ p = h
    <3>1. q \in Others(h, a)
      BY <1>4, <1>5, <1>9, <2>0, <2>2 DEF Together, Others
    <3>2. op # "create"
      BY <3>1 DEF Others
    <3>3. ajob[q].op # "create"
      BY <1>1, <3>1, <3>2 DEF ArtInv, JobGood, Others
    <3> QED BY <1>4, <1>5, <2>0, <2>2, <3>1, <3>3 DEF Apart
  <2>3. CASE q # h /\ p # h
    <3>1. Together(q, p)
      BY <1>5, <1>9, <2>3 DEF Together
    <3> QED BY <1>5, <2>3, <3>1 DEF ArtInv, Apart
  <2> QED BY <2>1, <2>2, <2>3
<1>10. ArtInv'
  BY <1>6, <1>7, <1>8, <1>9 DEF ArtInv
<1>11. Reads
  <2>1. ajob'[h].pc # "answer"
    BY <1>2, <1>3, <1>4
  <2> QED BY <1>5, <2>1, NobodyReads
<1> QED BY <1>1, <1>10, <1>11, NothingWritten DEF Acts

LEMMA FormsTyped ==
  ASSUME NEW row \in Rows, abegun + gbegun < MaxJobs, abegun \in Nat, gbegun \in Nat,
         groups \subseteq GroupIds
  PROVE  Forms(row) \cup Bodies(row) \subseteq FormType
<1>1. abegun + 1 \in Words
  BY ArticlesAssumption DEF Words, Texts
<1>2. NoForm \in FormType
  BY IdleFormType
<1>3. ASSUME NEW v \in Visibilities, NEW g \in GroupOrNone PROVE Picked(v, g) \in FormType
  <2>1. (v # "unlisted") \in BOOLEAN /\ (v = "private") \in BOOLEAN
    OBVIOUS
  <2> QED BY <1>1, <1>2, <2>1 DEF Picked, FormType
<1>4. ASSUME NEW g \in GroupOrNone \cup {Kept} PROVE Unpicked(row, g) \in FormType
  BY <1>1, <1>2 DEF Unpicked, FormType, Rows
<1>5. Forms(row) \subseteq FormType
  BY <1>3, <1>4 DEF Forms, GroupOrNone
<1>6. Bodies(row) \subseteq FormType
  <2> DEFINE plain == [Unpicked(row, Kept) EXCEPT !.visibility = Kept]
  <2>1. plain \in FormType
    BY <1>4 DEF FormType
  <2>2. Bodies(row) = {[plain EXCEPT !.column = c] : c \in Columns \ {"author"}}
                        \cup {[plain EXCEPT !.column = "author", !.owner = u] : u \in Users}
    BY DEF Bodies
  <2> HIDE DEF plain
  <2>3. \A c \in Columns : [plain EXCEPT !.column = c] \in FormType
    BY <2>1 DEF FormType
  <2>4. \A u \in Users : [plain EXCEPT !.column = "author", !.owner = u] \in FormType
    BY <2>1 DEF FormType, Columns
  <2> QED BY <2>2, <2>3, <2>4
<1> QED BY <1>5, <1>6

LEMMA SubmitArticleStep ==
  ASSUME ArtInv, GroupTypes, NEW h \in ArticleHandlers, SubmitArticle(h)
  PROVE  ArtInv' /\ Acts
<1>1. /\ abegun \in Nat /\ gbegun \in Nat /\ groups \subseteq GroupIds
      /\ Authors \subseteq Users
      /\ \A a \in ArticleIds : article[a] \in Rows
  BY ArticlesAssumption DEF GroupTypes, ArtInv, ArticleTypes
<1>2. NoForm \in FormType
  BY IdleFormType
<1>3. CASE \E u \in Authors, a \in ArticleIds : \E form \in Forms(Gone) :
             a \notin {ajob[p].article : p \in ArticleHandlers} /\ ~article[a].exists
               /\ SendArticle(h, "create", u, a, form)
  <2>1. PICK u \in Authors, a \in ArticleIds, form \in Forms(Gone) :
          a \notin {ajob[p].article : p \in ArticleHandlers} /\ ~article[a].exists
            /\ SendArticle(h, "create", u, a, form)
    BY <1>3
  <2>2. form \in FormType
    BY <1>1, <2>1, FormsTyped, GoneType DEF SendArticle
  <2> QED BY <1>1, <2>1, <2>2, SendStep DEF ArticleOps
<1>4. CASE \E u \in Users, a \in ArticleIds, op \in {"save", "publish"} :
             \E form \in Forms(article[a]) : SendArticle(h, op, u, a, form)
  <2>1. PICK u \in Users, a \in ArticleIds, op \in {"save", "publish"} :
             \E form \in Forms(article[a]) : SendArticle(h, op, u, a, form)
    BY <1>4
  <2>2. PICK form \in Forms(article[a]) : SendArticle(h, op, u, a, form)
    BY <2>1
  <2>3. form \in FormType
    BY <1>1, <2>2, FormsTyped DEF SendArticle
  <2>4. op \in ArticleOps /\ op # "create"
    BY DEF ArticleOps, Editing
  <2> QED BY <1>1, <2>2, <2>3, <2>4, SendStep
<1>5. CASE \E u \in Users, a \in ArticleIds, op \in Editing :
             \E form \in Bodies(article[a]) : SendArticle(h, op, u, a, form)
  <2>1. PICK u \in Users, a \in ArticleIds, op \in Editing :
             \E form \in Bodies(article[a]) : SendArticle(h, op, u, a, form)
    BY <1>5
  <2>2. PICK form \in Bodies(article[a]) : SendArticle(h, op, u, a, form)
    BY <2>1
  <2>3. form \in FormType
    BY <1>1, <2>2, FormsTyped DEF SendArticle
  <2>4. op \in ArticleOps /\ op # "create"
    BY DEF ArticleOps, Editing
  <2> QED BY <1>1, <2>2, <2>3, <2>4, SendStep
<1>6. CASE \E u \in Users, a \in ArticleIds, op \in ArticleOps \ (Editing \cup {"create"}) :
             SendArticle(h, op, u, a, NoForm)
  BY <1>1, <1>2, <1>6, SendStep
<1> QED BY <1>3, <1>4, <1>5, <1>6 DEF SubmitArticle

(* What a write on the row of an article does, if it does anything.         *)
Mends(job, a) == job.calm /\ ~NamesText(job) /\ (a \notin torn \/ job.op = "publish")

StoreEffect(h, a, row) ==
  /\ ajob' = [ajob EXCEPT ![h] = NoArticleJob]
  /\ UNCHANGED <<abegun, notified>>
  /\ \/ UNCHANGED <<article, notice, stale, torn>>
     \/ /\ article' = [article EXCEPT ![a] = row]
        /\ article[a].exists \/ ajob[h].op = "create"
        /\ notice' = notice \/ notice' = [notice EXCEPT ![a] = "read"]
        /\ stale' = stale \cup {a}
        /\ torn' \in {torn, torn \cup {a}, torn \ {a}} /\ (a \notin torn' => Mends(ajob[h], a))
        /\ row.group # NoGroup => row.group \in groups
        /\ row.visibility = "members" => row.group # NoGroup

LEMMA Stores ==
  ASSUME NEW h \in ArticleHandlers, NEW row, NEW announce, Store(h, row, announce)
  PROVE  StoreEffect(h, ajob[h].article, row) /\ UNCHANGED groupsVars
<1> DEFINE a == ajob[h].article
<1>1. CASE Storable(row) /\ (article[a].exists \/ ajob[h].op = "create")
  <2>1. /\ article' = [article EXCEPT ![a] = row] /\ stale' = stale \cup {a}
        /\ notice' = IF announce THEN [notice EXCEPT ![a] = "read"] ELSE notice
        /\ torn' = IF ~ajob[h].calm \/ NamesText(ajob[h]) THEN torn \cup {a}
                   ELSE IF ajob[h].op = "publish" THEN torn \ {a} ELSE torn
    BY <1>1 DEF Store
  <2>2. notice' = notice \/ notice' = [notice EXCEPT ![a] = "read"]
    BY <2>1, Zenon
  <2>3. torn' \in {torn, torn \cup {a}, torn \ {a}} /\ (a \notin torn' => Mends(ajob[h], a))
    BY <2>1 DEF Mends
  <2> QED BY <1>1, <2>1, <2>2, <2>3 DEF Store, StoreEffect, Storable, ArticleAnswer
<1>2. CASE ~(Storable(row) /\ (article[a].exists \/ ajob[h].op = "create"))
  BY <1>2 DEF Store, StoreEffect, ArticleAnswer
<1> QED BY <1>1, <1>2

LEMMA StoreStep ==
  ASSUME ArtInv, NEW h \in ArticleHandlers, NEW a, a = ajob[h].article, NEW row \in Rows,
         StoreEffect(h, a, row), UNCHANGED groupsVars,
         ajob[h].pc = "write", Mends(ajob[h], a) => OneText(row),
         article[a].exists => ajob[h].op # "create",
         row.author # article[a].author => ajob[h].op \in Editing \cup {"create"},
         row.author # article[a].author /\ ajob[h].op # "create" => ajob[h].form.column = "author"
  PROVE  ArtInv' /\ Acts
<1>0. /\ ajob[h] \in ArticleJobs /\ a \in ArticleIds /\ JobGood(ajob[h]) /\ article[a] \in Rows
      /\ groups' = groups /\ member' = member
  BY DEF ArtInv, ArticleTypes, JobGood, groupsVars
<1>1. CASE UNCHANGED <<article, notice, stale, torn>>
  BY <1>1, ArticleAnswered DEF StoreEffect, ArticleAnswer
<1>2. CASE ~UNCHANGED <<article, notice, stale, torn>>
  <2>1. /\ ajob' = [ajob EXCEPT ![h] = NoArticleJob]
        /\ UNCHANGED <<abegun, notified>>
        /\ article' = [article EXCEPT ![a] = row]
        /\ article[a].exists \/ ajob[h].op = "create"
        /\ notice' = notice \/ notice' = [notice EXCEPT ![a] = "read"]
        /\ stale' = stale \cup {a}
        /\ torn' \in {torn, torn \cup {a}, torn \ {a}} /\ (a \notin torn' => Mends(ajob[h], a))
        /\ row.group # NoGroup => row.group \in groups
        /\ row.visibility = "members" => row.group # NoGroup
    BY <1>2 DEF StoreEffect
  <2>2. ArticleTypes'
    BY <1>0, <2>1, IdleArticleType DEF ArtInv, ArticleTypes
  <2>3. ASSUME NEW b \in ArticleIds PROVE RowGood(b)' /\ NoticeGood(b)'
    <3>1. CASE b = a
      <4>1. article'[b] = row /\ b \in stale'
        BY <1>0, <2>1, <3>1 DEF ArtInv, ArticleTypes
      <4>2. b \notin torn' => OneText(row)
        BY <2>1, <3>1
      <4> QED BY <1>0, <2>1, <3>1, <4>1, <4>2 DEF RowGood, NoticeGood
    <3>2. CASE b # a
      <4>1. /\ article'[b] = article[b] /\ notice'[b] = notice[b]
            /\ (b \in stale' <=> b \in stale) /\ (b \in torn' <=> b \in torn)
        BY <1>0, <2>1, <3>2 DEF ArtInv, ArticleTypes
      <4>2. RowGood(b) /\ NoticeGood(b)
        BY DEF ArtInv
      <4> QED BY <1>0, <4>1, <4>2 DEF RowGood, OneText, NoticeGood, Announceable
    <3> QED BY <3>1, <3>2
  <2>4. \A p \in ArticleHandlers \ {h} : ajob'[p] = ajob[p]
    BY <2>1 DEF ArtInv, ArticleTypes
  <2>5. ajob'[h] = NoArticleJob
    BY <2>1 DEF ArtInv, ArticleTypes
  <2>6. ASSUME NEW p \in ArticleHandlers PROVE JobGood(ajob[p])'
    <3>1. CASE p = h
      BY <2>5, <3>1, IdleArticleType DEF JobGood
    <3>2. CASE p # h /\ ajob[p].article # a
      <4>1. JobGood(ajob[p]) /\ article'[ajob[p].article] = article[ajob[p].article]
        BY <1>0, <2>1, <3>2 DEF ArtInv, ArticleTypes
      <4> QED BY <2>4, <3>2, <4>1 DEF JobGood, Fresh
    <3>3. CASE p # h /\ ajob[p].article = a /\ ajob[p].pc # "idle"
      <4>1. Together(p, h) /\ Together(h, p)
        BY <3>3 DEF Together
      <4>2. ~ajob[p].calm /\ ajob[p].op # "create"
        BY <1>0, <4>1 DEF ArtInv, Apart, JobGood
      <4> QED BY <1>0, <2>4, <3>3, <4>2 DEF JobGood, ArtInv
    <3>4. CASE p # h /\ ajob[p].pc = "idle"
      BY <2>4, <3>4 DEF JobGood
    <3> QED BY <3>1, <3>2, <3>3, <3>4
  <2>7. \A q, p \in ArticleHandlers : Together(q, p)' => Apart(q, p)'
    BY <2>4, <2>5, IdleArticleType DEF ArtInv, Together, Apart
  <2>8. Reads
    BY <2>4, <2>5, IdleArticleType, NobodyReads
  <2>9. Writes
    <3> SUFFICES ASSUME NEW b \in ArticleIds, article[b].exists, article'[b] # article[b]
                 PROVE  /\ MayWrite(h, b)
                        /\ article'[b].author # article[b].author =>
                             ajob[h].op \in Editing /\ ajob[h].form.column = "author"
      BY <2>1 DEF Writes
    <3>1. b = a /\ article'[b] = row
      BY <1>0, <2>1 DEF ArtInv, ArticleTypes
    <3>2. ajob[h].op \notin {"create", "read"}
      BY <1>0, <3>1 DEF JobGood
    <3>3. MayWrite(h, b)
      <4>1. MayTouch(ajob[h].actor, ajob[h].row) /\ (ajob[h].calm => Fresh(ajob[h]))
        BY <1>0, <3>2 DEF JobGood
      <4> QED BY <3>1, <4>1 DEF MayWrite, MayTouch, Fresh
    <3> QED BY <3>1, <3>2, <3>3
  <2> QED BY <2>2, <2>3, <2>6, <2>7, <2>8, <2>9 DEF ArtInv, Acts
<1> QED BY <1>1, <1>2

LEMMA Wanted ==
  ASSUME NEW job \in ArticleJobs
  PROVE  VisibilityOf(job) \in Visibilities /\ GroupOf(job) \in GroupOrNone
<1>1. job.form \in FormType /\ job.row \in Rows
  BY DEF ArticleJobs
<1>2. /\ job.form.visibility \in Visibilities \cup {Kept} /\ job.row.visibility \in Visibilities
      /\ job.form.group \in GroupOrNone \cup {Kept} /\ job.row.group \in GroupOrNone
  BY <1>1 DEF FormType, Rows
<1> QED BY <1>2 DEF VisibilityOf, GroupOf, Visibilities

(* What an update writes whatever its status.                               *)
LEMMA EditedRow ==
  ASSUME NEW job \in ArticleJobs, job.article \in ArticleIds, article[job.article] \in Rows
  PROVE  LET row == Edited(job) IN
           /\ row \in Rows
           /\ row.author # article[job.article].author => job.form.column = "author"
           /\ row.exists = article[job.article].exists
           /\ row.status = article[job.article].status /\ row.raw = article[job.article].raw
           /\ job.form.column \notin {"rendered", "last"} =>
                row.rendered = article[job.article].rendered /\ row.last = article[job.article].last
<1> DEFINE old == article[job.article]
           new == Spread(old, job.form)
           group == IF job.form.group = Kept THEN new.group ELSE job.form.group
           row == Edited(job)
<1>1. job.form \in FormType /\ job.row \in Rows /\ old \in Rows
  BY DEF ArticleJobs
<1>2. VisibilityOf(job) \in Visibilities
  BY Wanted
<1>3. /\ new \in Rows
      /\ new.author # old.author => job.form.column = "author"
      /\ new.exists = old.exists /\ new.status = old.status /\ new.raw = old.raw
      /\ job.form.column \notin {"rendered", "last"} =>
           new.rendered = old.rendered /\ new.last = old.last
  <2> DEFINE au == IF job.form.column = "author" THEN job.form.owner ELSE old.author
             de == old.deleted \/ job.form.column = "deleted"
             re == IF job.form.column = "rendered" THEN job.form.text ELSE old.rendered
             la == IF job.form.column = "last" THEN job.form.text ELSE old.last
  <2>1. new = [old EXCEPT !.author = au, !.deleted = de, !.rendered = re, !.last = la]
    BY DEF Spread
  <2>2. /\ au \in Users \cup {"nobody"} /\ de \in BOOLEAN /\ re \in Words /\ la \in Words
        /\ au # old.author => job.form.column = "author"
        /\ job.form.column \notin {"rendered", "last"} => re = old.rendered /\ la = old.last
    BY <1>1 DEF Rows, FormType
  <2> HIDE DEF old, new, au, de, re, la
  <2> QED BY <1>1, <2>1, <2>2 DEF Rows
<1>4. group \in GroupOrNone
  BY <1>1, <1>3 DEF FormType, Rows
<1>5. row = [new EXCEPT !.visibility = VisibilityOf(job), !.group = group]
  BY DEF Edited
<1> HIDE DEF new, group, old
<1>6. row \in Rows /\ row.author = new.author /\ row.exists = new.exists
      /\ row.status = new.status /\ row.raw = new.raw
      /\ row.rendered = new.rendered /\ row.last = new.last
  BY <1>2, <1>3, <1>4, <1>5 DEF Rows
<1> QED BY <1>3, <1>6 DEF old

(* The writes, one by one.                                                  *)
LEMMA WriteSteps ==
  ASSUME ArtInv, NEW h \in ArticleHandlers,
         CreateArticle(h) \/ SaveDraft(h) \/ PublishArticle(h) \/ PatchArticle(h)
           \/ RollbackDraft(h) \/ TrashArticle(h) \/ RestoreArticle(h)
  PROVE  ArtInv' /\ Acts
<1> DEFINE job == ajob[h]  a == job.article
<1>0. job \in ArticleJobs /\ job.pc = "write" /\ JobGood(job)
  BY DEF ArtInv, ArticleTypes, CreateArticle, SaveDraft, PublishArticle, PatchArticle,
         RollbackDraft, TrashArticle, RestoreArticle, On
<1>1. a \in ArticleIds /\ article[a] \in Rows /\ RowGood(a) /\ job.actor \in Users
      /\ job.form \in FormType /\ job.row \in Rows
  BY <1>0 DEF ArtInv, ArticleTypes, JobGood, ArticleJobs
<1>2. CASE CreateArticle(h)
  <2>1. PICK public \in BOOLEAN :
          /\ ~article[a].exists /\ job.op = "create"
          /\ Store(h, Created(job, public),
               public /\ job.form.published /\ VisibilityOf(job) = "public")
    BY <1>2 DEF CreateArticle, On
  <2> DEFINE row == Created(job, public)
  <2>2. StoreEffect(h, a, row) /\ UNCHANGED groupsVars
    BY <2>1, Stores
  <2>3. row \in Rows
    BY <1>0, <1>1, Wanted DEF Created, Rows, FormType, Words, NoText
  <2>4. OneText(row)
    BY DEF Created, OneText
  <2> HIDE DEF row
  <2> QED BY <1>0, <2>1, <2>2, <2>3, <2>4, StoreStep
<1>3. CASE SaveDraft(h)
  <2> DEFINE edited == Edited(job)
             row == [edited EXCEPT !.raw = job.form.text, !.status = "draft",
                       !.published = job.row.published, !.private = job.row.private]
  <2>1. Store(h, row, FALSE) /\ job.op = "save"
    BY <1>3 DEF SaveDraft, On
  <2>2. StoreEffect(h, a, row) /\ UNCHANGED groupsVars
    BY <2>1, Stores
  <2>3. /\ edited \in Rows
        /\ edited.author # article[a].author => job.form.column = "author"
        /\ job.form.column \notin {"rendered", "last"} =>
             edited.rendered = article[a].rendered /\ edited.last = article[a].last
    BY <1>0, <1>1, EditedRow
  <2> HIDE DEF edited
  <2>4. /\ row \in Rows /\ row.rendered = edited.rendered /\ row.last = edited.last
        /\ row.status = "draft" /\ row.author = edited.author
    BY <1>1, <2>3 DEF Rows, FormType
  <2> HIDE DEF row
  <2>5. Mends(job, a) => OneText(row)
    BY <1>1, <2>1, <2>3, <2>4 DEF Mends, NamesText, RowGood, OneText
  <2> QED BY <1>0, <2>1, <2>2, <2>3, <2>4, <2>5, StoreStep DEF Editing
<1>4. CASE PublishArticle(h)
  <2> DEFINE edited == Edited(job)
             row == [edited EXCEPT
                       !.raw = job.form.text, !.rendered = job.form.text, !.last = job.form.text,
                       !.status = "public",
                       !.published = job.form.published, !.private = job.form.private]
             wasPublic == job.row.status = "public" /\ job.row.published
                            /\ job.row.visibility = "public"
  <2>1. /\ Store(h, row, job.form.published /\ VisibilityOf(job) = "public" /\ ~wasPublic)
        /\ job.op = "publish"
    BY <1>4 DEF PublishArticle, On
  <2>2. StoreEffect(h, a, row) /\ UNCHANGED groupsVars
    BY <2>1, Stores
  <2>3. edited \in Rows /\ (edited.author # article[a].author => job.form.column = "author")
    BY <1>0, <1>1, EditedRow
  <2> HIDE DEF edited
  <2>4. row \in Rows /\ row.author = edited.author /\ OneText(row)
    BY <1>1, <2>3 DEF Rows, FormType, OneText
  <2> HIDE DEF row
  <2> QED BY <1>0, <2>1, <2>2, <2>3, <2>4, StoreStep DEF Editing
<1>5. CASE PatchArticle(h)
  <2> DEFINE row == Edited(job)
  <2>1. Store(h, row, FALSE) /\ job.op = "patch"
    BY <1>5 DEF PatchArticle, On
  <2>2. StoreEffect(h, a, row) /\ UNCHANGED groupsVars
    BY <2>1, Stores
  <2>3. /\ row \in Rows
        /\ row.author # article[a].author => job.form.column = "author"
        /\ row.exists = article[a].exists /\ row.status = article[a].status
        /\ row.raw = article[a].raw
        /\ job.form.column \notin {"rendered", "last"} =>
             row.rendered = article[a].rendered /\ row.last = article[a].last
    BY <1>0, <1>1, EditedRow
  <2> HIDE DEF row
  <2>4. Mends(job, a) => OneText(row)
    BY <1>1, <2>1, <2>3 DEF Mends, NamesText, RowGood, OneText
  <2> QED BY <1>0, <2>1, <2>2, <2>3, <2>4, StoreStep DEF Editing
<1>6. CASE RollbackDraft(h)
  <2> DEFINE row == [article[a] EXCEPT !.raw = job.row.last, !.status = "public"]
  <2>1. Store(h, row, FALSE) /\ job.op = "rollback"
    BY <1>6 DEF RollbackDraft, On
  <2>2. StoreEffect(h, a, row) /\ UNCHANGED groupsVars
    BY <2>1, Stores
  <2>3. /\ row \in Rows /\ row.rendered = article[a].rendered /\ row.last = article[a].last
        /\ row.raw = job.row.last /\ row.author = article[a].author
    BY <1>1 DEF Rows
  <2> HIDE DEF row
  <2>4. job.calm => job.row.last = article[a].last
    BY <1>0, <2>1 DEF JobGood, Fresh
  <2>5. Mends(job, a) => OneText(row)
    BY <1>1, <2>1, <2>3, <2>4 DEF Mends, RowGood, OneText
  <2> QED BY <1>0, <2>1, <2>2, <2>3, <2>5, StoreStep
<1>7. CASE TrashArticle(h)
  <2> DEFINE row == [article[a] EXCEPT !.deleted = TRUE]
  <2>1. Store(h, row, FALSE) /\ job.op \notin Editing \cup {"create"}
    BY <1>7 DEF TrashArticle, On, Editing
  <2>2. StoreEffect(h, a, row) /\ UNCHANGED groupsVars
    BY <2>1, Stores
  <2>3. /\ row \in Rows /\ row.author = article[a].author
        /\ OneText(article[a]) => OneText(row)
    BY <1>1 DEF Rows, OneText
  <2> HIDE DEF row
  <2>4. Mends(job, a) => OneText(row)
    BY <1>1, <2>1, <2>3 DEF Mends, RowGood, Editing
  <2> QED BY <1>0, <2>1, <2>2, <2>3, <2>4, StoreStep
<1>8. CASE RestoreArticle(h)
  <2> DEFINE row == [article[a] EXCEPT !.deleted = FALSE]
  <2>1. Store(h, row, FALSE) /\ job.op \notin Editing \cup {"create"}
    BY <1>8 DEF RestoreArticle, On, Editing
  <2>2. StoreEffect(h, a, row) /\ UNCHANGED groupsVars
    BY <2>1, Stores
  <2>3. /\ row \in Rows /\ row.author = article[a].author
        /\ OneText(article[a]) => OneText(row)
    BY <1>1 DEF Rows, OneText
  <2> HIDE DEF row
  <2>4. Mends(job, a) => OneText(row)
    BY <1>1, <2>1, <2>3 DEF Mends, RowGood, Editing
  <2> QED BY <1>0, <2>1, <2>2, <2>3, <2>4, StoreStep
<1> QED BY <1>2, <1>3, <1>4, <1>5, <1>6, <1>7, <1>8

LEMMA EraseStep ==
  ASSUME ArtInv, NEW h \in ArticleHandlers, EraseArticle(h)
  PROVE  ArtInv' /\ Acts
<1> DEFINE a == ajob[h].article
<1>0. /\ ajob[h] \in ArticleJobs /\ ajob[h].pc = "write" /\ ajob[h].op = "erase"
      /\ JobGood(ajob[h]) /\ a \in ArticleIds
  BY DEF ArtInv, ArticleTypes, EraseArticle, On, JobGood
<1>1. /\ article' = [article EXCEPT ![a] = Gone]
      /\ ajob' = [ajob EXCEPT ![h] = NoArticleJob]
      /\ stale' = stale \cup {a}
      /\ UNCHANGED <<abegun, notice, notified, torn>> /\ UNCHANGED groupsVars
  BY DEF EraseArticle, ArticleAnswer
<1>2. groups' = groups /\ member' = member
  BY <1>1 DEF groupsVars
<1> HIDE DEF a
<1>3. ArticleTypes'
  BY <1>0, <1>1, GoneType, IdleArticleType DEF ArtInv, ArticleTypes
<1>4. ASSUME NEW b \in ArticleIds PROVE RowGood(b)' /\ NoticeGood(b)'
  <2>1. CASE b = a
    <3>1. article'[b] = Gone /\ b \in stale'
      BY <1>0, <1>1, <2>1 DEF ArtInv, ArticleTypes
    <3> QED BY <3>1 DEF RowGood, OneText, NoticeGood, Gone
  <2>2. CASE b # a
    <3>1. article'[b] = article[b] /\ (b \in stale' <=> b \in stale) /\ notice' = notice
      BY <1>0, <1>1, <2>2 DEF ArtInv, ArticleTypes
    <3>2. RowGood(b) /\ NoticeGood(b)
      BY DEF ArtInv
    <3> QED BY <1>1, <1>2, <3>1, <3>2 DEF RowGood, OneText, NoticeGood, Announceable
  <2> QED BY <2>1, <2>2
<1>5. ajob'[h] = NoArticleJob /\ \A p \in ArticleHandlers \ {h} : ajob'[p] = ajob[p]
  BY <1>1 DEF ArtInv, ArticleTypes
<1>6. ASSUME NEW p \in ArticleHandlers PROVE JobGood(ajob[p])'
  <2>1. CASE p = h
    BY <1>5, <2>1, IdleArticleType DEF JobGood
  <2>2. CASE p # h /\ ajob[p].article # a
    <3>1. JobGood(ajob[p]) /\ article'[ajob[p].article] = article[ajob[p].article]
      BY <1>0, <1>1, <2>2 DEF ArtInv, ArticleTypes
    <3> QED BY <1>5, <2>2, <3>1 DEF JobGood, Fresh
  <2>3. CASE p # h /\ ajob[p].article = a
    <3>1. JobGood(ajob[p]) /\ article'[a] = Gone
      BY <1>0, <1>1 DEF ArtInv, ArticleTypes
    <3>2. ajob[p].pc # "idle" => ~ajob[p].calm
      BY <1>0, <2>3 DEF ArtInv, Together, Apart, a
    <3> QED BY <1>5, <2>3, <3>1, <3>2, GoneType DEF JobGood
  <2> QED BY <2>1, <2>2, <2>3
<1>7. \A q, p \in ArticleHandlers : Together(q, p)' => Apart(q, p)'
  BY <1>5, IdleArticleType DEF ArtInv, Together, Apart
<1>8. Reads
  BY <1>5, IdleArticleType, NobodyReads
<1>9. Writes
  <2> SUFFICES ASSUME NEW b \in ArticleIds, article[b].exists, article'[b] # article[b]
               PROVE  MayWrite(h, b) /\ ~article'[b].exists
    BY <1>1 DEF Writes
  <2>1. b = a /\ article'[b] = Gone
    BY <1>0, <1>1 DEF ArtInv, ArticleTypes
  <2>2. MayTouch(ajob[h].actor, ajob[h].row) /\ (ajob[h].calm => Fresh(ajob[h]))
    BY <1>0 DEF JobGood
  <2> QED BY <1>0, <2>1, <2>2, GoneType DEF MayWrite, MayTouch, Fresh, a
<1> QED BY <1>3, <1>4, <1>6, <1>7, <1>8, <1>9 DEF ArtInv, Acts

LEMMA NoticeStep ==
  ASSUME ArtInv, NEW a \in ArticleIds, ReadForNotice(a) \/ StoreNotice(a) \/ LoseNotice(a)
  PROVE  ArtInv' /\ Acts
<1>0. UNCHANGED <<article, ajob, abegun, torn>> /\ UNCHANGED groupsVars
  BY DEF ReadForNotice, StoreNotice, LoseNotice
<1>1. groups' = groups /\ member' = member
  BY <1>0 DEF groupsVars
<1>2. ArticleTypes' /\ \A b \in ArticleIds : NoticeGood(b)'
  <2>1. CASE ReadForNotice(a)
    <3>1. PICK n \in {"store", "idle"} :
            notice' = [notice EXCEPT ![a] = n] /\ (n = "store" => Announceable(article[a]))
      BY <2>1 DEF ReadForNotice
    <3>2. stale' = stale \ {a} /\ notified' = notified
      BY <2>1 DEF ReadForNotice
    <3> QED BY <1>0, <3>1, <3>2 DEF ArtInv, ArticleTypes, NoticeGood, Announceable
  <2>2. CASE StoreNotice(a) \/ LoseNotice(a)
    <3>1. notice' = [notice EXCEPT ![a] = "idle"] /\ stale' = stale /\ notified' \subseteq ArticleIds
      BY <2>2 DEF StoreNotice, LoseNotice, ArtInv, ArticleTypes
    <3> QED BY <1>0, <3>1 DEF ArtInv, ArticleTypes, NoticeGood, Announceable
  <2> QED BY <2>1, <2>2
<1>3. \A b \in ArticleIds : RowGood(b)'
  BY <1>0, <1>1 DEF ArtInv, RowGood, OneText
<1>4. \A h \in ArticleHandlers : JobGood(ajob[h])'
  BY <1>0 DEF ArtInv, JobGood, Fresh
<1>5. \A q, p \in ArticleHandlers : Together(q, p)' => Apart(q, p)'
  BY <1>0 DEF ArtInv, Together, Apart
<1>6. Writes
  <2>1. CASE StoreNotice(a)
    <3>1. a \notin stale => Announceable(article[a])
      BY <2>1 DEF StoreNotice, ArtInv, NoticeGood
    <3> QED BY <1>0, <2>1, <3>1 DEF StoreNotice, Writes, Announceable
  <2>2. CASE ReadForNotice(a) \/ LoseNotice(a)
    BY <1>0, <2>2, NothingWritten DEF ReadForNotice, LoseNotice
  <2> QED BY <2>1, <2>2
<1>7. Reads
  BY <1>0, NobodyReads
<1> QED BY <1>2, <1>3, <1>4, <1>5, <1>6, <1>7 DEF ArtInv, Acts

(* The group goes and its articles are let go of: none is for members only. *)
LEMMA RemoveGroupStep ==
  ASSUME GroupInv, ArtInv, NEW h \in GroupHandlers, RemoveGroup(h)
  PROVE  GroupInv' /\ Managed /\ ArtInv' /\ Acts
<1> DEFINE g == gjob[h].group
           Its(a) == article[a].group = g
<1>1. CASE g \in groups /\ \A a \in ArticleIds : Its(a) => article[a].visibility # "members"
  <2>1. /\ DeleteGroup(h)
        /\ article' = [a \in ArticleIds |-> IF Its(a) THEN [article[a] EXCEPT !.group = NoGroup]
                                            ELSE article[a]]
        /\ UNCHANGED <<ajob, abegun, notice, notified, stale, torn>>
    BY <1>1 DEF RemoveGroup
  <2>2. groups' = groups \ {g}
    BY <2>1 DEF DeleteGroup
  <2>3. ASSUME NEW a \in ArticleIds
        PROVE  /\ article'[a] \in Rows
               /\ article'[a] = article[a] \/ article'[a] = [article[a] EXCEPT !.group = NoGroup]
               /\ article'[a].exists = article[a].exists /\ article'[a].author = article[a].author
               /\ article'[a].deleted = article[a].deleted
               /\ article[a].visibility = "members" => article'[a].group = article[a].group
               /\ article'[a].visibility = article[a].visibility
               /\ article'[a].published = article[a].published
               /\ article'[a].private = article[a].private
               /\ article'[a].status = article[a].status /\ article'[a].raw = article[a].raw
               /\ article'[a].rendered = article[a].rendered /\ article'[a].last = article[a].last
               /\ article'[a].group \in groups' \cup {NoGroup}
               /\ article'[a].visibility = "members" => article'[a].group \in groups'
    <3>0. article[a] \in Rows /\ RowGood(a)
      BY DEF ArtInv, ArticleTypes
    <3>1. CASE Its(a)
      <4>1. article'[a] = [article[a] EXCEPT !.group = NoGroup]
        BY <2>1, <3>1
      <4>2. article[a].visibility # "members"
        BY <1>1, <3>1
      <4> QED BY <3>0, <4>1, <4>2 DEF Rows, GroupOrNone
    <3>2. CASE ~Its(a)
      <4>1. article'[a] = article[a] /\ article[a].group # g
        BY <2>1, <3>2
      <4> QED BY <2>2, <3>0, <4>1 DEF RowGood
    <3> QED BY <3>1, <3>2
  <2>4. ArticleTypes'
    <3>1. article' \in [ArticleIds -> Rows]
      BY <2>1, <2>3
    <3> QED BY <2>1, <3>1 DEF ArtInv, ArticleTypes
  <2>5. ASSUME NEW a \in ArticleIds PROVE RowGood(a)' /\ NoticeGood(a)'
    <3>1. RowGood(a) /\ NoticeGood(a)
      BY DEF ArtInv
    <3>2. torn' = torn /\ notice' = notice /\ stale' = stale
      BY <2>1
    <3>3. RowGood(a)'
      BY ONLY <2>3, <3>1, <3>2, a \in ArticleIds DEF RowGood, OneText
    <3>4. NoticeGood(a)'
      BY ONLY <2>3, <3>1, <3>2, a \in ArticleIds DEF NoticeGood, Announceable
    <3> QED BY <3>3, <3>4
  <2>6. ASSUME NEW p \in ArticleHandlers PROVE JobGood(ajob[p])'
    <3>1. JobGood(ajob[p])
      BY DEF ArtInv
    <3> QED BY <2>1, <2>3, <3>1 DEF JobGood, Fresh
  <2>7. \A q, p \in ArticleHandlers : Together(q, p)' => Apart(q, p)'
    BY <2>1 DEF ArtInv, Together, Apart
  <2>8. Acts
    <3>1. Reads
      BY <2>1, NobodyReads
    <3> QED BY <2>1, <2>3, <3>1 DEF Acts, Writes
  <2> QED BY <2>1, <2>4, <2>5, <2>6, <2>7, <2>8, DeleteGroupStep DEF ArtInv
<1>2. CASE ~(g \in groups /\ \A a \in ArticleIds : Its(a) => article[a].visibility # "members")
  <2>1. /\ GroupAnswer(h) /\ UNCHANGED <<groups, used, member, followers, gbegun, readded>>
        /\ UNCHANGED articleVars
    BY <1>2 DEF RemoveGroup
  <2> QED BY <2>1, GroupAnswered, MembersStay, ArticlesStay, NothingDone DEF articleVars
<1> QED BY <1>1, <1>2

-----------------------------------------------------------------------------
IndInv == GroupInv /\ ArtInv

LEMMA InitInv == Init => IndInv
<1> SUFFICES ASSUME Init PROVE IndInv
  OBVIOUS
<1>1. ASSUME NEW g \in GroupIds PROVE Owned(g)
  <2>1. member[g] = [u \in Users |-> IF g \in FirstGroups THEN FirstRoles[g][u] ELSE "none"]
        /\ groups = FirstGroups
    BY DEF Init, GroupsInit
  <2>2. CASE g \in FirstGroups
    <3>1. PICK u \in Users : {w \in Users : FirstRoles[g][w] = "owner"} = {u}
      BY <2>2, FirstOwners
    <3>2. Owners(g) = {u}
      BY <2>1, <2>2, <3>1 DEF Owners
    <3> QED BY <2>1, <2>2, <3>2 DEF Owned
  <2>3. CASE g \notin FirstGroups
    BY <2>1, <2>3 DEF Owned
  <2> QED BY <2>2, <2>3
<1> QED BY <1>1, GroupsInitInv, ArticlesInitInv DEF Init, IndInv, GroupInv

LEMMA NextInv == IndInv /\ [Next]_vars => IndInv' /\ Managed /\ Acts
<1> SUFFICES ASSUME IndInv, [Next]_vars PROVE IndInv' /\ Managed /\ Acts
  OBVIOUS
<1>0. GroupInv /\ ArtInv /\ GroupTypes
  BY DEF IndInv, GroupInv
<1>1. ASSUME NEW h \in ArticleHandlers, SubmitArticle(h) \/ ArticleStep(h) \/ FailArticle(h)
      PROVE  IndInv' /\ Managed /\ Acts
  <2>1. ArtInv' /\ Acts
    <3>1. CASE SubmitArticle(h)
      BY <1>0, <3>1, SubmitArticleStep
    <3>2. CASE ArticleStep(h)
      <4>1. CASE HandOut(h)
        BY <1>0, <4>1, ArticleAnswered DEF HandOut
      <4> QED BY <1>0, <3>2, <4>1, FindArticleStep, CheckFormStep, OpenArticleStep,
                 CheckReaderStep, WriteSteps, EraseStep DEF ArticleStep
    <3>3. CASE FailArticle(h)
      BY <1>0, <3>3, ArticleAnswered DEF FailArticle
    <3> QED BY <1>1, <3>1, <3>2, <3>3
  <2>2. UNCHANGED groupsVars
    BY <1>1 DEF SubmitArticle, SendArticle, ArticleStep, FindArticle, CheckForm, CreateArticle,
                OpenArticle, CheckReader, HandOut, PatchArticle, SaveDraft, PublishArticle, RollbackDraft, TrashArticle, RestoreArticle, Store,
                EraseArticle, FailArticle
  <2>3. GroupInv' /\ member' = member
    BY <1>0, <2>2, GroupsStay DEF groupsVars
  <2> QED BY <2>1, <2>3, MembersStay DEF IndInv
<1>2. ASSUME NEW a \in ArticleIds, ReadForNotice(a) \/ StoreNotice(a) \/ LoseNotice(a)
      PROVE  IndInv' /\ Managed /\ Acts
  <2>1. UNCHANGED groupsVars
    BY <1>2 DEF ReadForNotice, StoreNotice, LoseNotice
  <2>2. GroupInv' /\ member' = member
    BY <1>0, <2>1, GroupsStay DEF groupsVars
  <2> QED BY <1>0, <1>2, <2>2, NoticeStep, MembersStay DEF IndInv
<1>3. ASSUME NEW h \in GroupHandlers, SubmitGroup(h) PROVE IndInv' /\ Managed /\ Acts
  <2>1. GroupInv' /\ member' = member
    BY <1>0, <1>3, SubmitGroupStep
  <2>2. UNCHANGED articleVars /\ groups' = groups
    BY <1>3 DEF SubmitGroup, SendGroup
  <2> QED BY <1>0, <2>1, <2>2, MembersStay, ArticlesStay, NothingDone DEF IndInv, articleVars
<1>4. ASSUME NEW h \in GroupHandlers, GroupStep(h) \/ FailGroup(h), UNCHANGED articleVars
      PROVE  IndInv' /\ Managed /\ Acts
  <2>1. GroupInv' /\ Managed /\ groups \subseteq groups'
    BY <1>0, <1>4, GroupStepInv
  <2> QED BY <1>0, <1>4, <2>1, ArticlesStay, NothingDone DEF IndInv, articleVars
<1>5. ASSUME NEW h \in GroupHandlers, RemoveGroup(h) PROVE IndInv' /\ Managed /\ Acts
  BY <1>0, <1>5, RemoveGroupStep DEF IndInv
<1>6. CASE UNCHANGED vars
  <2>1. UNCHANGED groupsVars /\ UNCHANGED articleVars
    BY <1>6 DEF vars, groupsVars, articleVars
  <2>2. GroupInv' /\ ArtInv'
    BY <1>0, <2>1, GroupsStay, ArticlesStay DEF groupsVars
  <2> QED BY <2>1, <2>2, MembersStay, NothingDone DEF IndInv, groupsVars, articleVars
<1> QED BY <1>1, <1>2, <1>3, <1>4, <1>5, <1>6 DEF Next

LEMMA Inductive == Spec => []IndInv
<1>1. IndInv /\ [Next]_vars => IndInv'
  BY NextInv
<1> QED BY InitInv, <1>1, PTL DEF Spec

(* One owner of every group no manager added its owner to again, one text of  *)
(* an article until overlapping requests or a body that names a copy part   *)
(* its texts, and never a members-only article whose group is gone.         *)
(* OneOwner is not inductive: the invariant also says what the requests in  *)
(* flight have read, and that an owner's role is out of reach of all.       *)
THEOREM GroupsAndArticlesHold == Spec => []ArticlesConsistent
<1>1. IndInv => ArticlesConsistent
  <2> SUFFICES ASSUME IndInv PROVE ArticlesConsistent
    OBVIOUS
  <2>1. GroupsTypeOK
    BY DEF IndInv, GroupInv, GroupTypes, GroupsTypeOK, GroupJobs, Held
  <2>2. TypeOK
    <3>1. ASSUME NEW a \in ArticleIds
          PROVE  /\ article[a].visibility \in Visibilities
                 /\ article[a].group \in groups \cup {NoGroup}
                 /\ {article[a].raw, article[a].rendered, article[a].last}
                      \subseteq Texts \cup {NoText}
                 /\ article[a].author \in Users \cup {"nobody"}
                 /\ article[a].status \in {"draft", "public"}
                 /\ notice[a] \in {"idle", "read", "store"}
      <4>1. article[a] \in Rows /\ RowGood(a) /\ notice[a] \in {"idle", "read", "store"}
        BY DEF IndInv, ArtInv, ArticleTypes
      <4> QED BY <4>1 DEF Rows, Words, RowGood
    <3>2. \A h \in ArticleHandlers : ajob[h].pc \in ArticlePCs /\ ajob[h].op \in ArticleOps
      BY DEF IndInv, ArtInv, ArticleTypes, ArticleJobs
    <3> QED BY <2>1, <3>1, <3>2 DEF TypeOK, IndInv, ArtInv, ArticleTypes
  <2>3. OneOwner
    <3>1. \A u \in Users : Cardinality({u}) = 1
      BY FS_Singleton
    <3> QED BY <3>1 DEF IndInv, GroupInv, Owned, OneOwner
  <2>4. PublicInStep
    BY DEF IndInv, ArtInv, RowGood, OneText, PublicInStep
  <2>5. MembersHaveGroup
    BY DEF IndInv, ArtInv, RowGood, MembersHaveGroup
  <2> QED BY <2>2, <2>3, <2>4, <2>5 DEF ArticlesConsistent
<1> QED BY Inductive, <1>1, PTL

(* Memberships and articles are changed by accounts that were found to be      *)
(* allowed to, and still are at the write unless another request on the     *)
(* membership or the article overtook them; an article changes hands only   *)
(* by an update that names the new author; and followers are told of        *)
(* articles that are public unless they were written since the look.        *)
THEOREM ActorsMayAct == Spec => ActsManaged
<1>1. IndInv /\ [Next]_vars =>
        [\A g \in GroupIds, u \in Users :
           g \in groups /\ member'[g][u] # member[g][u] =>
             \E h \in GroupHandlers : ChangeAllowed(h, g, u)]_groupsVars
  BY NextInv DEF Managed
<1>2. IndInv /\ [Next]_vars =>
        [\A a \in ArticleIds :
           article[a].exists /\ article'[a] # article[a] =>
             \/ article'[a] = [article[a] EXCEPT !.group = NoGroup]
             \/ \E h \in ArticleHandlers :
                  /\ MayWrite(h, a)
                  /\ article'[a].exists /\ article'[a].author # article[a].author =>
                       ajob[h].op \in Editing /\ ajob[h].form.column = "author"]_vars
  BY NextInv DEF Acts, Writes
<1>3. IndInv /\ [Next]_vars =>
        [\A a \in ArticleIds \ stale :
           a \in notified' \ notified =>
             /\ article[a].visibility = "public" /\ article[a].status = "public"
             /\ article[a].published /\ ~article[a].private]_vars
  BY NextInv DEF Acts, Writes
<1>4. Spec => MembershipsManaged
  BY Inductive, <1>1, PTL DEF Spec, MembershipsManaged
<1>5. Spec => ArticlesManaged
  BY Inductive, <1>2, PTL DEF Spec, ArticlesManaged
<1>6. Spec => NoticesArePublic
  BY Inductive, <1>3, PTL DEF Spec, NoticesArePublic
<1> QED BY <1>4, <1>5, <1>6 DEF ActsManaged

(* For every interleaving of readers, editors and group requests: a reader is  *)
(* given a version of the article that they could read with the memberships *)
(* of that moment, and could read as it stands unless somebody else's       *)
(* request on it was in flight.                                             *)
THEOREM ReadersAreEntitled == Spec => ReadersMayRead
<1>1. IndInv /\ [Next]_vars =>
        [\A h \in ArticleHandlers :
           ajob[h].pc # "answer" /\ ajob'[h].pc = "answer" =>
             /\ Readable(ajob[h].actor, ajob'[h].row)
             /\ ajob[h].calm => Readable(ajob[h].actor, article[ajob[h].article])]_vars
  BY NextInv DEF Acts, Reads
<1> QED BY Inductive, <1>1, PTL DEF Spec, ReadersMayRead
=============================================================================

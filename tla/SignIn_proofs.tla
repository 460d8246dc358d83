---------------------------- MODULE SignIn_proofs ----------------------------
(* Getting in and staying in.  For every number of accounts, providers, links  *)
(* and requests in flight: nobody is locked out by the confirmation of       *)
(* addresses, the second factor is asked, every account keeps a way in; and   *)
(* the tab of a user whose session lives, and whose answers all arrive,       *)
(* never signs its user out (Shell, the last part).                         *)
EXTENDS SignIn, Shell, FiniteSetTheorems, TLAPS

-----------------------------------------------------------------------------
(* The values of the state.                                                 *)
PCs == {"idle", "allowed", "policy", "count", "first", "insert", "mark", "account",
        "invalidate", "store", "find", "use", "prepare", "set", "factor", "open", "verify",
        "save", "read", "enable", "provider", "exchange", "identity", "link", "create",
        "finish", "delete"}

Kinds == {"none", "register", "resend", "verify", "policy", "login", "code", "setup",
          "confirm", "disable", "callback", "unlink"}

JobRecords ==
  [pc : PCs, kind : Kinds, actor : Users \cup {Nobody}, idp : Providers \cup {"none"},
   uid : Uids \cup {"none"}, state : States \cup {"none"}, link : Links \cup {0},
   secret : Secrets, flag : BOOLEAN, guarded : BOOLEAN]

JobsTyped == job \in [Handlers -> JobRecords]

(* Whom and what a request is about, in an instance with these accounts, of   *)
(* which own have a password.                                               *)
JobFits(j, all, own) ==
  /\ j.actor \in all \cup {Nobody}
  /\ j.kind \in {"resend", "login"} => j.actor \in own
  /\ j.kind \in {"setup", "confirm", "disable", "unlink", "code"} => j.actor \in all
  /\ j.kind = "register" /\ j.pc \in {"mark", "invalidate", "store"} => j.actor \in own
  /\ j.kind = "register" /\ j.pc = "insert" => all # {}
  /\ j.pc \in {"invalidate", "store"} => j.kind \in {"register", "resend"}
  /\ j.pc = "open" => j.kind \in {"login", "code", "callback"}
  /\ j.kind = "verify" => j.link \in Links /\ (j.pc \in {"mark", "use"} => j.actor \in own)
  /\ j.kind = "unlink" => j.idp \in Providers
  /\ j.kind = "callback" =>
       /\ j.idp \in Providers /\ j.uid \in Uids /\ j.state \in States
       /\ j.pc \in {"link", "finish", "factor", "open"} => j.actor \in all

JobsFit == \A h \in Handlers : JobFits(job[h], made, local)

(* Ids are given out in order, and never again.                             *)
MadeInOrder == \E n \in 0..MaxUsers : made = 1..n

AccountsFit ==
  /\ MadeInOrder
  /\ local \subseteq made /\ verified \subseteq local /\ admin \subseteq local
  /\ pending \subseteq made

LinksFit ==
  /\ link \in [Links -> [user : made \cup {Nobody}, usable : BOOLEAN]]
  /\ \A l \in Links : link[l].usable => link[l].user \in local

FactorsFit ==
  /\ security \in [Users -> [secret : Secrets, on : BOOLEAN]]
  /\ issued \in Secrets

IdpsFit ==
  /\ provider \in [Providers -> {"none", "bare", "off", "on"}]
  /\ identity \in [Users \X Providers \X Uids -> Nat]
  /\ \A u \in Users, p \in Providers, x \in Uids : u \notin made => identity[<<u, p, x>>] = 0
  /\ flow \in [States -> [live : BOOLEAN, user : made \cup {Nobody}]]

BaseInv ==
  /\ JobsTyped /\ JobsFit /\ AccountsFit /\ LinksFit /\ FactorsFit /\ IdpsFit
  /\ registration \in BOOLEAN /\ required \in BOOLEAN /\ external2fa \in BOOLEAN

-----------------------------------------------------------------------------
LEMMA SomeUsers == 1 \in Users /\ 2 \in Users /\ Nobody \notin Users /\ 0 \in Secrets
BY SignInAssumption DEF Users, Nobody, Secrets

LEMMA NoJobFits == NoJob \in JobRecords /\ \A all, own : JobFits(NoJob, all, own)
BY SomeUsers DEF NoJob, JobRecords, JobFits, PCs, Kinds

LEMMA MadeAreUsers == MadeInOrder => made \subseteq Users
BY SignInAssumption DEF MadeInOrder, Users

(* The next account.                                                        *)
LEMMA NextUser ==
  ASSUME MadeInOrder, NEW u, NewUser(u), made' = made \cup {u}
  PROVE  /\ u \in Users /\ u \notin made /\ MadeInOrder'
         /\ u = 1 => made = {}
<1>1. PICK n \in 0..MaxUsers : made = 1..n
  BY DEF MadeInOrder
<1>2. n \in Int /\ n >= 0 /\ 1 \in Int
  BY <1>1, SignInAssumption
<1>3. Cardinality(made) = n
  BY <1>1, <1>2, FS_Interval
<1>4. u = n + 1 /\ u \in Users
  BY <1>3 DEF NewUser
<1>5. u \in 0..MaxUsers /\ made' = 1..u
  BY <1>1, <1>2, <1>4, SignInAssumption DEF Users
<1> QED BY <1>1, <1>2, <1>4, <1>5 DEF MadeInOrder

(* One request becomes q, the others stay.                                  *)
Others(h) == \A p \in Handlers \ {h} : job'[p] = job[p]

LEMMA Becomes ==
  ASSUME JobsTyped, NEW h \in Handlers, NEW q \in JobRecords, job' = [job EXCEPT ![h] = q]
  PROVE  JobsTyped' /\ Others(h) /\ job'[h] = q
BY DEF JobsTyped, Others

LEMMA IsDone ==
  ASSUME JobsTyped, NEW h \in Handlers, Done(h)
  PROVE  JobsTyped' /\ Others(h) /\ job'[h] = NoJob
BY NoJobFits, Becomes DEF Done

(* What a request carries from its beginning to its end.                    *)
Carries(h) ==
  /\ JobsTyped' /\ Others(h)
  /\ job'[h].kind = job[h].kind /\ job'[h].idp = job[h].idp /\ job'[h].uid = job[h].uid
  /\ job'[h].state = job[h].state /\ job'[h].link = job[h].link

LEMMA Carried ==
  ASSUME JobsTyped, NEW h \in Handlers, NEW q \in JobRecords, job' = [job EXCEPT ![h] = q],
         q.kind = job[h].kind, q.idp = job[h].idp, q.uid = job[h].uid,
         q.state = job[h].state, q.link = job[h].link
  PROVE  Carries(h) /\ job'[h] = q
BY Becomes DEF Carries

(* The request goes to its next step and keeps all else.                    *)
Stays(h) ==
  /\ Carries(h)
  /\ job'[h].actor = job[h].actor /\ job'[h].secret = job[h].secret
  /\ job'[h].flag = job[h].flag /\ job'[h].guarded = job[h].guarded

LEMMA IsTo ==
  ASSUME JobsTyped, NEW h \in Handlers, NEW pc \in PCs, To(h, pc)
  PROVE  Stays(h) /\ job'[h].pc = pc
<1> DEFINE q == [job[h] EXCEPT !.pc = pc]
<1>1. job[h] \in JobRecords
  BY DEF JobsTyped
<1>2. job' = [job EXCEPT ![h] = q]
  BY DEF To, JobsTyped
<1>3. /\ q \in JobRecords /\ q.kind = job[h].kind /\ q.idp = job[h].idp /\ q.uid = job[h].uid
      /\ q.state = job[h].state /\ q.link = job[h].link /\ q.pc = pc /\ q.actor = job[h].actor
      /\ q.secret = job[h].secret /\ q.flag = job[h].flag /\ q.guarded = job[h].guarded
  BY <1>1 DEF JobRecords
<1> HIDE DEF q
<1> QED BY <1>2, <1>3, Becomes DEF Carries, Stays

-----------------------------------------------------------------------------
(* Accounts are only added, and a request under way stays about the same ones. *)
Grows == made \subseteq made' /\ local \subseteq local'

LEMMA StillFit ==
  ASSUME JobsFit, NEW h \in Handlers, Grows, Others(h), JobFits(job'[h], made', local')
  PROVE  JobsFit'
<1>1. ASSUME NEW p \in Handlers PROVE JobFits(job'[p], made', local')
  <2>1. CASE p = h
    BY <2>1
  <2>2. CASE p # h
    <3>1. job'[p] = job[p] /\ JobFits(job[p], made, local)
      BY <2>2 DEF Others, JobsFit
    <3>2. JobFits(job[p], made', local')
      BY <3>1 DEF JobFits, Grows
    <3> QED BY <3>1, <3>2
  <2> QED BY <2>1, <2>2
<1> QED BY <1>1 DEF JobsFit

LEMMA DoneFits ==
  ASSUME JobsTyped, JobsFit, NEW h \in Handlers, Grows, Done(h)
  PROVE  JobsTyped' /\ JobsFit'
BY IsDone, NoJobFits, StillFit

(* A request that begins.                                                   *)
LEMMA SentFits ==
  ASSUME JobsTyped, JobsFit, NEW h \in Handlers, NEW j \in JobRecords, Send(h, j),
         JobFits(j, made, local)
  PROVE  /\ JobsTyped' /\ JobsFit' /\ Others(h) /\ job'[h] = j
         /\ UNCHANGED <<accounts, settings, link, factors, idps>>
<1>1. job' = [job EXCEPT ![h] = j] /\ UNCHANGED <<accounts, settings, link, factors, idps>>
  BY DEF Send
<1>2. Grows /\ made' = made /\ local' = local
  BY <1>1 DEF accounts, Grows
<1>3. JobsTyped' /\ Others(h) /\ job'[h] = j
  BY <1>1, Becomes
<1> QED BY <1>1, <1>2, <1>3, StillFit

LEMMA SubmitFits ==
  ASSUME BaseInv, NEW h \in Handlers, Submit(h)
  PROVE  JobsTyped' /\ JobsFit' /\ UNCHANGED <<accounts, settings, link, factors, idps>>
<1> DEFINE Good == JobsTyped' /\ JobsFit' /\ UNCHANGED <<accounts, settings, link, factors, idps>>
<1>0. /\ JobsTyped /\ JobsFit /\ local \subseteq made /\ made \subseteq Users
      /\ pending \subseteq made /\ issued \in Secrets
      /\ flow \in [States -> [live : BOOLEAN, user : made \cup {Nobody}]]
  BY MadeAreUsers DEF BaseInv, AccountsFit, FactorsFit, IdpsFit
<1>1. CASE Register(h)
  <2> DEFINE j == [NoJob EXCEPT !.kind = "register", !.pc = "allowed"]
  <2>1. j \in JobRecords /\ JobFits(j, made, local)
    BY NoJobFits DEF NoJob, JobRecords, JobFits, PCs, Kinds
  <2> HIDE DEF j
  <2> QED BY <1>0, <1>1, <2>1, SentFits DEF Register, j
<1>2. ASSUME NEW u \in local, Resend(h, u) PROVE Good
  <2> DEFINE j == [NoJob EXCEPT !.kind = "resend", !.pc = "account", !.actor = u]
  <2>1. j \in JobRecords /\ JobFits(j, made, local)
    BY <1>0, NoJobFits DEF NoJob, JobRecords, JobFits, PCs, Kinds
  <2> HIDE DEF j
  <2> QED BY <1>0, <1>2, <2>1, SentFits DEF Resend, j
<1>3. ASSUME NEW u \in local, Login(h, u) PROVE Good
  <2> DEFINE g == Guarded(u)
             j == [NoJob EXCEPT !.kind = "login", !.pc = "account", !.actor = u, !.guarded = g]
  <2>0. g \in BOOLEAN
    BY <1>0 DEF Guarded, BaseInv, FactorsFit
  <2>2. Send(h, j)
    BY <1>3 DEF Login
  <2> HIDE DEF g
  <2>1. j \in JobRecords /\ JobFits(j, made, local)
    BY <1>0, <2>0, NoJobFits DEF NoJob, JobRecords, JobFits, PCs, Kinds
  <2> HIDE DEF j
  <2> QED BY <1>0, <2>1, <2>2, SentFits
<1>4. ASSUME NEW l \in Links, OpenLink(h, l) PROVE Good
  <2> DEFINE j == [NoJob EXCEPT !.kind = "verify", !.pc = "find", !.link = l]
  <2>1. j \in JobRecords /\ JobFits(j, made, local)
    BY NoJobFits DEF NoJob, JobRecords, JobFits, PCs, Kinds
  <2> HIDE DEF j
  <2> QED BY <1>0, <1>4, <2>1, SentFits DEF OpenLink, j
<1>5. ASSUME NEW on \in BOOLEAN, SetPolicy(h, on) PROVE Good
  <2> DEFINE pc == IF on THEN "prepare" ELSE "set"
             j == [NoJob EXCEPT !.kind = "policy", !.pc = pc, !.flag = on]
  <2>0. pc \in {"prepare", "set"} /\ Send(h, j)
    BY <1>5 DEF SetPolicy
  <2> HIDE DEF pc
  <2>1. j \in JobRecords /\ JobFits(j, made, local)
    BY <2>0, NoJobFits DEF NoJob, JobRecords, JobFits, PCs, Kinds
  <2> HIDE DEF j
  <2> QED BY <1>0, <2>0, <2>1, SentFits
<1>6. ASSUME NEW u \in made, AskSetup(h, u) PROVE Good
  <2> DEFINE j == [NoJob EXCEPT !.kind = "setup", !.pc = "save", !.actor = u]
  <2>1. j \in JobRecords /\ JobFits(j, made, local)
    BY <1>0, NoJobFits DEF NoJob, JobRecords, JobFits, PCs, Kinds
  <2> HIDE DEF j
  <2> QED BY <1>0, <1>6, <2>1, SentFits DEF AskSetup, j
<1>7. ASSUME NEW u \in made, AskDisable(h, u) PROVE Good
  <2> DEFINE j == [NoJob EXCEPT !.kind = "disable", !.pc = "save", !.actor = u]
  <2>1. j \in JobRecords /\ JobFits(j, made, local)
    BY <1>0, NoJobFits DEF NoJob, JobRecords, JobFits, PCs, Kinds
  <2> HIDE DEF j
  <2> QED BY <1>0, <1>7, <2>1, SentFits DEF AskDisable, j
<1>8. ASSUME NEW s \in 1..issued PROVE s \in Secrets
  BY <1>0, SignInAssumption DEF Secrets
<1>9. ASSUME NEW u \in made, NEW s \in 1..issued, VerifyFactor(h, u, s) PROVE Good
  <2> DEFINE j == [NoJob EXCEPT !.kind = "code", !.pc = "verify", !.actor = u, !.secret = s]
  <2>1. j \in JobRecords /\ JobFits(j, made, local)
    BY <1>0, <1>8, NoJobFits DEF NoJob, JobRecords, JobFits, PCs, Kinds
  <2> HIDE DEF j
  <2> QED BY <1>0, <1>9, <2>1, SentFits DEF VerifyFactor, j
<1>10. ASSUME NEW u \in made, NEW s \in 1..issued, AskConfirm(h, u, s) PROVE Good
  <2> DEFINE j == [NoJob EXCEPT !.kind = "confirm", !.pc = "verify", !.actor = u, !.secret = s]
  <2>1. j \in JobRecords /\ JobFits(j, made, local)
    BY <1>0, <1>8, NoJobFits DEF NoJob, JobRecords, JobFits, PCs, Kinds
  <2> HIDE DEF j
  <2> QED BY <1>0, <1>10, <2>1, SentFits DEF AskConfirm, j
<1>11. ASSUME NEW s \in States, NEW p \in Providers, NEW x \in Uids, NEW here \in made \cup {Nobody},
              Callback(h, s, p, x, here)
       PROVE  Good
  <2> DEFINE u == IF flow[s].user # Nobody THEN flow[s].user ELSE here
             linking == u # Nobody
             j == [NoJob EXCEPT !.kind = "callback", !.pc = "provider", !.state = s, !.idp = p,
                                !.uid = x, !.actor = u, !.flag = linking]
  <2>0. u \in made \cup {Nobody} /\ linking \in BOOLEAN /\ Send(h, j)
    BY <1>0, <1>11 DEF Callback
  <2> HIDE DEF u, linking
  <2>1. /\ j.kind = "callback" /\ j.pc = "provider" /\ j.state = s /\ j.idp = p /\ j.uid = x
        /\ j.actor = u
    BY DEF NoJob
  <2>2. j \in JobRecords
    BY <1>0, <2>0, NoJobFits DEF NoJob, JobRecords, PCs, Kinds
  <2> HIDE DEF j
  <2>3. JobFits(j, made, local)
    BY <2>0, <2>1 DEF JobFits
  <2> QED BY <1>0, <2>0, <2>2, <2>3, SentFits
<1>12. ASSUME NEW u \in made, NEW p \in Providers, AskUnlink(h, u, p) PROVE Good
  <2> DEFINE j == [NoJob EXCEPT !.kind = "unlink", !.pc = "count", !.actor = u, !.idp = p]
  <2>1. j \in JobRecords /\ JobFits(j, made, local)
    BY <1>0, NoJobFits DEF NoJob, JobRecords, JobFits, PCs, Kinds
  <2> HIDE DEF j
  <2> QED BY <1>0, <1>12, <2>1, SentFits DEF AskUnlink, j
<1>13. \/ Register(h)
       \/ \E u \in local : Resend(h, u) \/ Login(h, u)
       \/ \E l \in Links : OpenLink(h, l)
       \/ \E on \in BOOLEAN : SetPolicy(h, on)
       \/ \E u \in made : AskSetup(h, u) \/ AskDisable(h, u)
       \/ \E u \in made, s \in 1..issued : VerifyFactor(h, u, s) \/ AskConfirm(h, u, s)
       \/ \E s \in States, p \in Providers, x \in Uids, u \in made \cup {Nobody} :
            Callback(h, s, p, x, u)
       \/ \E u \in made, p \in Providers : AskUnlink(h, u, p)
  BY DEF Submit
<1>14. CASE \E u \in local : Resend(h, u) \/ Login(h, u)
  BY <1>2, <1>3, <1>14
<1>15. CASE \E u \in made : AskSetup(h, u) \/ AskDisable(h, u)
  BY <1>6, <1>7, <1>15
<1>16. CASE \E u \in made, s \in 1..issued : VerifyFactor(h, u, s) \/ AskConfirm(h, u, s)
  BY <1>9, <1>10, <1>16
<1>17. CASE \E s \in States, p \in Providers, x \in Uids, u \in made \cup {Nobody} :
              Callback(h, s, p, x, u)
  BY <1>11, <1>17
<1> QED BY <1>1, <1>4, <1>5, <1>12, <1>13, <1>14, <1>15, <1>16, <1>17
-----------------------------------------------------------------------------
(* The steps of a request: the others stay, except that they may lose the     *)
(* mark that the second factor guards them, and it goes on or is done.      *)
Alike(j, q) ==
  /\ q.pc = j.pc /\ q.kind = j.kind /\ q.actor = j.actor /\ q.idp = j.idp /\ q.uid = j.uid
  /\ q.secret = j.secret
  /\ q.guarded => j.guarded

Onward(j, q) ==
  /\ j.pc # "idle"
  /\ q.kind = j.kind /\ q.idp = j.idp /\ q.uid = j.uid
  /\ q.actor = j.actor \/ j.kind \in {"register", "verify", "callback"}

Shape(h) ==
  /\ \A p \in Handlers \ {h} : Alike(job[p], job'[p])
  /\ job'[h] = NoJob \/ Onward(job[h], job'[h])

JobsGood(h) == JobsTyped' /\ JobsFit' /\ Shape(h)

LEMMA OthersAlike ==
  ASSUME NEW h \in Handlers, Others(h)
  PROVE  \A p \in Handlers \ {h} : Alike(job[p], job'[p])
BY DEF Others, Alike

LEMMA GoodDone ==
  ASSUME BaseInv, NEW h \in Handlers, Grows, Done(h)
  PROVE  JobsGood(h)
<1>1. JobsTyped /\ JobsFit
  BY DEF BaseInv
<1> QED BY <1>1, IsDone, DoneFits, OthersAlike DEF Shape, JobsGood

LEMMA GoodStep ==
  ASSUME BaseInv, NEW h \in Handlers, Grows, Carries(h), job[h].pc # "idle",
         JobFits(job'[h], made', local'),
         job'[h].actor = job[h].actor \/ job[h].kind \in {"register", "verify", "callback"}
  PROVE  JobsGood(h)
<1>1. JobsTyped' /\ Others(h)
  BY DEF Carries
<1>2. JobsFit'
  BY <1>1, StillFit DEF BaseInv
<1>3. Shape(h)
  BY <1>1, OthersAlike DEF Shape, Carries, Onward
<1> QED BY <1>1, <1>2, <1>3 DEF JobsGood

(* What a request may go on to, being who it is.                            *)
MayGo(j, pc) ==
  /\ pc \in PCs
  /\ j.kind = "register" =>
       /\ pc \notin {"mark", "invalidate"}
       /\ pc = "store" => j.actor \in local
       /\ pc = "insert" => made # {}
  /\ pc \in {"invalidate", "store"} => j.kind \in {"register", "resend"}
  /\ pc = "open" => j.kind \in {"login", "code", "callback"}
  /\ j.kind = "verify" /\ pc \in {"mark", "use"} => j.actor \in local
  /\ j.kind = "callback" /\ pc \in {"link", "finish", "factor", "open"} => j.actor \in made

LEMMA GoodTo ==
  ASSUME BaseInv, NEW h \in Handlers, NEW pc, UNCHANGED <<made, local>>, job[h].pc # "idle",
         MayGo(job[h], pc), To(h, pc) \/ Done(h)
  PROVE  JobsGood(h)
<1>1. Grows
  BY DEF Grows
<1>2. CASE Done(h)
  BY <1>1, <1>2, GoodDone
<1>3. CASE To(h, pc)
  <2>1. Stays(h) /\ job'[h].pc = pc
    BY <1>3, IsTo DEF BaseInv, MayGo
  <2>2. JobFits(job[h], made, local)
    BY DEF BaseInv, JobsFit
  <2>3. JobFits(job'[h], made, local)
    BY <2>1, <2>2 DEF Stays, Carries, JobFits, MayGo
  <2> QED BY <1>1, <2>1, <2>3, GoodStep DEF Stays
<1> QED BY <1>2, <1>3

(* Steps that read, and go on or answer.                                    *)
LEMMA PlainSteps ==
  ASSUME BaseInv, NEW h \in Handlers,
         \/ EnsureAllowed(h) \/ CountUsers(h) \/ FindUnverified(h) \/ InvalidateLinks(h)
         \/ StoreLink(h) \/ ConfirmAddress(h) \/ UseLink(h) \/ PreparePolicy(h) \/ StorePolicy(h)
         \/ LoginPolicy(h) \/ LoginFactor(h) \/ OpenSession(h) \/ CheckCode(h) \/ MarkVerified(h)
         \/ ConfirmCode(h) \/ Enable(h) \/ FindProvider(h) \/ ExchangeCode(h)
         \/ ValidateAssertion(h) \/ CallbackFactor(h) \/ CountIdentities(h) \/ DeleteIdentity(h)
         \/ Fail(h)
  PROVE  JobsGood(h) /\ UNCHANGED <<made, local>>
<1>0. JobFits(job[h], made, local)
  BY DEF BaseInv, JobsFit
<1>1. CASE EnsureAllowed(h)
  <2>1. /\ MayGo(job[h], "policy") /\ job[h].pc # "idle" /\ UNCHANGED <<made, local>>
        /\ To(h, "policy") \/ Done(h)
    BY <1>1 DEF EnsureAllowed, At, MayGo, PCs, accounts
  <2> QED BY <2>1, GoodTo
<1>2. CASE CountUsers(h)
  <2> DEFINE pc == IF made = {} THEN "first" ELSE "insert"
  <2>1. /\ MayGo(job[h], pc) /\ job[h].pc # "idle" /\ UNCHANGED <<made, local>>
        /\ To(h, pc)
    BY <1>2 DEF CountUsers, At, MayGo, PCs, accounts, To
  <2> HIDE DEF pc
  <2> QED BY <2>1, GoodTo
<1>3. CASE FindUnverified(h)
  <2>1. /\ MayGo(job[h], "invalidate") /\ job[h].pc # "idle" /\ UNCHANGED <<made, local>>
        /\ To(h, "invalidate") \/ Done(h)
    BY <1>3 DEF FindUnverified, At, MayGo, PCs, accounts
  <2> QED BY <2>1, GoodTo
<1>4. CASE InvalidateLinks(h)
  <2>1. /\ MayGo(job[h], "store") /\ job[h].pc # "idle" /\ UNCHANGED <<made, local>>
        /\ To(h, "store") \/ Done(h)
    BY <1>0, <1>4 DEF InvalidateLinks, JobFits, MayGo, PCs, accounts
  <2> QED BY <2>1, GoodTo
<1>5. CASE ConfirmAddress(h)
  <2>1. /\ MayGo(job[h], "use") /\ job[h].pc # "idle" /\ UNCHANGED <<made, local>>
        /\ To(h, "use") \/ Done(h)
    BY <1>0, <1>5 DEF ConfirmAddress, At, JobFits, MayGo, PCs
  <2> QED BY <2>1, GoodTo
<1>6. CASE PreparePolicy(h)
  <2>1. /\ MayGo(job[h], "set") /\ job[h].pc # "idle" /\ UNCHANGED <<made, local>>
        /\ To(h, "set") \/ Done(h)
    BY <1>6 DEF PreparePolicy, At, MayGo, PCs
  <2> QED BY <2>1, GoodTo
<1>7. CASE LoginPolicy(h)
  <2>1. /\ MayGo(job[h], "factor") /\ job[h].pc # "idle" /\ UNCHANGED <<made, local>>
        /\ To(h, "factor") \/ Done(h)
    BY <1>7 DEF LoginPolicy, At, MayGo, PCs, accounts
  <2> QED BY <2>1, GoodTo
<1>8. CASE LoginFactor(h)
  <2>1. /\ MayGo(job[h], "open") /\ job[h].pc # "idle" /\ UNCHANGED <<made, local>>
        /\ To(h, "open") \/ Done(h)
    BY <1>8 DEF LoginFactor, AskFactor, At, MayGo, PCs, accounts
  <2> QED BY <2>1, GoodTo
<1>9. CASE CheckCode(h)
  <2>1. /\ MayGo(job[h], "open") /\ job[h].pc # "idle" /\ UNCHANGED <<made, local>>
        /\ To(h, "open") \/ Done(h)
    BY <1>9 DEF CheckCode, At, MayGo, PCs, accounts
  <2> QED BY <2>1, GoodTo
<1>10. CASE ConfirmCode(h)
  <2>1. /\ MayGo(job[h], "read") /\ job[h].pc # "idle" /\ UNCHANGED <<made, local>>
        /\ To(h, "read") \/ Done(h)
    BY <1>10 DEF ConfirmCode, At, MayGo, PCs, accounts
  <2> QED BY <2>1, GoodTo
<1>11. CASE FindProvider(h)
  <2>1. /\ MayGo(job[h], "exchange") /\ job[h].pc # "idle" /\ UNCHANGED <<made, local>>
        /\ To(h, "exchange") \/ Done(h)
    BY <1>11 DEF FindProvider, At, MayGo, PCs, accounts
  <2> QED BY <2>1, GoodTo
<1>12. CASE ExchangeCode(h) \/ ValidateAssertion(h)
  <2>1. /\ MayGo(job[h], "identity") /\ job[h].pc # "idle" /\ UNCHANGED <<made, local>>
        /\ To(h, "identity")
    BY <1>12 DEF ExchangeCode, ValidateAssertion, At, MayGo, PCs, accounts
  <2> QED BY <2>1, GoodTo
<1>13. CASE CallbackFactor(h)
  <2>1. /\ MayGo(job[h], "open") /\ job[h].pc # "idle" /\ UNCHANGED <<made, local>>
        /\ To(h, "open") \/ Done(h)
    BY <1>0, <1>13 DEF CallbackFactor, AskFactor, At, JobFits, MayGo, PCs, accounts
  <2> QED BY <2>1, GoodTo
<1>14. CASE CountIdentities(h)
  <2>1. /\ MayGo(job[h], "delete") /\ job[h].pc # "idle" /\ UNCHANGED <<made, local>>
        /\ To(h, "delete") \/ Done(h)
    BY <1>14 DEF CountIdentities, At, MayGo, PCs, accounts
  <2> QED BY <2>1, GoodTo
<1>15. CASE \/ StoreLink(h) \/ UseLink(h) \/ StorePolicy(h) \/ OpenSession(h) \/ MarkVerified(h)
            \/ Enable(h) \/ DeleteIdentity(h) \/ Fail(h)
  <2>1. Done(h) /\ UNCHANGED <<made, local>>
    BY <1>15 DEF StoreLink, UseLink, StorePolicy, OpenSession, MarkVerified, Enable,
                 DeleteIdentity, Fail, accounts
  <2> QED BY <2>1, GoodDone DEF Grows
<1> QED BY <1>1, <1>2, <1>3, <1>4, <1>5, <1>6, <1>7, <1>8, <1>9, <1>10, <1>11, <1>12, <1>13,
           <1>14, <1>15

(* Steps that read: the request goes on with what it has read.              *)
LEMMA FlagJob ==
  ASSUME JobsTyped, NEW h \in Handlers, NEW pc \in PCs, NEW flag \in BOOLEAN,
         job' = [job EXCEPT ![h].pc = pc, ![h].flag = flag]
  PROVE  /\ Carries(h) /\ job'[h].pc = pc
         /\ job'[h].actor = job[h].actor /\ job'[h].secret = job[h].secret
         /\ job'[h].flag = flag /\ job'[h].guarded = job[h].guarded
<1> DEFINE q == [job[h] EXCEPT !.pc = pc, !.flag = flag]
<1>1. job' = [job EXCEPT ![h] = q] /\ job[h] \in JobRecords
  BY DEF JobsTyped
<1>2. /\ q \in JobRecords /\ q.kind = job[h].kind /\ q.idp = job[h].idp /\ q.uid = job[h].uid
      /\ q.state = job[h].state /\ q.link = job[h].link /\ q.pc = pc
      /\ q.actor = job[h].actor /\ q.secret = job[h].secret /\ q.flag = flag /\ q.guarded = job[h].guarded
  BY <1>1 DEF JobRecords
<1> HIDE DEF q
<1> QED BY <1>1, <1>2, Carried

LEMMA SecretJob ==
  ASSUME JobsTyped, NEW h \in Handlers, NEW pc \in PCs, NEW secret \in Secrets,
         job' = [job EXCEPT ![h].pc = pc, ![h].secret = secret]
  PROVE  /\ Carries(h) /\ job'[h].pc = pc
         /\ job'[h].actor = job[h].actor /\ job'[h].secret = secret
         /\ job'[h].flag = job[h].flag /\ job'[h].guarded = job[h].guarded
<1> DEFINE q == [job[h] EXCEPT !.pc = pc, !.secret = secret]
<1>1. job' = [job EXCEPT ![h] = q] /\ job[h] \in JobRecords
  BY DEF JobsTyped
<1>2. /\ q \in JobRecords /\ q.kind = job[h].kind /\ q.idp = job[h].idp /\ q.uid = job[h].uid
      /\ q.state = job[h].state /\ q.link = job[h].link /\ q.pc = pc
      /\ q.actor = job[h].actor /\ q.secret = secret /\ q.flag = job[h].flag /\ q.guarded = job[h].guarded
  BY <1>1 DEF JobRecords
<1> HIDE DEF q
<1> QED BY <1>1, <1>2, Carried

LEMMA ActorJob ==
  ASSUME JobsTyped, NEW h \in Handlers, NEW pc \in PCs, NEW actor \in Users \cup {Nobody},
         job' = [job EXCEPT ![h].pc = pc, ![h].actor = actor]
  PROVE  /\ Carries(h) /\ job'[h].pc = pc
         /\ job'[h].actor = actor /\ job'[h].secret = job[h].secret
         /\ job'[h].flag = job[h].flag /\ job'[h].guarded = job[h].guarded
<1> DEFINE q == [job[h] EXCEPT !.pc = pc, !.actor = actor]
<1>1. job' = [job EXCEPT ![h] = q] /\ job[h] \in JobRecords
  BY DEF JobsTyped
<1>2. /\ q \in JobRecords /\ q.kind = job[h].kind /\ q.idp = job[h].idp /\ q.uid = job[h].uid
      /\ q.state = job[h].state /\ q.link = job[h].link /\ q.pc = pc
      /\ q.actor = actor /\ q.secret = job[h].secret /\ q.flag = job[h].flag /\ q.guarded = job[h].guarded
  BY <1>1 DEF JobRecords
<1> HIDE DEF q
<1> QED BY <1>1, <1>2, Carried

LEMMA GuardJob ==
  ASSUME JobsTyped, NEW h \in Handlers, NEW pc \in PCs, NEW guarded \in BOOLEAN,
         job' = [job EXCEPT ![h].pc = pc, ![h].guarded = guarded]
  PROVE  /\ Carries(h) /\ job'[h].pc = pc
         /\ job'[h].actor = job[h].actor /\ job'[h].secret = job[h].secret
         /\ job'[h].flag = job[h].flag /\ job'[h].guarded = guarded
<1> DEFINE q == [job[h] EXCEPT !.pc = pc, !.guarded = guarded]
<1>1. job' = [job EXCEPT ![h] = q] /\ job[h] \in JobRecords
  BY DEF JobsTyped
<1>2. /\ q \in JobRecords /\ q.kind = job[h].kind /\ q.idp = job[h].idp /\ q.uid = job[h].uid
      /\ q.state = job[h].state /\ q.link = job[h].link /\ q.pc = pc
      /\ q.actor = job[h].actor /\ q.secret = job[h].secret /\ q.flag = job[h].flag /\ q.guarded = guarded
  BY <1>1 DEF JobRecords
<1> HIDE DEF q
<1> QED BY <1>1, <1>2, Carried

LEMMA ActorGuardJob ==
  ASSUME JobsTyped, NEW h \in Handlers, NEW pc \in PCs, NEW actor \in Users \cup {Nobody}, NEW guarded \in BOOLEAN,
         job' = [job EXCEPT ![h].pc = pc, ![h].actor = actor, ![h].guarded = guarded]
  PROVE  /\ Carries(h) /\ job'[h].pc = pc
         /\ job'[h].actor = actor /\ job'[h].secret = job[h].secret
         /\ job'[h].flag = job[h].flag /\ job'[h].guarded = guarded
<1> DEFINE q == [job[h] EXCEPT !.pc = pc, !.actor = actor, !.guarded = guarded]
<1>1. job' = [job EXCEPT ![h] = q] /\ job[h] \in JobRecords
  BY DEF JobsTyped
<1>2. /\ q \in JobRecords /\ q.kind = job[h].kind /\ q.idp = job[h].idp /\ q.uid = job[h].uid
      /\ q.state = job[h].state /\ q.link = job[h].link /\ q.pc = pc
      /\ q.actor = actor /\ q.secret = job[h].secret /\ q.flag = job[h].flag /\ q.guarded = guarded
  BY <1>1 DEF JobRecords
<1> HIDE DEF q
<1> QED BY <1>1, <1>2, Carried

(* What each of these steps makes of its request.                           *)
LEMMA InsertJob ==
  ASSUME BaseInv, NEW h \in Handlers, InsertAccount(h)
  PROVE  \E u \in Users :
           /\ NewUser(u) /\ u \notin made
           /\ made' = made \cup {u} /\ local' = local \cup {u}
           /\ asked' = IF job[h].flag THEN asked \cup {u} ELSE asked
           /\ Carries(h) /\ job'[h].actor = u
           /\ job'[h].pc = (IF job[h].flag THEN "invalidate" ELSE "mark")
           /\ job'[h].guarded = job[h].guarded /\ job'[h].secret = job[h].secret
<1>1. PICK u \in Users :
        /\ NewUser(u) /\ made' = made \cup {u} /\ local' = local \cup {u}
        /\ asked' = IF job[h].flag THEN asked \cup {u} ELSE asked
        /\ job' = [job EXCEPT ![h].actor = u,
                              ![h].pc = IF job[h].flag THEN "invalidate" ELSE "mark"]
  BY DEF InsertAccount
<1> DEFINE pc == IF job[h].flag THEN "invalidate" ELSE "mark"
           q == [job[h] EXCEPT !.actor = u, !.pc = pc]
<1>2. u \notin made
  BY <1>1, NextUser DEF BaseInv, AccountsFit
<1>3. JobsTyped /\ job[h] \in JobRecords /\ pc \in PCs
  BY DEF BaseInv, JobsTyped, PCs
<1>4. job' = [job EXCEPT ![h] = q]
  BY <1>1, <1>3 DEF JobsTyped
<1> HIDE DEF pc
<1>5. /\ q \in JobRecords /\ q.kind = job[h].kind /\ q.idp = job[h].idp /\ q.uid = job[h].uid
      /\ q.state = job[h].state /\ q.link = job[h].link /\ q.actor = u /\ q.pc = pc
      /\ q.guarded = job[h].guarded /\ q.secret = job[h].secret
  BY <1>3 DEF JobRecords
<1> HIDE DEF q
<1>6. Carries(h) /\ job'[h] = q
  BY <1>3, <1>4, <1>5, Carried
<1> QED BY <1>1, <1>2, <1>5, <1>6 DEF pc

LEMMA FindLinkJob ==
  ASSUME BaseInv, NEW h \in Handlers, FindLink(h)
  PROVE  \/ Done(h)
         \/ /\ Carries(h) /\ job'[h].pc = "mark" /\ job'[h].actor \in local
            /\ job'[h].secret = job[h].secret /\ job'[h].guarded = job[h].guarded
<1> SUFFICES ASSUME ~Done(h)
             PROVE  /\ Carries(h) /\ job'[h].pc = "mark" /\ job'[h].actor \in local
                    /\ job'[h].secret = job[h].secret /\ job'[h].guarded = job[h].guarded
  OBVIOUS
<1> DEFINE actor == link[job[h].link].user
<1>1. JobsTyped /\ job[h] \in JobRecords /\ JobFits(job[h], made, local)
  BY DEF BaseInv, JobsTyped, JobsFit
<1>2. /\ link[job[h].link].usable
      /\ job' = [job EXCEPT ![h].pc = "mark", ![h].actor = actor]
      /\ job[h].link \in Links
  BY <1>1 DEF FindLink, At, JobFits
<1>3. actor \in local /\ actor \in Users
  BY <1>2, MadeAreUsers DEF BaseInv, LinksFit, AccountsFit
<1> HIDE DEF actor
<1>4. "mark" \in PCs /\ actor \in Users \cup {Nobody}
  BY <1>3 DEF PCs
<1>5. /\ Carries(h) /\ job'[h].pc = "mark" /\ job'[h].actor = actor
      /\ job'[h].secret = job[h].secret /\ job'[h].guarded = job[h].guarded
  BY <1>1, <1>2, <1>4, ActorJob
<1> QED BY <1>3, <1>5

LEMMA ReadSecretJob ==
  ASSUME BaseInv, NEW h \in Handlers, ReadSecret(h)
  PROVE  \/ Done(h)
         \/ /\ Carries(h) /\ job'[h].pc = "enable" /\ job'[h].actor = job[h].actor
            /\ job'[h].secret = security[job[h].actor].secret
            /\ job'[h].guarded = job[h].guarded
<1> SUFFICES ASSUME ~Done(h)
             PROVE  /\ Carries(h) /\ job'[h].pc = "enable" /\ job'[h].actor = job[h].actor
                    /\ job'[h].secret = security[job[h].actor].secret
                    /\ job'[h].guarded = job[h].guarded
  OBVIOUS
<1> DEFINE secret == security[job[h].actor].secret
<1>1. JobsTyped /\ job[h] \in JobRecords /\ JobFits(job[h], made, local)
  BY DEF BaseInv, JobsTyped, JobsFit
<1>2. /\ job' = [job EXCEPT ![h].pc = "enable", ![h].secret = secret]
      /\ job[h].actor \in made
  BY <1>1 DEF ReadSecret, At, JobFits
<1>3. secret \in Secrets
  BY <1>2, MadeAreUsers DEF BaseInv, FactorsFit, AccountsFit
<1> HIDE DEF secret
<1>4. "enable" \in PCs
  BY DEF PCs
<1> QED BY <1>1, <1>2, <1>3, <1>4, SecretJob DEF secret

LEMMA FindIdentityJob ==
  ASSUME BaseInv, NEW h \in Handlers, FindIdentity(h)
  PROVE  \/ /\ Stays(h) /\ HeldBy(job[h].idp, job[h].uid) = {}
            /\ job'[h].pc = IF job[h].actor # Nobody THEN "link" ELSE "create"
         \/ /\ Carries(h) /\ job'[h].pc = "finish" /\ job'[h].secret = job[h].secret
            /\ job'[h].actor \in made /\ job'[h].guarded = security[job'[h].actor].on
<1>1. /\ JobsTyped /\ job[h] \in JobRecords
      /\ job[h].idp \in Providers /\ job[h].uid \in Uids
  BY DEF BaseInv, JobsTyped, JobsFit, FindIdentity, At, JobFits
<1>2. CASE HeldBy(job[h].idp, job[h].uid) # {}
  <2>1. PICK u \in HeldBy(job[h].idp, job[h].uid) :
          job' = [job EXCEPT ![h].actor = u, ![h].pc = "finish", ![h].guarded = Guarded(u)]
    BY <1>2 DEF FindIdentity
  <2>2. u \in Users /\ identity[<<u, job[h].idp, job[h].uid>>] > 0
    BY DEF HeldBy
  <2>3. u \in made
    BY <1>1, <2>2 DEF BaseInv, IdpsFit
  <2> DEFINE g == Guarded(u)
  <2>4. g = security[u].on /\ g \in BOOLEAN
    BY <2>2, SomeUsers DEF Guarded, BaseInv, FactorsFit
  <2>5. job' = [job EXCEPT ![h].pc = "finish", ![h].actor = u, ![h].guarded = g]
    BY <1>1, <2>1 DEF JobsTyped
  <2>7. u \in Users \cup {Nobody}
    BY <2>2
  <2> HIDE DEF g
  <2>6. "finish" \in PCs
    BY DEF PCs
  <2>8. /\ Carries(h) /\ job'[h].pc = "finish" /\ job'[h].secret = job[h].secret
        /\ job'[h].actor = u /\ job'[h].guarded = g
    <3>1. JobsTyped /\ g \in BOOLEAN
      BY <1>1, <2>4
    <3> QED BY <2>5, <2>6, <2>7, <3>1, ActorGuardJob, ZenonT(60)
  <2> QED BY <2>3, <2>4, <2>8
<1>3. CASE HeldBy(job[h].idp, job[h].uid) = {}
  <2> DEFINE pc == IF job[h].actor # Nobody THEN "link" ELSE "create"
  <2>1. To(h, pc) /\ pc \in PCs
    BY <1>3 DEF FindIdentity, PCs
  <2> HIDE DEF pc
  <2>2. Stays(h) /\ job'[h].pc = pc
    BY <1>1, <2>1, IsTo
  <2> QED BY <1>3, <2>2 DEF pc
<1> QED BY <1>2, <1>3

LEMMA LinkIdentityJob ==
  ASSUME BaseInv, NEW h \in Handlers, LinkIdentity(h)
  PROVE  /\ Carries(h) /\ job'[h].pc = "finish" /\ job'[h].secret = job[h].secret
         /\ job'[h].actor = job[h].actor
         /\ job'[h].actor \in made /\ job'[h].guarded = security[job'[h].actor].on
<1> DEFINE u == job[h].actor  g == Guarded(u)
<1>1. JobsTyped /\ job[h] \in JobRecords /\ u \in made /\ u \in Users
  BY MadeAreUsers DEF BaseInv, JobsTyped, JobsFit, LinkIdentity, At, JobFits, AccountsFit
<1>2. g = security[u].on /\ g \in BOOLEAN
  BY <1>1, SomeUsers DEF Guarded, BaseInv, FactorsFit
<1>3. job' = [job EXCEPT ![h].pc = "finish", ![h].guarded = g]
  BY DEF LinkIdentity
<1> HIDE DEF g
<1>4. "finish" \in PCs
  BY DEF PCs
<1>5. /\ Carries(h) /\ job'[h].pc = "finish" /\ job'[h].secret = job[h].secret
      /\ job'[h].actor = u /\ job'[h].guarded = g
  BY <1>1, <1>2, <1>3, <1>4, GuardJob
<1> QED BY <1>1, <1>2, <1>5

LEMMA CreateUserJob ==
  ASSUME BaseInv, NEW h \in Handlers, CreateUserWithIdentity(h)
  PROVE  \E u \in Users :
           /\ NewUser(u) /\ u \notin made /\ made' = made \cup {u}
           /\ AddIdentity(u, job[h].idp, job[h].uid)
           /\ Carries(h) /\ job'[h].pc = "finish" /\ job'[h].actor = u
           /\ job'[h].secret = job[h].secret /\ job'[h].guarded = job[h].guarded
<1>1. PICK u \in Users :
        /\ NewUser(u) /\ made' = made \cup {u} /\ AddIdentity(u, job[h].idp, job[h].uid)
        /\ job' = [job EXCEPT ![h].pc = "finish", ![h].actor = u]
  BY DEF CreateUserWithIdentity
<1>2. u \notin made
  BY <1>1, NextUser DEF BaseInv, AccountsFit
<1>3. JobsTyped /\ job[h] \in JobRecords
  BY DEF BaseInv, JobsTyped
<1>4. "finish" \in PCs /\ u \in Users \cup {Nobody}
  BY DEF PCs
<1> QED BY <1>1, <1>2, <1>3, <1>4, ActorJob

LEMMA FinishJob ==
  ASSUME BaseInv, NEW h \in Handlers, FinishCallback(h)
  PROVE  /\ Carries(h) /\ job'[h].actor = job[h].actor /\ job'[h].secret = job[h].secret
         /\ \/ job'[h].pc = "factor" /\ job'[h].guarded = job[h].guarded
            \/ job'[h].pc = "open" /\ job'[h].guarded = FALSE
<1> DEFINE ask == ~job[h].flag /\ external2fa
           pc == IF ask THEN "factor" ELSE "open"
           g == ask /\ job[h].guarded
<1>1. JobsTyped /\ job[h] \in JobRecords /\ external2fa \in BOOLEAN
  BY DEF BaseInv, JobsTyped
<1>2. job' = [job EXCEPT ![h].pc = pc, ![h].guarded = g]
  BY <1>1 DEF FinishCallback, JobsTyped
<1>3. /\ pc \in PCs /\ g \in BOOLEAN
      /\ (pc = "factor" /\ g = job[h].guarded) \/ (pc = "open" /\ g = FALSE)
  BY <1>1 DEF PCs, JobRecords
<1> HIDE DEF pc, g, ask
<1>5. /\ Carries(h) /\ job'[h].pc = pc /\ job'[h].actor = job[h].actor
      /\ job'[h].secret = job[h].secret /\ job'[h].guarded = g
  BY <1>1, <1>2, <1>3, GuardJob
<1> QED BY <1>3, <1>5

(* The second factor changes: nobody of the account is guarded any more.    *)
LEMMA UnguardJob ==
  ASSUME BaseInv, NEW h \in Handlers, job' = [Unguard(job[h].actor) EXCEPT ![h] = NoJob]
  PROVE  /\ JobsTyped' /\ job'[h] = NoJob
         /\ \A p \in Handlers \ {h} :
              job'[p] = IF job[p].actor = job[h].actor THEN [job[p] EXCEPT !.guarded = FALSE]
                        ELSE job[p]
         /\ \A p \in Handlers \ {h} : Alike(job[p], job'[p])
         /\ \A p \in Handlers \ {h} : job[p].actor = job[h].actor => ~job'[p].guarded
<1> DEFINE u == job[h].actor
           free(p) == IF job[p].actor = u THEN [job[p] EXCEPT !.guarded = FALSE] ELSE job[p]
<1>1. /\ job'[h] = NoJob
      /\ \A p \in Handlers \ {h} : job'[p] = free(p)
      /\ job' = [p \in Handlers |-> job'[p]]
  BY DEF Unguard
<1>2. ASSUME NEW p \in Handlers
      PROVE  /\ free(p) \in JobRecords /\ Alike(job[p], free(p))
             /\ job[p].actor = u => ~free(p).guarded
  <2>1. job[p] \in JobRecords
    BY DEF BaseInv, JobsTyped
  <2> QED BY <2>1 DEF JobRecords, Alike
<1>3. JobsTyped'
  BY <1>1, <1>2, NoJobFits DEF JobsTyped
<1> QED BY <1>1, <1>2, <1>3
LEMMA ReadingSteps ==
  ASSUME BaseInv, NEW h \in Handlers,
         \/ ReadPolicy(h) \/ LoginAccount(h) \/ FindLink(h) \/ ReadSecret(h) \/ InsertAccount(h)
         \/ FindIdentity(h) \/ LinkIdentity(h) \/ CreateUserWithIdentity(h) \/ FinishCallback(h)
         \/ SavePendingSecret(h) \/ Disable(h)
  PROVE  JobsGood(h) /\ Grows
<1>0. /\ JobsTyped /\ JobFits(job[h], made, local) /\ job[h] \in JobRecords
      /\ JobsFit /\ made \subseteq Users
  BY MadeAreUsers DEF BaseInv, JobsFit, JobsTyped, AccountsFit
<1>1. CASE ReadPolicy(h)
  <2> DEFINE flag == made # {} /\ required
  <2>1. /\ job' = [job EXCEPT ![h].pc = "count", ![h].flag = flag]
        /\ UNCHANGED <<made, local>> /\ At(h, "register", "policy")
    BY <1>1 DEF ReadPolicy, accounts
  <2>2. "count" \in PCs /\ flag \in BOOLEAN
    BY DEF PCs, BaseInv
  <2> HIDE DEF flag
  <2>3. Carries(h) /\ job'[h].pc = "count" /\ job'[h].actor = job[h].actor
    BY <1>0, <2>1, <2>2, FlagJob
  <2>4. JobFits(job'[h], made', local')
    BY <1>0, <2>1, <2>3 DEF JobFits, Carries, At
  <2> QED BY <2>1, <2>3, <2>4, GoodStep DEF Grows, At
<1>2. CASE LoginAccount(h)
  <2> DEFINE flag == job[h].actor \in verified
  <2>1. /\ job' = [job EXCEPT ![h].pc = "policy", ![h].flag = flag]
        /\ UNCHANGED <<made, local>> /\ At(h, "login", "account")
    BY <1>2 DEF LoginAccount, accounts
  <2>2. "policy" \in PCs /\ flag \in BOOLEAN
    BY DEF PCs
  <2> HIDE DEF flag
  <2>3. Carries(h) /\ job'[h].pc = "policy" /\ job'[h].actor = job[h].actor
    BY <1>0, <2>1, <2>2, FlagJob
  <2>4. JobFits(job'[h], made', local')
    BY <1>0, <2>1, <2>3 DEF JobFits, Carries, At
  <2> QED BY <2>1, <2>3, <2>4, GoodStep DEF Grows, At
<1>3. CASE FindLink(h)
  <2>1. UNCHANGED <<made, local>> /\ At(h, "verify", "find") /\ Grows
    BY <1>3 DEF FindLink, accounts, Grows
  <2>2. CASE Done(h)
    BY <2>1, <2>2, GoodDone
  <2>3. CASE Carries(h) /\ job'[h].pc = "mark" /\ job'[h].actor \in local
    <3>1. JobFits(job'[h], made', local')
      BY <1>0, <2>1, <2>3 DEF JobFits, Carries, At, BaseInv, AccountsFit
    <3> QED BY <2>1, <2>3, <3>1, GoodStep DEF At
  <2> QED BY <1>3, <2>2, <2>3, FindLinkJob
<1>4. CASE ReadSecret(h)
  <2>1. UNCHANGED <<made, local>> /\ At(h, "confirm", "read") /\ Grows
    BY <1>4 DEF ReadSecret, accounts, Grows
  <2>2. CASE Done(h)
    BY <2>1, <2>2, GoodDone
  <2>3. CASE Carries(h) /\ job'[h].pc = "enable" /\ job'[h].actor = job[h].actor
    <3>1. JobFits(job'[h], made', local')
      BY <1>0, <2>1, <2>3 DEF JobFits, Carries, At
    <3> QED BY <2>1, <2>3, <3>1, GoodStep DEF At
  <2> QED BY <1>4, <2>2, <2>3, ReadSecretJob
<1>5. CASE InsertAccount(h)
  <2>1. PICK u \in Users :
          /\ made' = made \cup {u} /\ local' = local \cup {u}
          /\ Carries(h) /\ job'[h].actor = u /\ job'[h].pc \in {"invalidate", "mark"}
    BY <1>5, InsertJob
  <2>2. job[h].kind = "register" /\ job[h].pc # "idle"
    BY <1>5 DEF InsertAccount, At
  <2>3. JobFits(job'[h], made', local')
    BY <2>1, <2>2 DEF JobFits, Carries
  <2> QED BY <2>1, <2>2, <2>3, GoodStep DEF Grows
<1>6. CASE FindIdentity(h)
  <2>1. UNCHANGED <<made, local>> /\ At(h, "callback", "identity") /\ Grows
    BY <1>6 DEF FindIdentity, accounts, Grows
  <2>2. CASE Stays(h) /\ job'[h].pc = IF job[h].actor # Nobody THEN "link" ELSE "create"
    <3>1. JobFits(job'[h], made', local')
      BY <1>0, <2>1, <2>2 DEF JobFits, Stays, Carries, At
    <3> QED BY <2>1, <2>2, <3>1, GoodStep DEF At, Stays
  <2>3. CASE Carries(h) /\ job'[h].pc = "finish" /\ job'[h].actor \in made
    <3>1. JobFits(job'[h], made', local')
      BY <1>0, <2>1, <2>3 DEF JobFits, Carries, At
    <3> QED BY <2>1, <2>3, <3>1, GoodStep DEF At
  <2> QED BY <1>6, <2>2, <2>3, FindIdentityJob
<1>7. CASE LinkIdentity(h)
  <2>1. UNCHANGED <<made, local>> /\ At(h, "callback", "link") /\ Grows
    BY <1>7 DEF LinkIdentity, accounts, Grows
  <2>2. Carries(h) /\ job'[h].pc = "finish" /\ job'[h].actor \in made
    BY <1>7, LinkIdentityJob
  <2>3. JobFits(job'[h], made', local')
    BY <1>0, <2>1, <2>2 DEF JobFits, Carries, At
  <2> QED BY <2>1, <2>2, <2>3, GoodStep DEF At
<1>8. CASE CreateUserWithIdentity(h)
  <2>1. PICK u \in Users : /\ made' = made \cup {u}
                           /\ Carries(h) /\ job'[h].pc = "finish" /\ job'[h].actor = u
    BY <1>8, CreateUserJob
  <2>2. At(h, "callback", "create") /\ local' = local
    BY <1>8 DEF CreateUserWithIdentity
  <2>3. JobFits(job'[h], made', local')
    BY <1>0, <2>1, <2>2 DEF JobFits, Carries, At
  <2> QED BY <2>1, <2>2, <2>3, GoodStep DEF Grows, At
<1>9. CASE FinishCallback(h)
  <2>1. UNCHANGED <<made, local>> /\ At(h, "callback", "finish") /\ Grows
    BY <1>9 DEF FinishCallback, accounts, Grows
  <2>2. Carries(h) /\ job'[h].pc \in {"factor", "open"} /\ job'[h].actor = job[h].actor
    BY <1>9, FinishJob
  <2>3. JobFits(job'[h], made', local')
    BY <1>0, <2>1, <2>2 DEF JobFits, Carries, At
  <2> QED BY <2>1, <2>2, <2>3, GoodStep DEF At
<1>10. CASE SavePendingSecret(h) \/ Disable(h)
  <2>1. UNCHANGED <<made, local>> /\ Grows
    BY <1>10 DEF SavePendingSecret, Disable, accounts, Grows
  <2>2. job' = [Unguard(job[h].actor) EXCEPT ![h] = NoJob]
    BY <1>10 DEF SavePendingSecret, Disable
  <2>3. /\ JobsTyped' /\ job'[h] = NoJob
        /\ \A p \in Handlers \ {h} :
             job'[p] = IF job[p].actor = job[h].actor THEN [job[p] EXCEPT !.guarded = FALSE]
                       ELSE job[p]
        /\ \A p \in Handlers \ {h} : Alike(job[p], job'[p])
    BY <2>2, UnguardJob
  <2>4. ASSUME NEW p \in Handlers PROVE JobFits(job'[p], made, local)
    <3>1. CASE p = h
      BY <2>3, <3>1, NoJobFits
    <3>2. CASE p # h
      <4>1. JobFits(job[p], made, local) /\ job[p] \in JobRecords
        BY DEF BaseInv, JobsFit, JobsTyped
      <4>2. /\ job'[p].pc = job[p].pc /\ job'[p].kind = job[p].kind
            /\ job'[p].actor = job[p].actor /\ job'[p].idp = job[p].idp
            /\ job'[p].uid = job[p].uid /\ job'[p].state = job[p].state
            /\ job'[p].link = job[p].link
        BY <2>3, <3>2, <4>1 DEF JobRecords
      <4> QED BY <4>1, <4>2 DEF JobFits
    <3> QED BY <3>1, <3>2
  <2> QED BY <2>1, <2>3, <2>4 DEF JobsGood, JobsFit, Shape
<1> QED BY <1>1, <1>2, <1>3, <1>4, <1>5, <1>6, <1>7, <1>8, <1>9, <1>10

LEMMA StepsGood ==
  ASSUME BaseInv, NEW h \in Handlers, Steps(h)
  PROVE  JobsGood(h) /\ Grows
<1>1. \/ \/ EnsureAllowed(h) \/ CountUsers(h) \/ FindUnverified(h) \/ InvalidateLinks(h)
         \/ StoreLink(h) \/ ConfirmAddress(h) \/ UseLink(h) \/ PreparePolicy(h) \/ StorePolicy(h)
         \/ LoginPolicy(h) \/ LoginFactor(h) \/ OpenSession(h) \/ CheckCode(h) \/ MarkVerified(h)
         \/ ConfirmCode(h) \/ Enable(h) \/ FindProvider(h) \/ ExchangeCode(h)
         \/ ValidateAssertion(h) \/ CallbackFactor(h) \/ CountIdentities(h) \/ DeleteIdentity(h)
         \/ Fail(h)
      \/ \/ ReadPolicy(h) \/ LoginAccount(h) \/ FindLink(h) \/ ReadSecret(h) \/ InsertAccount(h)
         \/ FindIdentity(h) \/ LinkIdentity(h) \/ CreateUserWithIdentity(h) \/ FinishCallback(h)
         \/ SavePendingSecret(h) \/ Disable(h)
  BY DEF Steps
<1> QED BY <1>1, PlainSteps, ReadingSteps DEF Grows
-----------------------------------------------------------------------------
(* Which steps touch what.                                                  *)
LEMMA AccountSteps ==
  ASSUME NEW h, Steps(h)
  PROVE  \/ UNCHANGED <<accounts, pending>>
         \/ MarkVerified(h) \/ ConfirmAddress(h) \/ PreparePolicy(h) \/ InsertAccount(h)
         \/ CreateUserWithIdentity(h) \/ LoginFactor(h) \/ CallbackFactor(h) \/ OpenSession(h)
<1>1. \/ EnsureAllowed(h) \/ ReadPolicy(h) \/ CountUsers(h) \/ FindUnverified(h)
      \/ InvalidateLinks(h) \/ StoreLink(h) \/ FindLink(h) \/ UseLink(h) \/ StorePolicy(h)
      \/ LoginAccount(h) \/ LoginPolicy(h) \/ CheckCode(h)
      => UNCHANGED <<accounts, pending>>
  BY DEF EnsureAllowed, ReadPolicy, CountUsers, FindUnverified, InvalidateLinks, StoreLink,
         FindLink, UseLink, StorePolicy, LoginAccount, LoginPolicy, CheckCode, factors
<1>2. \/ SavePendingSecret(h) \/ ConfirmCode(h) \/ ReadSecret(h) \/ Enable(h) \/ Disable(h)
      \/ FindProvider(h) \/ ExchangeCode(h) \/ ValidateAssertion(h) \/ FindIdentity(h)
      \/ LinkIdentity(h) \/ FinishCallback(h) \/ CountIdentities(h) \/ DeleteIdentity(h) \/ Fail(h)
      => UNCHANGED <<accounts, pending>>
  BY DEF SavePendingSecret, ConfirmCode, ReadSecret, Enable, Disable, FindProvider, ExchangeCode,
         ValidateAssertion, FindIdentity, LinkIdentity, FinishCallback, CountIdentities,
         DeleteIdentity, Fail, factors
<1> QED BY <1>1, <1>2 DEF Steps

LEMMA LinkSteps ==
  ASSUME NEW h, Steps(h)
  PROVE  UNCHANGED link \/ InvalidateLinks(h) \/ StoreLink(h) \/ UseLink(h)
<1>1. \/ EnsureAllowed(h) \/ ReadPolicy(h) \/ CountUsers(h) \/ InsertAccount(h) \/ MarkVerified(h)
      \/ FindUnverified(h) \/ FindLink(h) \/ ConfirmAddress(h) \/ PreparePolicy(h)
      \/ StorePolicy(h) \/ LoginAccount(h) \/ LoginPolicy(h) \/ LoginFactor(h) \/ OpenSession(h)
      \/ CheckCode(h)
      => UNCHANGED link
  BY DEF EnsureAllowed, ReadPolicy, CountUsers, InsertAccount, MarkVerified, FindUnverified,
         FindLink, ConfirmAddress, PreparePolicy, StorePolicy, LoginAccount, LoginPolicy,
         LoginFactor, AskFactor, OpenSession, CheckCode
<1>2. \/ SavePendingSecret(h) \/ ConfirmCode(h) \/ ReadSecret(h) \/ Enable(h) \/ Disable(h)
      \/ FindProvider(h) \/ ExchangeCode(h) \/ ValidateAssertion(h) \/ FindIdentity(h)
      \/ LinkIdentity(h) \/ CreateUserWithIdentity(h) \/ FinishCallback(h) \/ CallbackFactor(h)
      \/ CountIdentities(h) \/ DeleteIdentity(h) \/ Fail(h)
      => UNCHANGED link
  BY DEF SavePendingSecret, ConfirmCode, ReadSecret, Enable, Disable, FindProvider, ExchangeCode,
         ValidateAssertion, FindIdentity, LinkIdentity, CreateUserWithIdentity, FinishCallback,
         CallbackFactor, AskFactor, CountIdentities, DeleteIdentity, Fail
<1> QED BY <1>1, <1>2 DEF Steps

LEMMA FactorSteps ==
  ASSUME NEW h, Steps(h)
  PROVE  \/ UNCHANGED <<security, issued, proved>>
         \/ SavePendingSecret(h) \/ ConfirmCode(h) \/ Enable(h) \/ Disable(h)
<1>1. \/ EnsureAllowed(h) \/ ReadPolicy(h) \/ CountUsers(h) \/ InsertAccount(h) \/ MarkVerified(h)
      \/ FindUnverified(h) \/ InvalidateLinks(h) \/ StoreLink(h) \/ FindLink(h)
      \/ ConfirmAddress(h) \/ UseLink(h) \/ PreparePolicy(h) \/ StorePolicy(h)
      \/ LoginAccount(h) \/ LoginPolicy(h) \/ LoginFactor(h) \/ OpenSession(h) \/ CheckCode(h)
      => UNCHANGED <<security, issued, proved>>
  BY DEF EnsureAllowed, ReadPolicy, CountUsers, InsertAccount, MarkVerified, FindUnverified,
         InvalidateLinks, StoreLink, FindLink, ConfirmAddress, UseLink, PreparePolicy,
         StorePolicy, LoginAccount, LoginPolicy, LoginFactor, AskFactor, OpenSession, CheckCode,
         factors, past
<1>2. \/ ReadSecret(h) \/ FindProvider(h) \/ ExchangeCode(h) \/ ValidateAssertion(h)
      \/ FindIdentity(h) \/ LinkIdentity(h) \/ CreateUserWithIdentity(h) \/ FinishCallback(h)
      \/ CallbackFactor(h) \/ CountIdentities(h) \/ DeleteIdentity(h) \/ Fail(h)
      => UNCHANGED <<security, issued, proved>>
  BY DEF ReadSecret, FindProvider, ExchangeCode, ValidateAssertion, FindIdentity, LinkIdentity,
         CreateUserWithIdentity, FinishCallback, CallbackFactor, AskFactor, CountIdentities,
         DeleteIdentity, Fail, factors, past
<1> QED BY <1>1, <1>2 DEF Steps

LEMMA IdpSteps ==
  ASSUME NEW h, Steps(h)
  PROVE  \/ UNCHANGED <<provider, identity, flow, made>>
         \/ InsertAccount(h) \/ FindProvider(h) \/ LinkIdentity(h) \/ CreateUserWithIdentity(h)
         \/ FinishCallback(h) \/ DeleteIdentity(h)
<1>1. \/ EnsureAllowed(h) \/ ReadPolicy(h) \/ CountUsers(h) \/ MarkVerified(h)
      \/ FindUnverified(h) \/ InvalidateLinks(h) \/ StoreLink(h) \/ FindLink(h)
      \/ ConfirmAddress(h) \/ UseLink(h) \/ PreparePolicy(h) \/ StorePolicy(h)
      \/ LoginAccount(h) \/ LoginPolicy(h) \/ LoginFactor(h) \/ OpenSession(h) \/ CheckCode(h)
      => UNCHANGED <<provider, identity, flow, made>>
  BY DEF EnsureAllowed, ReadPolicy, CountUsers, MarkVerified, FindUnverified,
         InvalidateLinks, StoreLink, FindLink, ConfirmAddress, UseLink, PreparePolicy,
         StorePolicy, LoginAccount, LoginPolicy, LoginFactor, AskFactor, OpenSession, CheckCode,
         idps, accounts
<1>2. \/ SavePendingSecret(h) \/ ConfirmCode(h) \/ ReadSecret(h) \/ Enable(h) \/ Disable(h)
      \/ ExchangeCode(h) \/ ValidateAssertion(h) \/ FindIdentity(h) \/ CallbackFactor(h)
      \/ CountIdentities(h) \/ Fail(h)
      => UNCHANGED <<provider, identity, flow, made>>
  BY DEF SavePendingSecret, ConfirmCode, ReadSecret, Enable, Disable, ExchangeCode,
         ValidateAssertion, FindIdentity, CallbackFactor, AskFactor, CountIdentities, Fail,
         idps, accounts
<1> QED BY <1>1, <1>2 DEF Steps

(* The settings: only their type matters.                                   *)
LEMMA SettingSteps ==
  ASSUME BaseInv, NEW h \in Handlers, Steps(h)
  PROVE  registration' = registration /\ external2fa' = external2fa /\ required' \in BOOLEAN
<1>1. CASE StorePolicy(h)
  BY <1>1 DEF StorePolicy, BaseInv, JobsTyped, JobRecords
<1>2. \/ EnsureAllowed(h) \/ ReadPolicy(h) \/ CountUsers(h) \/ MarkVerified(h) \/ InsertAccount(h)
      \/ FindUnverified(h) \/ InvalidateLinks(h) \/ StoreLink(h) \/ FindLink(h)
      \/ ConfirmAddress(h) \/ UseLink(h) \/ PreparePolicy(h)
      \/ LoginAccount(h) \/ LoginPolicy(h) \/ LoginFactor(h) \/ OpenSession(h) \/ CheckCode(h)
      => UNCHANGED settings
  BY DEF EnsureAllowed, ReadPolicy, CountUsers, MarkVerified, FindUnverified, InsertAccount,
         InvalidateLinks, StoreLink, FindLink, ConfirmAddress, UseLink, PreparePolicy,
         LoginAccount, LoginPolicy, LoginFactor, AskFactor, OpenSession, CheckCode
<1>3. \/ SavePendingSecret(h) \/ ConfirmCode(h) \/ ReadSecret(h) \/ Enable(h) \/ Disable(h)
      \/ ExchangeCode(h) \/ ValidateAssertion(h) \/ FindIdentity(h) \/ CallbackFactor(h)
      \/ CountIdentities(h) \/ Fail(h) \/ FindProvider(h) \/ LinkIdentity(h)
      \/ CreateUserWithIdentity(h) \/ FinishCallback(h) \/ DeleteIdentity(h)
      => UNCHANGED settings
  BY DEF SavePendingSecret, ConfirmCode, ReadSecret, Enable, Disable, ExchangeCode,
         ValidateAssertion, FindIdentity, CallbackFactor, AskFactor, CountIdentities, Fail,
         FindProvider, LinkIdentity, CreateUserWithIdentity, FinishCallback, DeleteIdentity
<1>4. UNCHANGED settings => registration' = registration /\ external2fa' = external2fa
                             /\ required' \in BOOLEAN
  BY DEF settings, BaseInv
<1> QED BY <1>1, <1>2, <1>3, <1>4 DEF Steps
-----------------------------------------------------------------------------
(* The values hold.                                                         *)
LEMMA BaseInit == Init => BaseInv
<1> SUFFICES ASSUME Init PROVE BaseInv
  OBVIOUS
<1>1. PICK p \in Providers, x \in Uids, running \in BOOLEAN, orphans \in BOOLEAN :
        /\ made = IF running THEN {1, 2} ELSE {}
        /\ local = IF running THEN {1} ELSE {}
        /\ verified = local /\ admin = local
        /\ provider = [q \in Providers |->
             IF running /\ q = p /\ q \notin EnvProviders THEN "on"
             ELSE IF running /\ (q = p \/ (orphans /\ q \notin EnvProviders)) THEN "bare" ELSE "none"]
        /\ identity = [i \in Users \X Providers \X Uids |-> IF running /\ i = <<2, p, x>> THEN 1 ELSE 0]
  BY DEF Init
<1>2. MadeInOrder
  <2>1. CASE running
    <3>1. made = 1..2 /\ 2 \in 0..MaxUsers
      BY <1>1, <2>1, SignInAssumption
    <3> QED BY <3>1 DEF MadeInOrder
  <2>2. CASE ~running
    <3>1. made = 1..0 /\ 0 \in 0..MaxUsers
      BY <1>1, <2>2, SignInAssumption
    <3> QED BY <3>1 DEF MadeInOrder
  <2> QED BY <2>1, <2>2
<1>3. AccountsFit
  BY <1>1, <1>2 DEF Init, AccountsFit
<1>4. LinksFit
  BY DEF Init, LinksFit, NoLink
<1>5. FactorsFit
  BY SignInAssumption, SomeUsers DEF Init, FactorsFit, NoFactor, Secrets
<1>6. IdpsFit
  <2>1. provider \in [Providers -> {"none", "bare", "off", "on"}]
    BY <1>1
  <2>2. identity \in [Users \X Providers \X Uids -> Nat]
    BY <1>1
  <2>3. ASSUME NEW u \in Users, NEW q \in Providers, NEW y \in Uids, u \notin made
        PROVE  identity[<<u, q, y>>] = 0
    BY <1>1, <2>3
  <2>4. flow \in [States -> [live : BOOLEAN, user : made \cup {Nobody}]]
    BY DEF Init, NoFlow
  <2> QED BY <2>1, <2>2, <2>3, <2>4 DEF IdpsFit
<1>7. JobsTyped /\ JobsFit
  BY NoJobFits DEF Init, JobsTyped, JobsFit
<1>8. registration \in BOOLEAN /\ required \in BOOLEAN /\ external2fa \in BOOLEAN
  BY DEF Init
<1> QED BY <1>3, <1>4, <1>5, <1>6, <1>7, <1>8 DEF BaseInv

LEMMA AccountsStep ==
  ASSUME BaseInv, NEW h \in Handlers, Steps(h)
  PROVE  AccountsFit'
<1>0. AccountsFit /\ JobFits(job[h], made, local)
  BY DEF BaseInv, JobsFit
<1>1. CASE UNCHANGED <<accounts, pending>>
  BY <1>0, <1>1 DEF AccountsFit, MadeInOrder, accounts
<1>2. CASE MarkVerified(h) \/ ConfirmAddress(h)
  <2>1. /\ UNCHANGED <<made, local, admin, pending>> /\ verified' = verified \cup {job[h].actor}
        /\ job[h].actor \in local
    BY <1>0, <1>2 DEF MarkVerified, ConfirmAddress, At, JobFits, factors
  <2> QED BY <1>0, <2>1 DEF AccountsFit, MadeInOrder
<1>3. CASE PreparePolicy(h)
  BY <1>0, <1>3 DEF PreparePolicy, AccountsFit, MadeInOrder, factors
<1>4. CASE InsertAccount(h)
  <2>1. PICK u \in Users : /\ NewUser(u) /\ made' = made \cup {u} /\ local' = local \cup {u}
                           /\ admin' = admin \cup {u} \/ UNCHANGED admin
                           /\ UNCHANGED <<verified, pending>>
    BY <1>4 DEF InsertAccount, factors
  <2>2. MadeInOrder'
    BY <1>0, <2>1, NextUser DEF AccountsFit
  <2> QED BY <1>0, <2>1, <2>2 DEF AccountsFit
<1>5. CASE CreateUserWithIdentity(h)
  <2>1. PICK u \in Users : /\ NewUser(u) /\ made' = made \cup {u}
                           /\ UNCHANGED <<local, verified, admin, pending>>
    BY <1>5 DEF CreateUserWithIdentity, factors
  <2>2. MadeInOrder'
    BY <1>0, <2>1, NextUser DEF AccountsFit
  <2> QED BY <1>0, <2>1, <2>2 DEF AccountsFit
<1>6. CASE LoginFactor(h) \/ CallbackFactor(h) \/ OpenSession(h)
  <2>1. UNCHANGED accounts
    BY <1>6 DEF LoginFactor, CallbackFactor, AskFactor, OpenSession
  <2>2. \/ UNCHANGED pending \/ pending' = pending \ {job[h].actor}
        \/ (pending' = pending \cup {job[h].actor} /\ job[h].actor \in made)
    BY <1>0, <1>6 DEF LoginFactor, CallbackFactor, AskFactor, OpenSession, At, JobFits, factors, AccountsFit
  <2> QED BY <1>0, <2>1, <2>2 DEF AccountsFit, MadeInOrder, accounts
<1> QED BY <1>1, <1>2, <1>3, <1>4, <1>5, <1>6, AccountSteps

LEMMA LinksStep ==
  ASSUME BaseInv, NEW h \in Handlers, Steps(h)
  PROVE  LinksFit'
<1>0. /\ JobFits(job[h], made, local) /\ Grows /\ local \subseteq made
      /\ link \in [Links -> [user : made \cup {Nobody}, usable : BOOLEAN]]
      /\ \A l \in Links : link[l].usable => link[l].user \in local
  BY StepsGood DEF BaseInv, JobsFit, LinksFit, AccountsFit
<1>1. CASE UNCHANGED link
  BY <1>0, <1>1 DEF LinksFit, Grows
<1>2. CASE InvalidateLinks(h)
  <2>1. link' = [l \in Links |-> IF link[l].user = job[h].actor THEN [link[l] EXCEPT !.usable = FALSE] ELSE link[l]]
    BY <1>2 DEF InvalidateLinks
  <2>2. ASSUME NEW l \in Links
        PROVE  /\ link'[l] \in [user : made \cup {Nobody}, usable : BOOLEAN]
               /\ link'[l].usable => link'[l].user \in local
    <3>1. link[l] \in [user : made \cup {Nobody}, usable : BOOLEAN]
      BY <1>0
    <3> QED BY <1>0, <2>1, <3>1
  <2>3. link' \in [Links -> [user : made \cup {Nobody}, usable : BOOLEAN]]
    BY <2>1, <2>2
  <2> QED BY <1>0, <2>2, <2>3 DEF LinksFit, Grows
<1>3. CASE StoreLink(h)
  <2>1. PICK l \in Links : link' = [link EXCEPT ![l] = [user |-> job[h].actor, usable |-> TRUE]]
    BY <1>3 DEF StoreLink
  <2>2. job[h].actor \in local
    BY <1>0, <1>3 DEF StoreLink, JobFits
  <2> QED BY <1>0, <2>1, <2>2 DEF LinksFit, Grows
<1>4. CASE UseLink(h)
  <2>1. link' = [link EXCEPT ![job[h].link].usable = FALSE] /\ job[h].link \in Links
    BY <1>0, <1>4 DEF UseLink, At, JobFits
  <2> QED BY <1>0, <2>1 DEF LinksFit, Grows
<1> QED BY <1>1, <1>2, <1>3, <1>4, LinkSteps

LEMMA FactorsStep ==
  ASSUME BaseInv, NEW h \in Handlers, Steps(h)
  PROVE  FactorsFit'
<1>0. FactorsFit /\ JobFits(job[h], made, local) /\ job[h] \in JobRecords /\ made \subseteq Users
  BY MadeAreUsers DEF BaseInv, JobsFit, JobsTyped, AccountsFit
<1>1. CASE UNCHANGED <<security, issued, proved>>
  BY <1>0, <1>1 DEF FactorsFit
<1>2. CASE SavePendingSecret(h)
  <2>1. /\ issued < MaxSecrets /\ issued' = issued + 1 /\ job[h].actor \in Users
        /\ security' = [security EXCEPT ![job[h].actor] = [secret |-> issued + 1, on |-> FALSE]]
    BY <1>0, <1>2 DEF SavePendingSecret, At, JobFits
  <2>2. issued + 1 \in Secrets
    BY <1>0, <2>1, SignInAssumption DEF FactorsFit, Secrets
  <2> QED BY <1>0, <2>1, <2>2 DEF FactorsFit
<1>3. CASE ConfirmCode(h)
  BY <1>0, <1>3 DEF ConfirmCode, FactorsFit, factors
<1>4. CASE Enable(h)
  <2>1. /\ UNCHANGED issued /\ job[h].secret \in Secrets
        /\ security' = [security EXCEPT ![job[h].actor] = [secret |-> job[h].secret, on |-> TRUE]]
    BY <1>0, <1>4 DEF Enable, JobRecords
  <2> QED BY <1>0, <2>1 DEF FactorsFit
<1>5. CASE Disable(h)
  BY <1>0, <1>5, SomeUsers DEF Disable, FactorsFit, NoFactor
<1> QED BY <1>1, <1>2, <1>3, <1>4, <1>5, FactorSteps

(* A provider that is registered keeps the others as they are.              *)
LEMMA RegisteredFits ==
  ASSUME provider \in [Providers -> {"none", "bare", "off", "on"}], NEW p \in Providers
  PROVE  /\ Registered(p) \in [Providers -> {"none", "bare", "off", "on"}]
         /\ \A q \in Providers : provider[q] # "none" => Registered(p)[q] # "none"
BY DEF Registered

LEMMA Added ==
  ASSUME identity \in [Users \X Providers \X Uids -> Nat],
         NEW u \in Users, NEW p \in Providers, NEW x \in Uids, AddIdentity(u, p, x)
  PROVE  /\ provider[p] # "none"
         /\ identity' \in [Users \X Providers \X Uids -> Nat]
         /\ identity'[<<u, p, x>>] = identity[<<u, p, x>>] + 1
         /\ \A v \in Users, q \in Providers, y \in Uids :
              (v # u \/ q # p \/ y # x) => identity'[<<v, q, y>>] = identity[<<v, q, y>>]
<1> DEFINE i == <<u, p, x>>
<1>1. i \in Users \X Providers \X Uids /\ identity[i] \in Nat
  OBVIOUS
<1>2. identity' = [identity EXCEPT ![i] = identity[i] + 1] /\ provider[p] # "none"
  BY DEF AddIdentity
<1>3. identity' \in [Users \X Providers \X Uids -> Nat] /\ identity'[i] = identity[i] + 1
  BY <1>1, <1>2
<1>4. ASSUME NEW v \in Users, NEW q \in Providers, NEW y \in Uids, v # u \/ q # p \/ y # x
      PROVE  identity'[<<v, q, y>>] = identity[<<v, q, y>>]
  <2>1. <<v, q, y>> # i /\ <<v, q, y>> \in Users \X Providers \X Uids
    BY <1>4
  <2> QED BY <1>2, <2>1
<1> QED BY <1>2, <1>3, <1>4

LEMMA Unlinked ==
  ASSUME IdpsFit, NEW h \in Handlers, DeleteIdentity(h)
  PROVE  /\ identity' \in [Users \X Providers \X Uids -> Nat]
         /\ \A v \in Users, q \in Providers, y \in Uids :
              /\ identity'[<<v, q, y>>] \in {0, identity[<<v, q, y>>]}
              /\ (v # job[h].actor \/ q # job[h].idp) => identity'[<<v, q, y>>] = identity[<<v, q, y>>]
<1>1. identity \in [Users \X Providers \X Uids -> Nat]
  BY DEF IdpsFit
<1>2. CASE identity' = identity
  BY <1>1, <1>2
<1>3. CASE identity' = [i \in DOMAIN identity |->
                          IF i[1] = job[h].actor /\ i[2] = job[h].idp THEN 0 ELSE identity[i]]
  <2>1. identity' = [i \in Users \X Providers \X Uids |->
                       IF i[1] = job[h].actor /\ i[2] = job[h].idp THEN 0 ELSE identity[i]]
    BY <1>1, <1>3
  <2>2. identity' \in [Users \X Providers \X Uids -> Nat]
    BY <1>1, <2>1
  <2>3. ASSUME NEW v \in Users, NEW q \in Providers, NEW y \in Uids
        PROVE  /\ identity'[<<v, q, y>>] \in {0, identity[<<v, q, y>>]}
               /\ (v # job[h].actor \/ q # job[h].idp) => identity'[<<v, q, y>>] = identity[<<v, q, y>>]
    BY <2>1
  <2> QED BY <2>2, <2>3
<1> QED BY <1>2, <1>3 DEF DeleteIdentity

LEMMA IdpsStep ==
  ASSUME BaseInv, NEW h \in Handlers, Steps(h)
  PROVE  IdpsFit'
<1>0. /\ IdpsFit /\ JobFits(job[h], made, local) /\ made \subseteq made' /\ made \subseteq Users
      /\ provider \in [Providers -> {"none", "bare", "off", "on"}]
      /\ identity \in [Users \X Providers \X Uids -> Nat]
      /\ \A u \in Users, p \in Providers, x \in Uids : u \notin made => identity[<<u, p, x>>] = 0
      /\ flow \in [States -> [live : BOOLEAN, user : made \cup {Nobody}]]
  BY MadeAreUsers, StepsGood DEF BaseInv, JobsFit, IdpsFit, Grows, AccountsFit
<1>1. flow \in [States -> [live : BOOLEAN, user : made' \cup {Nobody}]]
  BY <1>0
<1>2. CASE UNCHANGED <<provider, identity, flow>>
  BY <1>0, <1>1, <1>2 DEF IdpsFit
<1>3. CASE FindProvider(h)
  <2>1. provider' = Registered(job[h].idp) /\ job[h].idp \in Providers /\ UNCHANGED <<identity, flow>>
    BY <1>0, <1>3 DEF FindProvider, At, JobFits
  <2> QED BY <1>0, <1>1, <2>1, RegisteredFits DEF IdpsFit
<1>4. CASE LinkIdentity(h)
  <2>1. /\ UNCHANGED <<provider, flow>> /\ AddIdentity(job[h].actor, job[h].idp, job[h].uid)
        /\ job[h].actor \in made /\ job[h].actor \in Users
        /\ job[h].idp \in Providers /\ job[h].uid \in Uids
    BY <1>0, <1>4 DEF LinkIdentity, At, JobFits
  <2>2. /\ identity' \in [Users \X Providers \X Uids -> Nat]
        /\ \A v \in Users, q \in Providers, y \in Uids :
             v # job[h].actor => identity'[<<v, q, y>>] = identity[<<v, q, y>>]
    <3>1. identity \in [Users \X Providers \X Uids -> Nat]
      BY <1>0
    <3>2. /\ identity' \in [Users \X Providers \X Uids -> Nat]
          /\ \A v \in Users, q \in Providers, y \in Uids :
               (v # job[h].actor \/ q # job[h].idp \/ y # job[h].uid)
                 => identity'[<<v, q, y>>] = identity[<<v, q, y>>]
      BY ONLY <3>1, <2>1, Added
    <3> QED BY <3>2
  <2> QED BY <1>0, <1>1, <2>1, <2>2 DEF IdpsFit
<1>5. CASE CreateUserWithIdentity(h)
  <2>1. PICK u \in Users : /\ made' = made \cup {u}
                           /\ AddIdentity(u, job[h].idp, job[h].uid)
    BY <1>5, CreateUserJob
  <2>2. UNCHANGED <<provider, flow>> /\ job[h].idp \in Providers /\ job[h].uid \in Uids
    BY <1>0, <1>5 DEF CreateUserWithIdentity, At, JobFits
  <2>3. /\ identity' \in [Users \X Providers \X Uids -> Nat]
        /\ \A v \in Users, q \in Providers, y \in Uids :
             v # u => identity'[<<v, q, y>>] = identity[<<v, q, y>>]
    <3>1. identity \in [Users \X Providers \X Uids -> Nat]
      BY <1>0
    <3>2. /\ identity' \in [Users \X Providers \X Uids -> Nat]
          /\ \A v \in Users, q \in Providers, y \in Uids :
               (v # u \/ q # job[h].idp \/ y # job[h].uid)
                 => identity'[<<v, q, y>>] = identity[<<v, q, y>>]
      BY ONLY <3>1, <2>1, <2>2, Added
    <3> QED BY <3>2
  <2> QED BY <1>0, <1>1, <2>1, <2>2, <2>3 DEF IdpsFit
<1>6. CASE FinishCallback(h)
  <2>1. /\ UNCHANGED <<provider, identity>> /\ flow' = [flow EXCEPT ![job[h].state] = NoFlow]
    BY <1>6 DEF FinishCallback
  <2>2. NoFlow \in [live : BOOLEAN, user : made' \cup {Nobody}]
    BY DEF NoFlow
  <2>3. flow' \in [States -> [live : BOOLEAN, user : made' \cup {Nobody}]]
    BY <1>1, <2>1, <2>2
  <2> QED BY <1>0, <2>1, <2>3 DEF IdpsFit
<1>7. CASE DeleteIdentity(h)
  <2>1. provider' = Registered(job[h].idp) /\ job[h].idp \in Providers /\ UNCHANGED flow
    BY <1>0, <1>7 DEF DeleteIdentity, At, JobFits
  <2>2. /\ identity' \in [Users \X Providers \X Uids -> Nat]
        /\ \A v \in Users, q \in Providers, y \in Uids : identity'[<<v, q, y>>] \in {0, identity[<<v, q, y>>]}
    BY <1>0, <1>7, Unlinked
  <2>3. \A v \in Users, q \in Providers, y \in Uids : v \notin made' => identity'[<<v, q, y>>] = 0
    BY <1>0, <2>2
  <2>4. provider' \in [Providers -> {"none", "bare", "off", "on"}]
    BY <1>0, <2>1, RegisteredFits
  <2>5. flow' \in [States -> [live : BOOLEAN, user : made' \cup {Nobody}]]
    BY <1>1, <2>1
  <2> QED BY <2>2, <2>3, <2>4, <2>5 DEF IdpsFit
<1> QED BY <1>2, <1>3, <1>4, <1>5, <1>6, <1>7, IdpSteps DEF InsertAccount, idps

(* What happens without a request of the model's: links expire, flows begin,  *)
(* an administrator configures providers.                                   *)
Outside ==
  \/ \E l \in Links : Expire(l)
  \/ \E u \in made \cup {Nobody}, p \in Providers, s \in States : GenerateAuthUrl(u, p, s)
  \/ \E p \in Providers : UpsertIdp(p) \/ ToggleIdp(p) \/ DeleteIdp(p) \/ CleanupOrphan(p)

LEMMA OutsideKeeps ==
  ASSUME BaseInv, Outside
  PROVE  /\ UNCHANGED <<accounts, settings, factors, identity, job, asked, proved, excused, unasked>>
         /\ LinksFit'
         /\ provider' \in [Providers -> {"none", "bare", "off", "on"}]
         /\ flow' \in [States -> [live : BOOLEAN, user : made \cup {Nobody}]]
<1>0. /\ LinksFit /\ provider \in [Providers -> {"none", "bare", "off", "on"}]
      /\ flow \in [States -> [live : BOOLEAN, user : made \cup {Nobody}]]
  BY DEF BaseInv, IdpsFit
<1>1. ASSUME NEW l \in Links, Expire(l)
      PROVE  /\ UNCHANGED <<accounts, settings, factors, idps, job, past>>
             /\ LinksFit'
  BY <1>0, <1>1 DEF Expire, LinksFit, accounts
<1>2. ASSUME NEW u \in made \cup {Nobody}, NEW p \in Providers, NEW s \in States,
             GenerateAuthUrl(u, p, s)
      PROVE  /\ UNCHANGED <<accounts, settings, link, factors, identity, job, asked, proved, excused, unasked>>
             /\ provider' \in [Providers -> {"none", "bare", "off", "on"}]
             /\ flow' \in [States -> [live : BOOLEAN, user : made \cup {Nobody}]]
  BY <1>0, <1>2, RegisteredFits DEF GenerateAuthUrl
<1>3. ASSUME NEW p \in Providers, UpsertIdp(p) \/ ToggleIdp(p) \/ DeleteIdp(p) \/ CleanupOrphan(p)
      PROVE  /\ UNCHANGED <<accounts, settings, link, factors, identity, flow, job, asked, proved, excused, unasked>>
             /\ provider' \in [Providers -> {"none", "bare", "off", "on"}]
  <2>1. \E to \in {"on", "off", "none"} : Configure(p, to)
    BY <1>3 DEF UpsertIdp, ToggleIdp, DeleteIdp, CleanupOrphan
  <2> QED BY <1>0, <2>1 DEF Configure
<1>4. UNCHANGED <<link, accounts>> => LinksFit'
  BY <1>0 DEF LinksFit, accounts
<1>5. CASE \E l \in Links : Expire(l)
  BY <1>0, <1>1, <1>5 DEF idps, past
<1>6. CASE \E u \in made \cup {Nobody}, p \in Providers, s \in States : GenerateAuthUrl(u, p, s)
  BY <1>2, <1>4, <1>6
<1>7. CASE \E p \in Providers : UpsertIdp(p) \/ ToggleIdp(p) \/ DeleteIdp(p) \/ CleanupOrphan(p)
  BY <1>0, <1>3, <1>4, <1>7
<1> QED BY <1>5, <1>6, <1>7 DEF Outside

LEMMA NextIs ==
  Next <=> (\/ \E h \in Handlers : Submit(h)
            \/ \E h \in Handlers : Steps(h)
            \/ Outside)
BY DEF Next, Outside

LEMMA BaseStep == BaseInv /\ [Next]_vars => BaseInv'
<1> SUFFICES ASSUME BaseInv, [Next]_vars PROVE BaseInv'
  OBVIOUS
<1>1. ASSUME NEW h \in Handlers, Submit(h) PROVE BaseInv'
  <2>1. JobsTyped' /\ JobsFit' /\ UNCHANGED <<accounts, settings, link, factors, idps>>
    BY <1>1, SubmitFits
  <2>2. AccountsFit' /\ LinksFit' /\ FactorsFit'
    BY <2>1 DEF BaseInv, AccountsFit, LinksFit, FactorsFit, MadeInOrder, accounts, factors
  <2>3. IdpsFit'
    BY <2>1 DEF BaseInv, IdpsFit, accounts, idps
  <2> QED BY <2>1, <2>2, <2>3 DEF BaseInv, settings
<1>2. ASSUME NEW h \in Handlers, Steps(h) PROVE BaseInv'
  <2>1. JobsTyped' /\ JobsFit'
    BY <1>2, StepsGood DEF JobsGood
  <2>2. AccountsFit' /\ LinksFit' /\ FactorsFit' /\ IdpsFit'
    BY <1>2, AccountsStep, LinksStep, FactorsStep, IdpsStep
  <2>3. registration' \in BOOLEAN /\ required' \in BOOLEAN /\ external2fa' \in BOOLEAN
    BY <1>2, SettingSteps DEF BaseInv
  <2> QED BY <2>1, <2>2, <2>3 DEF BaseInv
<1>3. CASE Outside
  <2>1. /\ UNCHANGED <<accounts, settings, factors, identity, job>>
        /\ LinksFit'
        /\ provider' \in [Providers -> {"none", "bare", "off", "on"}]
        /\ flow' \in [States -> [live : BOOLEAN, user : made \cup {Nobody}]]
    BY <1>3, OutsideKeeps
  <2>2. JobsTyped' /\ JobsFit' /\ AccountsFit' /\ FactorsFit' /\ IdpsFit'
    <3>1. JobsTyped' /\ JobsFit' /\ AccountsFit' /\ FactorsFit'
      BY <2>1 DEF BaseInv, JobsTyped, JobsFit, AccountsFit, FactorsFit, MadeInOrder, accounts, factors
    <3>2. IdpsFit'
      BY <2>1 DEF BaseInv, IdpsFit, accounts
    <3> QED BY <3>1, <3>2
  <2> QED BY <2>1, <2>2 DEF BaseInv, settings
<1>4. CASE UNCHANGED vars
  <2>1. UNCHANGED <<accounts, settings, link, factors, idps, job>>
    BY <1>4 DEF vars
  <2>2. JobsTyped' /\ JobsFit' /\ AccountsFit' /\ FactorsFit' /\ LinksFit'
    BY <2>1 DEF BaseInv, JobsTyped, JobsFit, AccountsFit, FactorsFit, LinksFit, MadeInOrder, accounts, factors
  <2>3. IdpsFit'
    BY <2>1 DEF BaseInv, IdpsFit, accounts, idps
  <2> QED BY <2>1, <2>2, <2>3 DEF BaseInv, settings
<1> QED BY <1>1, <1>2, <1>3, <1>4, NextIs

(* The values are right: TypeOK of the runs.                                *)
LEMMA TypesFollow == BaseInv => TypeOK
<1> SUFFICES ASSUME BaseInv PROVE TypeOK
  OBVIOUS
<1>1. made \subseteq Users
  BY MadeAreUsers DEF BaseInv, AccountsFit
<1> QED BY <1>1 DEF BaseInv, AccountsFit, LinksFit, FactorsFit, IdpsFit, TypeOK

(* Accounts, links, factors and providers are in order, and each request in  *)
(* flight knows of them what its step relies on: what the three theorems     *)
(* below stand on.                                                          *)
THEOREM BaseHolds == Spec => []BaseInv
BY BaseInit, BaseStep, PTL DEF Spec

-----------------------------------------------------------------------------
(* Nobody is locked out.                                                    *)
LEMMA Submitted ==
  ASSUME NEW h \in Handlers, Submit(h)
  PROVE  job[h].pc = "idle" /\ \E j : Send(h, j)
<1>1. job[h].pc = "idle"
  BY DEF Submit, Busy
<1>2. \/ Register(h)
      \/ \E u \in local : Resend(h, u) \/ Login(h, u)
      \/ \E l \in Links : OpenLink(h, l)
      \/ \E on \in BOOLEAN : SetPolicy(h, on)
      \/ \E u \in made : AskSetup(h, u) \/ AskDisable(h, u)
      \/ \E u \in made, s \in 1..issued : VerifyFactor(h, u, s) \/ AskConfirm(h, u, s)
      \/ \E s \in States, p \in Providers, x \in Uids, u \in made \cup {Nobody} :
           Callback(h, s, p, x, u)
      \/ \E u \in made, p \in Providers : AskUnlink(h, u, p)
  BY DEF Submit
<1>3. Register(h) => \E j : Send(h, j)
  BY DEF Register
<1>4. \A u : Resend(h, u) => \E j : Send(h, j)
  BY DEF Resend
<1>5. \A u : Login(h, u) => \E j : Send(h, j)
  BY DEF Login
<1>6. \A l : OpenLink(h, l) => \E j : Send(h, j)
  BY DEF OpenLink
<1>7. \A on : SetPolicy(h, on) => \E j : Send(h, j)
  BY DEF SetPolicy
<1>8. \A u : AskSetup(h, u) \/ AskDisable(h, u) => \E j : Send(h, j)
  BY DEF AskSetup, AskDisable
<1>9. \A u, s : VerifyFactor(h, u, s) \/ AskConfirm(h, u, s) => \E j : Send(h, j)
  BY DEF VerifyFactor, AskConfirm
<1>10. \A s, p, x, u : Callback(h, s, p, x, u) => \E j : Send(h, j)
  BY DEF Callback
<1>11. \A u, p : AskUnlink(h, u, p) => \E j : Send(h, j)
  BY DEF AskUnlink
<1> HIDE DEF Send
<1> QED BY <1>1, <1>2, <1>3, <1>4, <1>5, <1>6, <1>7, <1>8, <1>9, <1>10, <1>11

LEMMA SubmitKeeps ==
  ASSUME BaseInv, NEW h \in Handlers, Submit(h)
  PROVE  /\ job[h].pc = "idle" /\ Others(h) /\ excused \subseteq excused'
         /\ UNCHANGED <<accounts, settings, link, factors, idps, asked, proved, unasked>>
<1>1. PICK j : Send(h, j)
  BY Submitted
<1>2. job' = [job EXCEPT ![h] = j] /\ excused \subseteq excused'
  BY <1>1 DEF Send
<1>3. Others(h)
  BY <1>2 DEF BaseInv, JobsTyped, Others
<1>4. UNCHANGED <<accounts, settings, link, factors, idps, asked, proved, unasked>>
  BY <1>1 DEF Send
<1> QED BY <1>2, <1>3, <1>4, Submitted

(* Who has a password and was asked to confirm changes when an account is     *)
(* registered; what is confirmed stays so, what is excused too.              *)
LEMMA LocalSteps ==
  ASSUME NEW h, Steps(h)
  PROVE  /\ verified \subseteq verified'
         /\ InsertAccount(h) \/ UNCHANGED <<local, admin, asked>>
         /\ At(h, "register", "mark") => MarkVerified(h) \/ Fail(h)
         /\ excused \subseteq excused'
<1> DEFINE Keeps == /\ UNCHANGED <<local, admin, asked>> /\ verified \subseteq verified'
                    /\ excused \subseteq excused' /\ ~At(h, "register", "mark")
<1>1. \/ EnsureAllowed(h) \/ ReadPolicy(h) \/ CountUsers(h) \/ FindUnverified(h)
      \/ InvalidateLinks(h) \/ StoreLink(h) \/ FindLink(h) \/ UseLink(h)
      \/ ConfirmAddress(h) \/ PreparePolicy(h) \/ StorePolicy(h)
      => Keeps
  BY DEF EnsureAllowed, ReadPolicy, CountUsers, FindUnverified, InvalidateLinks, StoreLink,
         FindLink, UseLink, ConfirmAddress, PreparePolicy, StorePolicy, accounts, past, At
<1>2. \/ LoginAccount(h) \/ LoginPolicy(h) \/ LoginFactor(h) \/ OpenSession(h) \/ CheckCode(h)
      \/ SavePendingSecret(h) \/ ConfirmCode(h) \/ ReadSecret(h) \/ Enable(h) \/ Disable(h)
      => Keeps
  BY DEF LoginAccount, LoginPolicy, LoginFactor, AskFactor, OpenSession, CheckCode, accounts, past,
         SavePendingSecret, ConfirmCode, ReadSecret, Enable, Disable, At
<1>3. \/ FindProvider(h) \/ ExchangeCode(h) \/ ValidateAssertion(h) \/ FindIdentity(h)
      \/ LinkIdentity(h) \/ CreateUserWithIdentity(h) \/ FinishCallback(h) \/ CallbackFactor(h)
      \/ CountIdentities(h) \/ DeleteIdentity(h)
      => Keeps
  BY DEF FindProvider, ExchangeCode, ValidateAssertion, FindIdentity, LinkIdentity,
         CreateUserWithIdentity, FinishCallback, CallbackFactor, AskFactor, CountIdentities,
         DeleteIdentity, accounts, past, At
<1>4. InsertAccount(h) => /\ verified' = verified /\ excused' = excused
                          /\ ~At(h, "register", "mark")
  BY DEF InsertAccount, At
<1>5. MarkVerified(h) => /\ UNCHANGED <<local, admin, asked>> /\ verified \subseteq verified'
                         /\ excused \subseteq excused'
  BY DEF MarkVerified, past
<1>6. Fail(h) => /\ UNCHANGED <<local, admin, asked>> /\ verified' = verified
                 /\ excused \subseteq excused'
  BY DEF Fail, accounts
<1> QED BY <1>1, <1>2, <1>3, <1>4, <1>5, <1>6 DEF Steps

Confirmed ==
  /\ \A u \in local \ asked : u \in verified \/ Registering(u) \/ <<"failed", u>> \in excused
  /\ 1 \in local => 1 \in admin

LEMMA ConfirmedInit == Init => Confirmed
BY DEF Init, Confirmed

(* The request that registers an account is another one, and goes on.        *)
LEMMA OtherRegisters ==
  ASSUME NEW h \in Handlers, NEW u, Registering(u), ~At(h, "register", "mark"),
         \A p \in Handlers \ {h} : Alike(job[p], job'[p])
  PROVE  Registering(u)'
<1>1. PICK p \in Handlers : At(p, "register", "mark") /\ job[p].actor = u
  BY DEF Registering
<1>2. p # h
  BY <1>1
<1>3. job'[p].kind = "register" /\ job'[p].pc = "mark" /\ job'[p].actor = u
  BY <1>1, <1>2 DEF Alike, At
<1> QED BY <1>3 DEF Registering, At

LEMMA ConfirmedStep == BaseInv /\ Confirmed /\ [Next]_vars => Confirmed'
<1> SUFFICES ASSUME BaseInv, Confirmed, [Next]_vars PROVE Confirmed'
  OBVIOUS
<1>1. ASSUME NEW h \in Handlers, Submit(h) PROVE Confirmed'
  <2>1. /\ job[h].pc = "idle" /\ Others(h) /\ excused \subseteq excused'
        /\ UNCHANGED <<local, verified, admin, asked>>
    BY <1>1, SubmitKeeps DEF accounts
  <2>2. \A u : Registering(u) => Registering(u)'
    BY <2>1, OthersAlike, OtherRegisters DEF At
  <2> QED BY <2>1, <2>2 DEF Confirmed
<1>2. ASSUME NEW h \in Handlers, Steps(h) PROVE Confirmed'
  <2>0. /\ verified \subseteq verified' /\ excused \subseteq excused'
        /\ InsertAccount(h) \/ UNCHANGED <<local, admin, asked>>
        /\ At(h, "register", "mark") => MarkVerified(h) \/ Fail(h)
    BY <1>2, LocalSteps
  <2>1. \A p \in Handlers \ {h} : Alike(job[p], job'[p])
    BY <1>2, StepsGood DEF JobsGood, Shape
  <2>2. CASE At(h, "register", "mark")
    <3>1. UNCHANGED <<local, admin, asked>>
      BY <2>0, <2>2 DEF InsertAccount, At
    <3>2. job[h].actor \in verified' \/ <<"failed", job[h].actor>> \in excused'
      BY <2>0, <2>2 DEF MarkVerified, Fail
    <3>3. ASSUME NEW u, Registering(u), u # job[h].actor PROVE Registering(u)'
      <4>1. PICK p \in Handlers : At(p, "register", "mark") /\ job[p].actor = u
        BY <3>3 DEF Registering
      <4>2. job'[p].kind = "register" /\ job'[p].pc = "mark" /\ job'[p].actor = u
        BY <2>1, <3>3, <4>1 DEF Alike, At
      <4> QED BY <4>2 DEF Registering, At
    <3> QED BY <2>0, <3>1, <3>2, <3>3 DEF Confirmed
  <2>3. CASE ~At(h, "register", "mark")
    <3>1. \A u : Registering(u) => Registering(u)'
      BY <2>1, <2>3, OtherRegisters
    <3>2. CASE UNCHANGED <<local, admin, asked>>
      BY <2>0, <3>1, <3>2 DEF Confirmed
    <3>3. CASE InsertAccount(h)
      <4>1. PICK u \in Users :
              /\ NewUser(u) /\ made' = made \cup {u} /\ local' = local \cup {u}
              /\ asked' = IF job[h].flag THEN asked \cup {u} ELSE asked
              /\ Carries(h) /\ job'[h].actor = u
              /\ job'[h].pc = (IF job[h].flag THEN "invalidate" ELSE "mark")
        BY <3>3, InsertJob
      <4>2. job[h].flag => u \in asked'
        BY <4>1
      <4>3. ~job[h].flag => Registering(u)'
        <5>1. job'[h].kind = "register"
          BY <3>3, <4>1 DEF InsertAccount, At, Carries
        <5> QED BY <4>1, <5>1 DEF Registering, At
      <4>4. asked \subseteq asked'
        BY <4>1
      <4>5. 1 \in local' => 1 \in admin'
        <5>1. CASE 1 \in local
          BY <3>3, <5>1 DEF Confirmed, InsertAccount
        <5>2. CASE 1 \notin local
          <6>1. SUFFICES ASSUME u = 1 PROVE 1 \in admin'
            BY <4>1, <5>2
          <6>2. made = {}
            BY <4>1, <6>1, NextUser DEF BaseInv, AccountsFit
          <6>3. ~At(h, "register", "insert")
            BY <6>2 DEF BaseInv, JobsFit, JobFits, At
          <6>4. PICK v \in Users : NewUser(v) /\ admin' = admin \cup {v}
            BY <3>3, <6>3 DEF InsertAccount
          <6> QED BY <4>1, <6>1, <6>4 DEF NewUser
        <5> QED BY <5>1, <5>2
      <4> QED BY <2>0, <3>1, <4>1, <4>2, <4>3, <4>4, <4>5 DEF Confirmed
    <3> QED BY <2>0, <3>2, <3>3
  <2> QED BY <2>2, <2>3
<1>3. CASE Outside \/ UNCHANGED vars
  <2>1. UNCHANGED <<local, verified, admin, asked, excused, job>>
    BY <1>3, OutsideKeeps DEF vars, accounts, past
  <2> QED BY <2>1 DEF Confirmed, Registering, At
<1> QED BY <1>1, <1>2, <1>3, NextIs

(* Whoever was not asked to confirm an address can sign in whatever becomes   *)
(* of the policy, and the first account with a password administrates:       *)
(* registerUser, prepareRequiredPolicy and createLocalAccount, for every      *)
(* number of accounts and of requests in flight.                            *)
THEOREM NobodyIsLockedOut == Spec => []NobodyLockedOut
<1> DEFINE Inv == BaseInv /\ Confirmed
<1>1. Init => Inv
  BY BaseInit, ConfirmedInit
<1>2. Inv /\ [Next]_vars => Inv'
  BY BaseStep, ConfirmedStep
<1>3. Inv => NobodyLockedOut
  BY TypesFollow DEF Confirmed, NobodyLockedOut
<1> QED BY <1>1, <1>2, <1>3, PTL DEF Spec

-----------------------------------------------------------------------------
(* What a request checks and then writes, no other request touches meanwhile,  *)
(* or it is excused.                                                        *)
Alone == \A h, p \in Handlers :
  h # p /\ Busy(h) /\ Busy(p) => Touches(job[h]) \cap Touches(job[p]) \subseteq excused

LEMMA SameTouch ==
  ASSUME NEW j, NEW q, Alike(j, q) \/ Onward(j, q)
  PROVE  Touches(q) = Touches(j)
BY DEF Alike, Onward, Touches

LEMMA AloneInit == Init => Alone
BY DEF Init, Alone, Busy, NoJob

LEMMA AloneStep == BaseInv /\ Alone /\ [Next]_vars => Alone'
<1> SUFFICES ASSUME BaseInv, Alone, [Next]_vars PROVE Alone'
  OBVIOUS
<1>1. ASSUME NEW h \in Handlers, Submit(h) PROVE Alone'
  <2>1. PICK j : Send(h, j)
    BY <1>1, Submitted
  <2>2. /\ job'[h] = j /\ excused \subseteq excused'
        /\ excused' = excused \cup UNION {Touches(j) \cap Touches(job[q]) : q \in {p \in Handlers \ {h} : Busy(p)}}
    BY <2>1 DEF Send, BaseInv, JobsTyped
  <2>3. Others(h)
    BY <1>1, SubmitKeeps
  <2>4. ASSUME NEW p \in Handlers \ {h}, Busy(p)
        PROVE  Touches(job'[h]) \cap Touches(job'[p]) \subseteq excused'
    <3>1. job'[p] = job[p]
      BY <2>3 DEF Others
    <3>2. Touches(j) \cap Touches(job[p]) \subseteq excused'
      BY <2>2, <2>4
    <3> QED BY <2>2, <3>1, <3>2
  <2>5. ASSUME NEW g \in Handlers, NEW p \in Handlers, g # p, Busy(g)', Busy(p)'
        PROVE  Touches(job'[g]) \cap Touches(job'[p]) \subseteq excused'
    <3>1. CASE g = h
      BY <2>3, <2>4, <2>5, <3>1 DEF Others, Busy
    <3>2. CASE p = h
      BY <2>3, <2>4, <2>5, <3>2 DEF Others, Busy
    <3>3. CASE g # h /\ p # h
      <4>1. job'[g] = job[g] /\ job'[p] = job[p]
        BY <2>3, <3>3 DEF Others
      <4>2. Touches(job[g]) \cap Touches(job[p]) \subseteq excused
        BY <2>5, <4>1 DEF Alone, Busy
      <4> QED BY <2>2, <4>1, <4>2
    <3> QED BY <3>1, <3>2, <3>3
  <2> QED BY <2>5 DEF Alone
<1>2. ASSUME NEW h \in Handlers, Steps(h) PROVE Alone'
  <2>0. excused \subseteq excused'
    BY <1>2, LocalSteps
  <2>1. Shape(h)
    BY <1>2, StepsGood DEF JobsGood
  <2>2. ASSUME NEW p \in Handlers, Busy(p)'
        PROVE  Busy(p) /\ Touches(job'[p]) = Touches(job[p])
    <3>1. CASE p = h
      <4>1. Onward(job[h], job'[h])
        BY <2>1, <2>2, <3>1 DEF Shape, Busy, NoJob
      <4> QED BY <3>1, <4>1, SameTouch DEF Onward, Busy
    <3>2. CASE p # h
      <4>1. Alike(job[p], job'[p])
        BY <2>1, <3>2 DEF Shape
      <4> QED BY <2>2, <4>1, SameTouch DEF Alike, Busy
    <3> QED BY <3>1, <3>2
  <2>3. ASSUME NEW g \in Handlers, NEW p \in Handlers, g # p, Busy(g)', Busy(p)'
        PROVE  Touches(job'[g]) \cap Touches(job'[p]) \subseteq excused'
    <3>1. Touches(job[g]) \cap Touches(job[p]) \subseteq excused
      BY <2>2, <2>3 DEF Alone
    <3> QED BY <2>0, <2>2, <2>3, <3>1
  <2> QED BY <2>3 DEF Alone
<1>3. CASE Outside \/ UNCHANGED vars
  <2>1. UNCHANGED <<job, excused>>
    BY <1>3, OutsideKeeps DEF vars, past
  <2> QED BY <2>1 DEF Alone, Busy
<1> QED BY <1>1, <1>2, <1>3, NextIs

-----------------------------------------------------------------------------
(* The second factor.  A request marked as guarded is a login before its       *)
(* session opens or a callback that is about to ask for the code, and the    *)
(* factor of its account is on.                                             *)
Guarding(j, held) ==
  j.guarded =>
    /\ j.actor \in Users /\ held[j.actor].on
    /\ \/ j.kind = "login" /\ j.pc # "open"
       \/ j.kind = "callback" /\ j.pc \in {"finish", "factor"}

(* A confirmation has seen a code of the secret it is about to turn on.      *)
Shown(j, held, seen, out) ==
  j.kind = "confirm" /\ <<"factor", j.actor>> \notin out =>
    /\ j.pc = "read" => <<j.actor, held[j.actor].secret>> \in seen
    /\ j.pc = "enable" => <<j.actor, j.secret>> \in seen

OnProved == \A u \in Users :
  security[u].on /\ <<"factor", u>> \notin excused => <<u, security[u].secret>> \in proved

FactorInv ==
  /\ unasked = {}
  /\ \A h \in Handlers : Guarding(job[h], security) /\ Shown(job[h], security, proved, excused)
  /\ OnProved

LEMMA FactorInit == Init => FactorInv
BY DEF Init, FactorInv, Guarding, Shown, OnProved, NoJob, NoFactor

LEMMA NoJobGuards ==
  /\ NoJob.pc = "idle" /\ ~NoJob.guarded
  /\ \A held, seen, out : Guarding(NoJob, held) /\ Shown(NoJob, held, seen, out)
BY DEF Guarding, Shown, NoJob

(* A request that begins is guarded only if it should be, and has checked    *)
(* nothing yet.                                                             *)
Midway == {"read", "enable", "link", "create", "delete"}

LEMMA SubmitFresh ==
  ASSUME BaseInv, NEW h \in Handlers, Submit(h)
  PROVE  Guarding(job'[h], security) /\ job'[h].pc \notin Midway
<1> DEFINE Good == Guarding(job'[h], security) /\ job'[h].pc \notin Midway
           Fresh(j) == Guarding(j, security) /\ j.pc \notin Midway
<1>0. /\ security \in [Users -> [secret : Secrets, on : BOOLEAN]] /\ local \subseteq Users
  BY MadeAreUsers DEF BaseInv, FactorsFit, AccountsFit
<1>1. ASSUME NEW j, Send(h, j), Fresh(j) PROVE Good
  <2>1. job'[h] = j
    BY <1>1 DEF Send, BaseInv, JobsTyped
  <2> QED BY <1>1, <2>1
<1>2. CASE Register(h)
  <2> DEFINE j == [NoJob EXCEPT !.kind = "register", !.pc = "allowed"]
  <2>1. Fresh(j) /\ Send(h, j)
    BY <1>2 DEF Register, Guarding, NoJob, Midway
  <2> HIDE DEF j, Fresh
  <2> QED BY <1>1, <2>1
<1>3. ASSUME NEW u \in local, Resend(h, u) PROVE Good
  <2> DEFINE j == [NoJob EXCEPT !.kind = "resend", !.pc = "account", !.actor = u]
  <2>1. Fresh(j) /\ Send(h, j)
    BY <1>3 DEF Resend, Guarding, NoJob, Midway
  <2> HIDE DEF j, Fresh
  <2> QED BY <1>1, <2>1
<1>4. ASSUME NEW u \in local, Login(h, u) PROVE Good
  <2> DEFINE g == Guarded(u)
             j == [NoJob EXCEPT !.kind = "login", !.pc = "account", !.actor = u, !.guarded = g]
  <2>0. g => security[u].on
    BY DEF Guarded
  <2>1. Send(h, j)
    BY <1>4 DEF Login
  <2> HIDE DEF g
  <2>2. j.guarded = g /\ j.actor = u /\ j.kind = "login" /\ j.pc = "account"
    BY DEF NoJob
  <2> HIDE DEF j
  <2>3. Fresh(j)
    BY <1>0, <2>0, <2>2 DEF Guarding, Midway
  <2> HIDE DEF Fresh
  <2> QED BY <1>1, <2>1, <2>3
<1>5. ASSUME NEW l \in Links, OpenLink(h, l) PROVE Good
  <2> DEFINE j == [NoJob EXCEPT !.kind = "verify", !.pc = "find", !.link = l]
  <2>1. Fresh(j) /\ Send(h, j)
    BY <1>5 DEF OpenLink, Guarding, NoJob, Midway
  <2> HIDE DEF j, Fresh
  <2> QED BY <1>1, <2>1
<1>6. ASSUME NEW on \in BOOLEAN, SetPolicy(h, on) PROVE Good
  <2> DEFINE j == [NoJob EXCEPT !.kind = "policy", !.pc = IF on THEN "prepare" ELSE "set", !.flag = on]
  <2>1. Fresh(j) /\ Send(h, j)
    BY <1>6 DEF SetPolicy, Guarding, NoJob, Midway
  <2> HIDE DEF j, Fresh
  <2> QED BY <1>1, <2>1
<1>7. ASSUME NEW u \in made, AskSetup(h, u) PROVE Good
  <2> DEFINE j == [NoJob EXCEPT !.kind = "setup", !.pc = "save", !.actor = u]
  <2>1. Fresh(j) /\ Send(h, j)
    BY <1>7 DEF AskSetup, Guarding, NoJob, Midway
  <2> HIDE DEF j, Fresh
  <2> QED BY <1>1, <2>1
<1>8. ASSUME NEW u \in made, AskDisable(h, u) PROVE Good
  <2> DEFINE j == [NoJob EXCEPT !.kind = "disable", !.pc = "save", !.actor = u]
  <2>1. Fresh(j) /\ Send(h, j)
    BY <1>8 DEF AskDisable, Guarding, NoJob, Midway
  <2> HIDE DEF j, Fresh
  <2> QED BY <1>1, <2>1
<1>9. ASSUME NEW u \in made, NEW s \in 1..issued, VerifyFactor(h, u, s) PROVE Good
  <2> DEFINE j == [NoJob EXCEPT !.kind = "code", !.pc = "verify", !.actor = u, !.secret = s]
  <2>1. Fresh(j) /\ Send(h, j)
    BY <1>9 DEF VerifyFactor, Guarding, NoJob, Midway
  <2> HIDE DEF j, Fresh
  <2> QED BY <1>1, <2>1
<1>10. ASSUME NEW u \in made, NEW s \in 1..issued, AskConfirm(h, u, s) PROVE Good
  <2> DEFINE j == [NoJob EXCEPT !.kind = "confirm", !.pc = "verify", !.actor = u, !.secret = s]
  <2>1. Fresh(j) /\ Send(h, j)
    BY <1>10 DEF AskConfirm, Guarding, NoJob, Midway
  <2> HIDE DEF j, Fresh
  <2> QED BY <1>1, <2>1
<1>11. ASSUME NEW s \in States, NEW p \in Providers, NEW x \in Uids, NEW here \in made \cup {Nobody},
              Callback(h, s, p, x, here)
       PROVE  Good
  <2> DEFINE u == IF flow[s].user # Nobody THEN flow[s].user ELSE here
             j == [NoJob EXCEPT !.kind = "callback", !.pc = "provider", !.state = s, !.idp = p,
                                !.uid = x, !.actor = u, !.flag = u # Nobody]
  <2>1. Fresh(j) /\ Send(h, j)
    BY <1>11 DEF Callback, Guarding, NoJob, Midway
  <2> HIDE DEF j, Fresh
  <2> QED BY <1>1, <2>1
<1>12. ASSUME NEW u \in made, NEW p \in Providers, AskUnlink(h, u, p) PROVE Good
  <2> DEFINE j == [NoJob EXCEPT !.kind = "unlink", !.pc = "count", !.actor = u, !.idp = p]
  <2>1. Fresh(j) /\ Send(h, j)
    BY <1>12 DEF AskUnlink, Guarding, NoJob, Midway
  <2> HIDE DEF j, Fresh
  <2> QED BY <1>1, <2>1
<1>13. \/ Register(h)
       \/ \E u \in local : Resend(h, u) \/ Login(h, u)
       \/ \E l \in Links : OpenLink(h, l)
       \/ \E on \in BOOLEAN : SetPolicy(h, on)
       \/ \E u \in made : AskSetup(h, u) \/ AskDisable(h, u)
       \/ \E u \in made, s \in 1..issued : VerifyFactor(h, u, s) \/ AskConfirm(h, u, s)
       \/ \E s \in States, p \in Providers, x \in Uids, u \in made \cup {Nobody} :
            Callback(h, s, p, x, u)
       \/ \E u \in made, p \in Providers : AskUnlink(h, u, p)
  BY DEF Submit
<1>14. CASE \E u \in local : Resend(h, u) \/ Login(h, u)
  BY <1>3, <1>4, <1>14
<1>15. CASE \E u \in made : AskSetup(h, u) \/ AskDisable(h, u)
  BY <1>7, <1>8, <1>15
<1>16. CASE \E u \in made, s \in 1..issued : VerifyFactor(h, u, s) \/ AskConfirm(h, u, s)
  BY <1>9, <1>10, <1>16
<1>17. CASE \E s \in States, p \in Providers, x \in Uids, u \in made \cup {Nobody} :
              Callback(h, s, p, x, u)
  BY <1>11, <1>17
<1>18. Good
  BY <1>2, <1>5, <1>6, <1>12, <1>13, <1>14, <1>15, <1>16, <1>17
<1> QED BY <1>18

(* A request that goes on stays guarded as it was, until its session opens.  *)
LEMMA ToGuards ==
  ASSUME JobsTyped, NEW h \in Handlers, NEW pc \in PCs,
         To(h, pc) \/ Done(h), Guarding(job[h], security),
         job[h].guarded /\ To(h, pc) =>
           \/ job[h].kind = "login" /\ pc # "open"
           \/ job[h].kind = "callback" /\ pc \in {"finish", "factor"}
  PROVE  Guarding(job'[h], security) /\ job'[h].pc \in {pc, "idle"}
<1>1. CASE Done(h)
  BY <1>1, IsDone, NoJobGuards
<1>2. CASE To(h, pc)
  <2>1. Stays(h) /\ job'[h].pc = pc
    BY <1>2, IsTo
  <2> QED BY <1>2, <2>1 DEF Stays, Carries, Guarding
<1> QED BY <1>1, <1>2

LEMMA OwnStep ==
  ASSUME BaseInv, NEW h \in Handlers, Steps(h), Guarding(job[h], security)
  PROVE  /\ Guarding(job'[h], security)
         /\ job'[h].pc \in {"read", "enable"} => ConfirmCode(h) \/ ReadSecret(h)
         /\ job'[h].pc \in {"link", "create"} => FindIdentity(h)
         /\ job'[h].pc = "delete" => CountIdentities(h)
<1>0. JobsTyped /\ job[h] \in JobRecords /\ made \subseteq Users
  BY MadeAreUsers DEF BaseInv, JobsTyped, AccountsFit
<1>1. CASE \/ StoreLink(h) \/ UseLink(h) \/ StorePolicy(h) \/ OpenSession(h) \/ MarkVerified(h)
           \/ Enable(h) \/ DeleteIdentity(h) \/ Fail(h) \/ SavePendingSecret(h) \/ Disable(h)
  <2>1. \/ Done(h) \/ job' = [Unguard(job[h].actor) EXCEPT ![h] = NoJob]
    BY <1>1 DEF StoreLink, UseLink, StorePolicy, OpenSession, MarkVerified, Enable,
                DeleteIdentity, Fail, SavePendingSecret, Disable
  <2>2. job'[h] = NoJob
    BY <1>0, <2>1, IsDone, UnguardJob
  <2> QED BY <2>2, NoJobGuards
<1>2. CASE EnsureAllowed(h)
  <2>1. /\ "policy" \in PCs /\ (To(h, "policy") \/ Done(h)) /\ ~job[h].guarded
    BY <1>2 DEF EnsureAllowed, At, Guarding, PCs
  <2> QED BY <1>0, <2>1, ToGuards
<1>3. CASE CountUsers(h)
  <2> DEFINE pc == IF made = {} THEN "first" ELSE "insert"
  <2>1. pc \in PCs /\ pc \in {"first", "insert"} /\ To(h, pc) /\ ~job[h].guarded
    BY <1>3 DEF CountUsers, At, Guarding, PCs, To
  <2> HIDE DEF pc
  <2> QED BY <1>0, <2>1, ToGuards
<1>4. CASE FindUnverified(h)
  <2>1. /\ "invalidate" \in PCs /\ (To(h, "invalidate") \/ Done(h)) /\ ~job[h].guarded
    BY <1>4 DEF FindUnverified, At, Guarding, PCs
  <2> QED BY <1>0, <2>1, ToGuards
<1>5. CASE InvalidateLinks(h)
  <2>1. job[h].kind \in {"register", "resend"}
    BY <1>5 DEF InvalidateLinks, BaseInv, JobsFit, JobFits
  <2>2. /\ "store" \in PCs /\ To(h, "store") /\ ~job[h].guarded
    BY <1>5, <2>1 DEF InvalidateLinks, Guarding, PCs
  <2> QED BY <1>0, <2>2, ToGuards
<1>6. CASE ConfirmAddress(h)
  <2>1. /\ "use" \in PCs /\ To(h, "use") /\ ~job[h].guarded
    BY <1>6 DEF ConfirmAddress, At, Guarding, PCs
  <2> QED BY <1>0, <2>1, ToGuards
<1>7. CASE PreparePolicy(h)
  <2>1. /\ "set" \in PCs /\ To(h, "set") /\ ~job[h].guarded
    BY <1>7 DEF PreparePolicy, At, Guarding, PCs
  <2> QED BY <1>0, <2>1, ToGuards
<1>8. CASE LoginPolicy(h)
  <2>1. /\ "factor" \in PCs /\ (To(h, "factor") \/ Done(h))
        /\ job[h].kind = "login"
    BY <1>8 DEF LoginPolicy, At, PCs
  <2> QED BY <1>0, <2>1, ToGuards
<1>9. CASE LoginFactor(h) \/ CallbackFactor(h)
  <2>1. /\ "open" \in PCs /\ (To(h, "open") \/ Done(h))
        /\ ~Done(h) => ~security[job[h].actor].on
    BY <1>9 DEF LoginFactor, CallbackFactor, AskFactor, PCs
  <2>2. CASE Done(h)
    BY <1>0, <2>2, IsDone, NoJobGuards
  <2>3. CASE ~Done(h)
    <3>1. ~job[h].guarded
      BY <2>1, <2>3 DEF Guarding
    <3> QED BY <1>0, <2>1, <3>1, ToGuards
  <2> QED BY <2>2, <2>3
<1>10. CASE CheckCode(h)
  <2>1. /\ "open" \in PCs /\ (To(h, "open") \/ Done(h)) /\ ~job[h].guarded
    BY <1>10 DEF CheckCode, At, Guarding, PCs
  <2> QED BY <1>0, <2>1, ToGuards
<1>11. CASE FindProvider(h)
  <2>1. /\ "exchange" \in PCs /\ (To(h, "exchange") \/ Done(h)) /\ ~job[h].guarded
    BY <1>11 DEF FindProvider, At, Guarding, PCs
  <2> QED BY <1>0, <2>1, ToGuards
<1>12. CASE ExchangeCode(h) \/ ValidateAssertion(h)
  <2>1. /\ "identity" \in PCs /\ To(h, "identity") /\ ~job[h].guarded
    BY <1>12 DEF ExchangeCode, ValidateAssertion, At, Guarding, PCs
  <2> QED BY <1>0, <2>1, ToGuards
<1>13. CASE CountIdentities(h)
  <2>1. /\ "delete" \in PCs /\ (To(h, "delete") \/ Done(h)) /\ ~job[h].guarded
    BY <1>13 DEF CountIdentities, At, Guarding, PCs
  <2> QED BY <1>0, <1>13, <2>1, ToGuards
<1>14. CASE ReadPolicy(h)
  <2> DEFINE flag == made # {} /\ required
  <2>1. /\ job' = [job EXCEPT ![h].pc = "count", ![h].flag = flag]
        /\ ~job[h].guarded
    BY <1>14 DEF ReadPolicy, At, Guarding
  <2>2. "count" \in PCs /\ flag \in BOOLEAN
    BY DEF PCs, BaseInv
  <2> HIDE DEF flag
  <2>3. job'[h].pc = "count" /\ job'[h].guarded = job[h].guarded
    BY <1>0, <2>1, <2>2, FlagJob
  <2> QED BY <2>1, <2>3 DEF Guarding
<1>15. CASE LoginAccount(h)
  <2> DEFINE flag == job[h].actor \in verified
  <2>1. /\ job' = [job EXCEPT ![h].pc = "policy", ![h].flag = flag]
        /\ job[h].kind = "login"
    BY <1>15 DEF LoginAccount, At
  <2>2. "policy" \in PCs /\ flag \in BOOLEAN
    BY DEF PCs
  <2> HIDE DEF flag
  <2>3. /\ job'[h].pc = "policy" /\ job'[h].guarded = job[h].guarded
        /\ job'[h].actor = job[h].actor /\ Carries(h)
    BY <1>0, <2>1, <2>2, FlagJob
  <2> QED BY <2>1, <2>3 DEF Guarding, Carries
<1>16. CASE InsertAccount(h)
  <2>1. job'[h].pc \in {"invalidate", "mark"} /\ job'[h].guarded = job[h].guarded
    BY <1>16, InsertJob
  <2>2. ~job[h].guarded
    BY <1>16 DEF InsertAccount, At, Guarding
  <2> QED BY <2>1, <2>2 DEF Guarding
<1>17. CASE FindLink(h)
  <2>1. Done(h) \/ (job'[h].pc = "mark" /\ job'[h].guarded = job[h].guarded)
    BY <1>17, FindLinkJob
  <2>2. ~job[h].guarded
    BY <1>17 DEF FindLink, At, Guarding
  <2> QED BY <1>0, <2>1, <2>2, IsDone, NoJobGuards DEF Guarding
<1>18. CASE ConfirmCode(h)
  <2>1. "read" \in PCs /\ (To(h, "read") \/ Done(h)) /\ ~job[h].guarded
    BY <1>18 DEF ConfirmCode, At, Guarding, PCs
  <2>2. ~job'[h].guarded /\ job'[h].pc \in {"read", "idle"}
    BY <1>0, <2>1, IsDone, IsTo DEF Stays, NoJob
  <2> QED BY <1>18, <2>2 DEF Guarding
<1>19. CASE ReadSecret(h)
  <2>1. Done(h) \/ (job'[h].guarded = job[h].guarded /\ job'[h].pc = "enable")
    BY <1>19, ReadSecretJob
  <2>2. ~job[h].guarded
    BY <1>19 DEF ReadSecret, At, Guarding
  <2> QED BY <1>0, <1>19, <2>1, <2>2, IsDone, NoJobGuards DEF Guarding
<1>20. CASE FindIdentity(h)
  <2>1. ~job[h].guarded /\ At(h, "callback", "identity")
    BY <1>20 DEF FindIdentity, At, Guarding
  <2>2. CASE Stays(h) /\ job'[h].pc = IF job[h].actor # Nobody THEN "link" ELSE "create"
    BY <1>20, <2>1, <2>2 DEF Stays, Guarding
  <2>3. CASE Carries(h) /\ job'[h].pc = "finish" /\ job'[h].actor \in made
             /\ job'[h].guarded = security[job'[h].actor].on
    BY <1>0, <2>1, <2>3 DEF Carries, Guarding, At
  <2> QED BY <1>20, <2>2, <2>3, FindIdentityJob
<1>21. CASE LinkIdentity(h)
  <2>1. /\ Carries(h) /\ job'[h].pc = "finish" /\ job'[h].actor \in made
        /\ job'[h].guarded = security[job'[h].actor].on
    BY <1>21, LinkIdentityJob
  <2>2. job[h].kind = "callback"
    BY <1>21 DEF LinkIdentity, At
  <2> QED BY <1>0, <2>1, <2>2 DEF Carries, Guarding
<1>22. CASE CreateUserWithIdentity(h)
  <2>1. job'[h].pc = "finish" /\ job'[h].guarded = job[h].guarded
    BY <1>22, CreateUserJob
  <2>2. ~job[h].guarded
    BY <1>22 DEF CreateUserWithIdentity, At, Guarding
  <2> QED BY <2>1, <2>2 DEF Guarding
<1>23. CASE FinishCallback(h)
  <2>1. /\ Carries(h) /\ job'[h].actor = job[h].actor
        /\ \/ job'[h].pc = "factor" /\ job'[h].guarded = job[h].guarded
           \/ job'[h].pc = "open" /\ job'[h].guarded = FALSE
    BY <1>23, FinishJob
  <2>2. job[h].kind = "callback"
    BY <1>23 DEF FinishCallback, At
  <2> QED BY <2>1, <2>2 DEF Carries, Guarding
<1> QED BY <1>1, <1>2, <1>3, <1>4, <1>5, <1>6, <1>7, <1>8, <1>9, <1>10, <1>11, <1>12, <1>13,
           <1>14, <1>15, <1>16, <1>17, <1>18, <1>19, <1>20, <1>21, <1>22, <1>23 DEF Steps

(* A settings request changes the factor of its account only, at its end; who  *)
(* was guarded is so no more, unless the factor is on.                       *)
LEMMA FactorMoves ==
  ASSUME BaseInv, NEW h \in Handlers, Steps(h), security' # security
  PROVE  /\ job[h].kind \in {"setup", "confirm", "disable"} /\ Busy(h) /\ job'[h] = NoJob
         /\ job[h].actor \in Users
         /\ \A v \in Users \ {job[h].actor} : security'[v] = security[v]
         /\ \/ /\ ~security'[job[h].actor].on
               /\ \A p \in Handlers \ {h} : job[p].actor = job[h].actor => ~job'[p].guarded
            \/ /\ At(h, "confirm", "enable")
               /\ security'[job[h].actor] = [secret |-> job[h].secret, on |-> TRUE]
         /\ proved' = proved
<1>0. /\ JobsTyped /\ security \in [Users -> [secret : Secrets, on : BOOLEAN]]
      /\ JobFits(job[h], made, local) /\ made \subseteq Users
  BY MadeAreUsers DEF BaseInv, FactorsFit, JobsFit, AccountsFit
<1>1. CASE SavePendingSecret(h)
  <2>1. /\ security' = [security EXCEPT ![job[h].actor] = [secret |-> issued + 1, on |-> FALSE]]
        /\ At(h, "setup", "save") /\ job[h].actor \in Users /\ proved' = proved
        /\ job' = [Unguard(job[h].actor) EXCEPT ![h] = NoJob]
    BY <1>0, <1>1 DEF SavePendingSecret, At, JobFits, past
  <2>2. /\ ~security'[job[h].actor].on
        /\ \A v \in Users \ {job[h].actor} : security'[v] = security[v]
    BY <1>0, <2>1
  <2> QED BY <2>1, <2>2, UnguardJob DEF At, Busy
<1>2. CASE Disable(h)
  <2>1. /\ security' = [security EXCEPT ![job[h].actor] = NoFactor]
        /\ At(h, "disable", "save") /\ job[h].actor \in Users /\ proved' = proved
        /\ job' = [Unguard(job[h].actor) EXCEPT ![h] = NoJob]
    BY <1>0, <1>2 DEF Disable, At, JobFits, past
  <2>2. /\ ~security'[job[h].actor].on
        /\ \A v \in Users \ {job[h].actor} : security'[v] = security[v]
    BY <1>0, <2>1 DEF NoFactor
  <2> QED BY <2>1, <2>2, UnguardJob DEF At, Busy
<1>3. CASE Enable(h)
  <2>1. /\ security' = [security EXCEPT ![job[h].actor] = [secret |-> job[h].secret, on |-> TRUE]]
        /\ At(h, "confirm", "enable") /\ job[h].actor \in Users /\ proved' = proved
        /\ Done(h)
    BY <1>0, <1>3 DEF Enable, At, JobFits, past
  <2>2. /\ security'[job[h].actor] = [secret |-> job[h].secret, on |-> TRUE]
        /\ \A v \in Users \ {job[h].actor} : security'[v] = security[v]
    BY <1>0, <2>1
  <2>3. job'[h] = NoJob
    BY <1>0, <2>1, IsDone
  <2> QED BY <2>1, <2>2, <2>3 DEF At, Busy
<1>4. ~ConfirmCode(h)
  BY DEF ConfirmCode, factors
<1> QED BY <1>1, <1>2, <1>3, <1>4, FactorSteps

LEMMA ProvedGrows == ASSUME NEW h, Steps(h) PROVE proved \subseteq proved'
BY FactorSteps DEF SavePendingSecret, ConfirmCode, Enable, Disable, past

LEMMA SessionSteps == ASSUME NEW h, Steps(h) PROVE unasked' = unasked \/ OpenSession(h)
<1>1. \/ EnsureAllowed(h) \/ ReadPolicy(h) \/ CountUsers(h) \/ MarkVerified(h) \/ InsertAccount(h)
      \/ FindUnverified(h) \/ InvalidateLinks(h) \/ StoreLink(h) \/ FindLink(h)
      \/ ConfirmAddress(h) \/ UseLink(h) \/ PreparePolicy(h) \/ StorePolicy(h)
      \/ LoginAccount(h) \/ LoginPolicy(h) \/ LoginFactor(h) \/ CheckCode(h)
      => unasked' = unasked
  BY DEF EnsureAllowed, ReadPolicy, CountUsers, MarkVerified, FindUnverified, InsertAccount,
         InvalidateLinks, StoreLink, FindLink, ConfirmAddress, UseLink, PreparePolicy, StorePolicy,
         LoginAccount, LoginPolicy, LoginFactor, AskFactor, CheckCode, past
<1>2. \/ SavePendingSecret(h) \/ ConfirmCode(h) \/ ReadSecret(h) \/ Enable(h) \/ Disable(h)
      \/ ExchangeCode(h) \/ ValidateAssertion(h) \/ FindIdentity(h) \/ CallbackFactor(h)
      \/ CountIdentities(h) \/ Fail(h) \/ FindProvider(h) \/ LinkIdentity(h)
      \/ CreateUserWithIdentity(h) \/ FinishCallback(h) \/ DeleteIdentity(h)
      => unasked' = unasked
  BY DEF SavePendingSecret, ConfirmCode, ReadSecret, Enable, Disable, ExchangeCode,
         ValidateAssertion, FindIdentity, CallbackFactor, AskFactor, CountIdentities, Fail,
         FindProvider, LinkIdentity, CreateUserWithIdentity, FinishCallback, DeleteIdentity, past
<1> QED BY <1>1, <1>2 DEF Steps

(* The request that steps.                                                  *)
LEMMA ShownOwn ==
  ASSUME BaseInv, NEW h \in Handlers, Steps(h), Guarding(job[h], security),
         Shown(job[h], security, proved, excused)
  PROVE  Shown(job'[h], security', proved', excused')
<1> SUFFICES ASSUME job'[h].pc \in {"read", "enable"}
             PROVE  Shown(job'[h], security', proved', excused')
  BY DEF Shown
<1>0. JobsTyped /\ excused \subseteq excused' /\ proved \subseteq proved'
  BY LocalSteps, ProvedGrows DEF BaseInv
<1>1. CASE ConfirmCode(h)
  <2>1. ~Done(h)
    BY <1>0, IsDone, NoJobGuards
  <2>2. /\ To(h, "read") /\ proved' = proved \cup {<<job[h].actor, job[h].secret>>}
        /\ security[job[h].actor].secret = job[h].secret
        /\ security' = security
    BY <1>1, <2>1 DEF ConfirmCode, factors
  <2>3. Stays(h) /\ job'[h].pc = "read"
    BY <1>0, <2>2, IsTo DEF PCs
  <2>4. <<job[h].actor, security[job[h].actor].secret>> \in proved'
    BY <2>2
  <2> QED BY <2>2, <2>3, <2>4 DEF Shown, Stays
<1>2. CASE ReadSecret(h)
  <2>1. ~Done(h)
    BY <1>0, IsDone, NoJobGuards
  <2>2. /\ Carries(h) /\ job'[h].pc = "enable" /\ job'[h].actor = job[h].actor
        /\ job'[h].secret = security[job[h].actor].secret
    BY <1>2, <2>1, ReadSecretJob
  <2>3. At(h, "confirm", "read")
    BY <1>2 DEF ReadSecret
  <2> QED BY <1>0, <2>2, <2>3 DEF Shown, Carries, At
<1> QED BY <1>1, <1>2, OwnStep

LEMMA FactorStep == BaseInv /\ Alone /\ FactorInv /\ [Next]_vars => FactorInv'
<1> SUFFICES ASSUME BaseInv, Alone, FactorInv, [Next]_vars PROVE FactorInv'
  OBVIOUS
<1>1. ASSUME NEW h \in Handlers, Submit(h) PROVE FactorInv'
  <2>1. /\ Others(h) /\ excused \subseteq excused'
        /\ UNCHANGED <<security, proved, unasked>>
    BY <1>1, SubmitKeeps DEF factors
  <2>2. Guarding(job'[h], security) /\ job'[h].pc \notin {"read", "enable"}
    BY <1>1, SubmitFresh DEF Midway
  <2>3. ASSUME NEW p \in Handlers
        PROVE  Guarding(job'[p], security') /\ Shown(job'[p], security', proved', excused')
    <3>1. CASE p = h
      BY <2>1, <2>2, <3>1 DEF Shown
    <3>2. CASE p # h
      BY <2>1, <3>2 DEF FactorInv, Others, Shown
    <3> QED BY <3>1, <3>2
  <2>4. OnProved'
    BY <2>1 DEF FactorInv, OnProved
  <2> QED BY <2>1, <2>3, <2>4 DEF FactorInv
<1>2. ASSUME NEW h \in Handlers, Steps(h) PROVE FactorInv'
  <2>0. /\ excused \subseteq excused' /\ proved \subseteq proved'
        /\ \A p \in Handlers \ {h} : Alike(job[p], job'[p])
        /\ JobFits(job[h], made, local) /\ made \subseteq Users
        /\ Guarding(job[h], security) /\ Shown(job[h], security, proved, excused)
    BY <1>2, LocalSteps, ProvedGrows, StepsGood, MadeAreUsers
       DEF JobsGood, Shape, BaseInv, JobsFit, AccountsFit, FactorInv
  <2>1. unasked' = {}
    <3>1. CASE OpenSession(h)
      <4>1. ~job[h].guarded
        BY <2>0, <3>1 DEF OpenSession, Guarding
      <4> QED BY <3>1, <4>1 DEF OpenSession, SessionOpened, FactorInv
    <3> QED BY <1>2, <3>1, SessionSteps DEF FactorInv
  <2>2. Shown(job'[h], security', proved', excused')
    BY <1>2, <2>0, ShownOwn
  <2>3. CASE security' = security
    <3>1. Guarding(job'[h], security')
      BY <1>2, <2>0, <2>3, OwnStep
    <3>2. ASSUME NEW p \in Handlers \ {h}
          PROVE  Guarding(job'[p], security') /\ Shown(job'[p], security', proved', excused')
      <4>1. /\ Guarding(job[p], security) /\ Shown(job[p], security, proved, excused)
            /\ Alike(job[p], job'[p])
        BY <2>0 DEF FactorInv
      <4>2. Guarding(job'[p], security')
        BY <2>3, <4>1 DEF Guarding, Alike
      <4>3. Shown(job'[p], security', proved', excused')
        BY <2>0, <2>3, <4>1 DEF Shown, Alike
      <4> QED BY <4>2, <4>3
    <3>3. OnProved'
      BY <2>0, <2>3 DEF OnProved, FactorInv
    <3> QED BY <2>1, <2>2, <3>1, <3>2, <3>3 DEF FactorInv
  <2>4. CASE security' # security
    <3> DEFINE u == job[h].actor
    <3>0. /\ job[h].kind \in {"setup", "confirm", "disable"} /\ Busy(h) /\ job'[h] = NoJob
          /\ u \in Users
          /\ \A v \in Users \ {u} : security'[v] = security[v]
          /\ \/ /\ ~security'[u].on
                /\ \A p \in Handlers \ {h} : job[p].actor = u => ~job'[p].guarded
             \/ /\ At(h, "confirm", "enable")
                /\ security'[u] = [secret |-> job[h].secret, on |-> TRUE]
          /\ proved' = proved
      BY <1>2, <2>4, FactorMoves
    <3>1. Guarding(job'[h], security')
      BY <3>0, NoJobGuards
    <3>2. ASSUME NEW p \in Handlers \ {h} PROVE Guarding(job'[p], security')
      <4>1. Guarding(job[p], security) /\ Alike(job[p], job'[p])
        BY <2>0 DEF FactorInv
      <4>2. CASE job[p].actor = u
        <5>1. ~job'[p].guarded \/ security'[u].on
          BY <3>0, <4>2
        <5> QED BY <4>1, <4>2, <5>1 DEF Guarding, Alike
      <4>3. CASE job[p].actor # u
        BY <3>0, <4>1, <4>3 DEF Guarding, Alike
      <4> QED BY <4>2, <4>3
    <3>3. ASSUME NEW p \in Handlers \ {h} PROVE Shown(job'[p], security', proved', excused')
      <4>1. /\ Shown(job[p], security, proved, excused) /\ Alike(job[p], job'[p])
            /\ JobFits(job[p], made, local)
        BY <2>0 DEF FactorInv, BaseInv, JobsFit
      <4>2. SUFFICES ASSUME job[p].kind = "confirm", <<"factor", job[p].actor>> \notin excused,
                            job[p].pc \in {"read", "enable"}
                     PROVE  Shown(job'[p], security', proved', excused')
        BY <2>0, <4>1 DEF Shown, Alike
      <4>3. job[p].actor # u
        <5>1. SUFFICES ASSUME job[p].actor = u PROVE FALSE
          OBVIOUS
        <5>2. Touches(job[h]) = {<<"factor", u>>} /\ Touches(job[p]) = {<<"factor", u>>}
          BY <3>0, <4>2, <5>1 DEF Touches
        <5>3. Busy(p)
          BY <4>2 DEF Busy
        <5>4. Touches(job[h]) \cap Touches(job[p]) \subseteq excused
          BY <3>0, <5>3 DEF Alone
        <5> QED BY <4>2, <5>1, <5>2, <5>4
      <4>4. job[p].actor \in Users
        BY <2>0, <4>1, <4>2 DEF JobFits
      <4>5. security'[job[p].actor] = security[job[p].actor]
        BY <3>0, <4>3, <4>4
      <4> QED BY <2>0, <4>1, <4>5 DEF Shown, Alike
    <3>4. OnProved'
      <4>1. ASSUME NEW v \in Users, security'[v].on, <<"factor", v>> \notin excused'
            PROVE  <<v, security'[v].secret>> \in proved'
        <5>1. CASE v = u
          <6>1. /\ At(h, "confirm", "enable")
                /\ security'[u] = [secret |-> job[h].secret, on |-> TRUE]
            BY <3>0, <4>1, <5>1
          <6>2. <<u, job[h].secret>> \in proved
            BY <2>0, <4>1, <5>1, <6>1 DEF Shown, At
          <6> QED BY <3>0, <5>1, <6>1, <6>2
        <5>2. CASE v # u
          <6>1. security'[v] = security[v] /\ <<"factor", v>> \notin excused
            BY <2>0, <3>0, <4>1, <5>2
          <6> QED BY <2>0, <4>1, <6>1 DEF FactorInv, OnProved
        <5> QED BY <5>1, <5>2
      <4> QED BY <4>1 DEF OnProved
    <3> QED BY <2>1, <2>2, <3>1, <3>2, <3>3, <3>4 DEF FactorInv
  <2> QED BY <2>3, <2>4
<1>3. CASE Outside \/ UNCHANGED vars
  <2>1. UNCHANGED <<security, proved, excused, unasked, job>>
    BY <1>3, OutsideKeeps DEF vars, factors, past
  <2> QED BY <2>1 DEF FactorInv, OnProved
<1> QED BY <1>1, <1>2, <1>3, NextIs

(* No session is opened without a code while the second factor is on, and the  *)
(* secret that is on is one a code was given for, unless settings requests of *)
(* the account overlapped: login, completeExternalAuthentication,            *)
(* savePendingSecret and confirmSetup, for every number of requests.         *)
THEOREM SecondFactorIsKept == Spec => []SecondFactorKept
<1> DEFINE Inv == BaseInv /\ Alone /\ FactorInv
<1>1. Init => Inv
  BY BaseInit, AloneInit, FactorInit
<1>2. Inv /\ [Next]_vars => Inv'
  BY BaseStep, AloneStep, FactorStep
<1>3. Inv => SecondFactorKept
  <2>1. BaseInv => made \subseteq Users
    BY MadeAreUsers DEF BaseInv, AccountsFit
  <2> QED BY <2>1 DEF FactorInv, OnProved, SecondFactorKept
<1> QED BY <1>1, <1>2, <1>3, PTL DEF Spec

-----------------------------------------------------------------------------
(* The ways in.  Identities belong to providers that exist, an account has    *)
(* one identity of a provider, and an identity belongs to one account.       *)
ProvidersThere == \A u \in Users, p \in Providers, x \in Uids :
  identity[<<u, p, x>>] > 0 => provider[p] # "none"

OneOfEach == \A u \in Users, p \in Providers, x \in Uids :
  identity[<<u, p, x>>] > 0 /\ <<"ways", u>> \notin excused =>
    /\ identity[<<u, p, x>>] = 1
    /\ \A y \in Uids : identity[<<u, p, y>>] > 0 => y = x

OneHolder == \A p \in Providers, x \in Uids :
  <<p, x>> \notin excused => \A u, v \in HeldBy(p, x) : u = v

(* A callback that found nobody is right, and so is an unlink that counted:   *)
(* the account keeps an identity of another provider.                       *)
FoundNobody(h) ==
  job[h].kind = "callback" /\ job[h].pc \in {"link", "create"}
    /\ <<job[h].idp, job[h].uid>> \notin excused => HeldBy(job[h].idp, job[h].uid) = {}

Keeps(u, p) == \E q \in Providers, x \in Uids : q # p /\ identity[<<u, q, x>>] > 0

CountedMore(h) ==
  job[h].kind = "unlink" /\ job[h].pc = "delete" /\ <<"ways", job[h].actor>> \notin excused
    => Keeps(job[h].actor, job[h].idp)

GetsIn(u) == u \in local \/ <<"ways", u>> \in excused \/ \E p \in Providers, x \in Uids : identity[<<u, p, x>>] > 0

WaysInv ==
  /\ ProvidersThere /\ OneOfEach /\ OneHolder
  /\ \A h \in Handlers : FoundNobody(h) /\ CountedMore(h)
  /\ \A u \in made : GetsIn(u)

LEMMA Rows ==
  ASSUME identity \in [Users \X Providers \X Uids -> Nat], NEW u \in Users
  PROVE  \A i : i \in RowsOf(u) <=>
           \E p \in Providers, x \in Uids : i = <<u, p, x>> /\ identity[i] > 0
<1>1. DOMAIN identity = Users \X Providers \X Uids
  OBVIOUS
<1> QED BY <1>1 DEF RowsOf

(* More than one row of an account with one of each provider: another        *)
(* provider's is among them.                                                *)
LEMMA CountsMore ==
  ASSUME BaseInv, OneOfEach, NEW u \in Users, NEW p \in Providers,
         <<"ways", u>> \notin excused, ~AtMostOne(u)
  PROVE  Keeps(u, p)
<1> SUFFICES ASSUME ~Keeps(u, p) PROVE FALSE
  OBVIOUS
<1>0. identity \in [Users \X Providers \X Uids -> Nat]
  BY DEF BaseInv, IdpsFit
<1>1. \A i : i \in RowsOf(u) <=>
        \E q \in Providers, x \in Uids : i = <<u, q, x>> /\ identity[i] > 0
  BY <1>0, Rows
<1>2. \A i \in RowsOf(u) : identity[i] = 1
  BY <1>1 DEF OneOfEach
<1>3. ~(Cardinality(RowsOf(u)) <= 1)
  BY <1>2 DEF AtMostOne
<1>4. CASE RowsOf(u) = {}
  BY <1>3, <1>4, FS_EmptySet
<1>5. CASE RowsOf(u) # {}
  <2>1. PICK i \in RowsOf(u) : TRUE
    BY <1>5
  <2>2. PICK x \in Uids : i = <<u, p, x>> /\ identity[<<u, p, x>>] > 0
    BY <1>1, <2>1 DEF Keeps
  <2>3. ASSUME NEW k \in RowsOf(u) PROVE k = i
    <3>1. PICK y \in Uids : k = <<u, p, y>> /\ identity[<<u, p, y>>] > 0
      BY <1>1 DEF Keeps
    <3>2. y = x
      BY <2>2, <3>1 DEF OneOfEach
    <3> QED BY <2>2, <3>1, <3>2
  <2>4. RowsOf(u) = {i}
    BY <2>1, <2>3
  <2>5. Cardinality(RowsOf(u)) = 1
    BY <2>4, FS_Singleton
  <2> QED BY <1>3, <2>5
<1> QED BY <1>4, <1>5

LEMMA WaysFollow == BaseInv /\ WaysInv => WaysIn
<1> SUFFICES ASSUME BaseInv, WaysInv PROVE WaysIn
  OBVIOUS
<1>0. identity \in [Users \X Providers \X Uids -> Nat] /\ made \subseteq Users
  BY MadeAreUsers DEF BaseInv, IdpsFit, AccountsFit
<1>1. ASSUME NEW u \in made PROVE u \in local \/ RowsOf(u) # {} \/ <<"ways", u>> \in excused
  <2>1. GetsIn(u) /\ u \in Users
    BY <1>0 DEF WaysInv
  <2>2. ASSUME NEW p \in Providers, NEW x \in Uids, identity[<<u, p, x>>] > 0
        PROVE  RowsOf(u) # {}
    BY <1>0, <2>1, <2>2, Rows
  <2> QED BY <2>1, <2>2 DEF GetsIn
<1>2. ASSUME NEW p \in Providers, NEW x \in Uids, <<p, x>> \notin excused
      PROVE  ~(Cardinality(HeldBy(p, x)) > 1)
  <2>1. \A u, v \in HeldBy(p, x) : u = v
    BY <1>2 DEF WaysInv, OneHolder
  <2>2. CASE HeldBy(p, x) = {}
    BY <2>2, FS_EmptySet
  <2>3. CASE HeldBy(p, x) # {}
    <3>1. PICK u \in HeldBy(p, x) : TRUE
      BY <2>3
    <3>2. HeldBy(p, x) = {u}
      BY <2>1, <3>1
    <3>3. Cardinality(HeldBy(p, x)) = 1
      BY <3>2, FS_Singleton
    <3> QED BY <3>3
  <2> QED BY <2>2, <2>3
<1>3. ASSUME NEW i \in DOMAIN identity, identity[i] > 0 PROVE provider[i[2]] # "none"
  <2>1. PICK u \in Users, p \in Providers, x \in Uids : i = <<u, p, x>>
    BY <1>0
  <2> QED BY <1>3, <2>1 DEF WaysInv, ProvidersThere
<1> QED BY <1>1, <1>2, <1>3 DEF WaysIn

LEMMA WaysInit == Init => WaysInv
<1> SUFFICES ASSUME Init PROVE WaysInv
  OBVIOUS
<1>1. PICK p \in Providers, x \in Uids, running \in BOOLEAN, orphans \in BOOLEAN :
        /\ made = IF running THEN {1, 2} ELSE {}
        /\ local = IF running THEN {1} ELSE {}
        /\ provider = [q \in Providers |->
             IF running /\ q = p /\ q \notin EnvProviders THEN "on"
             ELSE IF running /\ (q = p \/ (orphans /\ q \notin EnvProviders)) THEN "bare" ELSE "none"]
        /\ identity = [i \in Users \X Providers \X Uids |-> IF running /\ i = <<2, p, x>> THEN 1 ELSE 0]
  BY DEF Init
<1>2. ASSUME NEW u \in Users, NEW q \in Providers, NEW y \in Uids
      PROVE  identity[<<u, q, y>>] = IF running /\ u = 2 /\ q = p /\ y = x THEN 1 ELSE 0
  BY <1>1
<1>3. ASSUME NEW u \in Users, NEW q \in Providers, NEW y \in Uids, identity[<<u, q, y>>] > 0
      PROVE  running /\ u = 2 /\ q = p /\ y = x /\ identity[<<u, q, y>>] = 1
  BY <1>2, <1>3
<1>4. ProvidersThere
  <2>1. ASSUME NEW u \in Users, NEW q \in Providers, NEW y \in Uids, identity[<<u, q, y>>] > 0
        PROVE  provider[q] # "none"
    <3>1. running /\ q = p
      BY <1>3, <2>1
    <3> QED BY <1>1, <3>1
  <2> QED BY <2>1 DEF ProvidersThere
<1>5. OneOfEach
  BY <1>3 DEF OneOfEach
<1>6. OneHolder
  BY <1>3 DEF OneHolder, HeldBy
<1>7. \A h \in Handlers : FoundNobody(h) /\ CountedMore(h)
  BY DEF Init, NoJob, FoundNobody, CountedMore
<1>8. ASSUME NEW u \in made PROVE GetsIn(u)
  <2>1. running /\ u \in {1, 2}
    BY <1>1
  <2>2. CASE u = 1
    BY <1>1, <2>1, <2>2 DEF GetsIn
  <2>3. CASE u = 2
    <3>1. identity[<<u, p, x>>] = 1
      BY <1>2, <2>1, <2>3, SomeUsers
    <3> QED BY <3>1 DEF GetsIn
  <2> QED BY <2>1, <2>2, <2>3
<1> QED BY <1>4, <1>5, <1>6, <1>7, <1>8 DEF WaysInv

LEMMA MadeSteps ==
  ASSUME BaseInv, NEW h \in Handlers, Steps(h)
  PROVE  made' = made \/ (InsertAccount(h) /\ made' \subseteq made \cup local') \/ CreateUserWithIdentity(h)
<1>1. InsertAccount(h) => made' \subseteq made \cup local'
  BY DEF InsertAccount
<1>2. FindProvider(h) \/ LinkIdentity(h) \/ FinishCallback(h) \/ DeleteIdentity(h) => made' = made
  BY DEF FindProvider, LinkIdentity, FinishCallback, DeleteIdentity, accounts
<1> QED BY <1>1, <1>2, IdpSteps

(* What the request that steps has checked, it has checked just now.         *)
LEMMA ChecksOwn ==
  ASSUME BaseInv, OneOfEach, NEW h \in Handlers, Steps(h), Guarding(job[h], security)
  PROVE  FoundNobody(h)' /\ CountedMore(h)'
<1>0. excused \subseteq excused' /\ JobsTyped
  BY LocalSteps DEF BaseInv
<1>1. FoundNobody(h)'
  <2>1. SUFFICES ASSUME job'[h].pc \in {"link", "create"} PROVE FoundNobody(h)'
    BY DEF FoundNobody
  <2>2. FindIdentity(h)
    BY <2>1, OwnStep
  <2>3. Stays(h) /\ HeldBy(job[h].idp, job[h].uid) = {} /\ identity' = identity
    BY <2>1, <2>2, FindIdentityJob DEF FindIdentity, idps
  <2> QED BY <2>3 DEF FoundNobody, Stays, Carries, HeldBy
<1>2. CountedMore(h)'
  <2>1. SUFFICES ASSUME job'[h].pc = "delete", <<"ways", job'[h].actor>> \notin excused'
                 PROVE  CountedMore(h)'
    BY DEF CountedMore
  <2>2. CountIdentities(h)
    BY <2>1, OwnStep
  <2>3. ~Done(h)
    BY <1>0, <2>1, IsDone, NoJobGuards
  <2>4. To(h, "delete") /\ ~AtMostOne(job[h].actor) /\ identity' = identity /\ At(h, "unlink", "count")
    BY <2>2, <2>3 DEF CountIdentities, idps
  <2>5. Stays(h)
    BY <1>0, <2>4, IsTo DEF PCs
  <2>6. job[h].actor \in Users /\ job[h].idp \in Providers
    BY <2>4, MadeAreUsers DEF BaseInv, JobsFit, JobFits, At, AccountsFit
  <2>7. Keeps(job[h].actor, job[h].idp)
    BY <1>0, <2>1, <2>4, <2>5, <2>6, CountsMore DEF Stays
  <2> QED BY <2>4, <2>5, <2>7 DEF CountedMore, Keeps, Stays, Carries
<1> QED BY <1>1, <1>2

(* A step that touches no identity.                                         *)
LEMMA QuietWays ==
  ASSUME BaseInv, WaysInv, NEW h \in Handlers, Steps(h), Guarding(job[h], security),
         identity' = identity, made' \subseteq made \cup local',
         \A q \in Providers : provider[q] # "none" => provider'[q] # "none"
  PROVE  WaysInv'
<1>0. /\ excused \subseteq excused' /\ local \subseteq local'
      /\ \A p \in Handlers \ {h} : Alike(job[p], job'[p])
  BY LocalSteps, StepsGood DEF JobsGood, Shape, Grows
<1>1. ProvidersThere' /\ OneOfEach' /\ OneHolder'
  BY <1>0 DEF WaysInv, ProvidersThere, OneOfEach, OneHolder, HeldBy
<1>2. ASSUME NEW p \in Handlers PROVE FoundNobody(p)' /\ CountedMore(p)'
  <2>1. CASE p = h
    BY <2>1, ChecksOwn DEF WaysInv
  <2>2. CASE p # h
    <3>1. FoundNobody(p) /\ CountedMore(p) /\ Alike(job[p], job'[p])
      BY <1>0, <2>2 DEF WaysInv
    <3> QED BY <1>0, <3>1 DEF FoundNobody, CountedMore, Alike, HeldBy, Keeps
  <2> QED BY <2>1, <2>2
<1>3. ASSUME NEW u \in made' PROVE GetsIn(u)'
  BY <1>0 DEF WaysInv, GetsIn
<1> QED BY <1>1, <1>2, <1>3 DEF WaysInv

(* A step that adds an identity nobody holds.                               *)
LEMMA AddWays ==
  ASSUME BaseInv, Alone, WaysInv, NEW h \in Handlers, Steps(h), Guarding(job[h], security),
         NEW u \in Users, NEW p \in Providers, NEW x \in Uids,
         job[h].idp = p, job[h].uid = x, AddIdentity(u, p, x), provider' = provider,
         job[h].kind = "callback", job[h].pc \in {"link", "create"},
         <<"ways", u>> \notin excused' => \A y \in Uids : ~(identity[<<u, p, y>>] > 0),
         made' \subseteq made \cup {u}
  PROVE  WaysInv'
<1>0. /\ excused \subseteq excused' /\ local \subseteq local'
      /\ \A q \in Handlers \ {h} : Alike(job[q], job'[q])
      /\ identity \in [Users \X Providers \X Uids -> Nat]
      /\ FoundNobody(h)
  BY LocalSteps, StepsGood DEF JobsGood, Shape, Grows, BaseInv, IdpsFit, WaysInv
<1>1. /\ provider[p] # "none"
      /\ identity'[<<u, p, x>>] = identity[<<u, p, x>>] + 1
      /\ \A v \in Users, q \in Providers, y \in Uids :
           (v # u \/ q # p \/ y # x) => identity'[<<v, q, y>>] = identity[<<v, q, y>>]
  <2>1. identity \in [Users \X Providers \X Uids -> Nat]
    BY <1>0
  <2>2. AddIdentity(u, p, x)
    OBVIOUS
  <2> QED BY ONLY <2>1, <2>2, Added
<1>2. \A v \in Users, q \in Providers, y \in Uids : identity[<<v, q, y>>] \in Nat
  BY <1>0
<1>3. \A v \in Users, q \in Providers, y \in Uids :
        /\ identity[<<v, q, y>>] > 0 => identity'[<<v, q, y>>] > 0
        /\ identity'[<<v, q, y>>] > 0 => identity[<<v, q, y>>] > 0 \/ (v = u /\ q = p /\ y = x)
  <2>1. ASSUME NEW v \in Users, NEW q \in Providers, NEW y \in Uids
        PROVE  /\ identity[<<v, q, y>>] > 0 => identity'[<<v, q, y>>] > 0
               /\ identity'[<<v, q, y>>] > 0 => identity[<<v, q, y>>] > 0 \/ (v = u /\ q = p /\ y = x)
    <3>1. CASE v = u /\ q = p /\ y = x
      BY <1>1, <1>2, <3>1
    <3>2. CASE ~(v = u /\ q = p /\ y = x)
      <4>1. identity'[<<v, q, y>>] = identity[<<v, q, y>>]
        BY <1>1, <3>2
      <4> QED BY <4>1
    <3> QED BY <3>1, <3>2
  <2> QED BY <2>1
<1>4. ProvidersThere'
  BY <1>1, <1>3 DEF WaysInv, ProvidersThere
<1>5. OneOfEach'
  <2>1. ASSUME NEW v \in Users, NEW q \in Providers, NEW y \in Uids,
               identity'[<<v, q, y>>] > 0, <<"ways", v>> \notin excused'
        PROVE  /\ identity'[<<v, q, y>>] = 1
               /\ \A z \in Uids : identity'[<<v, q, z>>] > 0 => z = y
    <3>1. CASE v = u /\ q = p
      <4>1. \A z \in Uids : identity[<<u, p, z>>] = 0
        BY <1>2, <2>1, <3>1
      <4> QED BY <1>1, <1>3, <2>1, <3>1, <4>1
    <3>2. CASE ~(v = u /\ q = p)
      <4>1. \A z \in Uids : identity'[<<v, q, z>>] = identity[<<v, q, z>>]
        BY <1>1, <3>2
      <4>2. <<"ways", v>> \notin excused
        BY <1>0, <2>1
      <4> QED BY <2>1, <4>1, <4>2 DEF WaysInv, OneOfEach
    <3> QED BY <3>1, <3>2
  <2> QED BY <2>1 DEF OneOfEach
<1>6. OneHolder'
  <2>1. ASSUME NEW q \in Providers, NEW y \in Uids, <<q, y>> \notin excused',
               NEW v \in Users, NEW w \in Users,
               identity'[<<v, q, y>>] > 0, identity'[<<w, q, y>>] > 0
        PROVE  v = w
    <3>1. <<q, y>> \notin excused
      BY <1>0, <2>1
    <3>2. CASE q = p /\ y = x
      <4>1. HeldBy(p, x) = {}
        BY <1>0, <3>1, <3>2 DEF FoundNobody
      <4>2. \A t \in Users : ~(identity[<<t, p, x>>] > 0)
        BY <4>1 DEF HeldBy
      <4> QED BY <1>3, <2>1, <3>2, <4>2
    <3>3. CASE ~(q = p /\ y = x)
      <4>1. identity[<<v, q, y>>] > 0 /\ identity[<<w, q, y>>] > 0
        BY <1>3, <2>1, <3>3
      <4> QED BY <3>1, <4>1 DEF WaysInv, OneHolder, HeldBy
    <3> QED BY <3>2, <3>3
  <2> QED BY <2>1 DEF OneHolder, HeldBy
<1>7. ASSUME NEW r \in Handlers PROVE FoundNobody(r)' /\ CountedMore(r)'
  <2>1. CASE r = h
    BY <2>1, ChecksOwn DEF WaysInv
  <2>2. CASE r # h
    <3>1. FoundNobody(r) /\ CountedMore(r) /\ Alike(job[r], job'[r]) /\ JobFits(job[r], made, local)
          /\ made \subseteq Users
      BY <1>0, <2>2, MadeAreUsers DEF WaysInv, BaseInv, JobsFit, AccountsFit
    <3>2. CountedMore(r)'
      <4>1. SUFFICES ASSUME job[r].kind = "unlink", job[r].pc = "delete",
                            <<"ways", job[r].actor>> \notin excused
                     PROVE  CountedMore(r)'
        BY <1>0, <3>1 DEF CountedMore, Alike
      <4>2. Keeps(job[r].actor, job[r].idp) /\ job[r].actor \in Users
        BY <3>1, <4>1 DEF CountedMore, JobFits
      <4>3. PICK q \in Providers, y \in Uids : q # job[r].idp /\ identity[<<job[r].actor, q, y>>] > 0
        BY <4>2 DEF Keeps
      <4>4. identity'[<<job[r].actor, q, y>>] > 0
        BY <1>3, <4>2, <4>3
      <4> QED BY <3>1, <4>3, <4>4 DEF CountedMore, Keeps, Alike
    <3>3. FoundNobody(r)'
      <4>1. SUFFICES ASSUME job[r].kind = "callback", job[r].pc \in {"link", "create"},
                            <<job[r].idp, job[r].uid>> \notin excused
                     PROVE  FoundNobody(r)'
        BY <1>0, <3>1 DEF FoundNobody, Alike
      <4>2. HeldBy(job[r].idp, job[r].uid) = {} /\ job[r].idp \in Providers /\ job[r].uid \in Uids
        BY <3>1, <4>1 DEF FoundNobody, JobFits
      <4>3. ~(job[r].idp = p /\ job[r].uid = x)
        <5>1. SUFFICES ASSUME job[r].idp = p, job[r].uid = x PROVE FALSE
          OBVIOUS
        <5>2. Touches(job[h]) = {<<p, x>>} /\ Touches(job[r]) = {<<p, x>>}
          BY <4>1, <5>1 DEF Touches
        <5>3. Touches(job[h]) \cap Touches(job[r]) \subseteq excused
          BY <2>2, <4>1 DEF Alone, Busy
        <5> QED BY <4>1, <5>1, <5>2, <5>3
      <4>4. \A v \in Users : ~(identity'[<<v, job[r].idp, job[r].uid>>] > 0)
        BY <1>3, <4>2, <4>3 DEF HeldBy
      <4> QED BY <3>1, <4>4 DEF FoundNobody, HeldBy, Alike
    <3> QED BY <3>2, <3>3
  <2> QED BY <2>1, <2>2
<1>8. ASSUME NEW v \in made' PROVE GetsIn(v)'
  <2>1. identity'[<<u, p, x>>] > 0
    BY <1>1, <1>2
  <2>2. CASE v = u
    BY <2>1, <2>2 DEF GetsIn
  <2>3. CASE v # u
    <3>1. GetsIn(v) /\ v \in Users
      BY <2>3, MadeAreUsers DEF WaysInv, BaseInv, AccountsFit
    <3> QED BY <1>0, <1>3, <3>1 DEF GetsIn
  <2> QED BY <2>2, <2>3
<1> QED BY <1>4, <1>5, <1>6, <1>7, <1>8 DEF WaysInv

(* An unlink takes the identities of one provider.                          *)
LEMMA UnlinkWays ==
  ASSUME BaseInv, Alone, WaysInv, NEW h \in Handlers, Steps(h), Guarding(job[h], security),
         DeleteIdentity(h)
  PROVE  WaysInv'
<1> DEFINE u == job[h].actor  p == job[h].idp
<1>0. /\ excused \subseteq excused' /\ local \subseteq local' /\ made' = made
      /\ \A q \in Handlers \ {h} : Alike(job[q], job'[q])
      /\ job[h].kind = "unlink" /\ job[h].pc = "delete" /\ u \in made /\ p \in Providers
      /\ CountedMore(h) /\ made \subseteq Users
  BY LocalSteps, StepsGood, MadeAreUsers
     DEF JobsGood, Shape, Grows, BaseInv, JobsFit, JobFits, AccountsFit, WaysInv, DeleteIdentity, At,
         accounts
<1>1. \A v \in Users, q \in Providers, y \in Uids :
        /\ identity'[<<v, q, y>>] \in {0, identity[<<v, q, y>>]}
        /\ (v # u \/ q # p) => identity'[<<v, q, y>>] = identity[<<v, q, y>>]
  BY Unlinked DEF BaseInv
<1>2. \A v \in Users, q \in Providers, y \in Uids :
        identity'[<<v, q, y>>] > 0 => identity'[<<v, q, y>>] = identity[<<v, q, y>>]
  BY <1>1
<1>3. \A q \in Providers : provider[q] # "none" => provider'[q] # "none"
  BY <1>0, RegisteredFits DEF DeleteIdentity, BaseInv, IdpsFit
<1>4. ProvidersThere'
  BY <1>2, <1>3 DEF WaysInv, ProvidersThere
<1>5. OneOfEach'
  BY <1>0, <1>2 DEF WaysInv, OneOfEach
<1>6. OneHolder'
  BY <1>0, <1>2 DEF WaysInv, OneHolder, HeldBy
<1>7. ASSUME NEW r \in Handlers PROVE FoundNobody(r)' /\ CountedMore(r)'
  <2>1. CASE r = h
    BY <2>1, ChecksOwn DEF WaysInv
  <2>2. CASE r # h
    <3>1. /\ FoundNobody(r) /\ CountedMore(r) /\ Alike(job[r], job'[r])
          /\ JobFits(job[r], made, local)
      BY <1>0, <2>2 DEF WaysInv, BaseInv, JobsFit
    <3>2. FoundNobody(r)'
      <4>1. SUFFICES ASSUME job[r].kind = "callback", job[r].pc \in {"link", "create"},
                            <<job[r].idp, job[r].uid>> \notin excused
                     PROVE  FoundNobody(r)'
        BY <1>0, <3>1 DEF FoundNobody, Alike
      <4>2. HeldBy(job[r].idp, job[r].uid) = {} /\ job[r].idp \in Providers /\ job[r].uid \in Uids
        BY <3>1, <4>1 DEF FoundNobody, JobFits
      <4>3. \A v \in Users : ~(identity'[<<v, job[r].idp, job[r].uid>>] > 0)
        BY <1>2, <4>2 DEF HeldBy
      <4> QED BY <3>1, <4>3 DEF FoundNobody, HeldBy, Alike
    <3>3. CountedMore(r)'
      <4>1. SUFFICES ASSUME job[r].kind = "unlink", job[r].pc = "delete",
                            <<"ways", job[r].actor>> \notin excused
                     PROVE  CountedMore(r)'
        BY <1>0, <3>1 DEF CountedMore, Alike
      <4>2. job[r].actor # u
        <5>1. SUFFICES ASSUME job[r].actor = u PROVE FALSE
          OBVIOUS
        <5>2. Touches(job[h]) = {<<"ways", u>>} /\ Touches(job[r]) = {<<"ways", u>>}
          BY <1>0, <4>1, <5>1 DEF Touches
        <5>3. Touches(job[h]) \cap Touches(job[r]) \subseteq excused
          BY <1>0, <2>2, <4>1 DEF Alone, Busy
        <5> QED BY <4>1, <5>1, <5>2, <5>3
      <4>3. Keeps(job[r].actor, job[r].idp) /\ job[r].actor \in Users
        BY <1>0, <3>1, <4>1 DEF CountedMore, JobFits
      <4>4. PICK q \in Providers, y \in Uids : q # job[r].idp /\ identity[<<job[r].actor, q, y>>] > 0
        BY <4>3 DEF Keeps
      <4>5. identity'[<<job[r].actor, q, y>>] > 0
        BY <1>1, <4>2, <4>3, <4>4
      <4> QED BY <3>1, <4>4, <4>5 DEF CountedMore, Keeps, Alike
    <3> QED BY <3>2, <3>3
  <2> QED BY <2>1, <2>2
<1>8. ASSUME NEW v \in made' PROVE GetsIn(v)'
  <2>1. GetsIn(v) /\ v \in Users
    BY <1>0 DEF WaysInv
  <2>2. CASE v = u /\ <<"ways", u>> \notin excused
    <3>1. Keeps(u, p)
      BY <1>0, <2>2 DEF CountedMore
    <3>2. PICK q \in Providers, y \in Uids : q # p /\ identity[<<u, q, y>>] > 0
      BY <3>1 DEF Keeps
    <3>3. identity'[<<u, q, y>>] > 0
      BY <1>0, <1>1, <3>2
    <3> QED BY <2>2, <3>3 DEF GetsIn
  <2>3. CASE v = u /\ <<"ways", u>> \in excused
    BY <1>0, <2>3 DEF GetsIn
  <2>4. CASE v # u
    BY <1>0, <1>1, <2>1, <2>4 DEF GetsIn
  <2> QED BY <2>2, <2>3, <2>4
<1> QED BY <1>4, <1>5, <1>6, <1>7, <1>8 DEF WaysInv

LEMMA WaysSteps ==
  ASSUME BaseInv, Alone, WaysInv, NEW h \in Handlers, Steps(h), Guarding(job[h], security)
  PROVE  WaysInv'
<1>0. JobFits(job[h], made, local) /\ made \subseteq Users
  BY MadeAreUsers DEF BaseInv, JobsFit, AccountsFit
<1>1. CASE LinkIdentity(h)
  <2> DEFINE u == job[h].actor  p == job[h].idp  x == job[h].uid
  <2>1. /\ u \in Users /\ p \in Providers /\ x \in Uids /\ AddIdentity(u, p, x)
        /\ provider' = provider /\ made' = made
        /\ job[h].kind = "callback" /\ job[h].pc = "link"
        /\ excused' = IF \E i \in RowsOf(u) : i[2] = p THEN excused \cup {<<"ways", u>>} ELSE excused
    BY <1>0, <1>1 DEF LinkIdentity, At, JobFits, accounts
  <2>2. ASSUME <<"ways", u>> \notin excused', NEW y \in Uids, identity[<<u, p, y>>] > 0
        PROVE  FALSE
    <3>1. <<u, p, y>> \in RowsOf(u)
      BY <2>1, <2>2, Rows DEF BaseInv, IdpsFit
    <3>2. <<u, p, y>>[2] = p
      OBVIOUS
    <3> QED BY <2>1, <2>2, <3>1, <3>2
  <2>3. made' \subseteq made \cup {u}
    BY <2>1
  <2> HIDE DEF u, p, x
  <2>4. job[h].idp = p /\ job[h].uid = x
    BY DEF p, x
  <2> QED BY <2>1, <2>2, <2>3, <2>4, AddWays
<1>2. CASE CreateUserWithIdentity(h)
  <2>1. PICK u \in Users :
          /\ u \notin made /\ made' = made \cup {u} /\ AddIdentity(u, job[h].idp, job[h].uid)
    BY <1>2, CreateUserJob
  <2>2. /\ job[h].idp \in Providers /\ job[h].uid \in Uids /\ provider' = provider
        /\ job[h].kind = "callback" /\ job[h].pc \in {"link", "create"}
    BY <1>0, <1>2 DEF CreateUserWithIdentity, At, JobFits
  <2>3. \A y \in Uids : ~(identity[<<u, job[h].idp, y>>] > 0)
    BY <2>1, <2>2 DEF BaseInv, IdpsFit
  <2> QED BY <2>1, <2>2, <2>3, AddWays
<1>3. CASE DeleteIdentity(h)
  BY <1>3, UnlinkWays
<1>4. CASE ~LinkIdentity(h) /\ ~CreateUserWithIdentity(h) /\ ~DeleteIdentity(h)
  <2>1. identity' = identity
    BY <1>4, IdpSteps DEF InsertAccount, FindProvider, FinishCallback, idps
  <2>2. made' \subseteq made \cup local'
    BY <1>4, MadeSteps
  <2>3. provider' = provider \/ FindProvider(h)
    BY <1>4, IdpSteps DEF InsertAccount, FinishCallback, idps
  <2>4. \A q \in Providers : provider[q] # "none" => provider'[q] # "none"
    <3>1. FindProvider(h) => provider' = Registered(job[h].idp) /\ job[h].idp \in Providers
      BY <1>0 DEF FindProvider, At, JobFits
    <3> QED BY <2>3, <3>1, RegisteredFits DEF BaseInv, IdpsFit
  <2> QED BY <2>1, <2>2, <2>4, QuietWays
<1> QED BY <1>1, <1>2, <1>3, <1>4

(* A provider that identities point at does not go.                         *)
LEMMA OutsideWays ==
  ASSUME BaseInv, Outside
  PROVE  \A q \in Providers : provider[q] # "none" /\ WithIdentities(q) => provider'[q] # "none"
<1>0. provider \in [Providers -> {"none", "bare", "off", "on"}]
  BY DEF BaseInv, IdpsFit
<1>1. ASSUME NEW l \in Links, Expire(l) PROVE provider' = provider
  BY <1>1 DEF Expire, idps
<1>2. ASSUME NEW u, NEW p \in Providers, NEW s, GenerateAuthUrl(u, p, s)
      PROVE  \A q \in Providers : provider[q] # "none" => provider'[q] # "none"
  BY <1>0, <1>2, RegisteredFits DEF GenerateAuthUrl
<1>3. ASSUME NEW p \in Providers, UpsertIdp(p) \/ ToggleIdp(p) \/ DeleteIdp(p) \/ CleanupOrphan(p)
      PROVE  \A q \in Providers : provider[q] # "none" /\ WithIdentities(q) => provider'[q] # "none"
  <2>1. \E to \in {"on", "off", "none"} : Configure(p, to) /\ (to = "none" => ~WithIdentities(p))
    BY <1>3 DEF UpsertIdp, ToggleIdp, DeleteIdp, CleanupOrphan
  <2>2. PICK to \in {"on", "off", "none"} :
          provider' = [provider EXCEPT ![p] = to] /\ (to = "none" => ~WithIdentities(p))
    BY <2>1 DEF Configure
  <2> QED BY <1>0, <2>2
<1>4. CASE \E p \in Providers : UpsertIdp(p) \/ ToggleIdp(p) \/ DeleteIdp(p) \/ CleanupOrphan(p)
  BY <1>3, <1>4
<1> QED BY <1>1, <1>2, <1>4 DEF Outside

LEMMA WaysStep == BaseInv /\ Alone /\ FactorInv /\ WaysInv /\ [Next]_vars => WaysInv'
<1> SUFFICES ASSUME BaseInv, Alone, FactorInv, WaysInv, [Next]_vars PROVE WaysInv'
  OBVIOUS
<1>1. ASSUME NEW h \in Handlers, Submit(h) PROVE WaysInv'
  <2>1. /\ Others(h) /\ excused \subseteq excused' /\ UNCHANGED <<identity, provider, made, local>>
    BY <1>1, SubmitKeeps DEF accounts, idps
  <2>2. job'[h].pc \notin {"link", "create", "delete"}
    BY <1>1, SubmitFresh DEF Midway
  <2>3. ProvidersThere' /\ OneOfEach' /\ OneHolder'
    BY <2>1 DEF WaysInv, ProvidersThere, OneOfEach, OneHolder, HeldBy
  <2>4. ASSUME NEW p \in Handlers PROVE FoundNobody(p)' /\ CountedMore(p)'
    <3>1. CASE p = h
      BY <2>2, <3>1 DEF FoundNobody, CountedMore
    <3>2. CASE p # h
      <4>1. job'[p] = job[p] /\ FoundNobody(p) /\ CountedMore(p)
        BY <2>1, <3>2 DEF Others, WaysInv
      <4> QED BY <2>1, <4>1 DEF FoundNobody, CountedMore, HeldBy, Keeps
    <3> QED BY <3>1, <3>2
  <2>5. \A u \in made' : GetsIn(u)'
    BY <2>1 DEF WaysInv, GetsIn
  <2> QED BY <2>3, <2>4, <2>5 DEF WaysInv
<1>2. ASSUME NEW h \in Handlers, Steps(h) PROVE WaysInv'
  BY <1>2, WaysSteps DEF FactorInv
<1>3. CASE Outside
  <2>1. UNCHANGED <<identity, made, local, excused, job>>
    BY <1>3, OutsideKeeps DEF accounts
  <2>2. ProvidersThere'
    <3>1. ASSUME NEW u \in Users, NEW p \in Providers, NEW x \in Uids, identity[<<u, p, x>>] > 0
          PROVE  WithIdentities(p)
      <4>1. <<u, p, x>> \in DOMAIN identity /\ <<u, p, x>>[2] = p
        BY DEF BaseInv, IdpsFit
      <4> QED BY <3>1, <4>1 DEF WithIdentities
    <3> QED BY <1>3, <2>1, <3>1, OutsideWays DEF WaysInv, ProvidersThere
  <2>3. OneOfEach' /\ OneHolder'
    BY <2>1 DEF WaysInv, OneOfEach, OneHolder, HeldBy
  <2>4. \A p \in Handlers : FoundNobody(p)' /\ CountedMore(p)'
    BY <2>1 DEF WaysInv, FoundNobody, CountedMore, HeldBy, Keeps
  <2>5. \A u \in made' : GetsIn(u)'
    BY <2>1 DEF WaysInv, GetsIn
  <2> QED BY <2>2, <2>3, <2>4, <2>5 DEF WaysInv
<1>4. CASE UNCHANGED vars
  <2>1. UNCHANGED <<identity, provider, made, local, excused, job>>
    BY <1>4 DEF vars, accounts, idps, past
  <2> QED BY <2>1 DEF WaysInv, ProvidersThere, OneOfEach, OneHolder, HeldBy, FoundNobody,
                      CountedMore, Keeps, GetsIn
<1> QED BY <1>1, <1>2, <1>3, <1>4, NextIs

(* Every account keeps a password or an identity, an identity belongs to one   *)
(* account and to a provider that exists, unless unlinks or callbacks          *)
(* overlapped or a provider was linked twice: unlinkService, findOrCreateUser *)
(* and deleteIdp, for every number of accounts, providers and requests.      *)
THEOREM EveryoneKeepsAWayIn == Spec => []WaysIn
<1> DEFINE Inv == BaseInv /\ Alone /\ FactorInv /\ WaysInv
<1>1. Init => Inv
  BY BaseInit, AloneInit, FactorInit, WaysInit
<1>2. Inv /\ [Next]_vars => Inv'
  BY BaseStep, AloneStep, FactorStep, WaysStep
<1>3. Inv => WaysIn
  BY WaysFollow
<1> QED BY <1>1, <1>2, <1>3, PTL DEF Spec

-----------------------------------------------------------------------------
(* Staying in: the tab of the web client, for every number of requests in      *)
(* flight.  The values of its state, as far as the argument needs them.      *)
Ages == {"fresh", "soon", "gone"}

TabRequests ==
  [pc : {"idle", "sent", "waiting", "retrying", "answered"}, kind : {"strict", "page"},
   access : Ages, refresh : Nat, early : BOOLEAN, retry : BOOLEAN, on : Slots \cup {"none"},
   answer : {"none", "known", "plain", "401"}, clears : BOOLEAN]

Refreshes == [pc : {"none", "sent", "found", "done"}, token : Nat, ok : BOOLEAN]

Cookies == [access : Ages, refresh : Nat]

ShellTypes ==
  /\ session \in [live : BOOLEAN, token : Nat]
  /\ tokens \in Nat
  /\ jar \in Cookies
  /\ tab \in [boot : BOOLEAN, user : BOOLEAN, meta : {"none", "early", "due"}]
  /\ reqs \in [Slots -> TabRequests]
  /\ rf \in [Slots -> Refreshes]
  /\ lost \in BOOLEAN

(* What holds of the page while the session lives and nothing was lost.     *)
TabGood ==
  /\ tab.boot \/ tab.user
  /\ ~tab.boot => tab.meta # "none"
  /\ tab.meta = "early" => jar.access = "fresh"

(* One refresh at a time, with the token of the server.                     *)
RefreshGood ==
  /\ \A s, t \in Slots : rf[s].pc # "none" /\ rf[t].pc # "none" => s = t
  /\ \A s \in Slots :
       /\ rf[s].pc \in {"sent", "found"} => rf[s].token = session.token
       /\ rf[s].pc = "done" => rf[s].ok /\ rf[s].token = session.token
  /\ (\A s \in Slots : rf[s].pc = "none") => jar.refresh = session.token

(* A request that would fall back on the refresh token, or that is sent for *)
(* the second time, has left with an access token that outlives it.         *)
RequestGood(s) ==
  /\ reqs[s].pc = "sent" /\ (reqs[s].kind = "page" \/ reqs[s].retry) => reqs[s].early
  /\ reqs[s].pc = "sent" /\ reqs[s].early => Valid(reqs[s].access)
  /\ reqs[s].pc \in {"sent", "answered"} /\ reqs[s].access = "fresh" => jar.access = "fresh"
  /\ reqs[s].pc = "answered" =>
       /\ ~reqs[s].clears
       /\ reqs[s].retry => reqs[s].answer # "401"
       /\ reqs[s].kind = "strict" => reqs[s].answer \in {"known", "401"}
  /\ tab.boot /\ reqs[s].pc # "idle" => reqs[s].kind = "strict"
  /\ reqs[s].pc = "idle" => reqs[s].on = "none"

Calm == session.live /\ ~lost

ShellInv ==
  /\ ShellTypes
  /\ Calm => TabGood /\ RefreshGood /\ \A s \in Slots : RequestGood(s)

-----------------------------------------------------------------------------
LEMMA NoReqType == NoReq \in TabRequests /\ NoReq.pc = "idle" /\ NoReq.retry = FALSE /\ NoReq.on = "none"
BY DEF NoReq, TabRequests, Ages

LEMMA ShellInitGood == ShellInit => ShellInv
<1> SUFFICES ASSUME ShellInit PROVE ShellInv
  OBVIOUS
<1>1. ShellTypes
  <2>1. NoRefresh \in Refreshes
    BY DEF NoRefresh, Refreshes
  <2>2. reqs \in [Slots -> TabRequests] /\ rf \in [Slots -> Refreshes]
    BY <2>1, NoReqType DEF ShellInit
  <2>3. jar \in Cookies
    BY DEF ShellInit, Cookies, Ages
  <2> QED BY <2>2, <2>3 DEF ShellInit, ShellTypes
<1>2. TabGood /\ RefreshGood
  BY DEF ShellInit, TabGood, RefreshGood, NoRefresh
<1>3. ASSUME NEW s \in Slots PROVE RequestGood(s)
  BY NoReqType DEF ShellInit, RequestGood
<1> QED BY <1>1, <1>2, <1>3 DEF ShellInv

(* What refreshAuth does, from its two arguments.                           *)
LEMMA RefreshAuthTypes ==
  ASSUME ShellTypes, NEW s \in Slots, NEW r \in TabRequests, NEW cookies \in Cookies,
         RefreshAuth(s, r, cookies)
  PROVE  reqs' \in [Slots -> TabRequests] /\ rf' \in [Slots -> Refreshes]
<1>1. CASE Refreshing = {}
  <2>1. [r EXCEPT !.on = s] \in TabRequests
    BY DEF TabRequests
  <2>2. [pc |-> "sent", token |-> cookies.refresh, ok |-> FALSE] \in Refreshes
    BY DEF Refreshes, Cookies
  <2> QED BY <1>1, <2>1, <2>2 DEF RefreshAuth, ShellTypes
<1>2. CASE Refreshing # {}
  <2>1. PICK other \in Refreshing :
          reqs' = [reqs EXCEPT ![s] = [r EXCEPT !.on = other]] /\ rf' = rf
    BY <1>2 DEF RefreshAuth
  <2>2. other \in Slots
    BY DEF Refreshing
  <2> QED BY <2>1, <2>2 DEF ShellTypes, TabRequests
<1> QED BY <1>1, <1>2

LEMMA ShellTypesStep == ShellTypes /\ [ShellNext]_shellVars => ShellTypes'
<1> SUFFICES ASSUME ShellTypes, [ShellNext]_shellVars PROVE ShellTypes'
  OBVIOUS
<1> USE ShellBounds, NoReqType
<1>0. CASE UNCHANGED shellVars
  BY <1>0 DEF shellVars, ShellTypes
<1>1. ASSUME NEW s \in Slots, NEW kind \in {"strict", "page"}, Request(s, kind)
      PROVE  ShellTypes'
  <2> DEFINE r == [NoReq EXCEPT !.kind = kind]
  <2>1. r \in TabRequests /\ [NoReq EXCEPT !.kind = kind, !.pc = "waiting"] \in TabRequests
    BY DEF NoReq, TabRequests, Ages
  <2>2. CASE tab.meta = "due"
    <3>1. RefreshAuth(s, [NoReq EXCEPT !.kind = kind, !.pc = "waiting"], jar)
      BY <1>1, <2>2 DEF Request
    <3>2. reqs' \in [Slots -> TabRequests] /\ rf' \in [Slots -> Refreshes]
      BY <2>1, <3>1, RefreshAuthTypes DEF ShellTypes
    <3> QED BY <1>1, <3>2 DEF Request, ShellTypes
  <2>3. CASE tab.meta # "due"
    <3>1. Sent(s, r) \in TabRequests
      <4> HIDE DEF r
      <4> QED BY <2>1 DEF Sent, TabRequests, ShellTypes, Cookies
    <3>2. reqs' = [reqs EXCEPT ![s] = Sent(s, r)] /\ rf' = rf
      BY <1>1, <2>3 DEF Request
    <3> QED BY <1>1, <3>1, <3>2 DEF Request, ShellTypes
  <2> QED BY <2>2, <2>3
<1>2. ASSUME NEW s \in Slots, AuthenticateStrict(s) PROVE ShellTypes'
  <2>1. PICK answer \in {"known", "401"}, clears \in BOOLEAN :
          reqs' = [reqs EXCEPT ![s].pc = "answered", ![s].answer = answer, ![s].clears = clears]
    BY <1>2 DEF AuthenticateStrict, ShellTypes, Valid
  <2>2. [reqs[s] EXCEPT !.pc = "answered", !.answer = answer, !.clears = clears] \in TabRequests
    BY DEF ShellTypes, TabRequests
  <2>3. reqs' \in [Slots -> TabRequests]
    BY <2>1, <2>2 DEF ShellTypes
  <2> QED BY <1>2, <2>3 DEF AuthenticateStrict, ShellTypes
<1>3. ASSUME NEW s \in Slots, AuthenticatePage(s) PROVE ShellTypes'
  <2>1. PICK answer \in {"known", "plain"}, clears \in BOOLEAN :
          reqs' = [reqs EXCEPT ![s].pc = "answered", ![s].answer = answer, ![s].clears = clears]
    BY <1>3 DEF AuthenticatePage, ShellTypes, Valid
  <2>2. [reqs[s] EXCEPT !.pc = "answered", !.answer = answer, !.clears = clears] \in TabRequests
    BY DEF ShellTypes, TabRequests
  <2>3. reqs' \in [Slots -> TabRequests]
    BY <2>1, <2>2 DEF ShellTypes
  <2> QED BY <1>3, <2>3 DEF AuthenticatePage, ShellTypes
<1>4. ASSUME NEW s \in Slots, Answer(s) PROVE ShellTypes'
  <2>1. jar' \in Cookies
    BY <1>4 DEF Answer, Cleared, ShellTypes, Cookies, Ages
  <2>2. CASE reqs[s].answer = "401" /\ ~reqs[s].retry
    <3>1. [reqs[s] EXCEPT !.pc = "retrying"] \in TabRequests
      BY DEF ShellTypes, TabRequests
    <3>2. RefreshAuth(s, [reqs[s] EXCEPT !.pc = "retrying"], jar')
      BY <1>4, <2>2 DEF Answer
    <3>3. reqs' \in [Slots -> TabRequests] /\ rf' \in [Slots -> Refreshes]
      BY <2>1, <3>1, <3>2, RefreshAuthTypes
    <3> QED BY <1>4, <2>1, <2>2, <3>3 DEF Answer, ShellTypes
  <2>3. CASE ~(reqs[s].answer = "401" /\ ~reqs[s].retry)
    <3>1. Synced(reqs[s]) \in {"none", "early", "due"}
      BY DEF Synced, ShellTypes
    <3>2. tab' \in [boot : BOOLEAN, user : BOOLEAN, meta : {"none", "early", "due"}]
      <4> DEFINE user == IF tab.boot THEN reqs[s].answer = "known" ELSE tab.user
      <4>1. user \in BOOLEAN
        BY DEF ShellTypes
      <4>2. tab' = [boot |-> FALSE, meta |-> Synced(reqs[s]), user |-> user]
        BY <1>4, <2>3 DEF Answer
      <4> HIDE DEF user
      <4> QED BY <3>1, <4>1, <4>2
    <3>3. reqs' \in [Slots -> TabRequests] /\ rf' = rf
      BY <1>4, <2>3 DEF Answer, ShellTypes
    <3> QED BY <1>4, <2>1, <3>2, <3>3 DEF Answer, ShellTypes
  <2> QED BY <2>2, <2>3
<1>5. ASSUME NEW s \in Slots, FindSession(s) PROVE ShellTypes'
  BY <1>5 DEF FindSession, ShellTypes, Refreshes
<1>6. ASSUME NEW s \in Slots, RotateToken(s) PROVE ShellTypes'
  <2>1. CASE session.live
    <3>1. tokens' \in Nat /\ session' \in [live : BOOLEAN, token : Nat]
      BY <1>6, <2>1 DEF RotateToken, ShellTypes
    <3>2. [pc |-> "done", token |-> tokens', ok |-> TRUE] \in Refreshes
      BY <3>1 DEF Refreshes
    <3> QED BY <1>6, <2>1, <3>1, <3>2 DEF RotateToken, ShellTypes
  <2>2. CASE ~session.live
    BY <1>6, <2>2 DEF RotateToken, ShellTypes, Refreshes
  <2> QED BY <2>1, <2>2
<1>7. ASSUME NEW s \in Slots, FailRefresh(s) PROVE ShellTypes'
  BY <1>7 DEF FailRefresh, ShellTypes, Refreshes
<1>8. ASSUME NEW s \in Slots, NEW ok \in BOOLEAN, NEW cookies \in Cookies,
             Resume(s, ok, cookies), UNCHANGED <<session, tokens>>, lost' \in BOOLEAN
      PROVE  ShellTypes'
  <2>1. ASSUME NEW x \in Slots, NEW retry \in BOOLEAN
        PROVE  [reqs[x] EXCEPT !.pc = "sent", !.access = cookies.access,
                  !.refresh = cookies.refresh, !.early = TRUE, !.on = "none", !.retry = retry,
                  !.answer = "none", !.clears = FALSE] \in TabRequests
    BY DEF ShellTypes, TabRequests, Cookies
  <2>4. reqs' \in [Slots -> TabRequests]
    BY <1>8, <2>1 DEF Resume, ShellTypes
  <2>2. rf' \in [Slots -> Refreshes]
    BY <1>8 DEF Resume, ShellTypes, Refreshes, NoRefresh
  <2>3. tab' \in [boot : BOOLEAN, user : BOOLEAN, meta : {"none", "early", "due"}]
    BY <1>8 DEF Resume, ShellTypes
  <2> QED BY <1>8, <2>2, <2>3, <2>4 DEF Resume, ShellTypes
<1>9. ASSUME NEW s \in Slots, SettleRefresh(s) PROVE ShellTypes'
  <2> DEFINE cookies == IF rf[s].ok THEN [access |-> "fresh", refresh |-> rf[s].token]
                        ELSE [access |-> "gone", refresh |-> 0]
  <2>1. cookies \in Cookies /\ rf[s].ok \in BOOLEAN
    BY DEF ShellTypes, Refreshes, Cookies, Ages
  <2>2. Resume(s, rf[s].ok, cookies) /\ UNCHANGED <<session, tokens>> /\ lost' \in BOOLEAN
    BY <1>9 DEF SettleRefresh, ShellTypes
  <2> HIDE DEF cookies
  <2> QED BY <1>8, <2>1, <2>2
<1>10. ASSUME NEW s \in Slots, LoseRefresh(s) PROVE ShellTypes'
  BY <1>8, <1>10 DEF LoseRefresh, ShellTypes
<1>11. ASSUME NEW s \in Slots, LoseRequest(s) PROVE ShellTypes'
  BY <1>11 DEF LoseRequest, ShellTypes
<1>12. CASE AgeAccess
  <2>1. ASSUME NEW s \in Slots
        PROVE  [reqs[s] EXCEPT !.access = Soon(reqs[s].access)] \in TabRequests
    BY DEF ShellTypes, TabRequests, Ages, Soon
  <2>2. reqs' \in [Slots -> TabRequests]
    BY <1>12, <2>1 DEF AgeAccess
  <2> QED BY <1>12, <2>2 DEF AgeAccess, ShellTypes, Cookies, Ages
<1>13. CASE ExpireAccess
  <2>1. ASSUME NEW s \in Slots
        PROVE  [reqs[s] EXCEPT !.access = Gone(reqs[s].access)] \in TabRequests
    BY DEF ShellTypes, TabRequests, Ages, Gone
  <2>2. reqs' \in [Slots -> TabRequests]
    BY <1>13, <2>1 DEF ExpireAccess
  <2> QED BY <1>13, <2>2 DEF ExpireAccess, ShellTypes, Cookies, Ages
<1>14. CASE EndElsewhere
  BY <1>14 DEF EndElsewhere, ShellTypes
<1>15. CASE Reload
  BY <1>15 DEF Reload, ShellTypes
<1> QED BY <1>0, <1>1, <1>2, <1>3, <1>4, <1>5, <1>6, <1>7, <1>9, <1>10, <1>11, <1>12,
           <1>13, <1>14, <1>15 DEF ShellNext

-----------------------------------------------------------------------------
(* Nothing brings a session back, and what was lost stays lost.             *)
LEMMA CalmBefore ==
  ASSUME ShellTypes, [ShellNext]_shellVars, Calm'
  PROVE  Calm
<1> USE DEF Calm, ShellTypes
<1>0. CASE UNCHANGED shellVars
  BY <1>0 DEF shellVars
<1>1. ASSUME NEW s \in Slots, NEW kind \in {"strict", "page"}, Request(s, kind) PROVE Calm
  BY <1>1 DEF Request
<1>2. ASSUME NEW s \in Slots, AuthenticateStrict(s) \/ AuthenticatePage(s) PROVE Calm
  BY <1>2 DEF AuthenticateStrict, AuthenticatePage
<1>3. ASSUME NEW s \in Slots, Answer(s) \/ FindSession(s) \/ SettleRefresh(s) PROVE Calm
  BY <1>3 DEF Answer, FindSession, SettleRefresh
<1>4. ASSUME NEW s \in Slots, RotateToken(s) PROVE Calm
  BY <1>4 DEF RotateToken
<1>5. ASSUME NEW s \in Slots, FailRefresh(s) \/ LoseRefresh(s) \/ LoseRequest(s) PROVE Calm
  BY <1>5 DEF FailRefresh, LoseRefresh, LoseRequest
<1>6. CASE AgeAccess \/ ExpireAccess \/ EndElsewhere \/ Reload
  BY <1>6 DEF AgeAccess, ExpireAccess, EndElsewhere, Reload
<1> QED BY <1>0, <1>1, <1>2, <1>3, <1>4, <1>5, <1>6 DEF ShellNext

(* A refresh that is begun takes the token of the server; one that is under *)
(* way is joined.                                                           *)
LEMMA RefreshAuthGood ==
  ASSUME ShellTypes, RefreshGood, NEW s \in Slots, NEW r \in TabRequests,
         RefreshAuth(s, r, jar), UNCHANGED <<session, jar>>
  PROVE  /\ RefreshGood'
         /\ \E on \in Slots : reqs' = [reqs EXCEPT ![s] = [r EXCEPT !.on = on]]
<1>1. CASE Refreshing = {}
  <2>1. \A x \in Slots : rf[x].pc = "none"
    BY <1>1 DEF Refreshing
  <2>2. rf' = [rf EXCEPT ![s] = [pc |-> "sent", token |-> session.token, ok |-> FALSE]]
    BY <1>1, <2>1 DEF RefreshAuth, RefreshGood
  <2>3. RefreshGood'
    BY <2>1, <2>2 DEF RefreshGood, ShellTypes
  <2> QED BY <1>1, <2>3 DEF RefreshAuth
<1>2. CASE Refreshing # {}
  <2>1. rf' = rf /\ \E on \in Slots : reqs' = [reqs EXCEPT ![s] = [r EXCEPT !.on = on]]
    BY <1>2 DEF RefreshAuth, Refreshing
  <2> QED BY <2>1 DEF RefreshGood
<1> QED BY <1>1, <1>2

(* One request changes and the rest of the state stays.                     *)
LEMMA OneRequest ==
  ASSUME ShellTypes, \A x \in Slots : RequestGood(x), NEW s \in Slots, NEW q \in TabRequests,
         reqs' = [reqs EXCEPT ![s] = q], jar' = jar, tab'.boot => tab.boot,
         RequestGood(s)'
  PROVE  \A x \in Slots : RequestGood(x)'
<1> SUFFICES ASSUME NEW x \in Slots, x # s PROVE RequestGood(x)'
  OBVIOUS
<1>1. reqs'[x] = reqs[x]
  BY DEF ShellTypes
<1> QED BY <1>1 DEF RequestGood

LEMMA CalmStep ==
  ASSUME ShellTypes, ShellTypes', [ShellNext]_shellVars, Calm, Calm',
         TabGood, RefreshGood, \A x \in Slots : RequestGood(x)
  PROVE  TabGood' /\ RefreshGood' /\ \A x \in Slots : RequestGood(x)'
<1> DEFINE Good == TabGood /\ RefreshGood /\ \A x \in Slots : RequestGood(x)
<1> SUFFICES Good'
  OBVIOUS
<1> USE ShellBounds, NoReqType
<1>0. CASE UNCHANGED shellVars
  BY <1>0 DEF shellVars, TabGood, RefreshGood, RequestGood
<1>1. ASSUME NEW s \in Slots, NEW kind \in {"strict", "page"}, Request(s, kind) PROVE Good'
  <2>1. UNCHANGED <<session, tokens, jar, tab, lost>> /\ (tab.boot => kind = "strict")
    BY <1>1 DEF Request
  <2>2. TabGood'
    BY <2>1 DEF TabGood
  <2>3. CASE tab.meta = "due"
    <3> DEFINE r == [NoReq EXCEPT !.kind = kind, !.pc = "waiting"]
    <3>1. r \in TabRequests /\ r.pc = "waiting" /\ r.kind = kind
      BY DEF NoReq, TabRequests, Ages
    <3>2. RefreshAuth(s, r, jar)
      BY <1>1, <2>3 DEF Request
    <3> HIDE DEF r
    <3>3. RefreshGood' /\ \E on \in Slots : reqs' = [reqs EXCEPT ![s] = [r EXCEPT !.on = on]]
      BY <2>1, <3>1, <3>2, RefreshAuthGood
    <3>4. PICK on \in Slots : reqs' = [reqs EXCEPT ![s] = [r EXCEPT !.on = on]]
      BY <3>3
    <3>5. [r EXCEPT !.on = on] \in TabRequests
      BY <3>1 DEF TabRequests
    <3>6. RequestGood(s)'
      BY <2>1, <3>1, <3>4 DEF RequestGood, ShellTypes, TabRequests
    <3> QED BY <2>1, <2>2, <3>3, <3>4, <3>5, <3>6, OneRequest
  <2>4. CASE tab.meta # "due"
    <3> DEFINE q == Sent(s, [NoReq EXCEPT !.kind = kind])
    <3>1. /\ q \in TabRequests /\ q.pc = "sent" /\ q.kind = kind /\ q.retry = FALSE
          /\ q.access = jar.access /\ (q.early <=> jar.access = "fresh")
      BY DEF NoReq, Sent, TabRequests, Ages, ShellTypes, Cookies
    <3>2. reqs' = [reqs EXCEPT ![s] = q] /\ rf' = rf
      BY <1>1, <2>4 DEF Request
    <3>3. kind = "page" => jar.access = "fresh"
      BY <1>1, <2>1, <2>4 DEF Request, TabGood, ShellTypes
    <3> HIDE DEF q
    <3>4. RequestGood(s)'
      BY <2>1, <3>1, <3>2, <3>3 DEF RequestGood, ShellTypes, Valid
    <3>5. RefreshGood'
      BY <2>1, <3>2 DEF RefreshGood
    <3> QED BY <2>1, <2>2, <3>1, <3>2, <3>4, <3>5, OneRequest
  <2> QED BY <2>3, <2>4
<1>2. ASSUME NEW s \in Slots, NEW answer \in {"known", "plain", "401"},
             reqs' = [reqs EXCEPT ![s].pc = "answered", ![s].answer = answer,
                                  ![s].clears = FALSE],
             UNCHANGED <<session, jar, tab, rf>>,
             reqs[s].retry => answer # "401",
             reqs[s].kind = "strict" => answer \in {"known", "401"}, reqs[s].pc = "sent"
      PROVE  Good'
  <2> DEFINE q == [reqs[s] EXCEPT !.pc = "answered", !.answer = answer, !.clears = FALSE]
  <2>1. /\ q \in TabRequests /\ q.pc = "answered" /\ q.answer = answer /\ ~q.clears
        /\ q.kind = reqs[s].kind /\ q.retry = reqs[s].retry /\ q.access = reqs[s].access
    BY DEF ShellTypes, TabRequests
  <2>2. reqs' = [reqs EXCEPT ![s] = q]
    BY <1>2 DEF ShellTypes
  <2> HIDE DEF q
  <2>3. RequestGood(s)'
    BY <1>2, <2>1, <2>2 DEF RequestGood, ShellTypes
  <2>4. TabGood' /\ RefreshGood'
    BY <1>2 DEF TabGood, RefreshGood
  <2> QED BY <1>2, <2>1, <2>2, <2>3, <2>4, OneRequest
<1>3. ASSUME NEW s \in Slots, AuthenticateStrict(s) PROVE Good'
  <2> DEFINE answer == IF Valid(reqs[s].access) THEN "known" ELSE "401"
  <2>1. reqs[s].retry => answer # "401"
    BY <1>3 DEF AuthenticateStrict, RequestGood
  <2>2. reqs' = [reqs EXCEPT ![s].pc = "answered", ![s].answer = answer, ![s].clears = FALSE]
    BY <1>3 DEF AuthenticateStrict, Calm
  <2> QED BY <1>2, <1>3, <2>1, <2>2 DEF AuthenticateStrict
<1>4. ASSUME NEW s \in Slots, AuthenticatePage(s) PROVE Good'
  <2>1. Valid(reqs[s].access)
    BY <1>4 DEF AuthenticatePage, RequestGood
  <2>2. reqs' = [reqs EXCEPT ![s].pc = "answered", ![s].answer = "known", ![s].clears = FALSE]
    BY <1>4, <2>1 DEF AuthenticatePage, Calm
  <2> QED BY <1>2, <1>4, <2>2 DEF AuthenticatePage
<1>5. ASSUME NEW s \in Slots, Answer(s) PROVE Good'
  <2>1. reqs[s].pc = "answered" /\ jar' = jar /\ session' = session
    BY <1>5 DEF Answer, RequestGood, Cleared
  <2>2. CASE reqs[s].answer = "401" /\ ~reqs[s].retry
    <3> DEFINE r == [reqs[s] EXCEPT !.pc = "retrying"]
    <3>1. r \in TabRequests /\ r.pc = "retrying" /\ r.kind = reqs[s].kind
      BY DEF ShellTypes, TabRequests
    <3>2. RefreshAuth(s, r, jar) /\ tab' = tab
      BY <1>5, <2>1, <2>2 DEF Answer
    <3> HIDE DEF r
    <3>3. RefreshGood' /\ \E on \in Slots : reqs' = [reqs EXCEPT ![s] = [r EXCEPT !.on = on]]
      BY <2>1, <3>1, <3>2, RefreshAuthGood
    <3>4. PICK on \in Slots : reqs' = [reqs EXCEPT ![s] = [r EXCEPT !.on = on]]
      BY <3>3
    <3>5. [r EXCEPT !.on = on] \in TabRequests
      BY <3>1 DEF TabRequests
    <3>6. RequestGood(s)'
      BY <2>1, <3>1, <3>2, <3>4 DEF RequestGood, ShellTypes, TabRequests
    <3>7. TabGood'
      BY <2>1, <3>2 DEF TabGood
    <3> QED BY <2>1, <3>2, <3>3, <3>4, <3>5, <3>6, <3>7, OneRequest
  <2>3. CASE ~(reqs[s].answer = "401" /\ ~reqs[s].retry)
    <3>1. reqs' = [reqs EXCEPT ![s] = NoReq] /\ rf' = rf /\ ~tab'.boot
      BY <1>5, <2>3 DEF Answer
    <3>2. tab'.user <=> (tab.boot => reqs[s].answer = "known") /\ (~tab.boot => tab.user)
      BY <1>5, <2>3 DEF Answer, ShellTypes
    <3>3. tab'.meta = Synced(reqs[s])
      BY <1>5, <2>3 DEF Answer
    <3>4. tab.boot => reqs[s].answer = "known"
      BY <2>1, <2>3 DEF RequestGood
    <3>5. TabGood'
      BY <2>1, <3>1, <3>2, <3>3, <3>4 DEF TabGood, RequestGood, Synced
    <3>6. RefreshGood'
      BY <2>1, <3>1 DEF RefreshGood
    <3>7. RequestGood(s)'
      BY <3>1 DEF RequestGood, ShellTypes
    <3> QED BY <2>1, <3>1, <3>5, <3>6, <3>7, OneRequest
  <2> QED BY <2>2, <2>3
<1>6. ASSUME NEW s \in Slots, NEW f \in Refreshes, rf' = [rf EXCEPT ![s] = f],
             rf[s].pc # "none", UNCHANGED <<jar, tab, reqs>>, f.pc # "none",
             \A x \in Slots : x # s => rf[x].pc = "none",
             f.token = session'.token, f.pc = "done" => f.ok
      PROVE  Good'
  <2>1. TabGood' /\ \A x \in Slots : RequestGood(x)'
    BY <1>6 DEF TabGood, RequestGood
  <2>2. RefreshGood'
    BY <1>6 DEF RefreshGood, ShellTypes
  <2> QED BY <2>1, <2>2
<1>7. ASSUME NEW s \in Slots, FindSession(s) PROVE Good'
  <2> DEFINE f == [rf[s] EXCEPT !.pc = "found"]
  <2>1. f \in Refreshes /\ f.pc = "found" /\ f.token = session'.token
    BY <1>7 DEF FindSession, RefreshGood, ShellTypes, Refreshes
  <2>2. rf' = [rf EXCEPT ![s] = f]
    BY <1>7 DEF FindSession, RefreshGood, Calm
  <2>3. rf[s].pc # "none" /\ \A x \in Slots : x # s => rf[x].pc = "none"
    BY <1>7 DEF FindSession, RefreshGood
  <2> HIDE DEF f
  <2> QED BY <1>6, <1>7, <2>1, <2>2, <2>3 DEF FindSession
<1>8. ASSUME NEW s \in Slots, RotateToken(s) PROVE Good'
  <2> DEFINE f == [pc |-> "done", token |-> tokens', ok |-> TRUE]
  <2>1. rf' = [rf EXCEPT ![s] = f] /\ session'.token = tokens'
    BY <1>8 DEF RotateToken, Calm, ShellTypes
  <2>2. f \in Refreshes
    BY DEF Refreshes, ShellTypes
  <2>3. rf[s].pc # "none" /\ \A x \in Slots : x # s => rf[x].pc = "none"
    BY <1>8 DEF RotateToken, RefreshGood
  <2> QED BY <1>6, <1>8, <2>1, <2>2, <2>3 DEF RotateToken
<1>9. ASSUME NEW s \in Slots, FailRefresh(s) \/ LoseRefresh(s) PROVE Good'
  BY <1>9 DEF FailRefresh, LoseRefresh, Calm
<1>10. ASSUME NEW s \in Slots, SettleRefresh(s) PROVE Good'
  <2> DEFINE cookies == [access |-> "fresh", refresh |-> session.token]
  <2>1. Resume(s, TRUE, cookies) /\ session' = session
    BY <1>10 DEF SettleRefresh, RefreshGood, ShellTypes, Refreshes
  <2>2. jar' = cookies /\ tab' = tab /\ rf' = [rf EXCEPT ![s] = NoRefresh]
    BY <2>1 DEF Resume
  <2>3. TabGood'
    BY <2>2 DEF TabGood
  <2>4. RefreshGood'
    BY <1>10, <2>1, <2>2 DEF SettleRefresh, RefreshGood, ShellTypes, NoRefresh
  <2>5. ASSUME NEW x \in Slots PROVE RequestGood(x)'
    <3>1. CASE reqs[x].on # s
      <4>1. reqs'[x] = reqs[x]
        BY <2>1, <3>1 DEF Resume
      <4> QED BY <2>2, <4>1 DEF RequestGood
    <3>2. CASE reqs[x].on = s
      <4> DEFINE retry == reqs[x].pc = "retrying"
      <4>0. reqs'[x] = [reqs[x] EXCEPT !.pc = "sent", !.access = "fresh",
               !.refresh = session.token, !.early = TRUE, !.on = "none", !.retry = retry,
               !.answer = "none", !.clears = FALSE]
        BY <2>1, <3>2 DEF Resume
      <4> HIDE DEF retry
      <4>1. /\ reqs'[x].pc = "sent" /\ reqs'[x].access = "fresh" /\ reqs'[x].early
            /\ reqs'[x].kind = reqs[x].kind
        BY <4>0 DEF ShellTypes, TabRequests
      <4>2. reqs[x].pc # "idle"
        BY <3>2 DEF RequestGood
      <4> QED BY <2>2, <4>1, <4>2 DEF RequestGood, Valid
    <3> QED BY <3>1, <3>2
  <2> QED BY <2>3, <2>4, <2>5
<1>11. ASSUME NEW s \in Slots, LoseRequest(s) PROVE Good'
  <2>1. ~tab.boot
    BY <1>11 DEF LoseRequest, Calm, ShellTypes
  <2>2. UNCHANGED <<session, jar, rf>> /\ tab' = tab /\ reqs' = [reqs EXCEPT ![s] = NoReq]
    BY <1>11, <2>1 DEF LoseRequest, ShellTypes
  <2>3. TabGood' /\ RefreshGood'
    BY <2>2 DEF TabGood, RefreshGood
  <2>4. RequestGood(s)'
    BY <2>2 DEF RequestGood, ShellTypes
  <2> QED BY <2>2, <2>3, <2>4, OneRequest
<1>12. CASE AgeAccess
  <2>1. /\ jar.access = "fresh" /\ jar'.access = "soon" /\ jar'.refresh = jar.refresh
        /\ UNCHANGED <<session, rf>> /\ tab'.boot = tab.boot /\ tab'.user = tab.user
        /\ tab'.meta = IF tab.meta = "early" THEN "due" ELSE tab.meta
    BY <1>12 DEF AgeAccess, ShellTypes, Cookies
  <2>2. TabGood' /\ RefreshGood'
    BY <2>1 DEF TabGood, RefreshGood
  <2>3. ASSUME NEW x \in Slots PROVE RequestGood(x)'
    <3>1. reqs'[x] = [reqs[x] EXCEPT !.access = Soon(reqs[x].access)]
      BY <1>12 DEF AgeAccess
    <3> QED BY <2>1, <3>1 DEF RequestGood, ShellTypes, TabRequests, Ages, Soon, Valid
  <2> QED BY <2>2, <2>3
<1>13. CASE ExpireAccess
  <2>1. /\ jar.access = "soon" /\ jar'.access = "gone" /\ jar'.refresh = jar.refresh
        /\ UNCHANGED <<session, rf, tab>>
    BY <1>13 DEF ExpireAccess, ShellTypes, Cookies
  <2>2. TabGood' /\ RefreshGood'
    BY <2>1 DEF TabGood, RefreshGood
  <2>3. ASSUME NEW x \in Slots PROVE RequestGood(x)'
    <3>1. reqs'[x] = [reqs[x] EXCEPT !.access = Gone(reqs[x].access)]
      BY <1>13 DEF ExpireAccess
    <3>2. ~(reqs[x].pc = "sent" /\ reqs[x].early)
      BY <1>13 DEF ExpireAccess
    <3> QED BY <2>1, <3>1, <3>2 DEF RequestGood, ShellTypes, TabRequests, Ages, Gone, Valid
  <2> QED BY <2>2, <2>3
<1>14. CASE EndElsewhere
  BY <1>14 DEF EndElsewhere, Calm, ShellTypes
<1>15. CASE Reload
  BY <1>15 DEF Reload, TabGood, RefreshGood, RequestGood
<1> QED BY <1>0, <1>1, <1>3, <1>4, <1>5, <1>7, <1>8, <1>9, <1>10, <1>11, <1>12, <1>13,
           <1>14, <1>15 DEF ShellNext

LEMMA ShellInvStep == ShellInv /\ [ShellNext]_shellVars => ShellInv'
<1> SUFFICES ASSUME ShellInv, [ShellNext]_shellVars PROVE ShellInv'
  OBVIOUS
<1>1. ShellTypes /\ ShellTypes'
  BY ShellTypesStep DEF ShellInv
<1>2. CASE Calm'
  <2>1. Calm
    BY <1>1, <1>2, CalmBefore
  <2> QED BY <1>1, <1>2, <2>1, CalmStep DEF ShellInv
<1> QED BY <1>1, <1>2 DEF ShellInv

LEMMA ShellInvariant == ShellSpec => []ShellInv
BY ShellInitGood, ShellInvStep, PTL DEF ShellSpec

(* As long as the session lives on the server and nothing of the tab's was  *)
(* lost, the tab keeps its user and its browser the token of the server.    *)
THEOREM TabStaysSignedIn == ShellSpec => []SignedOutJustly
<1>1. ShellInv => SignedOutJustly
  BY DEF ShellInv, Calm, TabGood, RefreshGood, SignedOutJustly, Refreshing
<1> QED BY <1>1, ShellInvariant, PTL
=============================================================================

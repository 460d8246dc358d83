-------------------------------- MODULE SignIn --------------------------------
(***************************************************************************)
(* How accounts come to be and get in: local registration and the           *)
(* confirmation of addresses, the second factor, and identities of external *)
(* providers, linked, unlinked and configured.  A handler is a sequence of   *)
(* database calls; another request can run between any two.                 *)
(***************************************************************************)
EXTENDS Naturals, FiniteSets

CONSTANTS
  MaxUsers,      \* ids 1, 2, ... an account can get, in this order
  Providers,     \* identity providers
  EnvProviders,  \* those configured by the environment
  SamlProviders, \* those that answer with a signed assertion
  Uids,          \* accounts people have at a provider
  States,        \* values of the state parameter of a flow
  Links,         \* confirmation links, in the order they are made
  MaxSecrets,    \* secrets of the second factor that can be issued
  Handlers,      \* requests that can be in flight together
  MaxJobs        \* bound on the requests of a behaviour

VARIABLES
  made, local, verified, admin,  \* accounts; with a password; confirmed; administrators
  registration, required,        \* settings: registration open, confirmation required
  external2fa,                   \* setting: the second factor also after a provider
  link,                          \* confirmation links
  security, issued,              \* user_security; secrets issued so far
  pending,                       \* accounts whose browser holds a pending_2fa_token
  provider, identity,            \* identity_providers and their configuration; user_identities
  flow,                          \* pkceStore: flows on their way at a provider
  job, begun,                    \* requests in flight; how many have begun
  asked, proved, excused, unasked  \* history, see the properties

accounts == <<made, local, verified, admin>>
settings == <<registration, required, external2fa>>
factors == <<security, issued, pending>>
idps == <<provider, identity, flow>>
past == <<begun, asked, proved, excused, unasked>>
vars == <<accounts, settings, link, factors, idps, job, past>>

Users == 1..MaxUsers
Nobody == 0
Secrets == 0..MaxSecrets   \* 0: none

(* Room for the two accounts that may be there from the start. *)
ASSUME SignInAssumption ==
  /\ MaxUsers \in Nat \ {0, 1} /\ MaxSecrets \in Nat /\ MaxJobs \in Nat
  /\ EnvProviders \cup SamlProviders \subseteq Providers /\ Links \subseteq Nat

NoFactor == [secret |-> 0, on |-> FALSE]
NoLink == [user |-> Nobody, usable |-> FALSE]
NoFlow == [live |-> FALSE, user |-> Nobody]
NoJob == [pc |-> "idle", kind |-> "none", actor |-> Nobody, idp |-> "none", uid |-> "none",
          state |-> "none", link |-> 0, secret |-> 0, flag |-> FALSE, guarded |-> FALSE]

(* A fresh instance, or one with an administrator and somebody who came from *)
(* a provider, and with the bare row of a provider that the environment      *)
(* configured once.                                                         *)
Init ==
  /\ \E p \in Providers, x \in Uids, running \in BOOLEAN, orphans \in BOOLEAN :
       /\ made = IF running THEN {1, 2} ELSE {}
       /\ local = IF running THEN {1} ELSE {}
       /\ verified = local /\ admin = local
       /\ provider = [q \in Providers |->
            IF running /\ q = p /\ q \notin EnvProviders THEN "on"
            ELSE IF running /\ (q = p \/ (orphans /\ q \notin EnvProviders)) THEN "bare" ELSE "none"]
       /\ identity = [i \in Users \X Providers \X Uids |-> IF running /\ i = <<2, p, x>> THEN 1 ELSE 0]
  /\ registration \in BOOLEAN /\ external2fa \in BOOLEAN
  /\ required = FALSE
  /\ link = [l \in Links |-> NoLink]
  /\ security = [u \in Users |-> NoFactor]
  /\ issued = 0
  /\ pending = {}
  /\ flow = [s \in States |-> NoFlow]
  /\ job = [h \in Handlers |-> NoJob]
  /\ begun = 0
  /\ asked = {} /\ proved = {} /\ excused = {} /\ unasked = {}

-----------------------------------------------------------------------------
(* Requests.                                                                *)
At(h, kind, pc) == job[h].kind = kind /\ job[h].pc = pc
Busy(h) == job[h].pc # "idle"

(* What a request checks and then writes: the second factor of an account,   *)
(* the identities of an account, an identity of a provider.                 *)
Touches(j) ==
  CASE j.kind \in {"setup", "confirm", "disable"} -> {<<"factor", j.actor>>}
    [] j.kind = "unlink" -> {<<"ways", j.actor>>}
    [] j.kind = "callback" -> {<<j.idp, j.uid>>}
    [] OTHER -> {}

Send(h, j) ==
  /\ ~Busy(h) /\ begun < MaxJobs
  /\ job' = [job EXCEPT ![h] = j]
  /\ begun' = begun + 1
  /\ excused' = excused \cup UNION {Touches(j) \cap Touches(job[q]) : q \in {p \in Handlers \ {h} : Busy(p)}}
  /\ UNCHANGED <<accounts, settings, link, factors, idps, asked, proved, unasked>>

Done(h) == job' = [job EXCEPT ![h] = NoJob]
To(h, pc) == job' = [job EXCEPT ![h].pc = pc]

(* Any await may fail; the handler answers with an error.  A registration can *)
(* leave its account behind.                                                *)
Fail(h) ==
  /\ Busy(h) /\ Done(h)
  /\ excused' = IF At(h, "register", "mark") THEN excused \cup {<<"failed", job[h].actor>>} ELSE excused
  /\ UNCHANGED <<accounts, settings, link, factors, idps, begun, asked, proved, unasked>>

-----------------------------------------------------------------------------
(* Registration and the confirmation of addresses.                          *)
Register(h) == Send(h, [NoJob EXCEPT !.kind = "register", !.pc = "allowed"])

EnsureAllowed(h) ==
  /\ At(h, "register", "allowed")
  /\ IF made = {} \/ registration THEN To(h, "policy") ELSE Done(h)
  /\ UNCHANGED <<accounts, settings, link, factors, idps, past>>

(* Is it the first account, and if not, must the address be confirmed? *)
ReadPolicy(h) ==
  /\ At(h, "register", "policy")
  /\ job' = [job EXCEPT ![h].pc = "count", ![h].flag = made # {} /\ required]
  /\ UNCHANGED <<accounts, settings, link, factors, idps, past>>

(* users.count() of the transaction, which another insert can follow. *)
CountUsers(h) ==
  /\ At(h, "register", "count")
  /\ job' = [job EXCEPT ![h].pc = IF made = {} THEN "first" ELSE "insert"]
  /\ UNCHANGED <<accounts, settings, link, factors, idps, past>>

NewUser(u) == u \in Users /\ u = Cardinality(made) + 1

InsertAccount(h) == \E u \in Users :
  /\ NewUser(u)
  /\ \/ At(h, "register", "first") /\ admin' = admin \cup {u}
     \/ At(h, "register", "insert") /\ UNCHANGED admin
  /\ made' = made \cup {u} /\ local' = local \cup {u}
  /\ asked' = IF job[h].flag THEN asked \cup {u} ELSE asked
  /\ job' = [job EXCEPT ![h].actor = u, ![h].pc = IF job[h].flag THEN "invalidate" ELSE "mark"]
  /\ UNCHANGED <<verified, settings, link, factors, idps, begun, proved, excused, unasked>>

(* Mutant of MarkVerified: left to the day confirmation becomes required. *)
LeaveUnverified(h) ==
  /\ At(h, "register", "mark")
  /\ Done(h)
  /\ UNCHANGED <<accounts, settings, link, factors, idps, past>>

MarkVerified(h) ==
  /\ At(h, "register", "mark")
  /\ verified' = verified \cup {job[h].actor}
  /\ Done(h)
  /\ UNCHANGED <<made, local, admin, settings, link, factors, idps, past>>

Resend(h, u) ==
  Send(h, [NoJob EXCEPT !.kind = "resend", !.pc = "account", !.actor = u])

FindUnverified(h) ==
  /\ At(h, "resend", "account")
  /\ IF job[h].actor \in local \ verified THEN To(h, "invalidate") ELSE Done(h)
  /\ UNCHANGED <<accounts, settings, link, factors, idps, past>>

(* sendForUser: the links so far die, a new one is stored and mailed. *)
InvalidateLinks(h) ==
  /\ job[h].pc = "invalidate"
  /\ link' = [l \in Links |-> IF link[l].user = job[h].actor THEN [link[l] EXCEPT !.usable = FALSE] ELSE link[l]]
  /\ To(h, "store")
  /\ UNCHANGED <<accounts, settings, factors, idps, past>>

StoreLink(h) == \E l \in Links :
  /\ job[h].pc = "store"
  /\ link[l] = NoLink /\ \A k \in Links : k < l => link[k] # NoLink
  /\ link' = [link EXCEPT ![l] = [user |-> job[h].actor, usable |-> TRUE]]
  /\ Done(h)
  /\ UNCHANGED <<accounts, settings, factors, idps, past>>

OpenLink(h, l) ==
  Send(h, [NoJob EXCEPT !.kind = "verify", !.pc = "find", !.link = l])

(* Unused and not expired. *)
FindLink(h) ==
  /\ At(h, "verify", "find")
  /\ IF link[job[h].link].usable
     THEN job' = [job EXCEPT ![h].pc = "mark", ![h].actor = link[job[h].link].user]
     ELSE Done(h)
  /\ UNCHANGED <<accounts, settings, link, factors, idps, past>>

ConfirmAddress(h) ==
  /\ At(h, "verify", "mark")
  /\ verified' = verified \cup {job[h].actor}
  /\ To(h, "use")
  /\ UNCHANGED <<made, local, admin, settings, link, factors, idps, past>>

UseLink(h) ==
  /\ At(h, "verify", "use")
  /\ link' = [link EXCEPT ![job[h].link].usable = FALSE]
  /\ Done(h)
  /\ UNCHANGED <<accounts, settings, factors, idps, past>>

Expire(l) ==
  /\ link[l].usable
  /\ link' = [link EXCEPT ![l].usable = FALSE]
  /\ UNCHANGED <<accounts, settings, factors, idps, job, past>>

(* PUT email_verification_policy. *)
SetPolicy(h, on) ==
  Send(h, [NoJob EXCEPT !.kind = "policy", !.pc = IF on THEN "prepare" ELSE "set", !.flag = on])

PreparePolicy(h) ==
  /\ At(h, "policy", "prepare")
  /\ verified' = verified \cup local
  /\ To(h, "set")
  /\ UNCHANGED <<made, local, admin, settings, link, factors, idps, past>>

StorePolicy(h) ==
  /\ At(h, "policy", "set")
  /\ required' = job[h].flag
  /\ Done(h)
  /\ UNCHANGED <<accounts, registration, external2fa, link, factors, idps, past>>

-----------------------------------------------------------------------------
(* Sessions.  guarded: the second factor has been on for the account since    *)
(* the request could first have read it.                                    *)
Guarded(u) == u # Nobody /\ security[u].on

SessionOpened(h) ==
  unasked' = IF job[h].guarded THEN unasked \cup {job[h].actor} ELSE unasked

(* POST /login with the right password. *)
Login(h, u) ==
  /\ u \in local
  /\ Send(h, [NoJob EXCEPT !.kind = "login", !.pc = "account", !.actor = u, !.guarded = Guarded(u)])

LoginAccount(h) ==
  /\ At(h, "login", "account")
  /\ job' = [job EXCEPT ![h].pc = "policy", ![h].flag = job[h].actor \in verified]
  /\ UNCHANGED <<accounts, settings, link, factors, idps, past>>

(* Read after the password was compared. *)
LoginPolicy(h) ==
  /\ At(h, "login", "policy")
  /\ IF required /\ ~job[h].flag THEN Done(h) ELSE To(h, "factor")
  /\ UNCHANGED <<accounts, settings, link, factors, idps, past>>

AskFactor(h) ==
  /\ pending' = pending \cup {job[h].actor}
  /\ Done(h)
  /\ UNCHANGED <<accounts, settings, link, security, issued, idps, past>>

LoginFactor(h) ==
  /\ At(h, "login", "factor")
  /\ IF security[job[h].actor].on
     THEN AskFactor(h)
     ELSE To(h, "open") /\ UNCHANGED <<accounts, settings, link, factors, idps, past>>

OpenSession(h) ==
  /\ job[h].pc = "open"
  /\ SessionOpened(h)
  /\ Done(h)
  /\ pending' = pending \ {job[h].actor}
  /\ UNCHANGED <<accounts, settings, link, security, issued, idps, begun, asked, proved, excused>>

(* POST /login/verify-2fa: a code of the secret the account holds, or not. *)
VerifyFactor(h, u, s) ==
  /\ u \in pending
  /\ Send(h, [NoJob EXCEPT !.kind = "code", !.pc = "verify", !.actor = u, !.secret = s])

CheckCode(h) ==
  /\ At(h, "code", "verify")
  /\ LET f == security[job[h].actor] IN
       IF f.secret # 0 /\ f.secret = job[h].secret THEN To(h, "open") ELSE Done(h)
  /\ UNCHANGED <<accounts, settings, link, factors, idps, past>>

-----------------------------------------------------------------------------
(* The second factor, set up by somebody signed in.                         *)
Unguard(u) == [q \in Handlers |-> IF job[q].actor = u THEN [job[q] EXCEPT !.guarded = FALSE] ELSE job[q]]

AskSetup(h, u) == u \in made /\ Send(h, [NoJob EXCEPT !.kind = "setup", !.pc = "save", !.actor = u])

(* Mutant of SavePendingSecret: the new secret replaces one that is on. *)
SaveSecretOnly(h) ==
  /\ At(h, "setup", "save")
  /\ issued < MaxSecrets /\ issued' = issued + 1
  /\ security' = [security EXCEPT ![job[h].actor].secret = issued + 1]
  /\ job' = [Unguard(job[h].actor) EXCEPT ![h] = NoJob]
  /\ UNCHANGED <<accounts, settings, link, pending, idps, past>>

(* A new secret, not on before a code of it is given. *)
SavePendingSecret(h) ==
  /\ At(h, "setup", "save")
  /\ issued < MaxSecrets /\ issued' = issued + 1
  /\ security' = [security EXCEPT ![job[h].actor] = [secret |-> issued + 1, on |-> FALSE]]
  /\ job' = [Unguard(job[h].actor) EXCEPT ![h] = NoJob]
  /\ UNCHANGED <<accounts, settings, link, pending, idps, past>>

AskConfirm(h, u, s) ==
  /\ u \in made
  /\ Send(h, [NoJob EXCEPT !.kind = "confirm", !.pc = "verify", !.actor = u, !.secret = s])

ConfirmCode(h) ==
  /\ At(h, "confirm", "verify")
  /\ LET u == job[h].actor IN
       IF security[u].secret # 0 /\ security[u].secret = job[h].secret
       THEN To(h, "read") /\ proved' = proved \cup {<<u, job[h].secret>>}
       ELSE Done(h) /\ UNCHANGED proved
  /\ UNCHANGED <<accounts, settings, link, factors, idps, begun, asked, excused, unasked>>

(* The secret is read again. *)
ReadSecret(h) ==
  /\ At(h, "confirm", "read")
  /\ LET s == security[job[h].actor].secret IN
       IF s = 0 THEN Done(h) ELSE job' = [job EXCEPT ![h].pc = "enable", ![h].secret = s]
  /\ UNCHANGED <<accounts, settings, link, factors, idps, past>>

Enable(h) ==
  /\ At(h, "confirm", "enable")
  /\ security' = [security EXCEPT ![job[h].actor] = [secret |-> job[h].secret, on |-> TRUE]]
  /\ Done(h)
  /\ UNCHANGED <<accounts, settings, link, issued, pending, idps, past>>

AskDisable(h, u) ==
  u \in made /\ Send(h, [NoJob EXCEPT !.kind = "disable", !.pc = "save", !.actor = u])

Disable(h) ==
  /\ At(h, "disable", "save")
  /\ security' = [security EXCEPT ![job[h].actor] = NoFactor]
  /\ job' = [Unguard(job[h].actor) EXCEPT ![h] = NoJob]
  /\ UNCHANGED <<accounts, settings, link, issued, pending, idps, past>>

-----------------------------------------------------------------------------
(* Identities of external providers.                                        *)

(* getRuntimeIdp: configured by the environment, or in the database. *)
Runtime(p) == p \in EnvProviders \/ provider[p] \in {"on", "off"}

(* It also makes the row of a provider of the environment. *)
Registered(p) == IF p \in EnvProviders /\ provider[p] = "none" THEN [provider EXCEPT ![p] = "bare"] ELSE provider

RowsOf(u) == {i \in DOMAIN identity : i[1] = u /\ identity[i] > 0}
HeldBy(p, x) == {u \in Users : identity[<<u, p, x>>] > 0}
WithIdentities(p) == \E i \in DOMAIN identity : i[2] = p /\ identity[i] > 0

(* Mutant of AtMostOne: off by one. *)
NoneLeft(u) == RowsOf(u) = {}

(* user_identities.count: one or more rows for a triple. *)
AtMostOne(u) ==
  /\ Cardinality(RowsOf(u)) <= 1
  /\ \A i \in RowsOf(u) : identity[i] = 1

(* GET /auth/:provider/login, by a visitor or by somebody who links. *)
GenerateAuthUrl(u, p, s) ==
  /\ begun < MaxJobs /\ begun' = begun + 1
  /\ u \in made \cup {Nobody} /\ ~flow[s].live /\ Runtime(p)
  /\ flow' = [flow EXCEPT ![s] = [live |-> TRUE, user |-> u]]
  /\ provider' = Registered(p)
  /\ UNCHANGED <<accounts, settings, link, factors, identity, job, asked, proved, excused, unasked>>

(* The provider sends the browser back, signed in as "here" or not; a state    *)
(* that is not stored is refused.                                           *)
Callback(h, s, p, x, here) ==
  LET u == IF flow[s].user # Nobody THEN flow[s].user ELSE here IN
  /\ flow[s].live
  /\ Send(h, [NoJob EXCEPT !.kind = "callback", !.pc = "provider", !.state = s, !.idp = p,
                !.uid = x, !.actor = u, !.flag = u # Nobody])

FindProvider(h) ==
  /\ At(h, "callback", "provider")
  /\ provider' = Registered(job[h].idp)
  /\ IF Runtime(job[h].idp) THEN To(h, "exchange") ELSE Done(h)
  /\ UNCHANGED <<accounts, settings, link, factors, identity, flow, past>>

(* The code is exchanged for tokens and the ID token or user info verified; a  *)
(* SAML provider's assertion is validated instead.  Either is refused by Fail. *)
ExchangeCode(h) ==
  /\ At(h, "callback", "exchange") /\ job[h].idp \notin SamlProviders
  /\ To(h, "identity")
  /\ UNCHANGED <<accounts, settings, link, factors, idps, past>>

ValidateAssertion(h) ==
  /\ At(h, "callback", "exchange") /\ job[h].idp \in SamlProviders
  /\ To(h, "identity")
  /\ UNCHANGED <<accounts, settings, link, factors, idps, past>>

(* findOrCreateUser: the account that holds the identity, else the account    *)
(* that links, else a new one.                                              *)
FindIdentity(h) ==
  /\ At(h, "callback", "identity")
  /\ LET held == HeldBy(job[h].idp, job[h].uid) IN
       IF held # {}
       THEN \E u \in held : job' = [job EXCEPT ![h].actor = u, ![h].pc = "finish", ![h].guarded = Guarded(u)]
       ELSE To(h, IF job[h].actor # Nobody THEN "link" ELSE "create")
  /\ UNCHANGED <<accounts, settings, link, factors, idps, past>>

AddIdentity(u, p, x) ==
  /\ provider[p] # "none"
  /\ identity' = [identity EXCEPT ![<<u, p, x>>] = @ + 1]

LinkIdentity(h) ==
  LET u == job[h].actor p == job[h].idp IN
  /\ At(h, "callback", "link")
  /\ AddIdentity(u, p, job[h].uid)
  /\ excused' = IF \E i \in RowsOf(u) : i[2] = p THEN excused \cup {<<"ways", u>>} ELSE excused
  /\ job' = [job EXCEPT ![h].pc = "finish", ![h].guarded = Guarded(u)]
  /\ UNCHANGED <<accounts, settings, link, factors, provider, flow, begun, asked, proved, unasked>>

CreateUserWithIdentity(h) == \E u \in Users :
  /\ At(h, "callback", "create")
  /\ NewUser(u)
  /\ made' = made \cup {u}
  /\ AddIdentity(u, job[h].idp, job[h].uid)
  /\ job' = [job EXCEPT ![h].pc = "finish", ![h].actor = u]
  /\ UNCHANGED <<local, verified, admin, settings, link, factors, provider, flow, past>>

(* The flow ends; the second factor is asked unless the account was linking.   *)
FinishCallback(h) ==
  /\ At(h, "callback", "finish")
  /\ flow' = [flow EXCEPT ![job[h].state] = NoFlow]
  /\ LET ask == ~job[h].flag /\ external2fa IN
       job' = [job EXCEPT ![h].pc = IF ask THEN "factor" ELSE "open", ![h].guarded = ask /\ @]
  /\ UNCHANGED <<accounts, settings, link, factors, provider, identity, past>>

CallbackFactor(h) ==
  /\ At(h, "callback", "factor")
  /\ IF security[job[h].actor].on
     THEN AskFactor(h)
     ELSE To(h, "open") /\ UNCHANGED <<accounts, settings, link, factors, idps, past>>

AskUnlink(h, u, p) ==
  /\ u \in made
  /\ Send(h, [NoJob EXCEPT !.kind = "unlink", !.pc = "count", !.actor = u, !.idp = p])

CountIdentities(h) ==
  /\ At(h, "unlink", "count")
  /\ IF AtMostOne(job[h].actor) THEN Done(h) ELSE To(h, "delete")
  /\ UNCHANGED <<accounts, settings, link, factors, idps, past>>

DeleteIdentity(h) ==
  LET j == job[h] IN
  /\ At(h, "unlink", "delete")
  /\ provider' = Registered(j.idp)
  /\ identity' = IF ~Runtime(j.idp) THEN identity
                 ELSE [i \in DOMAIN identity |-> IF i[1] = j.actor /\ i[2] = j.idp THEN 0 ELSE identity[i]]
  /\ Done(h)
  /\ UNCHANGED <<accounts, settings, link, factors, flow, past>>

-----------------------------------------------------------------------------
(* The providers, by an administrator.  Those of the environment are not      *)
(* changed; a row that identities point at cannot go.                       *)
Configure(p, to) ==
  /\ begun < MaxJobs /\ begun' = begun + 1
  /\ p \notin EnvProviders
  /\ provider' = [provider EXCEPT ![p] = to]
  /\ UNCHANGED <<accounts, settings, link, factors, identity, flow, job, asked, proved, excused, unasked>>

UpsertIdp(p) == provider[p] # "on" /\ \E to \in {"on", "off"} : Configure(p, to)
ToggleIdp(p) == provider[p] \in {"on", "off"} /\ Configure(p, IF provider[p] = "on" THEN "off" ELSE "on")
DeleteIdp(p) == provider[p] # "none" /\ ~WithIdentities(p) /\ Configure(p, "none")
CleanupOrphan(p) == ~Runtime(p) /\ provider[p] = "bare" /\ ~WithIdentities(p) /\ Configure(p, "none")

-----------------------------------------------------------------------------
Submit(h) ==
  /\ ~Busy(h) /\ begun < MaxJobs
  /\ \/ Register(h)
     \/ \E u \in local : Resend(h, u) \/ Login(h, u)
     \/ \E l \in Links : link[l] # NoLink /\ OpenLink(h, l)
     \/ \E on \in BOOLEAN : SetPolicy(h, on)
     \/ \E u \in made : AskSetup(h, u) \/ AskDisable(h, u)
     \/ \E u \in made, s \in 1..issued : VerifyFactor(h, u, s) \/ AskConfirm(h, u, s)
     \/ \E s \in States, p \in Providers, x \in Uids, u \in made \cup {Nobody} : Callback(h, s, p, x, u)
     \/ \E u \in made, p \in Providers : AskUnlink(h, u, p)

Steps(h) ==
  \/ EnsureAllowed(h) \/ ReadPolicy(h) \/ CountUsers(h) \/ InsertAccount(h) \/ MarkVerified(h)
  \/ FindUnverified(h) \/ InvalidateLinks(h) \/ StoreLink(h)
  \/ FindLink(h) \/ ConfirmAddress(h) \/ UseLink(h)
  \/ PreparePolicy(h) \/ StorePolicy(h)
  \/ LoginAccount(h) \/ LoginPolicy(h) \/ LoginFactor(h) \/ OpenSession(h) \/ CheckCode(h)
  \/ SavePendingSecret(h) \/ ConfirmCode(h) \/ ReadSecret(h) \/ Enable(h) \/ Disable(h)
  \/ FindProvider(h) \/ ExchangeCode(h) \/ ValidateAssertion(h) \/ FindIdentity(h) \/ LinkIdentity(h) \/ CreateUserWithIdentity(h)
  \/ FinishCallback(h) \/ CallbackFactor(h)
  \/ CountIdentities(h) \/ DeleteIdentity(h)
  \/ Fail(h)

Next ==
  \/ \E h \in Handlers : Submit(h) \/ Steps(h)
  \/ \E l \in Links : Expire(l)
  \/ \E u \in made \cup {Nobody}, p \in Providers, s \in States : GenerateAuthUrl(u, p, s)
  \/ \E p \in Providers : UpsertIdp(p) \/ ToggleIdp(p) \/ DeleteIdp(p) \/ CleanupOrphan(p)

Spec == Init /\ [][Next]_vars

-----------------------------------------------------------------------------
TypeOK ==
  /\ local \subseteq made /\ verified \subseteq local /\ admin \subseteq local
  /\ made \subseteq Users /\ pending \subseteq made
  /\ security \in [Users -> [secret : Secrets, on : BOOLEAN]] /\ issued \in Secrets
  /\ provider \in [Providers -> {"none", "bare", "off", "on"}]
  /\ flow \in [States -> [live : BOOLEAN, user : made \cup {Nobody}]]
  /\ link \in [Links -> [user : made \cup {Nobody}, usable : BOOLEAN]]

Registering(u) == \E h \in Handlers : At(h, "register", "mark") /\ job[h].actor = u

(* Whoever was not asked to confirm an address (registered while no           *)
(* confirmation was required) can sign in whatever becomes of the policy,     *)
(* and the first account with a password administrates: registerUser,        *)
(* prepareRequiredPolicy and createLocalAccount.                            *)
NobodyLockedOut ==
  /\ TypeOK
  /\ \A u \in local \ asked : u \in verified \/ Registering(u) \/ <<"failed", u>> \in excused
  /\ 1 \in local => 1 \in admin

(* No session is opened without a code while the second factor is on, and the  *)
(* secret that is on is one a code was given for, unless settings requests of  *)
(* the account overlapped: login, completeExternalAuthentication,            *)
(* savePendingSecret, confirmSetup.                                         *)
SecondFactorKept ==
  /\ unasked = {}
  /\ \A u \in made : security[u].on /\ <<"factor", u>> \notin excused
       => <<u, security[u].secret>> \in proved

(* Every account keeps a password or an identity, an identity belongs to one   *)
(* account and to a provider that exists, unless unlinks or callbacks          *)
(* overlapped or a provider was linked twice: unlinkService, findOrCreateUser, *)
(* deleteIdp.                                                               *)
WaysIn ==
  /\ \A u \in made : u \in local \/ RowsOf(u) # {} \/ <<"ways", u>> \in excused
  /\ \A p \in Providers, x \in Uids : Cardinality(HeldBy(p, x)) > 1 => <<p, x>> \in excused
  /\ \A i \in DOMAIN identity : identity[i] > 0 => provider[i[2]] # "none"
=============================================================================

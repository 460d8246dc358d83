--------------------------- MODULE PasswordReset ---------------------------
(***************************************************************************)
(* Forgotten passwords of one local account: PasswordResetService.request  *)
(* and reset, beside the two other handlers that read or write the same    *)
(* password, login and /password/change.  The tables are local_accounts,   *)
(* password_reset_tokens and user_sessions (here only the ids of its rows). *)
(*                                                                         *)
(* Each action is the code between two awaits with the statement it waits  *)
(* for: nothing in these handlers is a transaction.  Session ids and       *)
(* tokens are random and never repeat; here they are numbered in order.    *)
(***************************************************************************)
EXTENDS Naturals, FiniteSets

CONSTANTS
  Requests,      \* requests that can be in flight together
  Passwords,     \* passwords the account may have
  FirstPassword,
  MaxTokens,     \* bound on the reset tokens ever created
  MaxSessions    \* bound on the sessions ever created

VARIABLES
  password,   \* local_accounts.password_hash
  tokens,     \* used_at of every row of password_reset_tokens
  made,       \* tokens ever created
  expired,    \* tokens older than TOKEN_TTL_MS
  recent,     \* the newest token is younger than REQUEST_COOLDOWN_MS
  mailed,     \* tokens the owner of the address has received
  sessions,   \* ids in user_sessions
  opened,     \* sessions ever created
  req,        \* every request in flight
  resets,     \* how often each token was answered with a new password
  tangled     \* two requests that use links have overlapped

vars == <<password, tokens, made, expired, recent, mailed, sessions, opened, req, resets,
          tangled>>

TokenIds == 1..MaxTokens
SessionIds == 1..MaxSessions
NoToken == 0

Kinds == {"request", "reset", "login", "change"}
PCs == {"idle", "cooldown", "invalidate", "create", "mail",
        "lookup", "write", "endSessions", "markUsed", "spend",
        "verify", "open", "verifyCurrent", "writeChange", "answer"}

(* token: the one presented or created.  given, wanted: the passwords in    *)
(* the body.  seen: the sessions there were when the password was written. *)
(* known: the tokens there were when the reset looked its token up.        *)
Jobs == [pc : PCs, kind : Kinds, token : TokenIds \cup {NoToken},
         given : Passwords, wanted : Passwords, seen : SUBSET SessionIds,
         known : SUBSET TokenIds, ok : BOOLEAN]

NoJob == [pc |-> "idle", kind |-> "request", token |-> NoToken,
          given |-> FirstPassword, wanted |-> FirstPassword, seen |-> {},
          known |-> {}, ok |-> FALSE]

ASSUME BoundsAssumption ==
  FirstPassword \in Passwords /\ MaxTokens \in Nat /\ MaxSessions \in Nat

Init ==
  /\ password = FirstPassword
  /\ tokens = [t \in TokenIds |-> "none"]
  /\ made = 0
  /\ expired = {}
  /\ recent = FALSE
  /\ mailed = {}
  /\ sessions = {}
  /\ opened = 0
  /\ req = [r \in Requests |-> NoJob]
  /\ resets = [t \in TokenIds |-> 0]
  /\ tangled = FALSE

-----------------------------------------------------------------------------
At(r, kind, pc) == req[r].kind = kind /\ req[r].pc = pc

Goto(r, pc) == req' = [req EXCEPT ![r].pc = pc]

(* The passwords of the body are forgotten with the answer.                *)
Answer(r, ok) ==
  req' = [req EXCEPT ![r].pc = "answer", ![r].ok = ok,
                     ![r].given = FirstPassword, ![r].wanted = FirstPassword]

(* A handler that reads or writes password_reset_tokens; login and change   *)
(* leave them alone.                                                       *)
LinkPCs == {"cooldown", "invalidate", "create", "mail",
            "lookup", "write", "endSessions", "markUsed", "spend"}
OnLinks(r) == req[r].pc \in LinkPCs

Send(r, kind, pc, token, given, wanted) ==
  /\ req[r].pc = "idle"
  /\ req' = [req EXCEPT ![r] = [NoJob EXCEPT !.kind = kind, !.pc = pc, !.token = token,
                                             !.given = given, !.wanted = wanted]]
  /\ tangled' = (tangled \/ (pc \in LinkPCs /\ \E q \in Requests : OnLinks(q)))
  /\ UNCHANGED <<password, tokens, made, expired, recent, mailed, sessions, opened, resets>>

(* used_at = NOW() for every unused token of the account.                  *)
AllUsed == [t \in TokenIds |-> IF tokens[t] = "unused" THEN "used" ELSE tokens[t]]

-----------------------------------------------------------------------------
(* request, for an address that has an account allowed to reset.           *)
SendRequest(r) == Send(r, "request", "cooldown", NoToken, FirstPassword, FirstPassword)

CheckCooldown(r) ==
  /\ At(r, "request", "cooldown")
  /\ IF recent THEN Answer(r, TRUE) ELSE Goto(r, "invalidate")
  /\ UNCHANGED <<password, tokens, made, expired, recent, mailed, sessions, opened, resets,
                 tangled>>

(* Mutant of InvalidateOlder: older links are left alone.                  *)
InvalidateNothing(r) ==
  /\ At(r, "request", "invalidate")
  /\ Goto(r, "create")
  /\ UNCHANGED <<password, tokens, made, expired, recent, mailed, sessions, opened, resets,
                 tangled>>

InvalidateOlder(r) ==
  /\ At(r, "request", "invalidate")
  /\ tokens' = AllUsed
  /\ Goto(r, "create")
  /\ UNCHANGED <<password, made, expired, recent, mailed, sessions, opened, resets,
                 tangled>>

(* Mutant of CreateToken: a link is made and its row is not stored.        *)
CreateTokenUnsaved(r) ==
  /\ At(r, "request", "create")
  /\ made < MaxTokens
  /\ made' = made + 1
  /\ recent' = TRUE
  /\ req' = [req EXCEPT ![r].pc = "mail", ![r].token = made']
  /\ UNCHANGED <<password, tokens, expired, mailed, sessions, opened, resets,
                 tangled>>

(* Mutant of CreateToken: the older tokens are invalidated after it.       *)
CreateTokenThenInvalidate(r) ==
  /\ At(r, "request", "create")
  /\ made < MaxTokens
  /\ made' = made + 1
  /\ tokens' = [AllUsed EXCEPT ![made'] = "used"]
  /\ recent' = TRUE
  /\ req' = [req EXCEPT ![r].pc = "mail", ![r].token = made']
  /\ UNCHANGED <<password, expired, mailed, sessions, opened, resets,
                 tangled>>

CreateToken(r) ==
  /\ At(r, "request", "create")
  /\ made < MaxTokens
  /\ made' = made + 1
  /\ tokens' = [tokens EXCEPT ![made'] = "unused"]
  /\ recent' = TRUE
  /\ req' = [req EXCEPT ![r].pc = "mail", ![r].token = made']
  /\ UNCHANGED <<password, expired, mailed, sessions, opened, resets,
                 tangled>>

SendMail(r) ==
  /\ At(r, "request", "mail")
  /\ mailed' = mailed \cup {req[r].token}
  /\ Answer(r, TRUE)
  /\ UNCHANGED <<password, tokens, made, expired, recent, sessions, opened, resets,
                 tangled>>

-----------------------------------------------------------------------------
(* reset *)
SendReset(r, t, p) == t \in mailed /\ Send(r, "reset", "lookup", t, FirstPassword, p)

(* Mutant of LookUp: only the age of the token is looked at.               *)
LookUpUnexpired(r) ==
  /\ At(r, "reset", "lookup")
  /\ IF req[r].token \notin expired
     THEN req' = [req EXCEPT ![r].pc = "write", ![r].known = 1..made]
     ELSE Answer(r, FALSE)
  /\ UNCHANGED <<password, tokens, made, expired, recent, mailed, sessions, opened, resets,
                 tangled>>

LookUp(r) ==
  /\ At(r, "reset", "lookup")
  /\ IF tokens[req[r].token] = "unused" /\ req[r].token \notin expired
     THEN req' = [req EXCEPT ![r].pc = "write", ![r].known = 1..made]
     ELSE Answer(r, FALSE)
  /\ UNCHANGED <<password, tokens, made, expired, recent, mailed, sessions, opened, resets,
                 tangled>>

(* Mutant of WritePassword: no session is ended.                           *)
WritePasswordOnly(r) ==
  /\ At(r, "reset", "write")
  /\ password' = req[r].wanted
  /\ req' = [req EXCEPT ![r].pc = "markUsed", ![r].seen = sessions]
  /\ UNCHANGED <<tokens, made, expired, recent, mailed, sessions, opened, resets,
                 tangled>>

WritePassword(r) ==
  /\ At(r, "reset", "write")
  /\ password' = req[r].wanted
  /\ req' = [req EXCEPT ![r].pc = "endSessions", ![r].seen = sessions]
  /\ UNCHANGED <<tokens, made, expired, recent, mailed, sessions, opened, resets,
                 tangled>>

EndSessions(r) ==
  /\ At(r, "reset", "endSessions")
  /\ sessions' = {}
  /\ Goto(r, "markUsed")
  /\ UNCHANGED <<password, tokens, made, expired, recent, mailed, opened, resets,
                 tangled>>

MarkUsed(r) ==
  /\ At(r, "reset", "markUsed")
  /\ tokens' = [tokens EXCEPT ![req[r].token] = "used"]
  /\ Goto(r, "spend")
  /\ UNCHANGED <<password, made, expired, recent, mailed, sessions, opened, resets,
                 tangled>>

(* Mutant of SpendOthers: only the token presented is used up.             *)
SpendNoOthers(r) ==
  /\ At(r, "reset", "spend")
  /\ Answer(r, TRUE)
  /\ resets' = [resets EXCEPT ![req[r].token] = @ + 1]
  /\ UNCHANGED <<password, tokens, made, expired, recent, mailed, sessions, opened, tangled>>

(* invalidateUnusedByUser, then the answer. *)
SpendOthers(r) ==
  /\ At(r, "reset", "spend")
  /\ tokens' = AllUsed
  /\ Answer(r, TRUE)
  /\ resets' = [resets EXCEPT ![req[r].token] = @ + 1]
  /\ UNCHANGED <<password, made, expired, recent, mailed, sessions, opened, tangled>>

-----------------------------------------------------------------------------
(* login: the password is compared with the hash read, the session is       *)
(* created several awaits later.                                           *)
SendLogin(r, p) == Send(r, "login", "verify", NoToken, p, FirstPassword)

VerifyPassword(r) ==
  /\ At(r, "login", "verify")
  /\ IF req[r].given = password THEN Goto(r, "open") ELSE Answer(r, FALSE)
  /\ UNCHANGED <<password, tokens, made, expired, recent, mailed, sessions, opened, resets,
                 tangled>>

OpenSession(r) ==
  /\ At(r, "login", "open")
  /\ opened < MaxSessions
  /\ opened' = opened + 1
  /\ sessions' = sessions \cup {opened'}
  /\ Answer(r, TRUE)
  /\ UNCHANGED <<password, tokens, made, expired, recent, mailed, resets, tangled>>

(* /password/change, which needs a session and leaves all of them alone.   *)
SendChange(r, p, q) ==
  sessions # {} /\ Send(r, "change", "verifyCurrent", NoToken, p, q)

VerifyCurrent(r) ==
  /\ At(r, "change", "verifyCurrent")
  /\ IF req[r].given = password THEN Goto(r, "writeChange") ELSE Answer(r, FALSE)
  /\ UNCHANGED <<password, tokens, made, expired, recent, mailed, sessions, opened, resets,
                 tangled>>

WriteChange(r) ==
  /\ At(r, "change", "writeChange")
  /\ password' = req[r].wanted
  /\ req' = [req EXCEPT ![r].pc = "answer", ![r].ok = TRUE]
  /\ UNCHANGED <<tokens, made, expired, recent, mailed, sessions, opened, resets,
                 tangled>>

-----------------------------------------------------------------------------
(* A statement or the mail server fails: the handler answers with an error *)
(* and what it wrote before stays.                                         *)
Fail(r) ==
  /\ req[r].pc \notin {"idle", "answer"}
  /\ Answer(r, FALSE)
  /\ UNCHANGED <<password, tokens, made, expired, recent, mailed, sessions, opened, resets,
                 tangled>>

Receive(r) ==
  /\ req[r].pc = "answer"
  /\ req' = [req EXCEPT ![r] = NoJob]
  /\ UNCHANGED <<password, tokens, made, expired, recent, mailed, sessions, opened, resets,
                 tangled>>

(* The server stops between two statements. *)
Crash ==
  /\ \E r \in Requests : req[r].pc # "idle"
  /\ req' = [r \in Requests |-> NoJob]
  /\ UNCHANGED <<password, tokens, made, expired, recent, mailed, sessions, opened, resets,
                 tangled>>

(* Time passes: a token expires, the cooldown ends. *)
Expire(t) ==
  /\ t \in 1..made \ expired
  /\ expired' = expired \cup {t}
  /\ UNCHANGED <<password, tokens, made, recent, mailed, sessions, opened, req, resets, tangled>>

EndCooldown ==
  /\ recent
  /\ recent' = FALSE
  /\ UNCHANGED <<password, tokens, made, expired, mailed, sessions, opened, req, resets, tangled>>

Submit(r) ==
  \/ SendRequest(r)
  \/ \E p \in Passwords :
       \/ SendLogin(r, p)
       \/ \E t \in TokenIds : SendReset(r, t, p)
       \/ \E q \in Passwords : SendChange(r, p, q)

Serve(r) ==
  \/ CheckCooldown(r) \/ InvalidateOlder(r) \/ CreateToken(r) \/ SendMail(r)
  \/ LookUp(r) \/ WritePassword(r) \/ EndSessions(r) \/ MarkUsed(r) \/ SpendOthers(r)
  \/ VerifyPassword(r) \/ OpenSession(r) \/ VerifyCurrent(r) \/ WriteChange(r)

Next ==
  \/ \E r \in Requests : Submit(r) \/ Serve(r) \/ Fail(r) \/ Receive(r)
  \/ \E t \in TokenIds : Expire(t)
  \/ EndCooldown
  \/ Crash

Spec == Init /\ [][Next]_vars

-----------------------------------------------------------------------------
(* Every variable holds values of its type; what was mailed has a row, and  *)
(* so has the token of a reset past its lookup.                            *)
TypeOK ==
  /\ password \in Passwords
  /\ tokens \in [TokenIds -> {"none", "unused", "used"}]
  /\ made \in 0..MaxTokens
  /\ expired \subseteq TokenIds
  /\ recent \in BOOLEAN
  /\ mailed \subseteq {t \in 1..made : tokens[t] # "none"}
  /\ sessions \subseteq 1..opened
  /\ opened \in 0..MaxSessions
  /\ req \in [Requests -> Jobs]
  /\ resets \in [TokenIds -> Nat]
  /\ tangled \in BOOLEAN
  /\ \A r \in Requests :
       (req[r].kind = "reset" /\ req[r].pc # "idle") \/ At(r, "request", "mail")
         => req[r].token \in 1..made

(* Once a reset has gone past the deletion of sessions, none that existed   *)
(* when it wrote the password is left, however many logins and other       *)
(* resets ran meanwhile: whoever was signed in before is signed out.       *)
OlderSessionsEnd ==
  \A r \in Requests :
    At(r, "reset", "markUsed") \/ At(r, "reset", "spend")
      \/ (At(r, "reset", "answer") /\ req[r].ok)
    => req[r].seen \cap sessions = {}

(* When a reset reports success no link that had been issued when it        *)
(* started works any more, its own, older ones and those of overlapping    *)
(* requests alike.                                                         *)
ResetSpendsTokens ==
  \A r \in Requests :
    At(r, "reset", "answer") /\ req[r].ok => \A t \in req[r].known : tokens[t] = "used"

(* The three properties of links hold until two requests for a link, or     *)
(* resets, have overlapped; logins and password changes may overlap them,  *)
(* and any of them may fail or be cut short by a crash.                    *)
(* At most one link works.                                                 *)
OneUsableToken ==
  ~tangled => \A t, u \in TokenIds : tokens[t] = "unused" /\ tokens[u] = "unused" => t = u

(* A link that is mailed works when it is mailed.                          *)
MailedTokenWorks == [][~tangled => \A t \in mailed' \ mailed : tokens[t] = "unused"]_vars

(* A link resets the password once ("invalid or already used"), although a *)
(* reset that failed half way may be repeated.                             *)
TokenSingleUse == ~tangled => \A t \in TokenIds : resets[t] <= 1

-----------------------------------------------------------------------------
(* Rows of password_reset_tokens are never deleted and ids never reused.   *)
TokenRows == \A t \in TokenIds : tokens[t] = "none" <=> t > made

(* Why OlderSessionsEnd holds: what a reset has seen are ids already given  *)
(* out, which no later login opens again.                                  *)
OlderInv == OlderSessionsEnd /\ \A r \in Requests : req[r].seen \subseteq 1..opened

(* Why ResetSpendsTokens holds: what a reset knows are rows already there,  *)
(* and a used row stays used.                                              *)
SpendInv ==
  ResetSpendsTokens /\ TokenRows /\ \A r \in Requests : req[r].known \subseteq 1..made

(* Why links are good for one reset until requests overlap on them: between *)
(* two steps of a request nothing else touches the tokens.                 *)
LinkInv(r) ==
  /\ At(r, "request", "create") => \A t \in TokenIds : tokens[t] # "unused"
  /\ At(r, "request", "mail") => tokens[req[r].token] = "unused"
  /\ At(r, "reset", "write") \/ At(r, "reset", "endSessions") \/ At(r, "reset", "markUsed")
       => tokens[req[r].token] = "unused"
  /\ At(r, "reset", "spend") =>
       tokens[req[r].token] = "used" /\ resets[req[r].token] = 0

(* What holds of the tokens as long as requests for links come one by one.  *)
LinksOK ==
  /\ \A t, u \in TokenIds : tokens[t] = "unused" /\ tokens[u] = "unused" => t = u
  /\ \A t \in TokenIds : resets[t] <= 1
  /\ \A t \in TokenIds : resets[t] # 0 => tokens[t] = "used"

OneByOne == \A r, q \in Requests : OnLinks(r) /\ OnLinks(q) => r = q

SerialInv ==
  /\ TokenRows
  /\ ~tangled => OneByOne /\ LinksOK /\ \A r \in Requests : LinkInv(r)
=============================================================================

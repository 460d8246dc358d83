------------------------------ MODULE Sessions ------------------------------
(***************************************************************************)
(* Sign-in sessions: the rows of user_sessions, the pair of cookies every  *)
(* browser holds for one of them, and the requests that create, rotate,    *)
(* list as expired and end them: login, /refresh, /logout, /logout/all,    *)
(* /logout/device/:id and any page behind optionalAuth.                    *)
(*                                                                         *)
(* A browser may have several requests in flight (tabs), and an answer may *)
(* be lost or overtaken by another.  Each action is the code between two   *)
(* awaits with the statement it waits for.  Tokens and session ids are     *)
(* random and never repeat: here they are numbers handed out in order.     *)
(***************************************************************************)
EXTENDS Naturals, FiniteSets

CONSTANTS
  Users, Browsers,
  Owner,        \* the account each browser signs in to
  NoBrowser,    \* not a browser: the sender of a slot nothing uses
  Requests,     \* requests that can be in flight together
  MaxSessions,  \* bound on the sessions ever created
  MaxTokens     \* bound on the refresh tokens ever issued

VARIABLES
  sessions,   \* user_sessions by id, NoRow for an id without a row
  created,    \* sessions ever created
  issued,     \* refresh tokens ever issued
  cookie,     \* session of the access_token, and the refresh_token
  req,        \* every request in flight
  upset       \* browsers that overlapped requests or lost an answer

vars == <<sessions, created, issued, cookie, req, upset>>

SessionIds == 1..MaxSessions
Tokens == 1..MaxTokens
NoToken == 0
NoSession == 0

Rows == [user : Users, token : Tokens, expired : BOOLEAN]
NoRow == [user |-> "none"]
Exists(s) == sessions[s] # NoRow
Live(s) == Exists(s) /\ ~sessions[s].expired

Cookies == [sid : SessionIds \cup {NoSession}, refresh : Tokens \cup {NoToken}]
NoCookies == [sid |-> NoSession, refresh |-> NoToken]

Kinds == {"login", "refresh", "logout", "logoutAll", "logoutDevice", "page"}
PCs == {"idle", "clean", "create", "find", "rotate", "revoke", "authenticate",
        "collect", "answer"}
Answers == {"set", "clear", "keep", "denied"}

(* sent: the cookies that came with the request.  sid: the session it has   *)
(* found or was asked about.  seen: the account's sessions when /logout/all came. *)
Jobs == [pc : PCs, kind : Kinds, browser : Browsers \cup {NoBrowser}, sent : Cookies,
         sid : SessionIds \cup {NoSession}, seen : SUBSET SessionIds,
         answer : Answers, new : Cookies]

ASSUME OwnerAssumption ==
  /\ Owner \in [Browsers -> Users]
  /\ "none" \notin Users /\ NoBrowser \notin Browsers
  /\ MaxSessions \in Nat /\ MaxTokens \in Nat

NoJob == [pc |-> "idle", kind |-> "page", browser |-> NoBrowser, sent |-> NoCookies,
          sid |-> NoSession, seen |-> {}, answer |-> "keep", new |-> NoCookies]

Init ==
  /\ sessions = [s \in SessionIds |-> NoRow]
  /\ created = 0
  /\ issued = 0
  /\ cookie = [b \in Browsers |-> NoCookies]
  /\ req = [r \in Requests |-> NoJob]
  /\ upset = {}

-----------------------------------------------------------------------------
UserOf(r) == Owner[req[r].browser]

InFlight(b) == {r \in Requests : req[r].pc # "idle" /\ req[r].browser = b}

At(r, kind, pc) == req[r].kind = kind /\ req[r].pc = pc

(* A request leaves the browser with the cookies it holds at that moment.  *)
Send(r, b, kind, pc, sid) ==
  /\ req[r].pc = "idle"
  /\ req' = [req EXCEPT ![r] =
       [pc |-> pc, kind |-> kind, browser |-> b, sent |-> cookie[b], sid |-> sid,
        seen |-> {s \in SessionIds : kind = "logoutAll" /\ Exists(s)
                                     /\ sessions[s].user = Owner[b]},
        answer |-> "keep", new |-> NoCookies]]
  /\ upset' = IF InFlight(b) = {} THEN upset ELSE upset \cup {b}
  /\ UNCHANGED <<sessions, created, issued, cookie>>

Goto(r, pc) == req' = [req EXCEPT ![r].pc = pc]

Answer(r, how, cookies) ==
  req' = [req EXCEPT ![r].pc = "answer", ![r].answer = how, ![r].new = cookies]

(* Mutant of WithoutExpired: the comparison with the clock is reversed.    *)
WithoutLive(u) ==
  [s \in SessionIds |-> IF Exists(s) /\ sessions[s].user = u /\ ~sessions[s].expired
                        THEN NoRow ELSE sessions[s]]

(* deleteExpiredSessionsByUser *)
WithoutExpired(u) ==
  [s \in SessionIds |-> IF Exists(s) /\ sessions[s].user = u /\ sessions[s].expired
                        THEN NoRow ELSE sessions[s]]

DeleteExpired(r, kind, next) ==
  /\ At(r, kind, "clean")
  /\ sessions' = WithoutExpired(UserOf(r))
  /\ Goto(r, next)
  /\ UNCHANGED <<created, issued, cookie, upset>>

-----------------------------------------------------------------------------
(* login: the password was right and no second factor is asked for.        *)
SendLogin(r, b) == Send(r, b, "login", "clean", NoSession)

CreateSession(r) ==
  /\ At(r, "login", "create")
  /\ created < MaxSessions /\ issued < MaxTokens
  /\ created' = created + 1
  /\ issued' = issued + 1
  /\ sessions' = [sessions EXCEPT ![created'] =
       [user |-> UserOf(r), token |-> issued', expired |-> FALSE]]
  /\ Answer(r, "set", [sid |-> created', refresh |-> issued'])
  /\ UNCHANGED <<cookie, upset>>

-----------------------------------------------------------------------------
(* refreshSession *)
SendRefresh(r, b) ==
  cookie[b].refresh # NoToken /\ Send(r, b, "refresh", "find", NoSession)

WithToken(t) == {s \in SessionIds : Exists(s) /\ sessions[s].token = t}

(* Mutant of FindSession: a token nothing has is not refused.              *)
FindSessionUnchecked(r) ==
  /\ At(r, "refresh", "find")
  /\ LET found == {s \in WithToken(req[r].sent.refresh) : Live(s)} IN
       \E s \in IF found = {} THEN {NoSession} ELSE found :
         req' = [req EXCEPT ![r].pc = "clean", ![r].sid = s]
  /\ UNCHANGED <<sessions, created, issued, cookie, upset>>

FindSession(r) ==
  /\ At(r, "refresh", "find")
  /\ LET found == {s \in WithToken(req[r].sent.refresh) : Live(s)} IN
       IF found = {} THEN Answer(r, "clear", NoCookies)
       ELSE \E s \in found : req' = [req EXCEPT ![r].pc = "clean", ![r].sid = s]
  /\ UNCHANGED <<sessions, created, issued, cookie, upset>>

(* Mutant of RotateToken: an upsert in place of the update.                *)
RotateTokenUpsert(r) ==
  /\ At(r, "refresh", "rotate")
  /\ issued < MaxTokens
  /\ issued' = issued + 1
  /\ sessions' = [sessions EXCEPT ![req[r].sid] =
       [user |-> UserOf(r), token |-> issued', expired |-> FALSE]]
  /\ Answer(r, "set", [sid |-> req[r].sid, refresh |-> issued'])
  /\ UNCHANGED <<created, cookie, upset>>

(* Mutant of RotateToken: any session of the account is updated.           *)
RotateAnySession(r) ==
  /\ At(r, "refresh", "rotate")
  /\ issued < MaxTokens
  /\ issued' = issued + 1
  /\ \E s \in {x \in SessionIds : Exists(x) /\ sessions[x].user = UserOf(r)} :
       /\ sessions' = [sessions EXCEPT ![s].token = issued', ![s].expired = FALSE]
       /\ Answer(r, "set", [sid |-> req[r].sid, refresh |-> issued'])
  /\ UNCHANGED <<created, cookie, upset>>

(* updateSessionRefreshToken: prisma update throws when the row is gone.   *)
RotateToken(r) ==
  /\ At(r, "refresh", "rotate")
  /\ issued < MaxTokens
  /\ IF Exists(req[r].sid)
     THEN /\ issued' = issued + 1
          /\ sessions' = [sessions EXCEPT ![req[r].sid].token = issued',
                                          ![req[r].sid].expired = FALSE]
          /\ Answer(r, "set", [sid |-> req[r].sid, refresh |-> issued'])
     ELSE /\ Answer(r, "clear", NoCookies)
          /\ UNCHANGED <<sessions, issued>>
  /\ UNCHANGED <<created, cookie, upset>>

(* The controller clears the cookies after any failure of refreshSession.  *)
FailRefresh(r) ==
  /\ req[r].kind = "refresh" /\ req[r].pc \in {"find", "clean", "rotate"}
  /\ Answer(r, "clear", NoCookies)
  /\ UNCHANGED <<sessions, created, issued, cookie, upset>>

-----------------------------------------------------------------------------
(* logoutUser: whatever the refresh token finds is deleted, the cookies are *)
(* cleared either way.                                                     *)
SendLogout(r, b) == Send(r, b, "logout", "revoke", cookie[b].sid)

(* Mutant of RevokeToken: only a session that has not expired is deleted.  *)
RevokeLiveToken(r) ==
  /\ At(r, "logout", "revoke")
  /\ sessions' = [s \in SessionIds |->
       IF s \in WithToken(req[r].sent.refresh) /\ Live(s) THEN NoRow ELSE sessions[s]]
  /\ Answer(r, "clear", NoCookies)
  /\ UNCHANGED <<created, issued, cookie, upset>>

RevokeToken(r) ==
  /\ At(r, "logout", "revoke")
  /\ sessions' = [s \in SessionIds |-> IF s \in WithToken(req[r].sent.refresh)
                                       THEN NoRow ELSE sessions[s]]
  /\ Answer(r, "clear", NoCookies)
  /\ UNCHANGED <<created, issued, cookie, upset>>

(* authenticateToken: the session of the access token must be live; an     *)
(* access token that is missing or has run out leaves the cookies alone.   *)
Authenticate(r) ==
  /\ req[r].pc = "authenticate"
  /\ \/ req[r].sent.sid # NoSession /\ Live(req[r].sent.sid) /\ Goto(r, "revoke")
     \/ req[r].sent.sid # NoSession /\ ~Live(req[r].sent.sid)
          /\ Answer(r, "denied", NoCookies)
     \/ Answer(r, "keep", NoCookies)
  /\ UNCHANGED <<sessions, created, issued, cookie, upset>>

(* logoutAllDevices *)
SendLogoutAll(r, b) == Send(r, b, "logoutAll", "authenticate", NoSession)

(* Mutant of RevokeAll: the session that asks is spared.                   *)
RevokeOthers(r) ==
  /\ At(r, "logoutAll", "revoke")
  /\ sessions' = [s \in SessionIds |->
       IF Exists(s) /\ sessions[s].user = UserOf(r) /\ s # req[r].sent.sid
       THEN NoRow ELSE sessions[s]]
  /\ Answer(r, "clear", NoCookies)
  /\ UNCHANGED <<created, issued, cookie, upset>>

RevokeAll(r) ==
  /\ At(r, "logoutAll", "revoke")
  /\ sessions' = [s \in SessionIds |-> IF Exists(s) /\ sessions[s].user = UserOf(r)
                                       THEN NoRow ELSE sessions[s]]
  /\ Answer(r, "clear", NoCookies)
  /\ UNCHANGED <<created, issued, cookie, upset>>

(* logoutDevice: prisma delete by id, which throws for a missing row.      *)
SendLogoutDevice(r, b, s) == Send(r, b, "logoutDevice", "authenticate", s)

RevokeDevice(r) ==
  /\ At(r, "logoutDevice", "revoke")
  /\ sessions' = [sessions EXCEPT ![req[r].sid] = NoRow]
  /\ Answer(r, "keep", NoCookies)
  /\ UNCHANGED <<created, issued, cookie, upset>>

-----------------------------------------------------------------------------
(* optionalAuth with an access token that has run out: the refresh token    *)
(* identifies the session, without being rotated.                          *)
SendPage(r, b) ==
  cookie[b].refresh # NoToken /\ Send(r, b, "page", "find", NoSession)

FindOptional(r) ==
  /\ At(r, "page", "find")
  /\ LET found == WithToken(req[r].sent.refresh) IN
       IF found = {} THEN Answer(r, "clear", NoCookies)
       ELSE \E s \in found :
              IF sessions[s].expired
              THEN req' = [req EXCEPT ![r].pc = "collect", ![r].sid = s]
              ELSE Answer(r, "keep", NoCookies)
  /\ UNCHANGED <<sessions, created, issued, cookie, upset>>

(* validateRefreshSession deletes by id what it read as expired.           *)
CollectExpired(r) ==
  /\ At(r, "page", "collect")
  /\ sessions' = [sessions EXCEPT ![req[r].sid] = NoRow]
  /\ Answer(r, "clear", NoCookies)
  /\ UNCHANGED <<created, issued, cookie, upset>>

-----------------------------------------------------------------------------
(* The browser receives the answer and keeps, replaces or drops its        *)
(* cookies.  An undisturbed login makes up for what went wrong before.     *)
Deliver(r) ==
  /\ req[r].pc = "answer"
  /\ cookie' = IF req[r].answer = "keep" THEN cookie
               ELSE [cookie EXCEPT ![req[r].browser] = req[r].new]
  /\ upset' = IF req[r].answer = "set" /\ req[r].kind = "login"
                  /\ InFlight(req[r].browser) = {r}
               THEN upset \ {req[r].browser} ELSE upset
  /\ req' = [req EXCEPT ![r] = NoJob]
  /\ UNCHANGED <<sessions, created, issued>>

(* A query of another request throws or the server stops before the answer, *)
(* or the answer is lost on its way.                                       *)
Lose(r) ==
  /\ req[r].pc # "idle"
  /\ req' = [req EXCEPT ![r] = NoJob]
  /\ upset' = upset \cup {req[r].browser}
  /\ UNCHANGED <<sessions, created, issued, cookie>>

(* expires_at passes. *)
Expire(s) ==
  /\ Live(s)
  /\ sessions' = [sessions EXCEPT ![s].expired = TRUE]
  /\ UNCHANGED <<created, issued, cookie, req, upset>>

Submit(r, b) ==
  \/ SendLogin(r, b) \/ SendRefresh(r, b) \/ SendLogout(r, b)
  \/ SendLogoutAll(r, b) \/ SendPage(r, b)
  \/ \E s \in 1..created : SendLogoutDevice(r, b, s)

Serve(r) ==
  \/ DeleteExpired(r, "login", "create") \/ CreateSession(r)
  \/ FindSession(r) \/ DeleteExpired(r, "refresh", "rotate") \/ RotateToken(r)
  \/ FailRefresh(r)
  \/ RevokeToken(r) \/ Authenticate(r) \/ RevokeAll(r) \/ RevokeDevice(r)
  \/ FindOptional(r) \/ CollectExpired(r)

Next ==
  \/ \E r \in Requests :
       \/ \E b \in Browsers : Submit(r, b)
       \/ Serve(r) \/ Deliver(r) \/ Lose(r)
  \/ \E s \in SessionIds : Expire(s)

Spec == Init /\ [][Next]_vars

-----------------------------------------------------------------------------
(* Every variable holds values of its type; a request in flight has a      *)
(* sender, one past its search has found a session, and only the logouts   *)
(* behind authenticateToken are authenticated.                             *)
TypeOK ==
  /\ sessions \in [SessionIds -> Rows \cup {NoRow}]
  /\ created \in 0..MaxSessions
  /\ issued \in 0..MaxTokens
  /\ cookie \in [Browsers -> Cookies]
  /\ req \in [Requests -> Jobs]
  /\ upset \subseteq Browsers
  /\ \A r \in Requests :
       /\ req[r].pc # "idle" => req[r].browser \in Browsers
       /\ req[r].pc = "authenticate" => req[r].kind \in {"logoutAll", "logoutDevice"}
       /\ \/ At(r, "refresh", "clean") \/ At(r, "refresh", "rotate")
          \/ At(r, "page", "collect")
          \/ req[r].kind = "logoutDevice" /\ req[r].pc # "idle"
          => req[r].sid \in SessionIds

(* A session that was ended stays ended: no refresh that had already found  *)
(* it when somebody logged it out brings it back.                          *)
EndedStaysEnded ==
  [][\A s \in 1..created : ~Exists(s) => sessions'[s] = NoRow]_vars

(* When /logout/all answers, every session the account had when the        *)
(* request was sent is gone, those being refreshed meanwhile included.     *)
LogoutAllEnds ==
  \A r \in Requests :
    At(r, "logoutAll", "answer") /\ req[r].answer = "clear" =>
      \A s \in req[r].seen : ~Exists(s)

(* A browser that sends one request at a time and loses no answer always    *)
(* holds the current refresh token of its session, unless that session was *)
(* ended from somewhere else: it is never signed out by the rotation.      *)
CookieCurrent ==
  \A b \in Browsers \ upset :
    InFlight(b) = {} /\ cookie[b].sid # NoSession /\ Exists(cookie[b].sid) =>
      sessions[cookie[b].sid].token = cookie[b].refresh

(* For such a browser /logout ends the session it was signed in to.        *)
LogoutEndsItsSession ==
  \A r \in Requests :
    At(r, "logout", "answer") /\ req[r].browser \notin upset
      /\ req[r].sent.sid # NoSession => ~Exists(req[r].sent.sid)

(* A session that has not expired ends only by a logout, or by a page       *)
(* request that had read it as expired before a refresh renewed it.        *)
OnlyLogoutEndsLive ==
  [][\A s \in SessionIds : Live(s) /\ sessions'[s] = NoRow =>
       \E r \in Requests :
         /\ req'[r] # req[r]
         /\ req[r].pc = "revoke" \/ (At(r, "page", "collect") /\ req[r].sid = s)]_vars

-----------------------------------------------------------------------------
(* Session ids and tokens are given out in order and never again.          *)
RowsKnown ==
  \A s \in SessionIds : Exists(s) => s <= created /\ sessions[s].token <= issued

(* Why LogoutAllEnds holds: what the request saw are old ids, and whatever  *)
(* becomes of their rows they belong to its account until they are gone.   *)
LogoutAllInv ==
  \A r \in Requests : req[r].pc # "idle" /\ req[r].kind = "logoutAll" =>
    /\ req[r].seen \subseteq 1..created
    /\ \A s \in req[r].seen : Exists(s) =>
         sessions[s].user = UserOf(r) /\ ~(req[r].pc = "answer" /\ req[r].answer = "clear")

(* Every pair of cookies a browser has, has sent or is about to receive.   *)
Held(b) == {cookie[b]} \cup UNION {{req[r].sent, req[r].new} : r \in InFlight(b)}

(* The refresh token in a pair never finds another session than the pair's. *)
HeldSane ==
  \A b \in Browsers : \A x \in Held(b) :
    /\ x.sid <= created /\ x.refresh <= issued
    /\ \A s \in WithToken(x.refresh) : s = x.sid

(* No two browsers have cookies of one session.                            *)
HeldApart ==
  \A b, c \in Browsers : \A x \in Held(b), y \in Held(c) :
    x.sid = y.sid /\ x.sid # NoSession => b = c

Current(x) == x.sid # NoSession /\ Exists(x.sid) => sessions[x.sid].token = x.refresh

Answering(r, kind) == At(r, kind, "answer") /\ req[r].answer = "set"

(* A refresh rotates the session of the cookies it came with; a login's new *)
(* cookies are current, and are no one else's, until they are delivered.   *)
RequestInv(r) ==
  /\ req[r].pc = "idle" => req[r].sent = NoCookies
  /\ At(r, "refresh", "clean") \/ At(r, "refresh", "rotate") => req[r].sid = req[r].sent.sid
  /\ req[r].pc = "answer" /\ req[r].answer = "set" => req[r].kind \in {"login", "refresh"}
  /\ ~(req[r].pc = "answer" /\ req[r].answer = "set") => req[r].new = NoCookies
  /\ Answering(r, "login") =>
       /\ Current(req[r].new) /\ req[r].new.sid # NoSession
       /\ \A b \in Browsers : cookie[b].sid # req[r].new.sid
       /\ \A q \in Requests : /\ req[q].sent.sid # req[r].new.sid
                              /\ q # r => req[q].new.sid # req[r].new.sid

(* A browser that is not upset has at most one request in flight, sent with *)
(* the cookies it still holds, and they are current unless a refresh is     *)
(* about to deliver the ones that are.                                      *)
CalmInv(b) ==
  /\ \A r, q \in InFlight(b) : r = q
  /\ \A r \in InFlight(b) :
       /\ req[r].sent = cookie[b]
       /\ Answering(r, "refresh") => Current(req[r].new)
       /\ At(r, "logout", "answer") /\ req[r].sent.sid # NoSession => ~Exists(req[r].sent.sid)
  /\ (\A r \in InFlight(b) : ~Answering(r, "refresh")) => Current(cookie[b])

(* Why CookieCurrent and LogoutEndsItsSession hold.                         *)
CookieInv ==
  /\ RowsKnown /\ HeldSane /\ HeldApart
  /\ \A r \in Requests : RequestInv(r)
  /\ \A b \in Browsers \ upset : CalmInv(b)
=============================================================================

-------------------------------- MODULE Shell --------------------------------
(* One tab of the web client that keeps its user signed in: FetchHttpClient     *)
(* with its shared refresh, AuthSessionManager, CookieAuthRefreshStrategy and   *)
(* the cached account, beside the one session the server keeps for it.          *)
EXTENDS Naturals, FiniteSets

CONSTANTS Slots,      \* requests the tab may have in flight
          MaxTokens   \* bound: refresh tokens given out
ASSUME ShellBounds == "none" \notin Slots /\ MaxTokens \in Nat

VARIABLES
  session,   \* the row of user_sessions: whether it is there, and its token
  tokens,    \* how many refresh tokens were given out
  jar,       \* the cookies of the browser
  tab,       \* the page: still loading, the cached account, the known expiry
  reqs,      \* the requests of the tab
  rf,        \* POST /refresh as begun by a request
  lost       \* history: an answer the tab depended on was lost, or a refresh failed

shellVars == <<session, tokens, jar, tab, reqs, rf, lost>>

NoReq == [pc |-> "idle", kind |-> "page", access |-> "gone", refresh |-> 0,
          early |-> FALSE, retry |-> FALSE, on |-> "none", answer |-> "none",
          clears |-> FALSE]
NoRefresh == [pc |-> "none", token |-> 0, ok |-> FALSE]

(* The access token of the jar is fresh, within the last 30 seconds of its      *)
(* life, or gone.                                                               *)
Valid(access) == access \in {"fresh", "soon"}

ShellInit ==
  /\ session = [live |-> TRUE, token |-> 1]
  /\ tokens = 1
  /\ jar \in [access : {"fresh", "soon", "gone"}, refresh : {1}]
  /\ tab = [boot |-> TRUE, user |-> FALSE, meta |-> "none"]
  /\ reqs = [s \in Slots |-> NoReq]
  /\ rf = [s \in Slots |-> NoRefresh]
  /\ lost = FALSE

-----------------------------------------------------------------------------
Refreshing == {s \in Slots : rf[s].pc # "none"}

(* The request leaves with the cookies of this moment.                          *)
Sent(s, r) == [r EXCEPT !.pc = "sent", !.access = jar.access, !.refresh = jar.refresh,
                        !.early = jar.access = "fresh", !.on = "none"]

(* Mutant of RefreshAuth: every request refreshes for itself.                   *)
RefreshAlone(s, r, cookies) ==
  /\ reqs' = [reqs EXCEPT ![s] = [r EXCEPT !.on = s]]
  /\ rf' = [rf EXCEPT ![s] = [pc |-> "sent", token |-> cookies.refresh, ok |-> FALSE]]

(* refreshAuth: a refresh in progress is shared.                                *)
RefreshAuth(s, r, cookies) ==
  IF Refreshing = {}
  THEN /\ reqs' = [reqs EXCEPT ![s] = [r EXCEPT !.on = s]]
       /\ rf' = [rf EXCEPT ![s] = [pc |-> "sent", token |-> cookies.refresh, ok |-> FALSE]]
  ELSE \E other \in Refreshing :
       /\ reqs' = [reqs EXCEPT ![s] = [r EXCEPT !.on = other]]
       /\ UNCHANGED rf

(* request: "strict" is answered behind authenticateToken, "page" behind        *)
(* optionalAuth.  Until the first GET /me is answered no other is sent, and the *)
(* sign-in page refreshes nothing.                                              *)
Request(s, kind) ==
  /\ reqs[s].pc = "idle"
  /\ IF tab.boot THEN kind = "strict" /\ \A o \in Slots : reqs[o].pc = "idle" ELSE tab.user
  /\ IF tab.meta = "due"
     THEN RefreshAuth(s, [NoReq EXCEPT !.kind = kind, !.pc = "waiting"], jar)
     ELSE /\ reqs' = [reqs EXCEPT ![s] = Sent(s, [NoReq EXCEPT !.kind = kind])]
          /\ UNCHANGED rf
  /\ UNCHANGED <<session, tokens, jar, tab, lost>>

-----------------------------------------------------------------------------
(* authenticateToken: without a valid access token 401 and the cookies stay;    *)
(* for a session that is not there they are cleared.                            *)
AuthenticateStrict(s) ==
  /\ reqs[s].pc = "sent" /\ reqs[s].kind = "strict"
  /\ reqs' = [reqs EXCEPT
       ![s].pc = "answered",
       ![s].answer = IF Valid(reqs[s].access) /\ session.live THEN "known" ELSE "401",
       ![s].clears = Valid(reqs[s].access) /\ ~session.live]
  /\ UNCHANGED <<session, tokens, jar, tab, rf, lost>>

(* optionalAuth: else by the refresh token, which is not rotated; one that no   *)
(* session has clears the cookies and the answer is an anonymous reader's.      *)
AuthenticatePage(s) ==
  /\ reqs[s].pc = "sent" /\ reqs[s].kind = "page"
  /\ LET byAccess == Valid(reqs[s].access) /\ session.live
         byRefresh == session.live /\ reqs[s].refresh = session.token IN
     reqs' = [reqs EXCEPT
       ![s].pc = "answered",
       ![s].answer = IF byAccess THEN "known" ELSE "plain",
       ![s].clears = ~byAccess /\ (Valid(reqs[s].access) \/ reqs[s].refresh # 0) /\ ~byRefresh]
  /\ UNCHANGED <<session, tokens, jar, tab, rf, lost>>

Cleared(clears) == IF clears THEN [access |-> "gone", refresh |-> 0] ELSE jar

(* syncFromResponse: only an answer to a caller known by the access token       *)
(* carries the expiry.                                                          *)
Synced(r) == IF r.answer # "known" THEN tab.meta
             ELSE IF r.access = "fresh" THEN "early" ELSE "due"

(* The answer arrives: once, a 401 refreshes and sends the request again.  The  *)
(* first answer to GET /me fills the cached account.                            *)
Answer(s) ==
  /\ reqs[s].pc = "answered"
  /\ jar' = Cleared(reqs[s].clears)
  /\ IF reqs[s].answer = "401" /\ ~reqs[s].retry
     THEN /\ RefreshAuth(s, [reqs[s] EXCEPT !.pc = "retrying"], jar')
          /\ UNCHANGED tab
     ELSE /\ reqs' = [reqs EXCEPT ![s] = NoReq]
          /\ tab' = [boot |-> FALSE, meta |-> Synced(reqs[s]),
                     user |-> IF tab.boot THEN reqs[s].answer = "known" ELSE tab.user]
          /\ UNCHANGED rf
  /\ UNCHANGED <<session, tokens, lost>>

-----------------------------------------------------------------------------
(* refreshToken on the server: the session is found by the token of the cookie, *)
(* then a new token is written.                                                 *)
FindSession(s) ==
  /\ rf[s].pc = "sent"
  /\ rf' = [rf EXCEPT ![s].pc = IF session.live /\ session.token = rf[s].token
                                THEN "found" ELSE "done"]
  /\ UNCHANGED <<session, tokens, jar, tab, reqs, lost>>

RotateToken(s) ==
  /\ rf[s].pc = "found" /\ tokens < MaxTokens
  /\ IF session.live
     THEN /\ tokens' = tokens + 1
          /\ session' = [session EXCEPT !.token = tokens']
          /\ rf' = [rf EXCEPT ![s] = [pc |-> "done", token |-> tokens', ok |-> TRUE]]
     ELSE /\ rf' = [rf EXCEPT ![s].pc = "done"]
          /\ UNCHANGED <<tokens, session>>
  /\ UNCHANGED <<jar, tab, reqs, lost>>

(* A statement of the refresh fails: the server takes that for a bad token.      *)
FailRefresh(s) ==
  /\ rf[s].pc \in {"sent", "found"}
  /\ rf' = [rf EXCEPT ![s].pc = "done"]
  /\ lost' = TRUE
  /\ UNCHANGED <<session, tokens, jar, tab, reqs>>

(* refreshAuth settles: with a new pair of cookies those that wait go on, or    *)
(* the account is taken out of the cache and they fail.                         *)
Resume(s, ok, cookies) ==
  /\ jar' = cookies
  /\ rf' = [rf EXCEPT ![s] = NoRefresh]
  /\ reqs' = [x \in Slots |->
       IF reqs[x].on # s THEN reqs[x]
       ELSE IF ~ok THEN NoReq
       ELSE [reqs[x] EXCEPT !.pc = "sent", !.access = cookies.access, !.refresh = cookies.refresh,
               !.early = TRUE, !.on = "none", !.retry = reqs[x].pc = "retrying",
               !.answer = "none", !.clears = FALSE]]
  /\ tab' = IF ok THEN tab ELSE [boot |-> FALSE, user |-> FALSE, meta |-> "none"]

SettleRefresh(s) ==
  /\ rf[s].pc = "done"
  /\ Resume(s, rf[s].ok, IF rf[s].ok THEN [access |-> "fresh", refresh |-> rf[s].token]
                         ELSE [access |-> "gone", refresh |-> 0])
  /\ UNCHANGED <<session, tokens, lost>>

(* The connection breaks during a refresh: the catch of refresh reports failure.*)
LoseRefresh(s) ==
  /\ rf[s].pc # "none"
  /\ Resume(s, FALSE, jar)
  /\ lost' = TRUE
  /\ UNCHANGED <<session, tokens>>

(* ... or during a request: fetchAuthUser turns that into "nobody".             *)
LoseRequest(s) ==
  /\ reqs[s].pc \in {"sent", "answered"}
  /\ reqs' = [reqs EXCEPT ![s] = NoReq]
  /\ tab' = [tab EXCEPT !.boot = FALSE]
  /\ lost' = (lost \/ tab.boot)
  /\ UNCHANGED <<session, tokens, jar, rf>>

-----------------------------------------------------------------------------
(* Time: the last 30 seconds of the access token begin, and end.  A request     *)
(* reaches authentication within the 30 seconds the client allows it.           *)
Soon(access) == IF access = "fresh" THEN "soon" ELSE access
Gone(access) == IF access = "soon" THEN "gone" ELSE access

AgeAccess ==
  /\ jar.access = "fresh"
  /\ jar' = [jar EXCEPT !.access = "soon"]
  /\ reqs' = [s \in Slots |-> [reqs[s] EXCEPT !.access = Soon(@)]]
  /\ tab' = [tab EXCEPT !.meta = IF @ = "early" THEN "due" ELSE @]
  /\ UNCHANGED <<session, tokens, rf, lost>>

ExpireAccess ==
  /\ jar.access = "soon"
  /\ \A s \in Slots : ~(reqs[s].pc = "sent" /\ reqs[s].early)
  /\ jar' = [jar EXCEPT !.access = "gone"]
  /\ reqs' = [s \in Slots |-> [reqs[s] EXCEPT !.access = Gone(@)]]
  /\ UNCHANGED <<session, tokens, tab, rf, lost>>

(* The session is ended from another device, or runs out.                       *)
EndElsewhere ==
  /\ session.live
  /\ session' = [session EXCEPT !.live = FALSE]
  /\ UNCHANGED <<tokens, jar, tab, reqs, rf, lost>>

(* The page is loaded again.                                                    *)
Reload ==
  /\ Refreshing = {}
  /\ tab' = [boot |-> TRUE, user |-> FALSE, meta |-> "none"]
  /\ reqs' = [s \in Slots |-> NoReq]
  /\ UNCHANGED <<session, tokens, jar, rf, lost>>

ShellNext ==
  \/ \E s \in Slots, kind \in {"strict", "page"} : Request(s, kind)
  \/ \E s \in Slots :
       \/ AuthenticateStrict(s) \/ AuthenticatePage(s) \/ Answer(s)
       \/ FindSession(s) \/ RotateToken(s) \/ FailRefresh(s) \/ SettleRefresh(s)
       \/ LoseRefresh(s) \/ LoseRequest(s)
  \/ AgeAccess \/ ExpireAccess \/ EndElsewhere \/ Reload

ShellSpec == ShellInit /\ [][ShellNext]_shellVars

-----------------------------------------------------------------------------
(* As long as the session lives on the server, no answer was lost and no        *)
(* statement of a refresh failed, the tab does not show its user as signed out, *)
(* and the browser holds the token the server has: requests that overlap each   *)
(* other and a rotation never sign out the one tab that sends them.             *)
SignedOutJustly ==
  session.live /\ ~lost =>
    /\ tab.boot \/ tab.user
    /\ Refreshing = {} => jar.refresh = session.token
=============================================================================

--------------------------- MODULE Sessions_proofs ---------------------------
(* Theorems about Sessions for any number of browsers, accounts, requests   *)
(* in flight, sessions and tokens.                                          *)
EXTENDS Sessions, TLAPS

USE DEF Kinds, PCs, Answers, NoToken, NoSession, SessionIds, Tokens

(* Every other request is left alone. *)
Only(r) == \A q \in Requests : q # r => req'[q] = req[q]

(* What a request never changes once it is sent. *)
Same(r) ==
  /\ req'[r].kind = req[r].kind /\ req'[r].browser = req[r].browser
  /\ req'[r].sent = req[r].sent /\ req'[r].seen = req[r].seen

LEMMA JobsExcept ==
  ASSUME NEW f \in [Requests -> Jobs], NEW r \in Requests, NEW j \in Jobs
  PROVE  /\ [f EXCEPT ![r] = j] \in [Requests -> Jobs]
         /\ [f EXCEPT ![r] = j][r] = j
         /\ \A q \in Requests : q # r => [f EXCEPT ![r] = j][q] = f[q]
OBVIOUS

LEMMA NoCookiesType == NoCookies \in Cookies
BY DEF NoCookies, Cookies

LEMMA NoJobType == NoJob \in Jobs
BY NoCookiesType DEF NoJob, Jobs

LEMMA GotoJob ==
  ASSUME TypeOK, NEW r \in Requests, NEW pc \in PCs, Goto(r, pc)
  PROVE  /\ req' \in [Requests -> Jobs] /\ Only(r) /\ Same(r)
         /\ req'[r].pc = pc /\ req'[r].sid = req[r].sid
         /\ req'[r].answer = req[r].answer /\ req'[r].new = req[r].new
<1> DEFINE j == [req[r] EXCEPT !.pc = pc]
<1>1. req' = [req EXCEPT ![r] = j]
  BY DEF Goto, TypeOK
<1>2. req \in [Requests -> Jobs] /\ j \in Jobs /\ j.pc = pc
      /\ j.kind = req[r].kind /\ j.browser = req[r].browser /\ j.sent = req[r].sent
      /\ j.seen = req[r].seen /\ j.sid = req[r].sid /\ j.answer = req[r].answer
      /\ j.new = req[r].new
  BY DEF TypeOK, Jobs
<1> HIDE DEF j
<1>3. req' \in [Requests -> Jobs] /\ req'[r] = j
        /\ \A o \in Requests : o # r => req'[o] = req[o]
  BY ONLY <1>1, <1>2, r \in Requests, JobsExcept
<1> QED BY <1>2, <1>3 DEF Only, Same

(* Going on with the session that was found. *)
LEMMA FoundJob ==
  ASSUME TypeOK, NEW r \in Requests, NEW pc \in PCs, NEW s \in SessionIds,
         req' = [req EXCEPT ![r].pc = pc, ![r].sid = s]
  PROVE  /\ req' \in [Requests -> Jobs] /\ Only(r) /\ Same(r)
         /\ req'[r].pc = pc /\ req'[r].sid = s
         /\ req'[r].answer = req[r].answer /\ req'[r].new = req[r].new
<1> DEFINE j == [req[r] EXCEPT !.pc = pc, !.sid = s]
<1>1. req' = [req EXCEPT ![r] = j]
  BY DEF TypeOK
<1>2. req \in [Requests -> Jobs] /\ j \in Jobs /\ j.pc = pc
      /\ j.kind = req[r].kind /\ j.browser = req[r].browser /\ j.sent = req[r].sent
      /\ j.seen = req[r].seen /\ j.sid = s /\ j.answer = req[r].answer
      /\ j.new = req[r].new
  BY DEF TypeOK, Jobs
<1> HIDE DEF j
<1>3. req' \in [Requests -> Jobs] /\ req'[r] = j
        /\ \A o \in Requests : o # r => req'[o] = req[o]
  BY ONLY <1>1, <1>2, r \in Requests, JobsExcept
<1> QED BY <1>2, <1>3 DEF Only, Same

LEMMA AnswerJob ==
  ASSUME TypeOK, NEW r \in Requests, NEW how \in Answers, NEW x \in Cookies,
         Answer(r, how, x)
  PROVE  /\ req' \in [Requests -> Jobs] /\ Only(r) /\ Same(r)
         /\ req'[r].pc = "answer" /\ req'[r].sid = req[r].sid
         /\ req'[r].answer = how /\ req'[r].new = x
<1> DEFINE j == [req[r] EXCEPT !.pc = "answer", !.answer = how, !.new = x]
<1>1. req' = [req EXCEPT ![r] = j]
  BY DEF Answer, TypeOK
<1>2. req \in [Requests -> Jobs] /\ req[r] \in Jobs
  BY DEF TypeOK
<1>3. j \in Jobs
  BY <1>2 DEF Jobs
<1>4. /\ j.pc = "answer" /\ j.answer = how /\ j.new = x
      /\ j.kind = req[r].kind /\ j.browser = req[r].browser /\ j.sent = req[r].sent
      /\ j.seen = req[r].seen /\ j.sid = req[r].sid
  BY <1>2 DEF Jobs
<1> HIDE DEF j
<1>5. req' \in [Requests -> Jobs] /\ req'[r] = j
        /\ \A o \in Requests : o # r => req'[o] = req[o]
  BY ONLY <1>1, <1>2, <1>3, r \in Requests, JobsExcept
<1> QED BY <1>4, <1>5 DEF Only, Same

(* The account's sessions at the moment /logout/all is sent. *)
SeenBy(kind, b) ==
  {s \in SessionIds : kind = "logoutAll" /\ Exists(s) /\ sessions[s].user = Owner[b]}

LEMMA SendJob ==
  ASSUME TypeOK, NEW r \in Requests, NEW b \in Browsers, NEW kind \in Kinds,
         NEW pc \in PCs, NEW sid \in SessionIds \cup {NoSession},
         Send(r, b, kind, pc, sid)
  PROVE  /\ req' \in [Requests -> Jobs] /\ Only(r) /\ req[r].pc = "idle"
         /\ req'[r].pc = pc /\ req'[r].kind = kind /\ req'[r].browser = b
         /\ req'[r].sent = cookie[b] /\ req'[r].sid = sid
         /\ req'[r].seen = SeenBy(kind, b)
         /\ req'[r].answer = "keep" /\ req'[r].new = NoCookies
         /\ upset' = IF InFlight(b) = {} THEN upset ELSE upset \cup {b}
         /\ UNCHANGED <<sessions, created, issued, cookie>>
<1> DEFINE j == [pc |-> pc, kind |-> kind, browser |-> b, sent |-> cookie[b], sid |-> sid,
                 seen |-> SeenBy(kind, b), answer |-> "keep", new |-> NoCookies]
<1>1. req' = [req EXCEPT ![r] = j]
  BY DEF Send, SeenBy
<1>2. SeenBy(kind, b) \in SUBSET SessionIds /\ cookie[b] \in Cookies
  BY DEF SeenBy, TypeOK
<1>3. j \in Jobs /\ req \in [Requests -> Jobs]
  BY <1>2, NoCookiesType DEF Jobs, TypeOK
<1>4. /\ j.pc = pc /\ j.kind = kind /\ j.browser = b /\ j.sent = cookie[b]
      /\ j.sid = sid /\ j.seen = SeenBy(kind, b)
      /\ j.answer = "keep" /\ j.new = NoCookies
  OBVIOUS
<1> HIDE DEF j
<1>5. req' \in [Requests -> Jobs] /\ req'[r] = j
        /\ \A o \in Requests : o # r => req'[o] = req[o]
  BY ONLY <1>1, <1>3, r \in Requests, JobsExcept
<1> QED BY <1>4, <1>5 DEF Only, Send

LEMMA DropJob ==
  ASSUME TypeOK, NEW r \in Requests, req' = [req EXCEPT ![r] = NoJob]
  PROVE  req' \in [Requests -> Jobs] /\ Only(r) /\ req'[r] = NoJob
BY NoJobType, JobsExcept DEF TypeOK, Only

-----------------------------------------------------------------------------
(* Types. *)

(* A request in flight has a sender; one past its search has a session.     *)
Sound(j) ==
  /\ j.pc # "idle" => j.browser \in Browsers
  /\ j.pc = "authenticate" => j.kind \in {"logoutAll", "logoutDevice"}
  /\ \/ j.kind = "refresh" /\ j.pc \in {"clean", "rotate"}
     \/ j.kind = "page" /\ j.pc = "collect"
     \/ j.kind = "logoutDevice" /\ j.pc # "idle"
     => j.sid \in SessionIds

TablesOK ==
  /\ sessions \in [SessionIds -> Rows \cup {NoRow}]
  /\ created \in 0..MaxSessions
  /\ issued \in 0..MaxTokens
  /\ cookie \in [Browsers -> Cookies]
  /\ upset \subseteq Browsers

LEMMA TypeSplit ==
  TypeOK <=> /\ TablesOK /\ req \in [Requests -> Jobs]
             /\ \A r \in Requests : Sound(req[r])
BY DEF TypeOK, TablesOK, Sound, At

LEMMA TypeJob ==
  ASSUME TypeOK, NEW r \in Requests, TablesOK',
         req' \in [Requests -> Jobs], Only(r), Sound(req'[r])
  PROVE  TypeOK'
<1>1. \A q \in Requests : Sound(req[q])
  BY TypeSplit
<1>2. \A q \in Requests : Sound(req'[q])
  BY <1>1 DEF Only
<1> QED BY <1>2 DEF TypeOK, TablesOK, Sound, At

LEMMA NoRowNotRow == NoRow \notin Rows
BY OwnerAssumption DEF NoRow, Rows

LEMMA RowTypes ==
  ASSUME TypeOK, NEW s \in SessionIds, Exists(s)
  PROVE  sessions[s] \in Rows
BY DEF TypeOK, Exists

(* What a step does to the rows, in three kinds.  RowKept: the row is still *)
(* there, of the same account and with the same token.                      *)
RowKept(s) ==
  /\ Exists(s) /\ sessions'[s] \in Rows
  /\ sessions'[s].user = sessions[s].user /\ sessions'[s].token = sessions[s].token

RowsKept ==
  /\ UNCHANGED <<created, issued>>
  /\ sessions' \in [SessionIds -> Rows \cup {NoRow}]
  /\ \A s \in SessionIds : sessions'[s] = NoRow \/ RowKept(s)

RowCreated(r) ==
  /\ created + 1 \in SessionIds /\ issued + 1 \in Tokens
  /\ created' = created + 1 /\ issued' = issued + 1
  /\ sessions' \in [SessionIds -> Rows \cup {NoRow}]
  /\ \A s \in SessionIds : s # created + 1 => sessions'[s] = sessions[s]
  /\ sessions'[created + 1] = [user |-> UserOf(r), token |-> issued + 1, expired |-> FALSE]
  /\ sessions'[created + 1] \in Rows

RowRotated(r) ==
  /\ req[r].sid \in SessionIds /\ Exists(req[r].sid) /\ issued + 1 \in Tokens
  /\ created' = created /\ issued' = issued + 1
  /\ sessions' \in [SessionIds -> Rows \cup {NoRow}]
  /\ \A s \in SessionIds : s # req[r].sid => sessions'[s] = sessions[s]
  /\ sessions'[req[r].sid] \in Rows
  /\ sessions'[req[r].sid].user = sessions[req[r].sid].user
  /\ sessions'[req[r].sid].token = issued + 1

LEMMA RowsUnchanged ==
  ASSUME TypeOK, UNCHANGED <<sessions, created, issued>>
  PROVE  RowsKept
BY RowTypes DEF TypeOK, RowsKept, RowKept, Exists

(* Deleting some rows. *)
LEMMA RowsDeleted ==
  ASSUME TypeOK, NEW gone, UNCHANGED <<created, issued>>,
         sessions' = [s \in SessionIds |-> IF s \in gone THEN NoRow ELSE sessions[s]]
  PROVE  RowsKept
BY RowTypes DEF TypeOK, RowsKept, RowKept, Exists

LEMMA RowDeleted ==
  ASSUME TypeOK, NEW x, UNCHANGED <<created, issued>>,
         sessions' = [sessions EXCEPT ![x] = NoRow]
  PROVE  RowsKept
<1>1. sessions' = [s \in SessionIds |-> IF s \in {x} THEN NoRow ELSE sessions[s]]
  BY DEF TypeOK
<1> QED BY <1>1, RowsDeleted

LEMMA RowExpired ==
  ASSUME TypeOK, NEW s \in SessionIds, Expire(s)
  PROVE  RowsKept
<1> DEFINE row == [sessions[s] EXCEPT !.expired = TRUE]
<1>1. sessions[s] \in Rows
  BY RowTypes DEF Expire, Live
<1>2. row \in Rows /\ row.user = sessions[s].user /\ row.token = sessions[s].token
  BY <1>1 DEF Rows
<1>3. sessions' = [sessions EXCEPT ![s] = row]
  BY DEF Expire
<1> HIDE DEF row
<1>4. \A q \in SessionIds : sessions'[q] = IF q = s THEN row ELSE sessions[q]
  BY <1>3 DEF TypeOK
<1>5. \A q \in SessionIds : sessions'[q] = NoRow \/ RowKept(q)
  BY <1>1, <1>2, <1>4, RowTypes, NoRowNotRow DEF RowKept, Exists
<1>6. sessions' \in [SessionIds -> Rows \cup {NoRow}]
  BY <1>2, <1>3 DEF TypeOK
<1> QED BY <1>5, <1>6 DEF Expire, RowsKept

LEMMA RowIsCreated ==
  ASSUME TypeOK, NEW r \in Requests, CreateSession(r)
  PROVE  RowCreated(r)
<1> USE OwnerAssumption
<1> DEFINE row == [user |-> UserOf(r), token |-> issued + 1, expired |-> FALSE]
<1>1. req[r].browser \in Browsers
  BY TypeSplit DEF CreateSession, At, Sound
<1>2. created + 1 \in SessionIds /\ issued + 1 \in Tokens
  BY DEF CreateSession, TypeOK
<1>3. row \in Rows
  BY <1>1, <1>2 DEF Rows, UserOf
<1>4. sessions' = [sessions EXCEPT ![created + 1] = row]
  BY DEF CreateSession
<1>5. sessions \in [SessionIds -> Rows \cup {NoRow}]
      /\ created' = created + 1 /\ issued' = issued + 1
  BY DEF CreateSession, TypeOK
<1> HIDE DEF row
<1>6. /\ sessions' \in [SessionIds -> Rows \cup {NoRow}]
      /\ \A s \in SessionIds : s # created + 1 => sessions'[s] = sessions[s]
      /\ sessions'[created + 1] = row
  BY <1>2, <1>3, <1>4, <1>5
<1> QED BY <1>2, <1>3, <1>5, <1>6 DEF RowCreated, row

LEMMA RowIsRotated ==
  ASSUME TypeOK, NEW r \in Requests, RotateToken(r), Exists(req[r].sid)
  PROVE  RowRotated(r)
<1> USE OwnerAssumption
<1> DEFINE x == req[r].sid
           row == [sessions[x] EXCEPT !.token = issued + 1, !.expired = FALSE]
<1>1. x \in SessionIds
  BY TypeSplit DEF RotateToken, At, Sound
<1>2. issued + 1 \in Tokens
  BY DEF RotateToken, TypeOK
<1>3. sessions[x] \in Rows
  BY <1>1, RowTypes
<1>4. row \in Rows /\ row.user = sessions[x].user /\ row.token = issued + 1
  BY <1>2, <1>3 DEF Rows
<1>5. sessions \in [SessionIds -> Rows \cup {NoRow}]
      /\ created' = created /\ issued' = issued + 1
  BY DEF RotateToken, TypeOK
<1>6. sessions' = [sessions EXCEPT ![x] = row]
  BY <1>1, <1>5 DEF RotateToken
<1> HIDE DEF row
<1>7. /\ sessions' \in [SessionIds -> Rows \cup {NoRow}]
      /\ \A s \in SessionIds : s # x => sessions'[s] = sessions[s]
      /\ sessions'[x] = row
  BY <1>1, <1>4, <1>5, <1>6
<1> QED BY <1>1, <1>2, <1>4, <1>5, <1>7 DEF RowRotated

-----------------------------------------------------------------------------
(* The steps of a request that is being served, in four kinds. *)

(* It goes on without an answer; a refresh may have found its session.      *)
Moved(r) ==
  /\ RowsKept
  /\ req'[r].pc # "answer" /\ req'[r].new = req[r].new
  /\ req[r].kind = "refresh" =>
       \/ req[r].pc = "clean" /\ req'[r].pc = "rotate" /\ req'[r].sid = req[r].sid
       \/ req'[r].pc = "clean" /\ req'[r].sid \in WithToken(req[r].sent.refresh)

(* It is answered without new cookies, a logout after its deletion.         *)
Refused(r) ==
  /\ RowsKept
  /\ req'[r].pc = "answer" /\ req'[r].answer # "set" /\ req'[r].new = NoCookies
  /\ req[r].kind = "logout" =>
       \A s \in WithToken(req[r].sent.refresh) : sessions'[s] = NoRow
  /\ req[r].kind = "logoutAll" /\ req'[r].answer = "clear" =>
       \A s \in SessionIds : Exists(s) /\ sessions[s].user = UserOf(r) => sessions'[s] = NoRow

LoggedIn(r) ==
  /\ RowCreated(r) /\ req[r].kind = "login"
  /\ req'[r].pc = "answer" /\ req'[r].answer = "set"
  /\ req'[r].new = [sid |-> created + 1, refresh |-> issued + 1]

Refreshed(r) ==
  /\ RowRotated(r) /\ req[r].kind = "refresh" /\ req[r].pc = "rotate"
  /\ req'[r].pc = "answer" /\ req'[r].answer = "set"
  /\ req'[r].new = [sid |-> req[r].sid, refresh |-> issued + 1]

Served(r) ==
  /\ req' \in [Requests -> Jobs] /\ Only(r) /\ Same(r) /\ UNCHANGED <<cookie, upset>>
  /\ req[r].pc \notin {"idle", "answer"} /\ req'[r].pc # "idle"
  /\ Sound(req'[r])
  /\ Moved(r) \/ Refused(r) \/ LoggedIn(r) \/ Refreshed(r)

(* Answering without new cookies, for any reason. *)
LEMMA RefusedAnswer ==
  ASSUME TypeOK, NEW r \in Requests, NEW how \in {"clear", "denied", "keep"},
         Answer(r, how, NoCookies), RowsKept, UNCHANGED <<cookie, upset>>,
         req[r].pc \notin {"idle", "answer"}, req[r].kind # "logout",
         req[r].kind # "logoutAll" \/ how # "clear"
  PROVE  Served(r)
<1>1. /\ req' \in [Requests -> Jobs] /\ Only(r) /\ Same(r)
      /\ req'[r].pc = "answer" /\ req'[r].sid = req[r].sid
      /\ req'[r].answer = how /\ req'[r].new = NoCookies
  BY AnswerJob, NoCookiesType
<1>2. Sound(req[r])
  BY TypeSplit
<1> QED BY <1>1, <1>2 DEF Served, Refused, Same, Sound

(* Going on, for any request but a refresh. *)
LEMMA MovedOn ==
  ASSUME TypeOK, NEW r \in Requests, NEW pc \in PCs \ {"idle", "answer", "authenticate", "collect"},
         Goto(r, pc), RowsKept, UNCHANGED <<cookie, upset>>,
         req[r].pc \notin {"idle", "answer"}, req[r].kind # "refresh"
  PROVE  Served(r)
<1>1. /\ req' \in [Requests -> Jobs] /\ Only(r) /\ Same(r)
      /\ req'[r].pc = pc /\ req'[r].sid = req[r].sid
      /\ req'[r].answer = req[r].answer /\ req'[r].new = req[r].new
  BY GotoJob
<1>2. Sound(req[r])
  BY TypeSplit
<1> QED BY <1>1, <1>2 DEF Served, Moved, Same, Sound

LEMMA CleanServed ==
  ASSUME TypeOK, NEW r \in Requests,
         DeleteExpired(r, "login", "create") \/ DeleteExpired(r, "refresh", "rotate")
  PROVE  Served(r)
<1>1. RowsKept
  <2> DEFINE gone == {s \in SessionIds : Exists(s) /\ sessions[s].user = UserOf(r)
                                          /\ sessions[s].expired}
  <2>1. sessions' = [s \in SessionIds |-> IF s \in gone THEN NoRow ELSE sessions[s]]
    BY DEF DeleteExpired, WithoutExpired
  <2> HIDE DEF gone
  <2> QED BY <2>1, RowsDeleted DEF DeleteExpired
<1>2. CASE DeleteExpired(r, "login", "create")
  BY <1>1, <1>2, MovedOn DEF DeleteExpired, At
<1>3. CASE DeleteExpired(r, "refresh", "rotate")
  <2>1. /\ req' \in [Requests -> Jobs] /\ Only(r) /\ Same(r)
        /\ req'[r].pc = "rotate" /\ req'[r].sid = req[r].sid
        /\ req'[r].answer = req[r].answer /\ req'[r].new = req[r].new
    BY <1>3, GotoJob DEF DeleteExpired
  <2>2. Sound(req[r])
    BY TypeSplit
  <2> QED BY <1>1, <1>3, <2>1, <2>2 DEF DeleteExpired, At, Served, Moved, Same, Sound
<1> QED BY <1>2, <1>3

LEMMA CreateServed ==
  ASSUME TypeOK, NEW r \in Requests, CreateSession(r)
  PROVE  Served(r)
<1> DEFINE x == [sid |-> created + 1, refresh |-> issued + 1]
<1>1. RowCreated(r)
  BY RowIsCreated
<1>2. x \in Cookies
  BY <1>1 DEF RowCreated, Cookies
<1>3. Answer(r, "set", x)
  BY DEF CreateSession
<1> HIDE DEF x
<1>4. /\ req' \in [Requests -> Jobs] /\ Only(r) /\ Same(r)
      /\ req'[r].pc = "answer" /\ req'[r].sid = req[r].sid
      /\ req'[r].answer = "set" /\ req'[r].new = x
  BY <1>2, <1>3, AnswerJob
<1>5. Sound(req[r])
  BY TypeSplit
<1> QED BY <1>1, <1>4, <1>5 DEF CreateSession, At, Served, LoggedIn, Same, Sound, x

LEMMA RotateServed ==
  ASSUME TypeOK, NEW r \in Requests, RotateToken(r)
  PROVE  Served(r)
<1> DEFINE x == [sid |-> req[r].sid, refresh |-> issued + 1]
<1>1. CASE Exists(req[r].sid)
  <2>1. RowRotated(r)
    BY <1>1, RowIsRotated
  <2>2. x \in Cookies
    BY <2>1 DEF RowRotated, Cookies
  <2>3. Answer(r, "set", x)
    BY <1>1 DEF RotateToken
  <2> HIDE DEF x
  <2>4. /\ req' \in [Requests -> Jobs] /\ Only(r) /\ Same(r)
        /\ req'[r].pc = "answer" /\ req'[r].sid = req[r].sid
        /\ req'[r].answer = "set" /\ req'[r].new = x
    BY <2>2, <2>3, AnswerJob
  <2>5. Sound(req[r])
    BY TypeSplit
  <2> QED BY <2>1, <2>4, <2>5 DEF RotateToken, At, Served, Refreshed, Same, Sound, x
<1>2. CASE ~Exists(req[r].sid)
  BY <1>2, RefusedAnswer, RowsUnchanged DEF RotateToken, At
<1> QED BY <1>1, <1>2

LEMMA FailServed ==
  ASSUME TypeOK, NEW r \in Requests, FailRefresh(r)
  PROVE  Served(r)
BY RefusedAnswer, RowsUnchanged DEF FailRefresh

LEMMA FindServed ==
  ASSUME TypeOK, NEW r \in Requests, FindSession(r)
  PROVE  Served(r)
<1> DEFINE found == {s \in WithToken(req[r].sent.refresh) : Live(s)}
<1>0. RowsKept
  BY RowsUnchanged DEF FindSession
<1>1. CASE found = {}
  BY <1>0, <1>1, RefusedAnswer DEF FindSession, At
<1>2. CASE found # {}
  <2>1. PICK s \in found : req' = [req EXCEPT ![r].pc = "clean", ![r].sid = s]
    BY <1>2 DEF FindSession
  <2>2. s \in SessionIds /\ s \in WithToken(req[r].sent.refresh)
    BY DEF WithToken
  <2>3. /\ req' \in [Requests -> Jobs] /\ Only(r) /\ Same(r)
        /\ req'[r].pc = "clean" /\ req'[r].sid = s
        /\ req'[r].answer = req[r].answer /\ req'[r].new = req[r].new
    BY <2>1, <2>2, FoundJob
  <2>4. Sound(req[r])
    BY TypeSplit
  <2> QED BY <1>0, <2>2, <2>3, <2>4 DEF FindSession, At, Served, Moved, Same, Sound
<1> QED BY <1>1, <1>2

LEMMA OptionalServed ==
  ASSUME TypeOK, NEW r \in Requests, FindOptional(r) \/ CollectExpired(r)
  PROVE  Served(r)
<1>1. CASE CollectExpired(r)
  <2>1. RowsKept
    BY <1>1, RowDeleted DEF CollectExpired
  <2> QED BY <1>1, <2>1, RefusedAnswer DEF CollectExpired, At
<1>2. CASE FindOptional(r)
  <2> DEFINE found == WithToken(req[r].sent.refresh)
  <2>0. RowsKept /\ req[r].kind = "page" /\ req[r].pc = "find" /\ UNCHANGED <<cookie, upset>>
    BY <1>2, RowsUnchanged DEF FindOptional, At
  <2>1. CASE Answer(r, "clear", NoCookies) \/ Answer(r, "keep", NoCookies)
    BY <2>0, <2>1, RefusedAnswer
  <2>2. ASSUME NEW s \in found, req' = [req EXCEPT ![r].pc = "collect", ![r].sid = s]
        PROVE  Served(r)
    <3>1. s \in SessionIds
      BY DEF WithToken
    <3>2. /\ req' \in [Requests -> Jobs] /\ Only(r) /\ Same(r)
          /\ req'[r].pc = "collect" /\ req'[r].sid = s
          /\ req'[r].answer = req[r].answer /\ req'[r].new = req[r].new
      BY <2>2, <3>1, FoundJob
    <3>3. Sound(req[r])
      BY TypeSplit
    <3> QED BY <2>0, <3>1, <3>2, <3>3 DEF Served, Moved, Same, Sound
  <2> QED BY <1>2, <2>1, <2>2 DEF FindOptional
<1> QED BY <1>1, <1>2

LEMMA LogoutServed ==
  ASSUME TypeOK, NEW r \in Requests, RevokeToken(r) \/ RevokeAll(r)
  PROVE  Served(r)
<1> DEFINE ofAccount == {s \in SessionIds : Exists(s) /\ sessions[s].user = UserOf(r)}
<1>1. /\ req' \in [Requests -> Jobs] /\ Only(r) /\ Same(r)
      /\ req'[r].pc = "answer" /\ req'[r].sid = req[r].sid
      /\ req'[r].answer = "clear" /\ req'[r].new = NoCookies
  BY AnswerJob, NoCookiesType DEF RevokeToken, RevokeAll
<1>2. Sound(req[r])
  BY TypeSplit
<1>3. Sound(req'[r])
  BY <1>1, <1>2 DEF Same, Sound, RevokeToken, RevokeAll, At
<1>4. CASE RevokeToken(r)
  <2>1. sessions' = [s \in SessionIds |-> IF s \in WithToken(req[r].sent.refresh)
                                           THEN NoRow ELSE sessions[s]]
    BY <1>4 DEF RevokeToken
  <2>2. RowsKept
    BY <1>4, <2>1, RowsDeleted DEF RevokeToken
  <2>3. \A s \in WithToken(req[r].sent.refresh) : sessions'[s] = NoRow
    BY <2>1 DEF WithToken
  <2> QED BY <1>1, <1>3, <1>4, <2>2, <2>3 DEF RevokeToken, At, Served, Refused
<1>5. CASE RevokeAll(r)
  <2>1. sessions' = [s \in SessionIds |-> IF s \in ofAccount THEN NoRow ELSE sessions[s]]
    BY <1>5 DEF RevokeAll
  <2>2. \A s \in SessionIds : Exists(s) /\ sessions[s].user = UserOf(r) => sessions'[s] = NoRow
    BY <2>1
  <2> HIDE DEF ofAccount
  <2>3. RowsKept
    BY <1>5, <2>1, RowsDeleted DEF RevokeAll
  <2> QED BY <1>1, <1>3, <1>5, <2>2, <2>3 DEF RevokeAll, At, Served, Refused
<1> QED BY <1>4, <1>5

LEMMA AccountServed ==
  ASSUME TypeOK, NEW r \in Requests, Authenticate(r) \/ RevokeDevice(r)
  PROVE  Served(r)
<1>1. CASE RevokeDevice(r)
  <2>1. RowsKept
    BY <1>1, RowDeleted DEF RevokeDevice
  <2> QED BY <1>1, <2>1, RefusedAnswer DEF RevokeDevice, At
<1>2. CASE Authenticate(r)
  <2>1. RowsKept /\ req[r].pc = "authenticate" /\ UNCHANGED <<cookie, upset>>
    BY <1>2, RowsUnchanged DEF Authenticate
  <2>2. req[r].kind \in {"logoutAll", "logoutDevice"}
    BY <2>1, TypeSplit DEF Sound
  <2>3. CASE Goto(r, "revoke")
    BY <2>1, <2>2, <2>3, MovedOn
  <2>4. CASE Answer(r, "denied", NoCookies) \/ Answer(r, "keep", NoCookies)
    BY <2>1, <2>2, <2>4, RefusedAnswer
  <2> QED BY <1>2, <2>3, <2>4 DEF Authenticate
<1> QED BY <1>1, <1>2

LEMMA ServeIsServed ==
  ASSUME TypeOK, NEW r \in Requests, Serve(r)
  PROVE  Served(r)
BY CleanServed, CreateServed, RotateServed, FailServed, FindServed, OptionalServed, LogoutServed,
   AccountServed DEF Serve

-----------------------------------------------------------------------------
(* The other steps of a request: it is sent, or it is over. *)
Sent(r, b) ==
  /\ req' \in [Requests -> Jobs] /\ Only(r) /\ req[r].pc = "idle"
  /\ req'[r].pc \in {"clean", "find", "revoke", "authenticate"}
  /\ req'[r].kind = "refresh" => req'[r].pc = "find"
  /\ req'[r].browser = b /\ req'[r].sent = cookie[b] /\ req'[r].new = NoCookies
  /\ req'[r].seen = SeenBy(req'[r].kind, b)
  /\ Sound(req'[r])
  /\ upset' = IF InFlight(b) = {} THEN upset ELSE upset \cup {b}
  /\ UNCHANGED <<sessions, created, issued, cookie>>

LEMMA SubmitSent ==
  ASSUME TypeOK, NEW r \in Requests, NEW b \in Browsers, Submit(r, b)
  PROVE  Sent(r, b)
<1>0. cookie[b] \in Cookies
  BY DEF TypeOK
<1>1. ASSUME NEW kind \in Kinds, NEW pc \in {"clean", "find", "revoke", "authenticate"},
             NEW sid \in SessionIds \cup {NoSession}, Send(r, b, kind, pc, sid),
             kind = "refresh" => pc = "find",
             pc = "authenticate" => kind \in {"logoutAll", "logoutDevice"},
             kind = "logoutDevice" => sid \in SessionIds
      PROVE  Sent(r, b)
  <2>1. /\ req' \in [Requests -> Jobs] /\ Only(r) /\ req[r].pc = "idle"
        /\ req'[r].pc = pc /\ req'[r].kind = kind /\ req'[r].browser = b
        /\ req'[r].sent = cookie[b] /\ req'[r].sid = sid
        /\ req'[r].seen = SeenBy(kind, b)
        /\ req'[r].answer = "keep" /\ req'[r].new = NoCookies
        /\ upset' = IF InFlight(b) = {} THEN upset ELSE upset \cup {b}
        /\ UNCHANGED <<sessions, created, issued, cookie>>
    BY <1>1, SendJob
  <2>2. Sound(req'[r])
    BY <1>1, <2>1 DEF Sound
  <2> QED BY <1>1, <2>1, <2>2 DEF Sent
<1>2. CASE SendLogin(r, b) \/ SendRefresh(r, b) \/ SendPage(r, b) \/ SendLogoutAll(r, b)
  BY <1>1, <1>2 DEF SendLogin, SendRefresh, SendPage, SendLogoutAll
<1>3. CASE SendLogout(r, b)
  BY <1>0, <1>1, <1>3 DEF SendLogout, Cookies
<1>4. ASSUME NEW s \in 1..created, SendLogoutDevice(r, b, s) PROVE Sent(r, b)
  <2>1. s \in SessionIds
    BY OwnerAssumption DEF TypeOK
  <2> QED BY <1>1, <1>4, <2>1 DEF SendLogoutDevice
<1> QED BY <1>2, <1>3, <1>4 DEF Submit

LEMMA TablesKept ==
  ASSUME TypeOK, RowsKept, cookie' \in [Browsers -> Cookies], upset' \subseteq Browsers
  PROVE  TablesOK'
BY DEF TypeOK, RowsKept, TablesOK, Rows

LEMMA TablesServed ==
  ASSUME TypeOK, NEW r \in Requests, Served(r)
  PROVE  TablesOK'
<1>1. CASE Moved(r) \/ Refused(r)
  BY <1>1, TablesKept DEF Moved, Refused, Served, TypeOK
<1>2. CASE LoggedIn(r)
  BY <1>2, OwnerAssumption DEF LoggedIn, RowCreated, Served, TypeOK, TablesOK, Rows
<1>3. CASE Refreshed(r)
  BY <1>3, OwnerAssumption DEF Refreshed, RowRotated, Served, TypeOK, TablesOK, Rows
<1> QED BY <1>1, <1>2, <1>3 DEF Served

LEMMA NoJobSound == Sound(NoJob)
BY DEF NoJob, Sound

LEMMA TypeStep == TypeOK /\ [Next]_vars => TypeOK'
<1> SUFFICES ASSUME TypeOK, [Next]_vars PROVE TypeOK'
  OBVIOUS
<1>1. ASSUME NEW r \in Requests, NEW b \in Browsers, Submit(r, b) PROVE TypeOK'
  <2>1. Sent(r, b)
    BY <1>1, SubmitSent
  <2>2. TablesOK'
    BY <2>1, TablesKept, RowsUnchanged DEF Sent, TypeOK
  <2> QED BY <2>1, <2>2, TypeJob DEF Sent
<1>2. ASSUME NEW r \in Requests, Serve(r) PROVE TypeOK'
  BY <1>2, ServeIsServed, TablesServed, TypeJob DEF Served
<1>3. ASSUME NEW r \in Requests, Deliver(r) PROVE TypeOK'
  <2>1. req[r] \in Jobs /\ req[r].browser \in Browsers
    BY <1>3, TypeSplit DEF Deliver, Sound
  <2>2. req[r].new \in Cookies
    BY <2>1 DEF Jobs
  <2>3. cookie' \in [Browsers -> Cookies] /\ upset' \subseteq Browsers
    BY <1>3, <2>1, <2>2 DEF Deliver, TypeOK
  <2>4. TablesOK'
    BY <1>3, <2>3, TablesKept, RowsUnchanged DEF Deliver
  <2> QED BY <1>3, <2>4, DropJob, NoJobSound, TypeJob DEF Deliver
<1>4. ASSUME NEW r \in Requests, Lose(r) PROVE TypeOK'
  <2>1. req[r].browser \in Browsers
    BY <1>4, TypeSplit DEF Lose, Sound
  <2>2. TablesOK'
    BY <1>4, <2>1, TablesKept, RowsUnchanged DEF Lose, TypeOK
  <2> QED BY <1>4, <2>2, DropJob, NoJobSound, TypeJob DEF Lose
<1>5. ASSUME NEW s \in SessionIds, Expire(s) PROVE TypeOK'
  <2>1. TablesOK'
    BY <1>5, RowExpired, TablesKept DEF Expire, TypeOK
  <2> QED BY <1>5, <2>1, TypeSplit DEF Expire, TypeOK, TablesOK, Sound, At
<1>6. CASE UNCHANGED vars
  BY <1>6 DEF vars, TypeOK, At
<1> QED BY <1>1, <1>2, <1>3, <1>4, <1>5, <1>6 DEF Next

LEMMA TypeInit == Init => TypeOK
<1> SUFFICES ASSUME Init PROVE TypeOK
  OBVIOUS
<1>1. TablesOK
  BY OwnerAssumption, NoCookiesType DEF Init, TablesOK
<1>2. req \in [Requests -> Jobs] /\ \A r \in Requests : Sound(req[r])
  BY NoJobType, NoJobSound DEF Init
<1> QED BY <1>1, <1>2, TypeSplit

(* Every reachable state is well typed: no step rotates or deletes a        *)
(* session by an id it never found.                                        *)
THEOREM TypeCorrect == Spec => []TypeOK
BY TypeInit, TypeStep, PTL DEF Spec

(* Every step is one of these. *)
LEMMA StepKinds ==
  ASSUME TypeOK, [Next]_vars
  PROVE  \/ \E r \in Requests, b \in Browsers : Sent(r, b)
         \/ \E r \in Requests : Served(r) \/ Deliver(r) \/ Lose(r)
         \/ RowsKept /\ UNCHANGED <<req, cookie, upset>>
<1>1. ASSUME NEW s \in SessionIds, Expire(s) PROVE RowsKept /\ UNCHANGED <<req, cookie, upset>>
  BY <1>1, RowExpired DEF Expire
<1>2. CASE UNCHANGED vars
  BY <1>2, RowsUnchanged DEF vars
<1> QED BY <1>1, <1>2, SubmitSent, ServeIsServed DEF Next

(* What every step does to the rows. *)
LEMMA RowSteps ==
  ASSUME TypeOK, [Next]_vars
  PROVE  RowsKept \/ \E r \in Requests : Served(r) /\ (LoggedIn(r) \/ Refreshed(r))
<1>1. ASSUME NEW r \in Requests, NEW b \in Browsers, Sent(r, b) PROVE RowsKept
  BY <1>1, RowsUnchanged DEF Sent
<1>2. ASSUME NEW r \in Requests, Deliver(r) \/ Lose(r) PROVE RowsKept
  BY <1>2, RowsUnchanged DEF Deliver, Lose
<1>3. ASSUME NEW r \in Requests, Served(r), ~LoggedIn(r), ~Refreshed(r) PROVE RowsKept
  BY <1>3 DEF Served, Moved, Refused
<1> QED BY <1>1, <1>2, <1>3, StepKinds

-----------------------------------------------------------------------------
(* A session that was ended stays ended. *)
LEMMA StayEnded ==
  ASSUME TypeOK, [Next]_vars, NEW s \in 1..created, ~Exists(s)
  PROVE  sessions'[s] = NoRow
<1>1. s \in SessionIds /\ sessions[s] = NoRow /\ s # created + 1
  BY OwnerAssumption DEF TypeOK, Exists
<1>2. CASE RowsKept
  BY <1>1, <1>2 DEF RowsKept, RowKept
<1>3. ASSUME NEW r \in Requests, LoggedIn(r) PROVE sessions'[s] = NoRow
  BY <1>1, <1>3 DEF LoggedIn, RowCreated
<1>4. ASSUME NEW r \in Requests, Refreshed(r) PROVE sessions'[s] = NoRow
  BY <1>1, <1>4 DEF Refreshed, RowRotated
<1> QED BY <1>2, <1>3, <1>4, RowSteps

(* Whatever refreshes, logins and logouts overlap, no request brings a      *)
(* session back that was there once and is not any more.                   *)
THEOREM EndedSessionsStayEnded == Spec => EndedStaysEnded
<1>1. TypeOK /\ [Next]_vars => [\A s \in 1..created : ~Exists(s) => sessions'[s] = NoRow]_vars
  BY StayEnded
<1> QED BY <1>1, TypeCorrect, PTL DEF Spec, EndedStaysEnded

(* Only a logout deletes a session that has not expired, or a page request  *)
(* that read it as expired before it was renewed.                          *)
LEMMA LiveEnds ==
  ASSUME TypeOK, [Next]_vars, NEW s \in SessionIds, Live(s), sessions'[s] = NoRow
  PROVE  \E r \in Requests :
           /\ req'[r] # req[r]
           /\ req[r].pc = "revoke" \/ (At(r, "page", "collect") /\ req[r].sid = s)
<1>0. sessions[s] \in Rows /\ sessions[s] # NoRow /\ ~sessions[s].expired
  BY RowTypes DEF Live, Exists
<1>1. ASSUME NEW r \in Requests, NEW b \in Browsers, Submit(r, b) PROVE FALSE
  BY <1>0, <1>1, SubmitSent DEF Sent
<1>2. ASSUME NEW r \in Requests, Deliver(r) \/ Lose(r) PROVE FALSE
  BY <1>0, <1>2 DEF Deliver, Lose
<1>3. ASSUME NEW q \in SessionIds, Expire(q) PROVE FALSE
  <2>1. s # q
    <3>1. sessions[q] \in Rows
      BY <1>3, RowTypes DEF Expire, Live
    <3>2. [sessions[q] EXCEPT !.expired = TRUE] \in Rows
      BY <3>1 DEF Rows
    <3>3. sessions'[q] \in Rows
      BY <1>3, <3>2 DEF Expire, TypeOK
    <3> QED BY <3>3, NoRowNotRow
  <2> QED BY <1>0, <1>3, <2>1 DEF Expire, TypeOK
<1>4. ASSUME NEW r \in Requests,
             \/ DeleteExpired(r, "login", "create") \/ DeleteExpired(r, "refresh", "rotate")
             \/ FailRefresh(r) \/ FindSession(r) \/ Authenticate(r) \/ FindOptional(r)
      PROVE  FALSE
  BY <1>0, <1>4 DEF DeleteExpired, WithoutExpired, FailRefresh, FindSession, Authenticate,
                    FindOptional
<1>5. ASSUME NEW r \in Requests, CreateSession(r) PROVE FALSE
  BY <1>0, <1>5, RowIsCreated, NoRowNotRow DEF RowCreated
<1>6. ASSUME NEW r \in Requests, RotateToken(r) PROVE FALSE
  <2>1. CASE Exists(req[r].sid)
    BY <1>0, <1>6, <2>1, RowIsRotated, NoRowNotRow DEF RowRotated
  <2>2. CASE ~Exists(req[r].sid)
    BY <1>0, <1>6, <2>2 DEF RotateToken
  <2> QED BY <2>1, <2>2
<1>7. ASSUME NEW r \in Requests, RevokeToken(r) \/ RevokeAll(r) \/ RevokeDevice(r)
      PROVE  req'[r] # req[r] /\ req[r].pc = "revoke"
  <2>1. req'[r].pc = "answer"
    BY <1>7, AnswerJob, NoCookiesType DEF RevokeToken, RevokeAll, RevokeDevice
  <2> QED BY <1>7, <2>1 DEF RevokeToken, RevokeAll, RevokeDevice, At
<1>8. ASSUME NEW r \in Requests, CollectExpired(r)
      PROVE  req'[r] # req[r] /\ At(r, "page", "collect") /\ req[r].sid = s
  <2>1. req'[r].pc = "answer"
    BY <1>8, AnswerJob, NoCookiesType DEF CollectExpired
  <2>2. req[r].sid = s
    BY <1>0, <1>8 DEF CollectExpired, TypeOK
  <2> QED BY <1>8, <2>1, <2>2 DEF CollectExpired, At
<1> QED BY <1>0, <1>1, <1>2, <1>3, <1>4, <1>5, <1>6, <1>7, <1>8 DEF Next, Serve, vars

(* A signed-in user is never signed out by anything but a logout, except    *)
(* through the stale reading of a page request named in the property.      *)
THEOREM OnlyLogoutEnds == Spec => OnlyLogoutEndsLive
<1>1. TypeOK /\ [Next]_vars =>
        [\A s \in SessionIds : Live(s) /\ sessions'[s] = NoRow =>
           \E r \in Requests :
             /\ req'[r] # req[r]
             /\ req[r].pc = "revoke" \/ (At(r, "page", "collect") /\ req[r].sid = s)]_vars
  BY LiveEnds
<1> QED BY <1>1, TypeCorrect, PTL DEF Spec, OnlyLogoutEndsLive

-----------------------------------------------------------------------------
(* Logout from all devices. *)

LEMMA KnownInit == Init => RowsKnown
BY DEF Init, RowsKnown, Exists

LEMMA KnownStep == TypeOK /\ RowsKnown /\ [Next]_vars => RowsKnown'
<1> SUFFICES ASSUME TypeOK, RowsKnown, [Next]_vars PROVE RowsKnown'
  OBVIOUS
<1>0. created \in Nat /\ issued \in Nat
  BY OwnerAssumption DEF TypeOK
<1>1. CASE RowsKept
  BY <1>1 DEF RowsKept, RowKept, RowsKnown, Exists
<1>2. ASSUME NEW r \in Requests, LoggedIn(r) PROVE RowsKnown'
  <2> SUFFICES ASSUME NEW s \in SessionIds, Exists(s)'
               PROVE  s <= created' /\ sessions'[s].token <= issued'
    BY <1>2 DEF RowsKnown
  <2>1. created' = created + 1 /\ issued' = issued + 1
    BY <1>2 DEF LoggedIn, RowCreated
  <2>2. CASE s = created + 1
    BY <1>0, <1>2, <2>1, <2>2 DEF LoggedIn, RowCreated
  <2>3. CASE s # created + 1
    <3>1. sessions'[s] = sessions[s] /\ Exists(s)
      BY <1>2, <2>3 DEF LoggedIn, RowCreated, Exists
    <3>2. s <= created /\ sessions[s].token <= issued /\ sessions[s].token \in Nat
      BY <3>1, RowTypes DEF RowsKnown, Rows
    <3> QED BY <1>0, <2>1, <3>1, <3>2
  <2> QED BY <2>2, <2>3
<1>3. ASSUME NEW r \in Requests, Refreshed(r) PROVE RowsKnown'
  <2> SUFFICES ASSUME NEW s \in SessionIds, Exists(s)'
               PROVE  s <= created' /\ sessions'[s].token <= issued'
    BY <1>3 DEF RowsKnown
  <2>1. created' = created /\ issued' = issued + 1
    BY <1>3 DEF Refreshed, RowRotated
  <2>2. CASE s = req[r].sid
    BY <1>0, <1>3, <2>1, <2>2 DEF Refreshed, RowRotated, RowsKnown
  <2>3. CASE s # req[r].sid
    <3>1. sessions'[s] = sessions[s] /\ Exists(s)
      BY <1>3, <2>3 DEF Refreshed, RowRotated, Exists
    <3>2. s <= created /\ sessions[s].token <= issued /\ sessions[s].token \in Nat
      BY <3>1, RowTypes DEF RowsKnown, Rows
    <3> QED BY <1>0, <2>1, <3>1, <3>2
  <2> QED BY <2>2, <2>3
<1> QED BY <1>1, <1>2, <1>3, RowSteps

(* The part of LogoutAllInv about one request, with what it needs of the    *)
(* table.                                                                  *)
Watched(j, rows, n) ==
  j.pc # "idle" /\ j.kind = "logoutAll" =>
    /\ j.seen \subseteq 1..n
    /\ \A s \in j.seen : rows[s] # NoRow =>
         rows[s].user = Owner[j.browser] /\ ~(j.pc = "answer" /\ j.answer = "clear")

LEMMA WatchedSplit == LogoutAllInv <=> \A r \in Requests : Watched(req[r], sessions, created)
BY DEF LogoutAllInv, Watched, Exists, UserOf

(* What is true of a request stays true while others take steps: rows keep  *)
(* their account, and what is gone stays gone.                             *)
LEMMA WatchedStable ==
  ASSUME TypeOK, [Next]_vars, NEW j \in Jobs, Watched(j, sessions, created)
  PROVE  Watched(j, sessions', created')
<1> SUFFICES ASSUME j.pc # "idle", j.kind = "logoutAll", j.seen \subseteq 1..created
             PROVE  /\ j.seen \subseteq 1..created'
                    /\ \A s \in j.seen : sessions'[s] # NoRow =>
                         /\ sessions'[s].user = Owner[j.browser]
                         /\ ~(j.pc = "answer" /\ j.answer = "clear")
  BY DEF Watched
<1>0. created \in Nat /\ created <= MaxSessions /\ MaxSessions \in Nat
  BY OwnerAssumption DEF TypeOK
<1>1. created' \in {created, created + 1}
  BY RowSteps DEF RowsKept, LoggedIn, RowCreated, Refreshed, RowRotated
<1>2. ASSUME NEW s \in j.seen, sessions'[s] # NoRow
      PROVE  Exists(s) /\ sessions'[s].user = sessions[s].user
  <2>1. s \in 1..created /\ s \in SessionIds /\ s # created + 1
    BY <1>0
  <2>2. Exists(s)
    BY <1>2, <2>1, StayEnded
  <2>3. CASE RowsKept
    BY <1>2, <2>1, <2>3 DEF RowsKept, RowKept
  <2>4. ASSUME NEW r \in Requests, LoggedIn(r) PROVE sessions'[s].user = sessions[s].user
    BY <2>1, <2>4 DEF LoggedIn, RowCreated
  <2>5. ASSUME NEW r \in Requests, Refreshed(r) PROVE sessions'[s].user = sessions[s].user
    BY <2>1, <2>5 DEF Refreshed, RowRotated
  <2> QED BY <2>2, <2>3, <2>4, <2>5, RowSteps
<1>3. \A s \in j.seen : sessions'[s] # NoRow =>
         sessions'[s].user = Owner[j.browser] /\ ~(j.pc = "answer" /\ j.answer = "clear")
  BY <1>2 DEF Watched, Exists
<1> QED BY <1>0, <1>1, <1>3

LEMMA WatchedServed ==
  ASSUME TypeOK, [Next]_vars, NEW r \in Requests, Served(r),
         Watched(req[r], sessions, created), Watched(req[r], sessions', created')
  PROVE  Watched(req'[r], sessions', created')
<1> SUFFICES ASSUME req'[r].kind = "logoutAll"
             PROVE  Watched(req'[r], sessions', created')
  BY DEF Watched
<1>1. /\ req[r].kind = "logoutAll" /\ req'[r].seen = req[r].seen /\ req[r].pc # "idle"
      /\ req'[r].browser = req[r].browser
  BY DEF Served, Same
<1>2. CASE req'[r].pc = "answer" /\ req'[r].answer = "clear"
  <2>1. \A s \in SessionIds : Exists(s) /\ sessions[s].user = UserOf(r) => sessions'[s] = NoRow
    BY <1>1, <1>2 DEF Served, Moved, Refused, LoggedIn, Refreshed
  <2>2. ASSUME NEW s \in req[r].seen PROVE sessions'[s] = NoRow
    <3>1. s \in 1..created /\ s \in SessionIds
      BY <1>1, OwnerAssumption DEF Watched, TypeOK
    <3>2. CASE Exists(s)
      BY <1>1, <2>1, <3>1, <3>2 DEF Watched, Exists, UserOf
    <3>3. CASE ~Exists(s)
      BY <3>1, <3>3, StayEnded
    <3> QED BY <3>2, <3>3
  <2> QED BY <1>1, <2>2 DEF Watched
<1>3. CASE ~(req'[r].pc = "answer" /\ req'[r].answer = "clear")
  BY <1>1, <1>3 DEF Watched
<1> QED BY <1>2, <1>3

LEMMA WatchedSent ==
  ASSUME TypeOK, RowsKnown, NEW r \in Requests, NEW b \in Browsers, Sent(r, b)
  PROVE  Watched(req'[r], sessions', created')
<1>1. /\ req'[r].pc # "answer" /\ req'[r].browser = b
      /\ req'[r].seen = SeenBy(req'[r].kind, b) /\ UNCHANGED <<sessions, created>>
  BY DEF Sent
<1>2. \A s \in SeenBy("logoutAll", b) : s \in 1..created /\ sessions[s].user = Owner[b]
  BY OwnerAssumption DEF SeenBy, RowsKnown, TypeOK
<1> QED BY <1>1, <1>2 DEF Watched

LEMMA LogoutAllStep == TypeOK /\ RowsKnown /\ LogoutAllInv /\ [Next]_vars => LogoutAllInv'
<1> SUFFICES ASSUME TypeOK, RowsKnown, LogoutAllInv, [Next]_vars PROVE LogoutAllInv'
  OBVIOUS
<1>0. \A r \in Requests : req[r] \in Jobs
  BY DEF TypeOK
<1>1. \A r \in Requests : /\ Watched(req[r], sessions, created)
                          /\ Watched(req[r], sessions', created')
  BY <1>0, WatchedSplit, WatchedStable
<1>2. \A r \in Requests : Watched(req'[r], sessions', created')
  <2>1. ASSUME NEW r \in Requests, NEW b \in Browsers, Sent(r, b)
        PROVE  \A q \in Requests : Watched(req'[q], sessions', created')
    BY <1>1, <2>1, WatchedSent DEF Sent, Only
  <2>2. ASSUME NEW r \in Requests, Served(r)
        PROVE  \A q \in Requests : Watched(req'[q], sessions', created')
    BY <1>1, <2>2, WatchedServed DEF Served, Only
  <2>3. ASSUME NEW r \in Requests, Deliver(r) \/ Lose(r)
        PROVE  \A q \in Requests : Watched(req'[q], sessions', created')
    <3>1. Only(r) /\ req'[r] = NoJob
      BY <2>3, DropJob DEF Deliver, Lose
    <3> QED BY <1>1, <3>1 DEF Only, Watched, NoJob
  <2>4. CASE UNCHANGED req
    BY <1>1, <2>4
  <2> QED BY <2>1, <2>2, <2>3, <2>4, StepKinds
<1> QED BY <1>2, WatchedSplit DEF LogoutAllInv, Watched, Exists, UserOf

(* When /logout/all answers, all the sessions the account had are gone,     *)
(* however many refreshes and logins of its devices overlap it.             *)
THEOREM LogoutFromAllDevices == Spec => []LogoutAllEnds
<1>1. Init => RowsKnown /\ LogoutAllInv
  BY KnownInit DEF Init, LogoutAllInv, NoJob
<1>2. LogoutAllInv => LogoutAllEnds
  BY DEF LogoutAllInv, LogoutAllEnds, At
<1> QED BY <1>1, <1>2, KnownStep, LogoutAllStep, TypeCorrect, PTL DEF Spec

-----------------------------------------------------------------------------
(* Which cookies a browser can hold. *)

LEMMA HeldMembers ==
  ASSUME NEW b \in Browsers, NEW x
  PROVE  x \in Held(b) <=>
           \/ x = cookie[b]
           \/ \E r \in Requests : /\ req[r].pc # "idle" /\ req[r].browser = b
                                  /\ x = req[r].sent \/ x = req[r].new
BY DEF Held, InFlight

LEMMA HeldMembersNext ==
  ASSUME NEW b \in Browsers, NEW x
  PROVE  x \in Held(b)' <=>
           \/ x = cookie'[b]
           \/ \E r \in Requests : /\ req'[r].pc # "idle" /\ req'[r].browser = b
                                  /\ x = req'[r].sent \/ x = req'[r].new
BY DEF Held, InFlight

LEMMA HeldType ==
  ASSUME TypeOK, NEW b \in Browsers, NEW x \in Held(b)
  PROVE  x \in Cookies /\ x.sid \in Nat /\ x.refresh \in Nat
<1>1. \A r \in Requests : req[r].sent \in Cookies /\ req[r].new \in Cookies
  BY DEF TypeOK, Jobs
<1>2. x \in Cookies
  BY <1>1, HeldMembers DEF TypeOK
<1> QED BY <1>2 DEF Cookies

(* Nothing is held that was not, but no cookies at all.                     *)
HeldKept == \A b \in Browsers : Held(b)' \subseteq Held(b) \cup {NoCookies}

(* One browser is about to receive the pair x.                              *)
HeldGains(c, x) ==
  \A b \in Browsers : Held(b)' \subseteq Held(b) \cup (IF b = c THEN {x} ELSE {})

LEMMA HeldSent ==
  ASSUME TypeOK, NEW r \in Requests, NEW c \in Browsers, Sent(r, c)
  PROVE  HeldKept
<1> SUFFICES ASSUME NEW b \in Browsers, NEW x \in Held(b)'
             PROVE  x \in Held(b) \cup {NoCookies}
  BY DEF HeldKept
<1>1. CASE x = cookie'[b]
  BY <1>1, HeldMembers DEF Sent
<1>2. ASSUME NEW q \in Requests, req'[q].pc # "idle", req'[q].browser = b,
             x = req'[q].sent \/ x = req'[q].new
      PROVE  x \in Held(b) \cup {NoCookies}
  <2>1. CASE q = r
    BY <1>2, <2>1, HeldMembers DEF Sent
  <2>2. CASE q # r
    BY <1>2, <2>2, HeldMembers DEF Sent, Only
  <2> QED BY <2>1, <2>2
<1> QED BY <1>1, <1>2, HeldMembersNext

LEMMA HeldServed ==
  ASSUME TypeOK, NEW r \in Requests, Served(r), NEW b \in Browsers, NEW x \in Held(b)'
  PROVE  x \in Held(b) \/ (b = req[r].browser /\ x = req'[r].new)
<1>1. CASE x = cookie'[b]
  BY <1>1, HeldMembers DEF Served
<1>2. ASSUME NEW q \in Requests, req'[q].pc # "idle", req'[q].browser = b,
             x = req'[q].sent \/ x = req'[q].new
      PROVE  x \in Held(b) \/ (b = req[r].browser /\ x = req'[r].new)
  <2>1. CASE q = r
    BY <1>2, <2>1, HeldMembers DEF Served, Same
  <2>2. CASE q # r
    BY <1>2, <2>2, HeldMembers DEF Served, Only
  <2> QED BY <2>1, <2>2
<1> QED BY <1>1, <1>2, HeldMembersNext

LEMMA HeldOver ==
  ASSUME TypeOK, NEW r \in Requests, Deliver(r) \/ Lose(r)
  PROVE  HeldKept
<1> SUFFICES ASSUME NEW b \in Browsers, NEW x \in Held(b)' PROVE x \in Held(b)
  BY DEF HeldKept
<1>1. Only(r) /\ req'[r] = NoJob /\ req'[r].pc = "idle" /\ req[r].pc # "idle"
  BY DropJob DEF Deliver, Lose, NoJob
<1>2. CASE x = cookie'[b]
  <2>1. cookie'[b] = cookie[b] \/ (b = req[r].browser /\ cookie'[b] = req[r].new)
    BY DEF Deliver, Lose, TypeOK
  <2> QED BY <1>1, <1>2, <2>1, HeldMembers
<1>3. ASSUME NEW q \in Requests, req'[q].pc # "idle", req'[q].browser = b,
             x = req'[q].sent \/ x = req'[q].new
      PROVE  x \in Held(b)
  BY <1>1, <1>3, HeldMembers DEF Only
<1> QED BY <1>2, <1>3, HeldMembersNext

(* Every step is of one of three kinds, for the rows and the cookies.       *)
LEMMA HeldKinds ==
  ASSUME TypeOK, [Next]_vars, \A r \in Requests : RequestInv(r)
  PROVE  \/ RowsKept /\ HeldKept
         \/ \E r \in Requests : /\ Served(r) /\ (LoggedIn(r) \/ Refreshed(r))
                                /\ req[r].browser \in Browsers
                                /\ HeldGains(req[r].browser, req'[r].new)
<1>1. ASSUME NEW r \in Requests, NEW b \in Browsers, Sent(r, b)
      PROVE  RowsKept /\ HeldKept
  BY <1>1, HeldSent, RowsUnchanged DEF Sent
<1>2. ASSUME NEW r \in Requests, Served(r), Moved(r) \/ Refused(r)
      PROVE  RowsKept /\ HeldKept
  <2>1. req'[r].new = NoCookies
    BY <1>2 DEF Served, Moved, Refused, RequestInv
  <2> QED BY <1>2, <2>1, HeldServed DEF Moved, Refused, HeldKept
<1>3. ASSUME NEW r \in Requests, Served(r), LoggedIn(r) \/ Refreshed(r)
      PROVE  req[r].browser \in Browsers /\ HeldGains(req[r].browser, req'[r].new)
  BY <1>3, HeldServed, TypeSplit DEF Served, Sound, HeldGains
<1>4. ASSUME NEW r \in Requests, Deliver(r) \/ Lose(r)
      PROVE  RowsKept /\ HeldKept
  BY <1>4, HeldOver, RowsUnchanged DEF Deliver, Lose
<1>5. CASE RowsKept /\ UNCHANGED <<req, cookie, upset>>
  BY <1>5 DEF HeldKept, Held, InFlight
<1> QED BY <1>1, <1>2, <1>3, <1>4, <1>5, StepKinds DEF Served

(* What the cookies and the rows have to do with each other. *)
HeldInv ==
  /\ RowsKnown /\ HeldSane /\ HeldApart
  /\ \A r \in Requests : RequestInv(r)

(* HeldSane for one pair of cookies. *)
SanePair(x, rows, n, m) ==
  /\ x.sid <= n /\ x.refresh <= m
  /\ \A s \in SessionIds : rows[s] # NoRow /\ rows[s].token = x.refresh => s = x.sid

LEMMA SaneSplit ==
  HeldSane <=> \A b \in Browsers : \A x \in Held(b) : SanePair(x, sessions, created, issued)
BY DEF HeldSane, SanePair, WithToken, Exists

LEMMA SaneSplitNext ==
  HeldSane' <=> \A b \in Browsers : \A x \in Held(b)' : SanePair(x, sessions', created', issued')
BY DEF HeldSane, SanePair, WithToken, Exists

(* NoCookies identify nothing, before and after any step.                   *)
LEMMA NothingSane ==
  ASSUME NEW rows \in [SessionIds -> Rows \cup {NoRow}], NEW n \in Nat, NEW m \in Nat
  PROVE  SanePair(NoCookies, rows, n, m)
BY OwnerAssumption DEF SanePair, NoCookies, Rows, NoRow

LEMMA SaneKept ==
  ASSUME TypeOK, RowsKept, HeldKept, HeldSane
  PROVE  HeldSane'
<1>1. created' \in Nat /\ issued' \in Nat /\ sessions' \in [SessionIds -> Rows \cup {NoRow}]
  BY OwnerAssumption DEF TypeOK, RowsKept
<1>2. ASSUME NEW b \in Browsers, NEW x \in Held(b)
      PROVE  SanePair(x, sessions', created', issued')
  <2>1. SanePair(x, sessions, created, issued)
    BY SaneSplit
  <2> QED BY <2>1 DEF RowsKept, RowKept, SanePair, Exists
<1>3. SanePair(NoCookies, sessions', created', issued')
  BY <1>1, NothingSane
<1> QED BY <1>2, <1>3, SaneSplitNext DEF HeldKept

LEMMA SaneLoggedIn ==
  ASSUME TypeOK, RowsKnown, HeldSane, NEW r \in Requests, LoggedIn(r),
         HeldGains(req[r].browser, req'[r].new)
  PROVE  HeldSane'
<1> DEFINE n == req'[r].new
<1>0. created \in Nat /\ issued \in Nat /\ created' = created + 1 /\ issued' = issued + 1
  BY OwnerAssumption DEF LoggedIn, RowCreated, TypeOK
<1>1. n.sid = created + 1 /\ n.refresh = issued + 1
  BY DEF LoggedIn
<1>2. sessions'[created + 1].token = issued + 1
      /\ \A s \in SessionIds : s # created + 1 => sessions'[s] = sessions[s]
  BY DEF LoggedIn, RowCreated
<1> HIDE DEF n
<1>3. ASSUME NEW b \in Browsers, NEW x \in Held(b)
      PROVE  SanePair(x, sessions', created', issued')
  <2>1. SanePair(x, sessions, created, issued) /\ x.refresh \in Nat /\ x.sid \in Nat
    BY SaneSplit, HeldType
  <2> QED BY <1>0, <1>2, <2>1 DEF SanePair
<1>4. SanePair(n, sessions', created', issued')
  <2>1. ASSUME NEW s \in SessionIds, sessions'[s] # NoRow, sessions'[s].token = n.refresh
        PROVE  s = n.sid
    <3>1. CASE s # created + 1
      <4>1. sessions'[s] = sessions[s] /\ Exists(s)
        BY <1>2, <2>1, <3>1 DEF Exists
      <4>2. sessions[s].token <= issued /\ sessions[s].token \in Nat
        BY <4>1, RowTypes DEF RowsKnown, Rows
      <4> QED BY <1>0, <1>1, <2>1, <4>1, <4>2
    <3> QED BY <1>1, <3>1
  <2> QED BY <1>0, <1>1, <2>1 DEF SanePair
<1> QED BY <1>3, <1>4, SaneSplitNext DEF HeldGains, n

LEMMA SaneRefreshed ==
  ASSUME TypeOK, RowsKnown, HeldSane, NEW r \in Requests, Refreshed(r),
         HeldGains(req[r].browser, req'[r].new)
  PROVE  HeldSane'
<1> DEFINE n == req'[r].new
<1>0. created \in Nat /\ issued \in Nat /\ created' = created /\ issued' = issued + 1
  BY OwnerAssumption DEF Refreshed, RowRotated, TypeOK
<1>1. /\ n.sid = req[r].sid /\ n.refresh = issued + 1
      /\ n.sid \in SessionIds /\ n.sid <= created
  BY DEF Refreshed, RowRotated, RowsKnown
<1>2. sessions'[n.sid].token = issued + 1
      /\ \A s \in SessionIds : s # n.sid => sessions'[s] = sessions[s]
  BY DEF Refreshed, RowRotated
<1> HIDE DEF n
<1>3. ASSUME NEW b \in Browsers, NEW x \in Held(b)
      PROVE  SanePair(x, sessions', created', issued')
  <2>1. SanePair(x, sessions, created, issued) /\ x.refresh \in Nat /\ x.sid \in Nat
    BY SaneSplit, HeldType
  <2> QED BY <1>0, <1>2, <2>1 DEF SanePair
<1>4. SanePair(n, sessions', created', issued')
  <2>1. ASSUME NEW s \in SessionIds, sessions'[s] # NoRow, sessions'[s].token = n.refresh
        PROVE  s = n.sid
    <3>1. CASE s # n.sid
      <4>1. sessions'[s] = sessions[s] /\ Exists(s)
        BY <1>2, <2>1, <3>1 DEF Exists
      <4>2. sessions[s].token <= issued /\ sessions[s].token \in Nat
        BY <4>1, RowTypes DEF RowsKnown, Rows
      <4> QED BY <1>0, <1>1, <2>1, <4>1, <4>2
    <3> QED BY <3>1
  <2> QED BY <1>0, <1>1, <2>1 DEF SanePair
<1> QED BY <1>3, <1>4, SaneSplitNext DEF HeldGains, n

LEMMA SaneStep == TypeOK /\ HeldInv /\ [Next]_vars => HeldSane'
<1> SUFFICES ASSUME TypeOK, HeldInv, [Next]_vars PROVE HeldSane'
  OBVIOUS
<1> QED BY HeldKinds, SaneKept, SaneLoggedIn, SaneRefreshed DEF HeldInv

(* No two browsers come to hold cookies of one session: a login's session   *)
(* is new, a refresh's is the sender's.                                     *)
LEMMA RefreshesOwn ==
  ASSUME TypeOK, HeldInv, NEW r \in Requests, Served(r), Refreshed(r)
  PROVE  /\ req[r].sent \in Held(req[r].browser) /\ req[r].browser \in Browsers
         /\ req'[r].new.sid = req[r].sent.sid /\ req[r].sid = req[r].sent.sid
         /\ req[r].sid \in SessionIds
<1>1. req[r].browser \in Browsers /\ req[r].pc # "idle"
  BY TypeSplit DEF Served, Sound
<1>2. req[r].sid = req[r].sent.sid
  BY DEF HeldInv, RequestInv, Refreshed, At
<1> QED BY <1>1, <1>2, HeldMembers DEF Refreshed, RowRotated

LEMMA ApartStep == TypeOK /\ HeldInv /\ [Next]_vars => HeldApart'
<1> SUFFICES ASSUME TypeOK, HeldInv, [Next]_vars,
                    NEW b \in Browsers, NEW c \in Browsers, NEW x \in Held(b)', NEW y \in Held(c)',
                    x.sid = y.sid, x.sid # NoSession, b # c
             PROVE  FALSE
  BY DEF HeldApart
<1>0. HeldApart
  BY DEF HeldInv
<1>1. CASE RowsKept /\ HeldKept
  <2>1. x # NoCookies /\ y # NoCookies
    BY DEF NoCookies
  <2> QED BY <1>0, <1>1, <2>1 DEF HeldKept, HeldApart
<1>2. ASSUME NEW r \in Requests, LoggedIn(r), HeldGains(req[r].browser, req'[r].new)
      PROVE  FALSE
  <2>1. req'[r].new.sid = created + 1 /\ created \in Nat
    BY <1>2, OwnerAssumption DEF LoggedIn, TypeOK
  <2>2. \A d \in Browsers : \A z \in Held(d) : z.sid <= created /\ z.sid \in Nat
    BY HeldType DEF HeldInv, HeldSane
  <2> QED BY <1>0, <1>2, <2>1, <2>2 DEF HeldGains, HeldApart
<1>3. ASSUME NEW r \in Requests, Served(r), Refreshed(r),
             HeldGains(req[r].browser, req'[r].new)
      PROVE  FALSE
  <2>1. /\ req[r].sent \in Held(req[r].browser) /\ req[r].browser \in Browsers
        /\ req'[r].new.sid = req[r].sent.sid
    BY <1>3, RefreshesOwn
  <2> QED BY <1>0, <1>3, <2>1 DEF HeldGains, HeldApart
<1>4. \A r \in Requests : RequestInv(r)
  BY DEF HeldInv
<1> QED BY <1>1, <1>2, <1>3, <1>4, HeldKinds

-----------------------------------------------------------------------------
(* RequestInv, in a part about one request and a part about its login.      *)
Local(j) ==
  /\ j.pc = "idle" => j.sent = NoCookies
  /\ j.kind = "refresh" /\ j.pc \in {"clean", "rotate"} => j.sid = j.sent.sid
  /\ j.pc = "answer" /\ j.answer = "set" => j.kind \in {"login", "refresh"}
  /\ ~(j.pc = "answer" /\ j.answer = "set") => j.new = NoCookies

(* The pair x is current in the given rows. *)
Fits(x, rows) == x.sid # NoSession /\ rows[x.sid] # NoRow => rows[x.sid].token = x.refresh

OwnLogin(r) ==
  Answering(r, "login") =>
    /\ Fits(req[r].new, sessions) /\ req[r].new.sid # NoSession
    /\ \A b \in Browsers : cookie[b].sid # req[r].new.sid
    /\ \A q \in Requests : /\ req[q].sent.sid # req[r].new.sid
                           /\ q # r => req[q].new.sid # req[r].new.sid

LEMMA RequestSplit ==
  ASSUME NEW r \in Requests
  PROVE  RequestInv(r) <=> Local(req[r]) /\ OwnLogin(r)
BY DEF RequestInv, Local, OwnLogin, Answering, At, Current, Fits, Exists

LEMMA RequestSplitNext ==
  ASSUME NEW r \in Requests
  PROVE  RequestInv(r)' <=> Local(req'[r]) /\ OwnLogin(r)'
BY DEF RequestInv, Local, OwnLogin, Answering, At, Current, Fits, Exists

LEMMA LocalNoJob == Local(NoJob)
BY DEF Local, NoJob

LEMMA LocalServed ==
  ASSUME TypeOK, HeldInv, NEW r \in Requests, Served(r)
  PROVE  Local(req'[r])
<1>1. Local(req[r]) /\ req[r].browser \in Browsers /\ req[r].pc # "idle"
  BY TypeSplit, RequestSplit DEF HeldInv, Served, Sound
<1>2. req[r].sent \in Held(req[r].browser)
  BY <1>1, HeldMembers
<1>3. \A s \in WithToken(req[r].sent.refresh) : s = req[r].sent.sid
  BY <1>1, <1>2 DEF HeldInv, HeldSane
<1>4. CASE Moved(r)
  <2>1. req'[r].pc # "answer" /\ req'[r].new = NoCookies /\ req'[r].pc # "idle"
    BY <1>1, <1>4 DEF Moved, Local, Served
  <2>2. req[r].kind = "refresh" => req'[r].sid = req'[r].sent.sid
    BY <1>1, <1>3, <1>4 DEF Moved, Local, Served, Same
  <2> QED BY <2>1, <2>2 DEF Local, Served, Same
<1>5. CASE Refused(r)
  BY <1>5 DEF Refused, Local
<1>6. CASE LoggedIn(r) \/ Refreshed(r)
  BY <1>6 DEF LoggedIn, Refreshed, Local, Served, Same
<1> QED BY <1>4, <1>5, <1>6 DEF Served

LEMMA LocalStep ==
  ASSUME TypeOK, HeldInv, [Next]_vars, NEW q \in Requests
  PROVE  Local(req'[q])
<1>1. Local(req[q])
  BY RequestSplit DEF HeldInv
<1>2. ASSUME NEW r \in Requests, NEW b \in Browsers, Sent(r, b) PROVE Local(req'[q])
  BY <1>1, <1>2 DEF Sent, Only, Local
<1>3. ASSUME NEW r \in Requests, Served(r) PROVE Local(req'[q])
  BY <1>1, <1>3, LocalServed DEF Served, Only
<1>4. ASSUME NEW r \in Requests, Deliver(r) \/ Lose(r) PROVE Local(req'[q])
  BY <1>1, <1>4, DropJob, LocalNoJob DEF Deliver, Lose, Only
<1> QED BY <1>1, <1>2, <1>3, <1>4, StepKinds

(* Ids that are about are ids that were given out. *)
LEMMA OldSids ==
  ASSUME TypeOK, HeldInv
  PROVE  /\ created \in Nat
         /\ \A b \in Browsers : cookie[b].sid \in Nat /\ cookie[b].sid <= created
         /\ \A q \in Requests : /\ req[q].sent.sid \in Nat /\ req[q].sent.sid <= created
                                /\ req[q].new.sid \in Nat /\ req[q].new.sid <= created
<1>0. created \in Nat
  BY OwnerAssumption DEF TypeOK
<1>1. \A b \in Browsers : cookie[b].sid \in Nat /\ cookie[b].sid <= created
  BY HeldMembers, HeldType DEF HeldInv, HeldSane
<1>2. ASSUME NEW q \in Requests
      PROVE  /\ req[q].sent.sid \in Nat /\ req[q].sent.sid <= created
             /\ req[q].new.sid \in Nat /\ req[q].new.sid <= created
  <2>1. CASE req[q].pc = "idle"
    <3>1. req[q].sent = NoCookies /\ req[q].new = NoCookies
      BY <2>1, RequestSplit DEF HeldInv, Local
    <3> QED BY <1>0, <3>1 DEF NoCookies
  <2>2. CASE req[q].pc # "idle"
    <3>1. req[q].browser \in Browsers
      BY <2>2, TypeSplit DEF Sound
    <3>2. req[q].sent \in Held(req[q].browser) /\ req[q].new \in Held(req[q].browser)
      BY <2>2, <3>1, HeldMembers
    <3> QED BY <3>1, <3>2, HeldType DEF HeldInv, HeldSane
  <2> QED BY <2>1, <2>2
<1> QED BY <1>0, <1>1, <1>2

(* A pair stays current unless its session is rotated. *)
LEMMA FitsKept ==
  ASSUME RowsKept, NEW x, x.sid \in SessionIds \cup {NoSession}, Fits(x, sessions)
  PROVE  Fits(x, sessions')
BY DEF RowsKept, RowKept, Fits, Exists

LEMMA FitsLoggedIn ==
  ASSUME NEW r \in Requests, LoggedIn(r), created \in Nat, NEW x,
         x.sid \in SessionIds \cup {NoSession}, x.sid <= created, Fits(x, sessions)
  PROVE  Fits(x, sessions')
<1>1. x.sid # created + 1
  OBVIOUS
<1> QED BY <1>1 DEF LoggedIn, RowCreated, Fits

LEMMA FitsRefreshed ==
  ASSUME NEW r \in Requests, Refreshed(r), NEW x,
         x.sid \in SessionIds \cup {NoSession}, x.sid # req[r].sid, Fits(x, sessions)
  PROVE  Fits(x, sessions')
BY DEF Refreshed, RowRotated, Fits

LEMMA SidType ==
  ASSUME TypeOK
  PROVE  /\ \A b \in Browsers : cookie[b].sid \in SessionIds \cup {NoSession}
         /\ \A q \in Requests : /\ req[q].new.sid \in SessionIds \cup {NoSession}
                                /\ req[q].sent.sid \in SessionIds \cup {NoSession}
BY DEF TypeOK, Jobs, Cookies

(* A login that has just opened its session. *)
LEMMA OwnLoginServed ==
  ASSUME TypeOK, HeldInv, NEW r \in Requests, Served(r)
  PROVE  OwnLogin(r)'
<1> SUFFICES ASSUME Answering(r, "login")' PROVE OwnLogin(r)'
  BY DEF OwnLogin
<1> DEFINE n == req'[r].new
<1>1. LoggedIn(r)
  BY DEF Answering, At, Served, Same, Moved, Refused, Refreshed
<1>2. /\ n.sid = created + 1 /\ n.refresh = issued + 1
      /\ sessions'[created + 1].token = issued + 1
  BY <1>1 DEF LoggedIn, RowCreated
<1> HIDE DEF n
<1>3. /\ created \in Nat
      /\ \A b \in Browsers : cookie[b].sid \in Nat /\ cookie[b].sid <= created
      /\ \A q \in Requests : /\ req[q].sent.sid \in Nat /\ req[q].sent.sid <= created
                             /\ req[q].new.sid \in Nat /\ req[q].new.sid <= created
  BY OldSids
<1>4. Fits(n, sessions') /\ n.sid # NoSession
  BY <1>2, <1>3 DEF Fits
<1>5. \A b \in Browsers : cookie'[b].sid # n.sid
  BY <1>2, <1>3 DEF Served
<1>6. \A q \in Requests : /\ req'[q].sent.sid # n.sid
                          /\ q # r => req'[q].new.sid # n.sid
  BY <1>2, <1>3 DEF Served, Only, Same
<1> QED BY <1>4, <1>5, <1>6 DEF OwnLogin, n

(* A login whose answer is on its way while another request takes a step.   *)
LEMMA OwnLoginOther ==
  ASSUME TypeOK, HeldInv, NEW r \in Requests, NEW q \in Requests, q # r,
         \/ \E b \in Browsers : Sent(q, b)
         \/ Served(q) \/ Deliver(q) \/ Lose(q)
  PROVE  OwnLogin(r)'
<1> DEFINE n == req[r].new
<1>0. Only(q) /\ req'[r] = req[r]
  BY DropJob DEF Sent, Served, Deliver, Lose, Only
<1> SUFFICES ASSUME Answering(r, "login") PROVE OwnLogin(r)'
  BY <1>0 DEF OwnLogin, Answering, At
<1>1. /\ Fits(n, sessions) /\ n.sid # NoSession
      /\ \A b \in Browsers : cookie[b].sid # n.sid
      /\ \A p \in Requests : /\ req[p].sent.sid # n.sid
                             /\ p # r => req[p].new.sid # n.sid
  BY RequestSplit DEF HeldInv, OwnLogin
<1>2. n.sid \in SessionIds \cup {NoSession} /\ n.sid <= created /\ created \in Nat /\ n.sid \in Nat
  BY SidType, OldSids
<1>3. Local(req[q])
  BY RequestSplit DEF HeldInv
<1>4. NoCookies.sid = NoSession
  BY DEF NoCookies
<1> HIDE DEF n
<1>5. ASSUME NEW b \in Browsers, Sent(q, b)
      PROVE  /\ Fits(n, sessions')
             /\ \A c \in Browsers : cookie'[c].sid # n.sid
             /\ req'[q].sent.sid # n.sid /\ req'[q].new.sid # n.sid
  BY <1>1, <1>4, <1>5 DEF Sent
<1>6. ASSUME Served(q)
      PROVE  /\ Fits(n, sessions')
             /\ \A c \in Browsers : cookie'[c].sid # n.sid
             /\ req'[q].sent.sid # n.sid /\ req'[q].new.sid # n.sid
  <2>1. CASE Moved(q) \/ Refused(q)
    <3>1. RowsKept /\ req'[q].new \in {req[q].new, NoCookies}
      BY <2>1 DEF Moved, Refused
    <3>2. Fits(n, sessions')
      BY <1>1, <1>2, <3>1, FitsKept
    <3> QED BY <1>1, <1>4, <1>6, <3>1, <3>2 DEF Served, Same
  <2>2. CASE LoggedIn(q)
    <3>1. Fits(n, sessions')
      BY <1>1, <1>2, <2>2, FitsLoggedIn
    <3>2. req'[q].new.sid = created + 1
      BY <2>2 DEF LoggedIn
    <3> QED BY <1>1, <1>2, <1>6, <3>1, <3>2 DEF Served, Same
  <2>3. CASE Refreshed(q)
    <3>1. req[q].sid = req[q].sent.sid /\ req'[q].new.sid = req[q].sent.sid
      BY <1>6, <2>3, RefreshesOwn
    <3>2. Fits(n, sessions')
      BY <1>1, <1>2, <2>3, <3>1, FitsRefreshed
    <3> QED BY <1>1, <1>6, <3>1, <3>2 DEF Served, Same
  <2> QED BY <1>6, <2>1, <2>2, <2>3 DEF Served
<1>7. ASSUME Deliver(q) \/ Lose(q)
      PROVE  /\ Fits(n, sessions')
             /\ \A c \in Browsers : cookie'[c].sid # n.sid
             /\ req'[q].sent.sid # n.sid /\ req'[q].new.sid # n.sid
  <2>1. req'[q] = NoJob /\ NoJob.sent = NoCookies /\ NoJob.new = NoCookies
    BY <1>7, DropJob DEF Deliver, Lose, NoJob
  <2>2. \A c \in Browsers : cookie'[c] = cookie[c] \/ cookie'[c] = req[q].new
    BY <1>7 DEF Deliver, Lose, TypeOK
  <2>3. sessions' = sessions
    BY <1>7 DEF Deliver, Lose
  <2> QED BY <1>1, <1>4, <2>1, <2>2, <2>3
<1>8. /\ Fits(n, sessions')
      /\ \A c \in Browsers : cookie'[c].sid # n.sid
      /\ req'[q].sent.sid # n.sid /\ req'[q].new.sid # n.sid
  BY <1>5, <1>6, <1>7
<1>9. \A p \in Requests : /\ req'[p].sent.sid # n.sid
                          /\ p # r => req'[p].new.sid # n.sid
  BY <1>0, <1>1, <1>8 DEF Only
<1> QED BY <1>0, <1>1, <1>8, <1>9 DEF OwnLogin, n

LEMMA OwnLoginStep ==
  ASSUME TypeOK, HeldInv, [Next]_vars, NEW r \in Requests
  PROVE  OwnLogin(r)'
<1>1. ASSUME NEW b \in Browsers, Sent(r, b) PROVE OwnLogin(r)'
  BY <1>1 DEF Sent, OwnLogin, Answering, At
<1>2. CASE Deliver(r) \/ Lose(r)
  <2>1. req'[r].pc = "idle"
    BY <1>2, DropJob DEF Deliver, Lose, NoJob
  <2> QED BY <2>1 DEF OwnLogin, Answering, At
<1>3. CASE RowsKept /\ UNCHANGED <<req, cookie, upset>>
  <2>1. OwnLogin(r)
    BY RequestSplit DEF HeldInv
  <2>2. Fits(req[r].new, sessions) => Fits(req[r].new, sessions')
    BY <1>3, SidType, FitsKept
  <2> QED BY <1>3, <2>1, <2>2 DEF OwnLogin, Answering, At
<1> QED BY <1>1, <1>2, <1>3, OwnLoginServed, OwnLoginOther, StepKinds

LEMMA HeldStep == TypeOK /\ HeldInv /\ [Next]_vars => HeldInv'
<1> SUFFICES ASSUME TypeOK, HeldInv, [Next]_vars PROVE HeldInv'
  OBVIOUS
<1>1. \A r \in Requests : RequestInv(r)'
  BY LocalStep, OwnLoginStep, RequestSplitNext
<1> QED BY <1>1, KnownStep, SaneStep, ApartStep DEF HeldInv

-----------------------------------------------------------------------------
(* Browsers that are not upset. *)

(* The part of CalmInv about one request of a browser whose cookies are x.  *)
CalmJob(j, x, rows) ==
  /\ j.sent = x
  /\ j.kind = "refresh" /\ j.pc = "answer" /\ j.answer = "set" => Fits(j.new, rows)
  /\ j.kind = "logout" /\ j.pc = "answer" /\ j.sent.sid # NoSession =>
       rows[j.sent.sid] = NoRow

Renewing(j) == j.kind = "refresh" /\ j.pc = "answer" /\ j.answer = "set"

LEMMA CalmSplit ==
  ASSUME NEW b \in Browsers
  PROVE  CalmInv(b) <=>
           /\ \A r, q \in InFlight(b) : r = q
           /\ \A r \in InFlight(b) : CalmJob(req[r], cookie[b], sessions)
           /\ (\A r \in InFlight(b) : ~Renewing(req[r])) => Fits(cookie[b], sessions)
BY DEF CalmInv, CalmJob, Renewing, Answering, At, Current, Fits, Exists, InFlight

LEMMA CalmSplitNext ==
  ASSUME NEW b \in Browsers
  PROVE  CalmInv(b)' <=>
           /\ \A r, q \in InFlight(b)' : r = q
           /\ \A r \in InFlight(b)' : CalmJob(req'[r], cookie'[b], sessions')
           /\ (\A r \in InFlight(b)' : ~Renewing(req'[r])) => Fits(cookie'[b], sessions')
BY DEF CalmInv, CalmJob, Renewing, Answering, At, Current, Fits, Exists, InFlight

LEMMA FlightMembers ==
  ASSUME NEW b \in Browsers, NEW r
  PROVE  /\ r \in InFlight(b) <=> r \in Requests /\ req[r].pc # "idle" /\ req[r].browser = b
         /\ r \in InFlight(b)' <=> r \in Requests /\ req'[r].pc # "idle" /\ req'[r].browser = b
BY DEF InFlight

(* What is current for browser b stays so while a request of another takes  *)
(* a step.                                                                 *)
LEMMA FitsElsewhere ==
  ASSUME TypeOK, HeldInv, NEW r \in Requests,
         RowsKept \/ (Served(r) /\ (LoggedIn(r) \/ Refreshed(r))),
         NEW b \in Browsers, RowsKept \/ b # req[r].browser,
         NEW x \in Held(b), Fits(x, sessions)
  PROVE  Fits(x, sessions')
<1>1. x.sid \in SessionIds \cup {NoSession} /\ x.sid <= created /\ created \in Nat
  <2>1. x \in Cookies /\ x.sid <= created
    BY HeldType DEF HeldInv, HeldSane
  <2> QED BY <2>1, OwnerAssumption DEF Cookies, TypeOK
<1>2. CASE RowsKept
  BY <1>1, <1>2, FitsKept
<1>3. CASE LoggedIn(r)
  BY <1>1, <1>3, FitsLoggedIn
<1>4. CASE ~RowsKept /\ Served(r) /\ Refreshed(r)
  <2>1. /\ req[r].sent \in Held(req[r].browser) /\ req[r].browser \in Browsers
        /\ req[r].sid = req[r].sent.sid /\ req[r].sid # NoSession
    BY <1>4, RefreshesOwn, OwnerAssumption
  <2>2. x.sid # req[r].sid
    BY <1>4, <2>1 DEF HeldInv, HeldApart
  <2> QED BY <1>1, <1>4, <2>2, FitsRefreshed
<1> QED BY <1>2, <1>3, <1>4

(* A browser whose requests take no step, while others do.                  *)
LEMMA CalmElsewhere ==
  ASSUME TypeOK, HeldInv, [Next]_vars, NEW b \in Browsers, CalmInv(b),
         \A q \in Requests : req[q].browser = b \/ req'[q].browser = b => req'[q] = req[q],
         cookie'[b] = cookie[b],
         \A x \in Held(b) : Fits(x, sessions) => Fits(x, sessions')
  PROVE  CalmInv(b)'
<1>1. InFlight(b)' = InFlight(b) /\ \A q \in InFlight(b) : req'[q] = req[q]
  BY FlightMembers DEF InFlight
<1>2. ASSUME NEW q \in InFlight(b) PROVE CalmJob(req'[q], cookie'[b], sessions')
  <2>1. CalmJob(req[q], cookie[b], sessions) /\ req'[q] = req[q] /\ cookie'[b] = cookie[b]
    BY <1>1, CalmSplit
  <2>2. req[q].new \in Held(b) /\ q \in Requests
    BY FlightMembers, HeldMembers
  <2>3. req[q].sent.sid # NoSession => req[q].sent.sid \in 1..created
    BY <2>2, OldSids, SidType
  <2>4. req[q].sent.sid # NoSession /\ sessions[req[q].sent.sid] = NoRow
          => sessions'[req[q].sent.sid] = NoRow
    BY <2>3, StayEnded DEF Exists
  <2> QED BY <2>1, <2>2, <2>4 DEF CalmJob
<1>3. (\A q \in InFlight(b)' : ~Renewing(req'[q])) => Fits(cookie'[b], sessions')
  BY <1>1, CalmSplit, HeldMembers
<1> QED BY <1>1, <1>2, <1>3, CalmSplit, CalmSplitNext

LEMMA CalmSent ==
  ASSUME TypeOK, HeldInv, [Next]_vars, NEW r \in Requests, NEW c \in Browsers, Sent(r, c),
         \A b \in Browsers \ upset : CalmInv(b), NEW b \in Browsers \ upset'
  PROVE  CalmInv(b)'
<1>0. b \in Browsers \ upset /\ (b = c => InFlight(b) = {}) /\ CalmInv(b)
  BY DEF Sent
<1>1. /\ Only(r) /\ req[r].pc = "idle" /\ req'[r].browser = c
      /\ cookie' = cookie /\ sessions' = sessions
  BY DEF Sent
<1>2. CASE b # c
  <2>1. InFlight(b)' = InFlight(b) /\ \A q \in InFlight(b) : req'[q] = req[q]
    BY <1>1, <1>2, FlightMembers DEF InFlight, Only
  <2> QED BY <1>0, <1>1, <2>1, CalmSplit, CalmSplitNext
<1>3. CASE b = c
  <2>1. \A q \in InFlight(b)' : q = r
    BY <1>0, <1>1, <1>3, FlightMembers DEF Only
  <2>2. Fits(cookie[b], sessions)
    BY <1>0, <1>3, CalmSplit
  <2>3. CalmJob(req'[r], cookie'[b], sessions')
    BY <1>1, <1>3 DEF Sent, CalmJob
  <2> QED BY <1>1, <2>1, <2>2, <2>3, CalmSplitNext
<1> QED BY <1>2, <1>3

LEMMA CalmServed ==
  ASSUME TypeOK, HeldInv, [Next]_vars, NEW r \in Requests, Served(r),
         \A b \in Browsers \ upset : CalmInv(b), NEW b \in Browsers \ upset'
  PROVE  CalmInv(b)'
<1>0. /\ CalmInv(b) /\ Only(r) /\ cookie' = cookie
      /\ req'[r].browser = req[r].browser /\ req'[r].sent = req[r].sent
      /\ req'[r].kind = req[r].kind /\ req[r].pc # "answer"
      /\ req[r].pc # "idle" /\ req'[r].pc # "idle"
  BY DEF Served, Same
<1>1. CASE b # req[r].browser
  <2>1. RowsKept \/ (Served(r) /\ (LoggedIn(r) \/ Refreshed(r)))
    BY DEF Served, Moved, Refused
  <2>2. \A x \in Held(b) : Fits(x, sessions) => Fits(x, sessions')
    BY <1>1, <2>1, FitsElsewhere
  <2> QED BY <1>0, <1>1, <2>2, CalmElsewhere DEF Only
<1>2. CASE b = req[r].browser
  <2>1. InFlight(b) = {r}
    BY <1>0, <1>2, FlightMembers, CalmSplit
  <2>2. \A q \in InFlight(b)' : q = r
    BY <1>0, <2>1, FlightMembers DEF Only
  <2>3. /\ CalmJob(req[r], cookie[b], sessions) /\ ~Renewing(req[r])
        /\ req[r].sent = cookie[b]
    BY <1>0, <2>1, CalmSplit DEF CalmJob, Renewing
  <2>4. Fits(cookie[b], sessions)
    BY <1>0, <2>1, <2>3, CalmSplit
  <2>5. /\ cookie[b].sid \in SessionIds \cup {NoSession} /\ created \in Nat
        /\ cookie[b].sid \in Nat /\ cookie[b].sid <= created
    BY OldSids, SidType
  <2>6. r \in InFlight(b)'
    BY <1>0, <1>2, FlightMembers
  <2>7. CASE Moved(r)
    <3>1. Fits(cookie'[b], sessions')
      BY <1>0, <2>4, <2>5, <2>7, FitsKept DEF Moved
    <3>2. CalmJob(req'[r], cookie'[b], sessions')
      BY <1>0, <2>3, <2>7 DEF Moved, CalmJob
    <3> QED BY <2>2, <3>1, <3>2, CalmSplitNext
  <2>8. CASE Refused(r)
    <3>1. Fits(cookie'[b], sessions')
      BY <1>0, <2>4, <2>5, <2>8, FitsKept DEF Refused
    <3>2. ASSUME req[r].kind = "logout", cookie[b].sid # NoSession
          PROVE  sessions'[cookie[b].sid] = NoRow
      <4>1. cookie[b].sid \in SessionIds /\ cookie[b].sid \in 1..created
        BY <2>5, <3>2
      <4>2. CASE Exists(cookie[b].sid)
        <5>1. cookie[b].sid \in WithToken(req[r].sent.refresh)
          BY <2>3, <2>4, <3>2, <4>1, <4>2 DEF WithToken, Fits, Exists
        <5> QED BY <2>8, <3>2, <5>1 DEF Refused
      <4>3. CASE ~Exists(cookie[b].sid)
        BY <4>1, <4>3, StayEnded
      <4> QED BY <4>2, <4>3
    <3>3. CalmJob(req'[r], cookie'[b], sessions')
      BY <1>0, <2>3, <2>8, <3>2 DEF Refused, CalmJob
    <3> QED BY <2>2, <3>1, <3>3, CalmSplitNext
  <2>9. CASE LoggedIn(r)
    <3>1. Fits(cookie'[b], sessions')
      BY <1>0, <2>4, <2>5, <2>9, FitsLoggedIn
    <3>2. CalmJob(req'[r], cookie'[b], sessions')
      BY <1>0, <2>3, <2>9 DEF LoggedIn, CalmJob
    <3> QED BY <2>2, <3>1, <3>2, CalmSplitNext
  <2>10. CASE Refreshed(r)
    <3>1. Fits(req'[r].new, sessions') /\ Renewing(req'[r])
      BY <1>0, <2>10 DEF Refreshed, RowRotated, Fits, Renewing
    <3>2. CalmJob(req'[r], cookie'[b], sessions')
      BY <1>0, <2>3, <2>10, <3>1 DEF Refreshed, CalmJob
    <3> QED BY <2>2, <2>6, <3>1, <3>2, CalmSplitNext
  <2> QED BY <2>7, <2>8, <2>9, <2>10 DEF Served
<1> QED BY <1>1, <1>2

LEMMA CalmOver ==
  ASSUME TypeOK, HeldInv, [Next]_vars, NEW r \in Requests, Deliver(r) \/ Lose(r),
         \A b \in Browsers \ upset : CalmInv(b), NEW b \in Browsers \ upset'
  PROVE  CalmInv(b)'
<1>0. /\ Only(r) /\ req'[r] = NoJob /\ NoJob.pc = "idle" /\ NoJob.browser = NoBrowser
      /\ sessions' = sessions /\ req[r].pc # "idle" /\ NoBrowser \notin Browsers
  BY DropJob, OwnerAssumption DEF Deliver, Lose, NoJob
<1>1. CASE b # req[r].browser
  <2>1. b \notin upset /\ cookie'[b] = cookie[b]
    BY <1>1 DEF Deliver, Lose, TypeOK
  <2>2. InFlight(b)' = InFlight(b) /\ \A q \in InFlight(b) : req'[q] = req[q]
    BY <1>0, <1>1, FlightMembers DEF InFlight, Only
  <2> QED BY <1>0, <2>1, <2>2, CalmSplit, CalmSplitNext
<1>2. CASE b = req[r].browser
  <2>1. Deliver(r) /\ req[r].pc = "answer"
    BY <1>2 DEF Deliver, Lose
  <2>2. r \in InFlight(b)
    BY <1>0, <1>2, FlightMembers
  <2>3. InFlight(b) = {r}
    <3>1. CASE b \in upset
      BY <1>2, <2>1, <3>1 DEF Deliver
    <3>2. CASE b \notin upset
      BY <2>2, <3>2, CalmSplit
    <3> QED BY <3>1, <3>2
  <2>4. InFlight(b)' = {}
    BY <1>0, <2>3, FlightMembers DEF Only
  <2>5. cookie'[b] = IF req[r].answer = "keep" THEN cookie[b] ELSE req[r].new
    BY <1>2, <2>1 DEF Deliver, TypeOK
  <2>6. Local(req[r]) /\ OwnLogin(r)
    BY RequestSplit DEF HeldInv
  <2>7. b \in upset => req[r].answer = "set" /\ req[r].kind = "login"
    BY <1>2, <2>1 DEF Deliver
  <2>8. b \notin upset => /\ CalmJob(req[r], cookie[b], sessions)
                          /\ ~Renewing(req[r]) => Fits(cookie[b], sessions)
    BY <2>3, CalmSplit
  <2>9. Fits(cookie'[b], sessions')
    <3>1. CASE req[r].answer = "set" /\ req[r].kind = "login"
      BY <1>0, <2>1, <2>5, <2>6, <3>1 DEF OwnLogin, Answering, At
    <3>2. CASE req[r].answer = "set" /\ req[r].kind # "login"
      <4>1. req[r].kind = "refresh" /\ b \notin upset
        BY <2>1, <2>6, <2>7, <3>2 DEF Local
      <4> QED BY <1>0, <2>1, <2>5, <2>8, <3>2, <4>1 DEF CalmJob
    <3>3. CASE req[r].answer = "keep"
      BY <1>0, <2>5, <2>7, <2>8, <3>3 DEF Renewing
    <3>4. CASE req[r].answer \notin {"set", "keep"}
      <4>1. cookie'[b] = NoCookies
        BY <2>5, <2>6, <3>4 DEF Local
      <4> QED BY <4>1 DEF Fits, NoCookies
    <3> QED BY <3>1, <3>2, <3>3, <3>4
  <2> QED BY <2>4, <2>9, CalmSplitNext
<1> QED BY <1>1, <1>2

LEMMA CookieStep == TypeOK /\ CookieInv /\ [Next]_vars => CookieInv'
<1> SUFFICES ASSUME TypeOK, CookieInv, [Next]_vars PROVE CookieInv'
  OBVIOUS
<1>1. HeldInv /\ HeldInv' /\ \A b \in Browsers \ upset : CalmInv(b)
  BY HeldStep DEF CookieInv, HeldInv
<1>2. ASSUME NEW b \in Browsers \ upset' PROVE CalmInv(b)'
  <2>1. CASE RowsKept /\ UNCHANGED <<req, cookie, upset>>
    <3>1. ASSUME NEW x \in Held(b), Fits(x, sessions) PROVE Fits(x, sessions')
      <4>1. x.sid \in SessionIds \cup {NoSession}
        BY HeldType DEF Cookies
      <4> QED BY <2>1, <3>1, <4>1, FitsKept
    <3> QED BY <1>1, <2>1, <3>1, CalmElsewhere
  <2> QED BY <1>1, <2>1, CalmSent, CalmServed, CalmOver, StepKinds
<1> QED BY <1>1, <1>2 DEF CookieInv, HeldInv

LEMMA CookieInit == Init => CookieInv
<1> SUFFICES ASSUME Init PROVE CookieInv
  OBVIOUS
<1>1. \A b \in Browsers : InFlight(b) = {} /\ Held(b) = {NoCookies}
  BY DEF Init, InFlight, Held, NoJob
<1>2. RowsKnown
  BY KnownInit
<1>3. HeldSane
  BY <1>1 DEF HeldSane, NoCookies, Init, WithToken, Exists
<1>4. HeldApart
  BY <1>1 DEF HeldApart, NoCookies
<1>5. \A r \in Requests : RequestInv(r)
  BY DEF Init, RequestInv, NoJob, At, Answering
<1>6. \A b \in Browsers : CalmInv(b)
  BY <1>1 DEF CalmInv, Init, Current, NoCookies
<1> QED BY <1>2, <1>3, <1>4, <1>5, <1>6 DEF CookieInv

(* A browser that sends one request at a time and loses no answer is never  *)
(* left behind by the rotation of its refresh token, whatever all the other *)
(* browsers and devices do.                                                *)
THEOREM RotationKeepsUp == Spec => []CookieCurrent
<1>1. CookieInv => CookieCurrent
  BY DEF CookieInv, CookieCurrent, CalmInv, Current
<1> QED BY <1>1, CookieInit, CookieStep, TypeCorrect, PTL DEF Spec

(* And its logout ends the session it was signed in to.                     *)
THEOREM CalmLogoutEnds == Spec => []LogoutEndsItsSession
<1>1. TypeOK /\ CookieInv => LogoutEndsItsSession
  <2> SUFFICES ASSUME TypeOK, CookieInv, NEW r \in Requests,
                      At(r, "logout", "answer"), req[r].browser \notin upset,
                      req[r].sent.sid # NoSession
               PROVE  ~Exists(req[r].sent.sid)
    BY DEF LogoutEndsItsSession
  <2>1. req[r].browser \in Browsers /\ r \in InFlight(req[r].browser)
    BY TypeSplit DEF At, Sound, InFlight
  <2> QED BY <2>1 DEF CookieInv, CalmInv
<1> QED BY <1>1, CookieInit, CookieStep, TypeCorrect, PTL DEF Spec
=============================================================================

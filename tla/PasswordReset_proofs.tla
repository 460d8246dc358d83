------------------------ MODULE PasswordReset_proofs ------------------------
(* Theorems about PasswordReset for any number of requests, passwords,      *)
(* tokens and sessions.  The properties of links hold until two requests    *)
(* that use links overlap; any others may.                                 *)
EXTENDS PasswordReset, TLAPS

USE DEF Kinds, PCs, TokenIds, SessionIds, NoToken

(* What a step does to the record of its own request, and to no other.      *)
LEMMA JobsExcept ==
  ASSUME NEW f \in [Requests -> Jobs], NEW r \in Requests, NEW j \in Jobs
  PROVE  /\ [f EXCEPT ![r] = j] \in [Requests -> Jobs]
         /\ [f EXCEPT ![r] = j][r] = j
         /\ \A q \in Requests : q # r => [f EXCEPT ![r] = j][q] = f[q]
OBVIOUS

LEMMA NoJobType == NoJob \in Jobs
BY BoundsAssumption DEF NoJob, Jobs

(* Of the fields the properties are about, those outside changed are kept.  *)
Kept(r, changed) ==
  /\ "kind" \in changed \/ req'[r].kind = req[r].kind
  /\ "token" \in changed \/ req'[r].token = req[r].token
  /\ "seen" \in changed \/ req'[r].seen = req[r].seen
  /\ "known" \in changed \/ req'[r].known = req[r].known
  /\ "ok" \in changed \/ req'[r].ok = req[r].ok

LEMMA GotoType ==
  ASSUME TypeOK, NEW r \in Requests, NEW pc \in PCs, Goto(r, pc)
  PROVE  /\ req' \in [Requests -> Jobs]
         /\ req'[r].pc = pc /\ Kept(r, {})
         /\ \A q \in Requests : q # r => req'[q] = req[q]
<1> DEFINE j == [req[r] EXCEPT !.pc = pc]
<1>1. req' = [req EXCEPT ![r] = j]
  BY DEF Goto, TypeOK
<1>2. req \in [Requests -> Jobs] /\ j \in Jobs /\ j.pc = pc
      /\ j.kind = req[r].kind /\ j.token = req[r].token /\ j.seen = req[r].seen
      /\ j.known = req[r].known /\ j.ok = req[r].ok
  BY DEF TypeOK, Jobs
<1> HIDE DEF j
<1>3. req' \in [Requests -> Jobs] /\ req'[r] = j
        /\ \A o \in Requests : o # r => req'[o] = req[o]
  BY <1>1, <1>2, JobsExcept
<1> QED BY <1>2, <1>3 DEF j, Kept

LEMMA AnswerType ==
  ASSUME TypeOK, NEW r \in Requests, NEW ok \in BOOLEAN, Answer(r, ok)
  PROVE  /\ req' \in [Requests -> Jobs]
         /\ req'[r].pc = "answer" /\ req'[r].ok = ok
         /\ req'[r].kind = req[r].kind /\ req'[r].token = req[r].token
         /\ req'[r].seen = req[r].seen /\ req'[r].known = req[r].known
         /\ \A q \in Requests : q # r => req'[q] = req[q]
<1> DEFINE j == [req[r] EXCEPT !.pc = "answer", !.ok = ok,
                               !.given = FirstPassword, !.wanted = FirstPassword]
<1>1. req' = [req EXCEPT ![r] = j]
  BY DEF Answer, TypeOK
<1>2. req \in [Requests -> Jobs] /\ req[r] \in Jobs
  BY DEF TypeOK
<1>3. /\ j \in Jobs /\ j.pc = "answer" /\ j.ok = ok
      /\ j.kind = req[r].kind /\ j.token = req[r].token
      /\ j.seen = req[r].seen /\ j.known = req[r].known
  BY <1>2, BoundsAssumption DEF Jobs
<1> HIDE DEF j
<1> QED BY <1>1, <1>2, <1>3, JobsExcept

LEMMA SendType ==
  ASSUME TypeOK, NEW r \in Requests, NEW kind \in Kinds, NEW pc \in PCs,
         NEW t \in TokenIds \cup {NoToken}, NEW p \in Passwords, NEW q \in Passwords,
         Send(r, kind, pc, t, p, q)
  PROVE  /\ req' \in [Requests -> Jobs]
         /\ req'[r].kind = kind /\ req'[r].pc = pc /\ req'[r].token = t
         /\ req'[r].seen = {} /\ req'[r].known = {}
         /\ \A o \in Requests : o # r => req'[o] = req[o]
         /\ tangled' \in BOOLEAN
         /\ UNCHANGED <<password, tokens, made, expired, recent, mailed, sessions,
                        opened, resets>>
<1> DEFINE j == [NoJob EXCEPT !.kind = kind, !.pc = pc, !.token = t,
                              !.given = p, !.wanted = q]
<1>1. req' = [req EXCEPT ![r] = j]
  BY DEF Send
<1>2. j \in Jobs
  BY BoundsAssumption DEF NoJob, Jobs
<1>3. req \in [Requests -> Jobs]
  BY DEF TypeOK
<1>6. j.kind = kind /\ j.pc = pc /\ j.token = t /\ j.seen = {} /\ j.known = {}
  BY BoundsAssumption DEF TypeOK, Jobs, NoJob
<1> HIDE DEF j
<1>4. req' \in [Requests -> Jobs] /\ req'[r] = j
        /\ \A o \in Requests : o # r => req'[o] = req[o]
  BY <1>1, <1>2, <1>3, JobsExcept
<1>5. tangled' \in BOOLEAN
  BY ZenonT(20) DEF Send
<1> QED BY <1>4, <1>5, <1>6 DEF j, Kept, Send

(* The three steps that write more of the job than where it is.             *)
LEMMA CreateTokenType ==
  ASSUME TypeOK, NEW r \in Requests, CreateToken(r)
  PROVE  /\ req' \in [Requests -> Jobs]
         /\ req'[r].pc = "mail" /\ req'[r].token = made + 1 /\ Kept(r, {"token"})
         /\ \A o \in Requests : o # r => req'[o] = req[o]
<1> DEFINE j == [req[r] EXCEPT !.pc = "mail", !.token = made + 1]
<1>1. req' = [req EXCEPT ![r] = j]
  BY DEF CreateToken, TypeOK
<1>2. made + 1 \in TokenIds
  BY BoundsAssumption DEF CreateToken, TypeOK
<1>3. req \in [Requests -> Jobs] /\ j \in Jobs
  BY <1>2 DEF TypeOK, Jobs
<1>6. j.pc = "mail" /\ j.token = made + 1
      /\ j.kind = req[r].kind /\ j.seen = req[r].seen /\ j.known = req[r].known /\ j.ok = req[r].ok
  BY BoundsAssumption DEF TypeOK, Jobs, NoJob
<1> HIDE DEF j
<1>4. req' \in [Requests -> Jobs] /\ req'[r] = j
        /\ \A o \in Requests : o # r => req'[o] = req[o]
  BY <1>1, <1>3, JobsExcept
<1> QED BY <1>4, <1>6 DEF j, Kept

LEMMA LookUpType ==
  ASSUME TypeOK, NEW r \in Requests, LookUp(r),
         tokens[req[r].token] = "unused" /\ req[r].token \notin expired
  PROVE  /\ req' \in [Requests -> Jobs]
         /\ req'[r].pc = "write" /\ req'[r].known = 1..made /\ Kept(r, {"known"})
         /\ \A o \in Requests : o # r => req'[o] = req[o]
<1> DEFINE j == [req[r] EXCEPT !.pc = "write", !.known = 1..made]
<1>1. req' = [req EXCEPT ![r] = j]
  BY DEF LookUp, TypeOK
<1>2. 1..made \subseteq TokenIds
  BY BoundsAssumption DEF TypeOK
<1>3. req \in [Requests -> Jobs] /\ req[r] \in Jobs
  BY DEF TypeOK
<1>5. j \in Jobs
  <2>1. 1..made \in SUBSET TokenIds /\ "write" \in PCs
    BY <1>2
  <2> QED BY ONLY <1>3, <2>1 DEF Jobs
<1>6. j.pc = "write" /\ j.known = 1..made
      /\ j.kind = req[r].kind /\ j.token = req[r].token /\ j.seen = req[r].seen /\ j.ok = req[r].ok
  BY BoundsAssumption DEF TypeOK, Jobs, NoJob
<1> HIDE DEF j
<1>4. req' \in [Requests -> Jobs] /\ req'[r] = j
        /\ \A o \in Requests : o # r => req'[o] = req[o]
  BY <1>1, <1>3, <1>5, JobsExcept
<1> QED BY <1>4, <1>6 DEF j, Kept

LEMMA WritePasswordType ==
  ASSUME TypeOK, NEW r \in Requests, WritePassword(r)
  PROVE  /\ req' \in [Requests -> Jobs]
         /\ req'[r].pc = "endSessions" /\ req'[r].seen = sessions /\ Kept(r, {"seen"})
         /\ \A o \in Requests : o # r => req'[o] = req[o]
<1> DEFINE j == [req[r] EXCEPT !.pc = "endSessions", !.seen = sessions]
<1>1. req' = [req EXCEPT ![r] = j]
  BY DEF WritePassword, TypeOK
<1>2. sessions \subseteq SessionIds
  BY BoundsAssumption DEF TypeOK
<1>3. req \in [Requests -> Jobs] /\ j \in Jobs
  BY <1>2 DEF TypeOK, Jobs
<1>6. j.pc = "endSessions" /\ j.seen = sessions
      /\ j.kind = req[r].kind /\ j.token = req[r].token /\ j.known = req[r].known /\ j.ok = req[r].ok
  BY BoundsAssumption DEF TypeOK, Jobs, NoJob
<1> HIDE DEF j
<1>4. req' \in [Requests -> Jobs] /\ req'[r] = j
        /\ \A o \in Requests : o # r => req'[o] = req[o]
  BY <1>1, <1>3, JobsExcept
<1> QED BY <1>4, <1>6 DEF j, Kept

LEMMA WriteChangeType ==
  ASSUME TypeOK, NEW r \in Requests, WriteChange(r)
  PROVE  /\ req' \in [Requests -> Jobs]
         /\ req'[r].pc = "answer" /\ Kept(r, {"ok"})
         /\ \A o \in Requests : o # r => req'[o] = req[o]
<1> DEFINE j == [req[r] EXCEPT !.pc = "answer", !.ok = TRUE]
<1>1. req' = [req EXCEPT ![r] = j]
  BY DEF WriteChange, TypeOK
<1>3. req \in [Requests -> Jobs] /\ j \in Jobs
  BY DEF TypeOK, Jobs
<1>6. j.pc = "answer"
      /\ j.kind = req[r].kind /\ j.token = req[r].token /\ j.seen = req[r].seen /\ j.known = req[r].known
  BY BoundsAssumption DEF TypeOK, Jobs, NoJob
<1> HIDE DEF j
<1>4. req' \in [Requests -> Jobs] /\ req'[r] = j
        /\ \A o \in Requests : o # r => req'[o] = req[o]
  BY <1>1, <1>3, JobsExcept
<1> QED BY <1>4, <1>6 DEF j, Kept

-----------------------------------------------------------------------------
(* A reset, and a request about to mail, name a token that was created.     *)
Named(j, n) ==
  (j.kind = "reset" /\ j.pc # "idle") \/ (j.kind = "request" /\ j.pc = "mail")
    => j.token \in 1..n

LEMMA TypeOKNamed ==
  TypeOK => \A r \in Requests : Named(req[r], made)
BY DEF TypeOK, Named, At

(* A step of one request that writes to no table.                           *)
LEMMA TypeFrame ==
  ASSUME TypeOK, NEW r \in Requests,
         req' \in [Requests -> Jobs], Named(req'[r], made),
         \A q \in Requests : q # r => req'[q] = req[q],
         tangled' \in BOOLEAN,
         UNCHANGED <<password, tokens, made, expired, recent, mailed, sessions,
                     opened, resets>>
  PROVE  TypeOK'
<1>1. \A q \in Requests : Named(req'[q], made)
  BY TypeOKNamed
<1> QED BY <1>1 DEF TypeOK, Named, At

LEMMA TypeGoto ==
  ASSUME TypeOK, NEW r \in Requests, NEW pc \in PCs, Goto(r, pc),
         req[r].pc # "idle", pc # "mail",
         UNCHANGED <<password, tokens, made, expired, recent, mailed, sessions,
                     opened, resets, tangled>>
  PROVE  TypeOK'
<1>0. tangled' \in BOOLEAN
  BY DEF TypeOK
<1>1. Named(req[r], made) /\ req[r] \in Jobs
  BY TypeOKNamed DEF TypeOK
<1>2. /\ req' \in [Requests -> Jobs]
      /\ req'[r].pc = pc /\ Kept(r, {})
      /\ \A q \in Requests : q # r => req'[q] = req[q]
  BY GotoType
<1>3. Named(req'[r], made)
  BY <1>1, <1>2 DEF Named, Kept
<1> QED BY <1>0, <1>2, <1>3, TypeFrame

LEMMA TypeAnswer ==
  ASSUME TypeOK, NEW r \in Requests, NEW ok \in BOOLEAN, Answer(r, ok),
         req[r].pc # "idle",
         UNCHANGED <<password, tokens, made, expired, recent, mailed, sessions,
                     opened, resets, tangled>>
  PROVE  TypeOK'
<1>0. tangled' \in BOOLEAN
  BY DEF TypeOK
<1>1. Named(req[r], made)
  BY TypeOKNamed
<1>2. /\ req' \in [Requests -> Jobs]
      /\ req'[r].pc = "answer" /\ req'[r].kind = req[r].kind
      /\ req'[r].token = req[r].token
      /\ \A q \in Requests : q # r => req'[q] = req[q]
  BY AnswerType
<1>3. Named(req'[r], made)
  BY <1>1, <1>2 DEF Named
<1> QED BY <1>0, <1>2, <1>3, TypeFrame

LEMMA TypeSend ==
  ASSUME TypeOK, NEW r \in Requests, NEW kind \in Kinds, NEW pc \in PCs,
         NEW t \in TokenIds \cup {NoToken}, NEW p \in Passwords, NEW q \in Passwords,
         Send(r, kind, pc, t, p, q), kind = "reset" => t \in 1..made, pc # "mail"
  PROVE  TypeOK'
<1>1. /\ req' \in [Requests -> Jobs]
      /\ req'[r].kind = kind /\ req'[r].pc = pc /\ req'[r].token = t
      /\ \A o \in Requests : o # r => req'[o] = req[o]
      /\ tangled' \in BOOLEAN
      /\ UNCHANGED <<password, tokens, made, expired, recent, mailed, sessions,
                     opened, resets>>
  BY SendType
<1>2. Named(req'[r], made)
  BY <1>1 DEF Named
<1> QED BY <1>1, <1>2, TypeFrame

LEMMA TypeSubmit ==
  ASSUME TypeOK, NEW r \in Requests, Submit(r)
  PROVE  TypeOK'
<1> USE BoundsAssumption
<1>1. CASE SendRequest(r)
  BY <1>1, TypeSend DEF SendRequest
<1>2. ASSUME NEW p \in Passwords, SendLogin(r, p) PROVE TypeOK'
  BY <1>2, TypeSend DEF SendLogin
<1>3. ASSUME NEW p \in Passwords, NEW t \in TokenIds, SendReset(r, t, p) PROVE TypeOK'
  <2>1. t \in 1..made /\ Send(r, "reset", "lookup", t, FirstPassword, p)
    BY <1>3 DEF SendReset, TypeOK
  <2> QED BY <2>1, TypeSend
<1>4. ASSUME NEW p \in Passwords, NEW q \in Passwords, SendChange(r, p, q) PROVE TypeOK'
  BY <1>4, TypeSend DEF SendChange
<1> QED BY <1>1, <1>2, <1>3, <1>4 DEF Submit

(* The types of the tables alone. *)
TablesOK ==
  /\ password \in Passwords
  /\ tokens \in [TokenIds -> {"none", "unused", "used"}]
  /\ made \in 0..MaxTokens
  /\ expired \subseteq TokenIds
  /\ recent \in BOOLEAN
  /\ mailed \subseteq {t \in 1..made : tokens[t] # "none"}
  /\ sessions \subseteq 1..opened
  /\ opened \in 0..MaxSessions
  /\ resets \in [TokenIds -> Nat]
  /\ tangled \in BOOLEAN

LEMMA TypeSplit ==
  TypeOK <=> /\ TablesOK /\ req \in [Requests -> Jobs]
             /\ \A r \in Requests : Named(req[r], made)
BY DEF TypeOK, TablesOK, Named, At

(* Handing a row to a request: what SendMail needs of the rows of tokens.   *)
LEMMA TypeStepOfTables ==
  ASSUME TypeOK, NEW r \in Requests, TablesOK', made <= made',
         req' \in [Requests -> Jobs], Named(req'[r], made'),
         \A q \in Requests : q # r => req'[q] = req[q]
  PROVE  TypeOK'
<1>1. \A q \in Requests : Named(req[q], made)
  BY TypeSplit
<1>2. made \in Nat /\ made' \in Nat
  BY BoundsAssumption DEF TypeOK, TablesOK
<1>3. \A q \in Requests : Named(req'[q], made')
  BY <1>1, <1>2 DEF Named
<1> QED BY <1>3, TypeSplit DEF TypeOK, TablesOK, Named, At

LEMMA TypeServe ==
  ASSUME TypeOK, TokenRows, NEW r \in Requests, Serve(r)
  PROVE  TypeOK'
<1> USE BoundsAssumption
<1>0. TablesOK /\ req[r] \in Jobs /\ Named(req[r], made)
  BY TypeSplit
<1>1. CASE CheckCooldown(r)
  BY <1>1, TypeAnswer, TypeGoto DEF CheckCooldown, At
<1>2. CASE InvalidateOlder(r)
  <2>1. TablesOK'
    BY <1>0, <1>2 DEF InvalidateOlder, AllUsed, TablesOK
  <2>2. /\ req' \in [Requests -> Jobs]
        /\ req'[r].pc = "create" /\ Kept(r, {})
        /\ \A q \in Requests : q # r => req'[q] = req[q]
    BY <1>2, GotoType DEF InvalidateOlder
  <2>3. Named(req'[r], made') /\ made <= made'
    BY <1>0, <1>2, <2>2 DEF Named, InvalidateOlder, At, Kept, TablesOK
  <2> QED BY <2>1, <2>2, <2>3, TypeStepOfTables
<1>3. CASE CreateToken(r)
  <2>1. /\ req' \in [Requests -> Jobs]
        /\ req'[r].pc = "mail" /\ req'[r].token = made + 1 /\ Kept(r, {"token"})
        /\ \A q \in Requests : q # r => req'[q] = req[q]
    BY <1>3, CreateTokenType
  <2>2. made' = made + 1 /\ made \in Nat /\ made + 1 \in TokenIds
    BY <1>0, <1>3 DEF CreateToken, TablesOK
  <2>3. TablesOK'
    BY <1>0, <1>3, <2>2 DEF CreateToken, TablesOK
  <2>4. Named(req'[r], made') /\ made <= made'
    BY <1>0, <2>1, <2>2 DEF Named, Kept
  <2> QED BY <2>1, <2>3, <2>4, TypeStepOfTables
<1>4. CASE SendMail(r)
  <2>1. req[r].token \in 1..made /\ tokens[req[r].token] # "none"
    BY <1>0, <1>4 DEF SendMail, At, Named, TokenRows, TablesOK
  <2>2. TablesOK'
    BY <1>0, <1>4, <2>1 DEF SendMail, TablesOK
  <2>3. /\ req' \in [Requests -> Jobs]
        /\ req'[r].kind = "request" /\ req'[r].pc = "answer"
        /\ \A q \in Requests : q # r => req'[q] = req[q]
    BY <1>4, AnswerType DEF SendMail, At
  <2>4. Named(req'[r], made') /\ made <= made'
    BY <1>0, <1>4, <2>3 DEF Named, SendMail, TablesOK
  <2> QED BY <2>2, <2>3, <2>4, TypeStepOfTables
<1>5. CASE LookUp(r)
  <2>1. CASE tokens[req[r].token] = "unused" /\ req[r].token \notin expired
    <3>1. /\ req' \in [Requests -> Jobs]
          /\ req'[r].pc = "write" /\ Kept(r, {"known"})
          /\ \A q \in Requests : q # r => req'[q] = req[q]
      BY <1>5, <2>1, LookUpType
    <3>2. Named(req'[r], made)
      BY <1>0, <1>5, <3>1 DEF LookUp, At, Named, Kept
    <3>3. tangled' \in BOOLEAN
      BY <1>5 DEF LookUp, TypeOK
    <3> QED BY <1>5, <3>1, <3>2, <3>3, TypeFrame DEF LookUp
  <2>2. CASE ~(tokens[req[r].token] = "unused" /\ req[r].token \notin expired)
    BY <1>5, <2>2, TypeAnswer DEF LookUp, At
  <2> QED BY <2>1, <2>2
<1>6. CASE WritePassword(r)
  <2>1. /\ req' \in [Requests -> Jobs]
        /\ req'[r].pc = "endSessions" /\ req'[r].seen = sessions /\ Kept(r, {"seen"})
        /\ \A q \in Requests : q # r => req'[q] = req[q]
    BY <1>6, WritePasswordType
  <2>2. TablesOK' /\ made <= made'
    BY <1>0, <1>6 DEF WritePassword, TablesOK, Jobs
  <2>3. Named(req'[r], made')
    BY <1>0, <1>6, <2>1 DEF WritePassword, At, Named, Kept
  <2> QED BY <2>1, <2>2, <2>3, TypeStepOfTables
<1>7. CASE EndSessions(r)
  <2>1. TablesOK' /\ made <= made'
    BY <1>0, <1>7 DEF EndSessions, TablesOK
  <2>2. /\ req' \in [Requests -> Jobs]
        /\ req'[r].pc = "markUsed" /\ Kept(r, {})
        /\ \A q \in Requests : q # r => req'[q] = req[q]
    BY <1>7, GotoType DEF EndSessions
  <2>3. Named(req'[r], made')
    BY <1>0, <1>7, <2>2 DEF EndSessions, At, Named, Kept
  <2> QED BY <2>1, <2>2, <2>3, TypeStepOfTables
<1>8. CASE MarkUsed(r)
  <2>0. req[r].token \in 1..made
    BY <1>0, <1>8 DEF MarkUsed, At, Named
  <2>1. TablesOK' /\ made <= made'
    <3>1. tokens' = [tokens EXCEPT ![req[r].token] = "used"]
      BY <1>8 DEF MarkUsed
    <3>2. /\ tokens' \in [TokenIds -> {"none", "unused", "used"}]
          /\ \A t \in TokenIds : tokens[t] # "none" => tokens'[t] # "none"
      BY <1>0, <3>1 DEF TablesOK
    <3> QED BY <1>0, <1>8, <3>2 DEF MarkUsed, TablesOK
  <2>2. /\ req' \in [Requests -> Jobs]
        /\ req'[r].pc = "spend" /\ Kept(r, {})
        /\ \A q \in Requests : q # r => req'[q] = req[q]
    BY <1>8, GotoType DEF MarkUsed
  <2>3. Named(req'[r], made')
    BY <1>0, <1>8, <2>2 DEF MarkUsed, At, Named, Kept
  <2> QED BY <2>1, <2>2, <2>3, TypeStepOfTables
<1>9. CASE SpendOthers(r)
  <2>0. req[r].token \in TokenIds
    BY <1>0, <1>9 DEF SpendOthers, At, Named, TablesOK
  <2>1. TablesOK' /\ made <= made'
    <3>1. resets' \in [TokenIds -> Nat]
      BY <1>0, <1>9, <2>0 DEF SpendOthers, TablesOK
    <3>2. /\ tokens' \in [TokenIds -> {"none", "unused", "used"}]
          /\ \A t \in TokenIds : tokens[t] # "none" => tokens'[t] # "none"
      BY <1>0, <1>9 DEF SpendOthers, AllUsed, TablesOK
    <3> QED BY <1>0, <1>9, <3>1, <3>2 DEF SpendOthers, TablesOK
  <2>2. /\ req' \in [Requests -> Jobs] /\ req'[r].token = req[r].token
        /\ req'[r].kind = req[r].kind /\ req'[r].pc = "answer"
        /\ \A q \in Requests : q # r => req'[q] = req[q]
    BY <1>9, AnswerType DEF SpendOthers
  <2>3. Named(req'[r], made')
    BY <1>0, <1>9, <2>2 DEF SpendOthers, At, Named, Kept
  <2> QED BY <2>1, <2>2, <2>3, TypeStepOfTables
<1>10. CASE VerifyPassword(r)
  BY <1>10, TypeAnswer, TypeGoto DEF VerifyPassword, At
<1>11. CASE OpenSession(r)
  <2>1. TablesOK' /\ made <= made'
    BY <1>0, <1>11 DEF OpenSession, TablesOK
  <2>2. /\ req' \in [Requests -> Jobs]
        /\ req'[r].kind = "login" /\ req'[r].pc = "answer"
        /\ \A q \in Requests : q # r => req'[q] = req[q]
    BY <1>11, AnswerType DEF OpenSession, At
  <2>3. Named(req'[r], made')
    BY <2>2 DEF Named
  <2> QED BY <2>1, <2>2, <2>3, TypeStepOfTables
<1>12. CASE VerifyCurrent(r)
  BY <1>12, TypeAnswer, TypeGoto DEF VerifyCurrent, At
<1>13. CASE WriteChange(r)
  <2>1. /\ req' \in [Requests -> Jobs]
        /\ req'[r].pc = "answer" /\ Kept(r, {"ok"})
        /\ \A q \in Requests : q # r => req'[q] = req[q]
    BY <1>13, WriteChangeType
  <2>2. TablesOK' /\ made <= made'
    BY <1>0, <1>13 DEF WriteChange, TablesOK, Jobs
  <2>3. Named(req'[r], made')
    BY <1>0, <1>13, <2>1 DEF WriteChange, At, Named, Kept
  <2> QED BY <2>1, <2>2, <2>3, TypeStepOfTables
<1> QED BY <1>1, <1>2, <1>3, <1>4, <1>5, <1>6, <1>7, <1>8, <1>9, <1>10, <1>11,
           <1>12, <1>13 DEF Serve

LEMMA TypeOthers ==
  ASSUME TypeOK,
         \/ \E r \in Requests : Fail(r) \/ Receive(r)
         \/ \E t \in TokenIds : Expire(t)
         \/ EndCooldown
         \/ Crash
         \/ UNCHANGED vars
  PROVE  TypeOK'
<1>1. ASSUME NEW r \in Requests, Fail(r) PROVE TypeOK'
  BY <1>1, TypeAnswer DEF Fail
<1>2. ASSUME NEW r \in Requests, Receive(r) PROVE TypeOK'
  <2>1. req' = [req EXCEPT ![r] = NoJob] /\ req \in [Requests -> Jobs]
    BY <1>2 DEF Receive, TypeOK
  <2>2. /\ req' \in [Requests -> Jobs] /\ req'[r] = NoJob
        /\ \A q \in Requests : q # r => req'[q] = req[q]
    BY <2>1, NoJobType, JobsExcept
  <2>3. Named(req'[r], made)
    BY <2>2 DEF Named, NoJob
  <2>4. tangled' \in BOOLEAN
    BY <1>2 DEF Receive, TypeOK
  <2> QED BY <1>2, <2>2, <2>3, <2>4, TypeFrame DEF Receive
<1>3. ASSUME NEW t \in TokenIds, Expire(t) PROVE TypeOK'
  BY <1>3 DEF Expire, TypeOK, At
<1>4. CASE EndCooldown
  BY <1>4 DEF EndCooldown, TypeOK, At
<1>5. CASE Crash
  <2>1. req' = [r \in Requests |-> NoJob]
    BY <1>5 DEF Crash
  <2>2. req' \in [Requests -> Jobs] /\ \A r \in Requests : Named(req'[r], made)
    BY <2>1, NoJobType DEF Named, NoJob
  <2> QED BY <1>5, <2>2 DEF Crash, TypeOK, Named, At
<1>6. CASE UNCHANGED vars
  BY <1>6 DEF vars, TypeOK, At
<1> QED BY <1>1, <1>2, <1>3, <1>4, <1>5, <1>6

(* Only these four steps write to the rows of password_reset_tokens.        *)
LEMMA TokenWriters ==
  ASSUME [Next]_vars
  PROVE  \/ \E r \in Requests : \/ InvalidateOlder(r) \/ CreateToken(r)
                                 \/ MarkUsed(r) \/ SpendOthers(r)
         \/ UNCHANGED <<tokens, made, resets>>
<1>1. CASE \E r \in Requests : Submit(r)
  BY <1>1 DEF Submit, SendRequest, SendReset, SendLogin, SendChange, Send
<1>2. ASSUME NEW r \in Requests, Serve(r),
             ~InvalidateOlder(r), ~CreateToken(r), ~MarkUsed(r), ~SpendOthers(r)
      PROVE  UNCHANGED <<tokens, made, resets>>
  BY <1>2 DEF Serve, CheckCooldown, SendMail, LookUp, WritePassword, EndSessions,
              VerifyPassword, OpenSession, VerifyCurrent, WriteChange
<1>3. CASE \E r \in Requests : Fail(r) \/ Receive(r)
  BY <1>3 DEF Fail, Receive
<1>4. CASE (\E t \in TokenIds : Expire(t)) \/ EndCooldown \/ Crash \/ UNCHANGED vars
  BY <1>4 DEF Expire, EndCooldown, Crash, vars
<1> QED BY <1>1, <1>2, <1>3, <1>4 DEF Next

LEMMA RowsStep ==
  ASSUME TypeOK, TokenRows, [Next]_vars
  PROVE  TokenRows'
<1>1. CASE UNCHANGED <<tokens, made, resets>>
  BY <1>1 DEF TokenRows
<1>2. ASSUME NEW r \in Requests, InvalidateOlder(r) \/ SpendOthers(r)
      PROVE  TokenRows'
  BY <1>2 DEF InvalidateOlder, SpendOthers, AllUsed, TokenRows, TypeOK
<1>3. ASSUME NEW r \in Requests, CreateToken(r) PROVE TokenRows'
  <2>1. made' = made + 1 /\ made \in Nat /\ made + 1 \in TokenIds
    BY <1>3, BoundsAssumption DEF CreateToken, TypeOK
  <2>2. tokens' = [tokens EXCEPT ![made + 1] = "unused"]
    BY <1>3, <2>1 DEF CreateToken
  <2>3. \A t \in TokenIds : tokens'[t] = IF t = made + 1 THEN "unused" ELSE tokens[t]
    BY <2>2 DEF TypeOK
  <2> QED BY <2>1, <2>3 DEF TokenRows
<1>4. ASSUME NEW r \in Requests, MarkUsed(r) PROVE TokenRows'
  <2>1. req[r].token \in 1..made
    BY <1>4 DEF MarkUsed, At, TypeOK
  <2> QED BY <1>4, <2>1, BoundsAssumption DEF MarkUsed, TokenRows, TypeOK
<1> QED BY <1>1, <1>2, <1>3, <1>4, TokenWriters

LEMMA TypeInit == Init => TypeOK /\ TokenRows
<1> SUFFICES ASSUME Init PROVE TypeOK /\ TokenRows
  OBVIOUS
<1>1. TokenRows
  BY BoundsAssumption DEF Init, TokenRows
<1>3. TablesOK
  <2>1. /\ tokens \in [TokenIds -> {"none", "unused", "used"}]
        /\ resets \in [TokenIds -> Nat]
    BY DEF Init
  <2>2. made \in 0..MaxTokens /\ opened \in 0..MaxSessions
    BY BoundsAssumption DEF Init
  <2>3. /\ password \in Passwords /\ expired = {} /\ recent = FALSE
        /\ mailed = {} /\ sessions = {} /\ tangled = FALSE
    BY BoundsAssumption DEF Init
  <2> QED BY <2>1, <2>2, <2>3 DEF TablesOK
<1>2. req \in [Requests -> Jobs] /\ \A r \in Requests : Named(req[r], made)
  BY NoJobType DEF Init, Named, NoJob
<1> QED BY <1>1, <1>2, <1>3, TypeSplit

LEMMA TypeStep == TypeOK /\ TokenRows /\ [Next]_vars => TypeOK' /\ TokenRows'
<1> SUFFICES ASSUME TypeOK, TokenRows, [Next]_vars PROVE TypeOK'
  BY RowsStep
<1> QED BY TypeSubmit, TypeServe, TypeOthers DEF Next

(* Every reachable state is well typed: the token of a reset past its       *)
(* lookup, and of a link about to be mailed, has a row.                     *)
THEOREM TypeCorrect == Spec => [](TypeOK /\ TokenRows)
BY TypeInit, TypeStep, PTL DEF Spec

-----------------------------------------------------------------------------
(* Who is signed in after a reset. *)

(* The part of OlderInv about one job, with what it needs of the tables.    *)
Signed(j, ids, n) ==
  /\ j.seen \subseteq 1..n
  /\ j.kind = "reset" /\ (j.pc \in {"markUsed", "spend"} \/ (j.pc = "answer" /\ j.ok))
       => j.seen \cap ids = {}

LEMMA OlderSplit == OlderInv <=> \A r \in Requests : Signed(req[r], sessions, opened)
BY DEF OlderInv, OlderSessionsEnd, Signed, At

LEMMA SessionWriters ==
  ASSUME [Next]_vars
  PROVE  \/ \E r \in Requests : EndSessions(r) \/ OpenSession(r)
         \/ UNCHANGED <<sessions, opened>>
<1>1. CASE \E r \in Requests : Submit(r)
  BY <1>1 DEF Submit, SendRequest, SendReset, SendLogin, SendChange, Send
<1>2. ASSUME NEW r \in Requests, Serve(r), ~EndSessions(r), ~OpenSession(r)
      PROVE  UNCHANGED <<sessions, opened>>
  BY <1>2 DEF Serve, CheckCooldown, InvalidateOlder, CreateToken, SendMail, LookUp,
              WritePassword, MarkUsed, SpendOthers, VerifyPassword, VerifyCurrent,
              WriteChange
<1>3. CASE \E r \in Requests : Fail(r) \/ Receive(r)
  BY <1>3 DEF Fail, Receive
<1>4. CASE (\E t \in TokenIds : Expire(t)) \/ EndCooldown \/ Crash \/ UNCHANGED vars
  BY <1>4 DEF Expire, EndCooldown, Crash, vars
<1> QED BY <1>1, <1>2, <1>3, <1>4 DEF Next

(* What is true of a job stays true while other requests take steps: new    *)
(* sessions get ids it has not seen.                                       *)
LEMMA SignedStable ==
  ASSUME TypeOK, [Next]_vars, NEW j, Signed(j, sessions, opened)
  PROVE  Signed(j, sessions', opened')
<1>1. CASE UNCHANGED <<sessions, opened>>
  BY <1>1
<1>2. ASSUME NEW r \in Requests, EndSessions(r) PROVE Signed(j, sessions', opened')
  BY <1>2 DEF EndSessions, Signed
<1>3. ASSUME NEW r \in Requests, OpenSession(r) PROVE Signed(j, sessions', opened')
  <2>1. opened' = opened + 1 /\ opened \in Nat /\ sessions' = sessions \cup {opened + 1}
    BY <1>3, BoundsAssumption DEF OpenSession, TypeOK
  <2>2. opened + 1 \notin j.seen
    BY <2>1 DEF Signed
  <2> QED BY <2>1, <2>2 DEF Signed
<1> QED BY <1>1, <1>2, <1>3, SessionWriters

LEMMA SignedSubmit ==
  ASSUME TypeOK, NEW r \in Requests, Submit(r)
  PROVE  /\ Signed(req'[r], sessions', opened')
         /\ \A q \in Requests : q # r => req'[q] = req[q]
<1> USE BoundsAssumption
<1>1. ASSUME NEW kind \in Kinds, NEW pc \in {"cooldown", "lookup", "verify", "verifyCurrent"},
             NEW t \in TokenIds \cup {NoToken}, NEW p \in Passwords, NEW q \in Passwords,
             Send(r, kind, pc, t, p, q)
      PROVE  /\ Signed(req'[r], sessions', opened')
             /\ \A o \in Requests : o # r => req'[o] = req[o]
  BY <1>1, SendType DEF Signed, NoJob
<1> QED BY <1>1 DEF Submit, SendRequest, SendReset, SendLogin, SendChange

LEMMA SignedServe ==
  ASSUME TypeOK, NEW r \in Requests, Serve(r) \/ Fail(r) \/ Receive(r),
         Signed(req[r], sessions, opened), Signed(req[r], sessions', opened')
  PROVE  /\ Signed(req'[r], sessions', opened')
         /\ \A q \in Requests : q # r => req'[q] = req[q]
<1>0. req[r] \in Jobs
  BY DEF TypeOK
<1>1. ASSUME NEW pc \in PCs \ {"markUsed", "spend", "answer"}, Goto(r, pc)
      PROVE  /\ Signed(req'[r], sessions', opened')
             /\ \A q \in Requests : q # r => req'[q] = req[q]
  BY <1>0, <1>1, GotoType DEF Signed, Kept
<1>2. ASSUME NEW ok \in BOOLEAN, Answer(r, ok), ~ok \/ req[r].kind # "reset"
      PROVE  /\ Signed(req'[r], sessions', opened')
             /\ \A q \in Requests : q # r => req'[q] = req[q]
  BY <1>2, AnswerType DEF Signed
<1>3. CASE CheckCooldown(r) \/ InvalidateOlder(r) \/ SendMail(r) \/ VerifyPassword(r)
             \/ OpenSession(r) \/ VerifyCurrent(r) \/ Fail(r)
  BY <1>1, <1>2, <1>3 DEF CheckCooldown, InvalidateOlder, SendMail, VerifyPassword,
     OpenSession, VerifyCurrent, Fail, At
<1>4. CASE CreateToken(r)
  BY <1>0, <1>4, CreateTokenType DEF Signed, Kept
<1>5. CASE LookUp(r)
  <2>1. CASE tokens[req[r].token] = "unused" /\ req[r].token \notin expired
    BY <1>0, <1>5, <2>1, LookUpType DEF Signed, Kept
  <2>2. CASE ~(tokens[req[r].token] = "unused" /\ req[r].token \notin expired)
    BY <1>2, <1>5, <2>2 DEF LookUp
  <2> QED BY <2>1, <2>2
<1>6. CASE WritePassword(r)
  <2>1. /\ req'[r].pc = "endSessions" /\ req'[r].seen = sessions /\ Kept(r, {"seen"})
        /\ \A q \in Requests : q # r => req'[q] = req[q]
    BY <1>6, WritePasswordType
  <2>2. req'[r].seen = sessions /\ req'[r].pc = "endSessions"
    BY <1>0, <2>1 DEF Jobs
  <2>3. sessions \subseteq 1..opened' /\ UNCHANGED <<sessions, opened>>
    BY <1>6 DEF WritePassword, TypeOK
  <2> QED BY <2>1, <2>2, <2>3 DEF Signed
<1>7. CASE EndSessions(r)
  BY <1>0, <1>7, GotoType DEF EndSessions, Signed, Kept
<1>8. CASE MarkUsed(r)
  BY <1>0, <1>8, GotoType DEF MarkUsed, At, Signed, Kept
<1>9. CASE SpendOthers(r)
  BY <1>9, AnswerType DEF SpendOthers, At, Signed
<1>10. CASE WriteChange(r)
  BY <1>0, <1>10, WriteChangeType DEF WriteChange, At, Signed, Kept
<1>11. CASE Receive(r)
  <2>1. /\ req'[r] = NoJob
        /\ \A q \in Requests : q # r => req'[q] = req[q]
    BY <1>11 DEF Receive, TypeOK
  <2> QED BY <2>1 DEF Signed, NoJob
<1> QED BY <1>3, <1>4, <1>5, <1>6, <1>7, <1>8, <1>9, <1>10, <1>11 DEF Serve

LEMMA OlderStep == TypeOK /\ OlderInv /\ [Next]_vars => OlderInv'
<1> SUFFICES ASSUME TypeOK, OlderInv, [Next]_vars PROVE OlderInv'
  OBVIOUS
<1>1. \A r \in Requests : /\ Signed(req[r], sessions, opened)
                          /\ Signed(req[r], sessions', opened')
  BY OlderSplit, SignedStable
<1>2. \A r \in Requests : Signed(req'[r], sessions', opened')
  <2>1. ASSUME NEW r \in Requests, Submit(r) \/ Serve(r) \/ Fail(r) \/ Receive(r)
        PROVE  \A q \in Requests : Signed(req'[q], sessions', opened')
    BY <1>1, <2>1, SignedSubmit, SignedServe
  <2>2. CASE Crash
    BY <2>2 DEF Crash, Signed, NoJob
  <2>3. CASE UNCHANGED req
    BY <1>1, <2>3
  <2> QED BY <2>1, <2>2, <2>3 DEF Next, Expire, EndCooldown, vars
<1> QED BY <1>2, OlderSplit DEF OlderInv, OlderSessionsEnd, Signed, At

(* Whoever was signed in when a reset wrote the password is signed out once *)
(* the reset has deleted the sessions, for any number of requests at once.  *)
THEOREM ResetSignsOut == Spec => []OlderSessionsEnd
<1>1. Init => OlderInv
  BY DEF Init, OlderInv, OlderSessionsEnd, NoJob, At
<1>2. OlderInv => OlderSessionsEnd
  BY DEF OlderInv
<1> QED BY <1>1, <1>2, OlderStep, TypeCorrect, PTL DEF Spec

-----------------------------------------------------------------------------
(* Which links work after a reset. *)

(* The part of SpendInv about one job, with what it needs of the tables.    *)
Spent(j, used, n) ==
  /\ j.known \subseteq 1..n
  /\ j.kind = "reset" /\ j.pc = "answer" /\ j.ok => j.known \subseteq used

Used == {t \in TokenIds : tokens[t] = "used"}

LEMMA SpendSplit ==
  ASSUME TypeOK
  PROVE  SpendInv <=> TokenRows /\ \A r \in Requests : Spent(req[r], Used, made)
<1>1. made \in 0..MaxTokens /\ MaxTokens \in Nat
  BY BoundsAssumption DEF TypeOK
<1>2. \A r \in Requests : req[r].known \subseteq TokenIds
  BY DEF TypeOK, Jobs
<1> QED BY <1>1, <1>2 DEF SpendInv, ResetSpendsTokens, Spent, Used, At

(* A used link never becomes usable again, and rows are only added.         *)
LEMMA UsedGrows ==
  ASSUME TypeOK, TokenRows, [Next]_vars
  PROVE  Used \subseteq Used' /\ made <= made'
<1>0. made \in Nat /\ MaxTokens \in Nat
  BY BoundsAssumption DEF TypeOK
<1>1. CASE UNCHANGED <<tokens, made, resets>>
  BY <1>0, <1>1 DEF Used
<1>2. ASSUME NEW r \in Requests, InvalidateOlder(r) \/ SpendOthers(r)
      PROVE  Used \subseteq Used' /\ made <= made'
  <2>1. tokens' = AllUsed /\ made' = made
    BY <1>2 DEF InvalidateOlder, SpendOthers
  <2>2. \A t \in TokenIds : tokens[t] = "used" => tokens'[t] = "used"
    BY <2>1 DEF AllUsed
  <2> QED BY <1>0, <2>1, <2>2 DEF Used
<1>3. ASSUME NEW r \in Requests, CreateToken(r)
      PROVE  Used \subseteq Used' /\ made <= made'
  <2>1. made' = made + 1 /\ tokens' = [tokens EXCEPT ![made + 1] = "unused"]
        /\ made + 1 \in TokenIds
    BY <1>0, <1>3 DEF CreateToken, TypeOK
  <2>2. tokens[made + 1] = "none"
    BY <1>0, <2>1 DEF TokenRows
  <2> QED BY <1>0, <2>1, <2>2 DEF Used, TypeOK
<1>4. ASSUME NEW r \in Requests, MarkUsed(r)
      PROVE  Used \subseteq Used' /\ made <= made'
  BY <1>0, <1>4 DEF MarkUsed, Used, TypeOK
<1> QED BY <1>1, <1>2, <1>3, <1>4, TokenWriters

LEMMA SpentStep ==
  ASSUME TypeOK, TokenRows, [Next]_vars,
         NEW r \in Requests, Submit(r) \/ Serve(r) \/ Fail(r) \/ Receive(r),
         Spent(req[r], Used, made)
  PROVE  /\ Spent(req'[r], Used', made')
         /\ \A q \in Requests : q # r => req'[q] = req[q]
<1> USE BoundsAssumption
<1>0. /\ made \in Nat /\ made' \in Nat /\ Used \subseteq Used' /\ made <= made'
      /\ req[r].known \subseteq 1..made'
  <2>1. Used \subseteq Used' /\ made <= made' /\ TypeOK'
    BY UsedGrows, TypeStep
  <2>2. made \in Nat /\ made' \in Nat
    BY <2>1 DEF TypeOK
  <2> QED BY <2>1, <2>2 DEF Spent
<1>1. ASSUME NEW kind \in Kinds, NEW pc \in {"cooldown", "lookup", "verify", "verifyCurrent"},
             NEW t \in TokenIds \cup {NoToken}, NEW p \in Passwords, NEW q \in Passwords,
             Send(r, kind, pc, t, p, q)
      PROVE  /\ Spent(req'[r], Used', made')
             /\ \A o \in Requests : o # r => req'[o] = req[o]
  BY <1>1, SendType DEF Spent
<1>2. CASE Submit(r)
  BY <1>1, <1>2 DEF Submit, SendRequest, SendReset, SendLogin, SendChange
<1>3. ASSUME NEW pc \in PCs \ {"answer"}, Goto(r, pc)
      PROVE  /\ Spent(req'[r], Used', made')
             /\ \A q \in Requests : q # r => req'[q] = req[q]
  BY <1>0, <1>3, GotoType DEF Spent, Kept
<1>4. ASSUME NEW ok \in BOOLEAN, Answer(r, ok), ~ok \/ req[r].kind # "reset"
      PROVE  /\ Spent(req'[r], Used', made')
             /\ \A q \in Requests : q # r => req'[q] = req[q]
  BY <1>0, <1>4, AnswerType DEF Spent
<1>5. CASE CheckCooldown(r) \/ InvalidateOlder(r) \/ SendMail(r) \/ VerifyPassword(r)
             \/ OpenSession(r) \/ VerifyCurrent(r) \/ Fail(r)
             \/ EndSessions(r) \/ MarkUsed(r)
  BY <1>3, <1>4, <1>5 DEF CheckCooldown, InvalidateOlder, SendMail, VerifyPassword,
     OpenSession, VerifyCurrent, Fail, EndSessions, MarkUsed, At
<1>6. CASE CreateToken(r)
  BY <1>0, <1>6, CreateTokenType DEF Spent, Kept
<1>7. CASE LookUp(r)
  <2>1. CASE tokens[req[r].token] = "unused" /\ req[r].token \notin expired
    BY <1>0, <1>7, <2>1, LookUpType DEF Spent, Kept
  <2>2. CASE ~(tokens[req[r].token] = "unused" /\ req[r].token \notin expired)
    BY <1>4, <1>7, <2>2 DEF LookUp
  <2> QED BY <2>1, <2>2
<1>8. CASE WritePassword(r)
  BY <1>0, <1>8, WritePasswordType DEF Spent, Kept
<1>9. CASE SpendOthers(r)
  <2>1. \A t \in 1..made : t \in TokenIds /\ tokens[t] # "none"
    BY <1>0 DEF TokenRows, TypeOK
  <2>2. 1..made \subseteq Used'
    BY <1>9, <2>1 DEF SpendOthers, AllUsed, Used, TypeOK
  <2>3. req[r].known \subseteq 1..made
    BY DEF Spent
  <2> QED BY <1>0, <1>9, <2>2, <2>3, AnswerType DEF SpendOthers, Spent
<1>10. CASE WriteChange(r)
  BY <1>0, <1>10, WriteChangeType DEF WriteChange, At, Spent, Kept
<1>11. CASE Receive(r)
  <2>1. /\ req'[r] = NoJob
        /\ \A q \in Requests : q # r => req'[q] = req[q]
    BY <1>11 DEF Receive, TypeOK
  <2> QED BY <2>1 DEF Spent, NoJob
<1> QED BY <1>2, <1>5, <1>6, <1>7, <1>8, <1>9, <1>10, <1>11 DEF Serve

LEMMA SpendStep == TypeOK /\ SpendInv /\ [Next]_vars => SpendInv'
<1> SUFFICES ASSUME TypeOK, SpendInv, [Next]_vars PROVE SpendInv'
  OBVIOUS
<1>1. TokenRows /\ \A r \in Requests : Spent(req[r], Used, made)
  BY SpendSplit
<1>2. TypeOK' /\ TokenRows' /\ Used \subseteq Used' /\ made <= made' /\ made \in Nat
      /\ made' \in Nat
  <2>1. TypeOK' /\ TokenRows' /\ Used \subseteq Used' /\ made <= made'
    BY <1>1, TypeStep, UsedGrows
  <2>2. made \in Nat /\ made' \in Nat
    BY <2>1, BoundsAssumption DEF TypeOK
  <2> QED BY <2>1, <2>2
<1>3. \A r \in Requests : Spent(req[r], Used', made')
  BY <1>1, <1>2 DEF Spent
<1>4. \A r \in Requests : Spent(req'[r], Used', made')
  <2>1. ASSUME NEW r \in Requests, Submit(r) \/ Serve(r) \/ Fail(r) \/ Receive(r)
        PROVE  \A q \in Requests : Spent(req'[q], Used', made')
    BY <1>1, <1>3, <2>1, SpentStep
  <2>2. CASE Crash
    BY <2>2 DEF Crash, Spent, NoJob
  <2>3. CASE UNCHANGED req
    BY <1>3, <2>3
  <2> QED BY <2>1, <2>2, <2>3 DEF Next, Expire, EndCooldown, vars
<1>5. ResetSpendsTokens' /\ \A r \in Requests : req'[r].known \subseteq 1..made'
  BY <1>4 DEF ResetSpendsTokens, Spent, Used, At
<1> QED BY <1>2, <1>5 DEF SpendInv

(* When a reset reports success no link issued before it started works any *)
(* more, for any number of overlapping requests.                           *)
THEOREM ResetSpendsLinks == Spec => []ResetSpendsTokens
<1>1. Init => SpendInv
  <2> SUFFICES ASSUME Init PROVE SpendInv
    OBVIOUS
  <2>1. ResetSpendsTokens /\ \A r \in Requests : req[r].known \subseteq 1..made
    BY DEF Init, ResetSpendsTokens, NoJob, At
  <2> QED BY <2>1, TypeInit DEF SpendInv
<1>2. SpendInv => ResetSpendsTokens
  BY DEF SpendInv
<1> QED BY <1>1, <1>2, SpendStep, TypeCorrect, PTL DEF Spec

-----------------------------------------------------------------------------
(* Until two requests that use links overlap. *)

LEMMA Untangle ==
  ASSUME [Next]_vars, ~tangled'
  PROVE  ~tangled
<1>1. CASE \E r \in Requests : Submit(r)
  BY <1>1, Zenon DEF Submit, SendRequest, SendReset, SendLogin, SendChange, Send
<1>2. CASE \E r \in Requests : Serve(r)
  BY <1>2 DEF Serve, CheckCooldown, InvalidateOlder, CreateToken, SendMail, LookUp,
     WritePassword, EndSessions, MarkUsed, SpendOthers, VerifyPassword, OpenSession,
     VerifyCurrent, WriteChange
<1>3. CASE \E r \in Requests : Fail(r) \/ Receive(r)
  BY <1>3 DEF Fail, Receive
<1>4. CASE (\E t \in TokenIds : Expire(t)) \/ EndCooldown \/ Crash \/ UNCHANGED vars
  BY <1>4 DEF Expire, EndCooldown, Crash, vars
<1> QED BY <1>1, <1>2, <1>3, <1>4 DEF Next

(* Where a request says nothing about its token.                            *)
Elsewhere(j) ==
  /\ j.kind = "request" => j.pc \notin {"create", "mail"}
  /\ j.kind = "reset" => j.pc \notin {"write", "endSessions", "markUsed", "spend"}

LEMMA LinkElsewhere ==
  ASSUME NEW r \in Requests, Elsewhere(req'[r])
  PROVE  LinkInv(r)'
BY DEF LinkInv, Elsewhere, At

LEMMA LinksStay ==
  ASSUME LinksOK, UNCHANGED <<tokens, resets>>
  PROVE  LinksOK'
BY DEF LinksOK

(* The step of one request: the others do not use links, or their tokens    *)
(* stay as they are.                                                       *)
LEMMA SerialOf ==
  ASSUME NEW r \in Requests, OneByOne,
         \A q \in Requests : q # r => req'[q] = req[q],
         req'[r].pc \in LinkPCs => OnLinks(r),
         OnLinks(r) \/ ((\A q \in Requests : LinkInv(q)) /\ UNCHANGED <<tokens, resets>>),
         LinksOK', LinkInv(r)', TokenRows'
  PROVE  SerialInv'
<1>1. OneByOne'
  BY DEF OneByOne, OnLinks
<1>2. ASSUME NEW q \in Requests, q # r PROVE LinkInv(q)'
  <2>1. CASE OnLinks(r)
    <3>1. req'[q].pc \notin LinkPCs
      BY <1>2, <2>1 DEF OneByOne, OnLinks
    <3> QED BY <3>1 DEF LinkInv, At, LinkPCs
  <2>2. CASE (\A p \in Requests : LinkInv(p)) /\ UNCHANGED <<tokens, resets>>
    <3>1. LinkInv(q) /\ req'[q] = req[q]
      BY <1>2, <2>2
    <3> QED BY <2>2, <3>1 DEF LinkInv, At
  <2> QED BY <2>1, <2>2
<1>3. \A q \in Requests : LinkInv(q)'
  BY <1>2
<1> QED BY <1>1, <1>3 DEF SerialInv

LEMMA SerialSubmit ==
  ASSUME NEW r \in Requests, TypeOK, OneByOne, LinksOK, \A q \in Requests : LinkInv(q),
         TokenRows, Submit(r), ~tangled'
  PROVE  SerialInv'
<1> USE BoundsAssumption
<1>1. ASSUME NEW kind \in Kinds, NEW pc \in {"cooldown", "lookup", "verify", "verifyCurrent"},
             NEW t \in TokenIds \cup {NoToken}, NEW p \in Passwords, NEW q \in Passwords,
             Send(r, kind, pc, t, p, q)
      PROVE  SerialInv'
  <2>0. pc \in PCs
    BY DEF PCs
  <2>1. /\ req'[r].kind = kind /\ req'[r].pc = pc /\ UNCHANGED <<tokens, made, resets>>
        /\ \A o \in Requests : o # r => req'[o] = req[o]
    <3>1. /\ req' \in [Requests -> Jobs]
          /\ req'[r].kind = kind /\ req'[r].pc = pc /\ req'[r].token = t
          /\ req'[r].seen = {} /\ req'[r].known = {}
          /\ \A o \in Requests : o # r => req'[o] = req[o]
          /\ UNCHANGED <<password, tokens, made, expired, recent, mailed, sessions,
                         opened, resets>>
      BY ONLY <1>1, <2>0, TypeOK, SendType, r \in Requests, kind \in Kinds,
              t \in TokenIds \cup {NoToken}, p \in Passwords, q \in Passwords
    <3> QED BY <3>1
  <2>2. LinksOK' /\ TokenRows' /\ LinkInv(r)'
    <3>1. Elsewhere(req'[r])
      BY <2>1 DEF Elsewhere
    <3> QED BY <2>1, <3>1, LinksStay, LinkElsewhere DEF TokenRows
  <2>3. CASE pc \notin LinkPCs
    BY <2>1, <2>2, <2>3, SerialOf
  <2>4. CASE pc \in LinkPCs
    <3>1. \A o \in Requests : ~OnLinks(o)
      BY <1>1, <2>4, Zenon DEF Send
    <3>2. OneByOne'
      BY <2>1, <3>1 DEF OneByOne, OnLinks
    <3>3. ASSUME NEW o \in Requests, o # r PROVE LinkInv(o)'
      <4>1. req'[o].pc \notin LinkPCs
        BY <2>1, <3>1, <3>3 DEF OnLinks
      <4> QED BY <4>1 DEF LinkInv, At, LinkPCs
    <3>4. \A o \in Requests : LinkInv(o)'
      BY <2>2, <3>3
    <3> QED BY <2>2, <3>2, <3>4 DEF SerialInv
  <2> QED BY <2>3, <2>4
<1> QED BY <1>1 DEF Submit, SendRequest, SendReset, SendLogin, SendChange

LEMMA SerialRequest ==
  ASSUME NEW r \in Requests, TypeOK, TokenRows, LinksOK, LinkInv(r),
         CheckCooldown(r) \/ InvalidateOlder(r) \/ CreateToken(r) \/ SendMail(r)
  PROVE  LinksOK' /\ LinkInv(r)'
<1>1. CASE CheckCooldown(r)
  <2>1. Elsewhere(req'[r]) /\ UNCHANGED <<tokens, made, resets>>
    BY <1>1, GotoType, AnswerType DEF CheckCooldown, Elsewhere, Kept, At
  <2> QED BY <2>1, LinksStay, LinkElsewhere
<1>2. CASE InvalidateOlder(r)
  <2>1. req'[r].kind = "request" /\ req'[r].pc = "create"
    BY <1>2, GotoType DEF InvalidateOlder, Kept, At
  <2>2. tokens' = AllUsed /\ UNCHANGED <<made, resets>>
    BY <1>2 DEF InvalidateOlder
  <2>3. \A t \in TokenIds : /\ tokens'[t] # "unused"
                            /\ tokens[t] = "used" => tokens'[t] = "used"
    BY <2>2 DEF AllUsed, TypeOK
  <2>4. LinksOK'
    BY <2>2, <2>3 DEF LinksOK
  <2> QED BY <2>1, <2>3, <2>4 DEF LinkInv, At
<1>3. CASE CreateToken(r)
  <2>1. /\ made' = made + 1 /\ made \in Nat /\ made + 1 \in TokenIds
        /\ tokens' = [tokens EXCEPT ![made + 1] = "unused"] /\ resets' = resets
    BY <1>3, BoundsAssumption DEF CreateToken, TypeOK
  <2>2. /\ req'[r].kind = "request" /\ req'[r].pc = "mail" /\ req'[r].token = made + 1
    BY <1>3, CreateTokenType DEF CreateToken, Kept, At
  <2>3. \A t \in TokenIds : tokens[t] # "unused"
    BY <1>3 DEF CreateToken, LinkInv
  <2>4. \A t \in TokenIds : tokens'[t] = IF t = made + 1 THEN "unused" ELSE tokens[t]
    BY <2>1 DEF TypeOK
  <2>5. tokens[made + 1] = "none" /\ resets[made + 1] = 0
    BY <2>1 DEF LinksOK, TokenRows
  <2>6. LinksOK'
    <3>1. \A t, u \in TokenIds : tokens'[t] = "unused" /\ tokens'[u] = "unused" => t = u
      BY <2>3, <2>4
    <3>2. /\ \A t \in TokenIds : resets'[t] <= 1
          /\ \A t \in TokenIds : resets'[t] # 0 => tokens'[t] = "used"
      BY <2>1, <2>4, <2>5 DEF LinksOK
    <3> QED BY <3>1, <3>2 DEF LinksOK
  <2> QED BY <2>1, <2>2, <2>4, <2>6 DEF LinkInv, At
<1>4. CASE SendMail(r)
  <2>1. Elsewhere(req'[r]) /\ UNCHANGED <<tokens, made, resets>>
    BY <1>4, AnswerType DEF SendMail, Elsewhere, At
  <2> QED BY <2>1, LinksStay, LinkElsewhere
<1> QED BY <1>1, <1>2, <1>3, <1>4

LEMMA SerialReset ==
  ASSUME NEW r \in Requests, TypeOK, TokenRows, LinksOK, LinkInv(r),
         LookUp(r) \/ WritePassword(r) \/ EndSessions(r) \/ MarkUsed(r) \/ SpendOthers(r)
  PROVE  LinksOK' /\ LinkInv(r)'
<1>1. CASE LookUp(r)
  <2>0. LinksOK' /\ tokens' = tokens
    BY <1>1, LinksStay DEF LookUp
  <2>1. CASE tokens[req[r].token] = "unused" /\ req[r].token \notin expired
    <3>1. req'[r].kind = "reset" /\ req'[r].pc = "write" /\ req'[r].token = req[r].token
      BY <1>1, <2>1, LookUpType DEF LookUp, Kept, At
    <3> QED BY <2>0, <2>1, <3>1 DEF LinkInv, At
  <2>2. CASE ~(tokens[req[r].token] = "unused" /\ req[r].token \notin expired)
    <3>1. Elsewhere(req'[r])
      BY <1>1, <2>2, AnswerType DEF LookUp, Elsewhere
    <3> QED BY <2>0, <3>1, LinkElsewhere
  <2> QED BY <2>1, <2>2
<1>2. CASE WritePassword(r) \/ EndSessions(r)
  <2>0. LinksOK' /\ tokens' = tokens
    BY <1>2, LinksStay DEF WritePassword, EndSessions
  <2>1. /\ req'[r].kind = "reset" /\ req'[r].pc \in {"endSessions", "markUsed"}
        /\ req'[r].token = req[r].token
    BY <1>2, WritePasswordType, GotoType DEF WritePassword, EndSessions, Kept, At
  <2>2. tokens[req[r].token] = "unused"
    BY <1>2 DEF WritePassword, EndSessions, LinkInv
  <2> QED BY <2>0, <2>1, <2>2 DEF LinkInv, At
<1>3. CASE MarkUsed(r)
  <2>1. /\ req'[r].kind = "reset" /\ req'[r].pc = "spend" /\ req'[r].token = req[r].token
    BY <1>3, GotoType DEF MarkUsed, Kept, At
  <2>2. req[r].token \in TokenIds /\ tokens[req[r].token] = "unused"
    <3>1. req[r].token \in 1..made
      BY <1>3 DEF MarkUsed, At, TypeOK
    <3> QED BY <1>3, <3>1, BoundsAssumption DEF MarkUsed, LinkInv, TypeOK
  <2>3. tokens' = [tokens EXCEPT ![req[r].token] = "used"] /\ UNCHANGED <<made, resets>>
    BY <1>3 DEF MarkUsed
  <2>4. \A t \in TokenIds : tokens'[t] = IF t = req[r].token THEN "used" ELSE tokens[t]
    BY <2>3 DEF TypeOK
  <2>5. LinksOK' /\ resets'[req[r].token] = 0 /\ tokens'[req[r].token] = "used"
    BY <2>2, <2>3, <2>4 DEF LinksOK
  <2> QED BY <2>1, <2>5 DEF LinkInv, At
<1>4. CASE SpendOthers(r)
  <2>1. Elsewhere(req'[r])
    BY <1>4, AnswerType DEF SpendOthers, Elsewhere, At
  <2>2. req[r].token \in TokenIds /\ tokens[req[r].token] = "used" /\ resets[req[r].token] = 0
    <3>1. req[r].token \in 1..made
      BY <1>4 DEF SpendOthers, At, TypeOK
    <3> QED BY <1>4, <3>1, BoundsAssumption DEF SpendOthers, LinkInv, TypeOK
  <2>3. \A t \in TokenIds : /\ tokens'[t] # "unused"
                            /\ tokens[t] = "used" => tokens'[t] = "used"
    BY <1>4 DEF SpendOthers, AllUsed, TypeOK
  <2>4. \A t \in TokenIds : resets'[t] = IF t = req[r].token THEN 1 ELSE resets[t]
    BY <1>4, <2>2 DEF SpendOthers, TypeOK
  <2>5. LinksOK'
    BY <2>2, <2>3, <2>4 DEF LinksOK
  <2> QED BY <2>1, <2>5, LinkElsewhere
<1> QED BY <1>1, <1>2, <1>3, <1>4

LEMMA SerialServe ==
  ASSUME NEW r \in Requests, TypeOK, OneByOne, LinksOK, \A q \in Requests : LinkInv(q),
         TokenRows, TokenRows', Serve(r)
  PROVE  SerialInv'
<1>1. CASE CheckCooldown(r) \/ InvalidateOlder(r) \/ CreateToken(r) \/ SendMail(r)
  <2>1. OnLinks(r)
    BY <1>1 DEF CheckCooldown, InvalidateOlder, CreateToken, SendMail, At, OnLinks, LinkPCs
  <2>2. \A q \in Requests : q # r => req'[q] = req[q]
    BY <1>1, GotoType, AnswerType, CreateTokenType
       DEF CheckCooldown, InvalidateOlder, SendMail
  <2>3. LinksOK' /\ LinkInv(r)'
    BY <1>1, SerialRequest
  <2> QED BY <2>1, <2>2, <2>3, SerialOf
<1>2. CASE LookUp(r) \/ WritePassword(r) \/ EndSessions(r) \/ MarkUsed(r) \/ SpendOthers(r)
  <2>1. OnLinks(r)
    BY <1>2 DEF LookUp, WritePassword, EndSessions, MarkUsed, SpendOthers, At, OnLinks, LinkPCs
  <2>2. \A q \in Requests : q # r => req'[q] = req[q]
    <3>1. CASE LookUp(r)
      BY <3>1, LookUpType, AnswerType DEF LookUp
    <3> QED BY <1>2, <3>1, GotoType, AnswerType, WritePasswordType
               DEF EndSessions, MarkUsed, SpendOthers
  <2>3. LinksOK' /\ LinkInv(r)'
    BY <1>2, SerialReset
  <2> QED BY <2>1, <2>2, <2>3, SerialOf
<1>3. CASE VerifyPassword(r) \/ OpenSession(r) \/ VerifyCurrent(r) \/ WriteChange(r)
  <2>1. UNCHANGED <<tokens, made, resets>>
    BY <1>3 DEF VerifyPassword, OpenSession, VerifyCurrent, WriteChange
  <2>2. /\ req'[r].kind \in {"login", "change"}
        /\ req'[r].pc \in {"open", "writeChange", "answer"}
        /\ \A q \in Requests : q # r => req'[q] = req[q]
    BY <1>3, GotoType, AnswerType, WriteChangeType
       DEF VerifyPassword, OpenSession, VerifyCurrent, WriteChange, Kept, At
  <2>3. Elsewhere(req'[r]) /\ req'[r].pc \notin LinkPCs
    BY <2>2 DEF Elsewhere, LinkPCs
  <2>4. LinksOK' /\ LinkInv(r)'
    BY <2>1, <2>3, LinksStay, LinkElsewhere
  <2> QED BY <2>1, <2>2, <2>3, <2>4, SerialOf
<1> QED BY <1>1, <1>2, <1>3 DEF Serve

LEMMA SerialStep == TypeOK /\ TokenRows /\ SerialInv /\ [Next]_vars => SerialInv'
<1> SUFFICES ASSUME TypeOK, TokenRows, SerialInv, [Next]_vars PROVE SerialInv'
  OBVIOUS
<1>0. TokenRows'
  BY RowsStep
<1>1. CASE tangled'
  BY <1>0, <1>1 DEF SerialInv
<1>2. CASE ~tangled'
  <2>0. OneByOne /\ LinksOK /\ \A q \in Requests : LinkInv(q)
    BY <1>2, Untangle DEF SerialInv
  <2>1. ASSUME NEW r \in Requests, Submit(r) PROVE SerialInv'
    BY <1>2, <2>0, <2>1, SerialSubmit
  <2>2. ASSUME NEW r \in Requests, Serve(r) PROVE SerialInv'
    BY <1>0, <2>0, <2>2, SerialServe
  <2>3. ASSUME NEW r \in Requests, Fail(r) \/ Receive(r) PROVE SerialInv'
    <3>1. /\ req'[r].pc \in {"answer", "idle"}
          /\ \A q \in Requests : q # r => req'[q] = req[q]
          /\ UNCHANGED <<tokens, made, resets>>
      <4>1. CASE Fail(r)
        BY <4>1, AnswerType DEF Fail
      <4>2. CASE Receive(r)
        <5>1. req' = [req EXCEPT ![r] = NoJob] /\ req \in [Requests -> Jobs]
          BY <4>2 DEF Receive, TypeOK
        <5> QED BY <4>2, <5>1, NoJobType, JobsExcept DEF Receive, NoJob
      <4> QED BY <2>3, <4>1, <4>2
    <3>2. Elsewhere(req'[r]) /\ req'[r].pc \notin LinkPCs
      BY <3>1 DEF Elsewhere, LinkPCs
    <3>3. LinksOK' /\ LinkInv(r)'
      BY <2>0, <3>1, <3>2, LinksStay, LinkElsewhere
    <3> QED BY <1>0, <2>0, <3>1, <3>2, <3>3, SerialOf
  <2>4. CASE Crash
    <3>1. UNCHANGED <<tokens, made, resets>> /\ \A q \in Requests : req'[q].pc = "idle"
      BY <2>4 DEF Crash, NoJob
    <3>2. OneByOne' /\ \A q \in Requests : LinkInv(q)'
      BY <3>1 DEF OneByOne, OnLinks, LinkPCs, LinkInv, At
    <3> QED BY <1>0, <2>0, <3>1, <3>2, LinksStay DEF SerialInv
  <2>5. CASE (\E t \in TokenIds : Expire(t)) \/ EndCooldown \/ UNCHANGED vars
    <3>1. UNCHANGED <<req, tokens, made, resets>>
      BY <2>5 DEF Expire, EndCooldown, vars
    <3>2. OneByOne' /\ \A q \in Requests : LinkInv(q)'
      BY <2>0, <3>1 DEF OneByOne, OnLinks, LinkInv, At
    <3> QED BY <1>0, <2>0, <3>1, <3>2, LinksStay DEF SerialInv
  <2> QED BY <2>1, <2>2, <2>3, <2>4, <2>5 DEF Next
<1> QED BY <1>1, <1>2

LEMMA SerialInit == Init => SerialInv
<1> SUFFICES ASSUME Init PROVE SerialInv
  OBVIOUS
<1>1. TokenRows
  BY TypeInit
<1>2. LinksOK
  BY DEF Init, LinksOK
<1>3. OneByOne /\ \A r \in Requests : LinkInv(r)
  BY DEF Init, LinkInv, NoJob, At, OneByOne, OnLinks, LinkPCs
<1> QED BY <1>1, <1>2, <1>3 DEF SerialInv

LEMMA LinksSerial == Spec => [](TypeOK /\ SerialInv)
BY SerialInit, SerialStep, TypeCorrect, PTL DEF Spec

(* Until requests overlap on links at most one link works, although they     *)
(* fail between any two statements and are tried again.                     *)
THEOREM OneLink == Spec => []OneUsableToken
<1>1. SerialInv => OneUsableToken
  BY DEF SerialInv, LinksOK, OneUsableToken
<1> QED BY <1>1, LinksSerial, PTL

(* Until requests overlap on links a link resets the password once.  Two     *)
(* resets that overlap look the link up before either has marked it.        *)
THEOREM LinksResetOnce == Spec => []TokenSingleUse
<1>1. SerialInv => TokenSingleUse
  BY DEF SerialInv, LinksOK, TokenSingleUse
<1> QED BY <1>1, LinksSerial, PTL

(* Until requests overlap on links a link works when it is mailed.           *)
THEOREM MailedLinksWork == Spec => MailedTokenWorks
<1>1. SerialInv /\ [Next]_vars
        => [~tangled => \A t \in mailed' \ mailed : tokens[t] = "unused"]_vars
  <2> SUFFICES ASSUME SerialInv, [Next]_vars, ~tangled, NEW t \in mailed' \ mailed
               PROVE  tokens[t] = "unused"
    OBVIOUS
  <2>1. PICK r \in Requests : SendMail(r)
    BY DEF Next, Submit, SendRequest, SendReset, SendLogin, SendChange, Send, Serve,
       CheckCooldown, InvalidateOlder, CreateToken, LookUp, WritePassword, EndSessions,
       MarkUsed, SpendOthers, VerifyPassword, OpenSession, VerifyCurrent, WriteChange,
       Fail, Receive, Expire, EndCooldown, Crash, vars
  <2>2. LinkInv(r)
    BY DEF SerialInv
  <2> QED BY <2>1, <2>2 DEF SendMail, LinkInv
<1> QED BY <1>1, LinksSerial, PTL DEF Spec, MailedTokenWorks
=============================================================================

------------------------------- MODULE Delivery -------------------------------
(* What follows a comment once it is stored: nobody waits for it.  The webhooks *)
(* of the event are called (webhookDispatcherService), the author of the        *)
(* article and of the parent comment are notified (notificationService), and    *)
(* the bell of whoever has a stream open fetches its notices again.             *)
EXTENDS Naturals, FiniteSets

CONSTANTS Accounts, Comments,
          Hooked,   \* the webhooks of comment.created
          OwnerOf   \* of each: "system" or the account it belongs to
ASSUME DeliveryConstants == OwnerOf \in [Hooked -> Accounts \cup {"system"}]

VARIABLES
  about,      \* of each comment its author, the author of the article, and the
              \* author of the comment it answers, if any
  features,   \* server settings that are on: "webhooks", "userWebhooks", "notifications"
  active,     \* the webhooks that are active
  wants,      \* who wants to be told of a comment on their article, or of an answer
  dispatch,   \* per comment: the dispatch of its webhook event
  sends,      \* per comment and webhook: the call that was made and its record
  notify,     \* per comment: its notification
  notices,    \* rows of user_notifications: the comment and the account
  bell,       \* per account: the notices its bell shows, and whether it fetches
  stream,     \* per account: its EventSource, and announcements on their way
  deaf,       \* history: whose bell was not told, or did not ask again, since it last read
  dbFault     \* history: calls whose record failed once

deliveryVars == <<about, features, active, wants, dispatch, sends, notify, notices, bell, stream,
                  deaf, dbFault>>

Features == {"webhooks", "userWebhooks", "notifications"}
Wishes == Accounts \X {"comment", "reply"}

(* A call: where it is, what the target did, and the row kept of it.            *)
NoSend == [pc |-> "none", outcome |-> "none", row |-> "none"]

DeliveryInit ==
  /\ about \in [Comments -> [actor : Accounts, owner : Accounts, parent : Accounts \cup {"none"}]]
  /\ features = Features
  /\ active = Hooked
  /\ wants \in {Wishes, {w \in Wishes : w[2] = "comment"}}
  /\ dispatch = [c \in Comments |-> [pc |-> "none", mine |-> FALSE]]
  /\ sends = [c \in Comments |-> [h \in Hooked |-> NoSend]]
  /\ notify = [c \in Comments |-> [pc |-> "none", told |-> {}]]
  /\ notices = [c \in Comments |-> [u \in Accounts |-> 0]]
  /\ bell = [u \in Accounts |-> [have |-> FALSE, shows |-> {}, fetch |-> "none", got |-> {}]]
  /\ stream = [u \in Accounts |-> [open |-> FALSE, told |-> 0]]
  /\ deaf = {}
  /\ dbFault = {}

-----------------------------------------------------------------------------
(* postComment: the row is stored, both jobs are started and not awaited.       *)
PostComment(c) ==
  /\ dispatch[c].pc = "none"
  /\ dispatch' = [dispatch EXCEPT ![c].pc = "context"]
  /\ notify' = [notify EXCEPT ![c].pc =
       IF "notifications" \in features THEN "read" ELSE "done"]
  /\ UNCHANGED <<about, features, active, wants, sends, notices, bell, stream, deaf, dbFault>>

(* dispatchCommentCreated: the context is read, then the settings are looked at.*)
BuildContext(c) ==
  /\ dispatch[c].pc = "context"
  /\ dispatch' = [dispatch EXCEPT ![c] =
       [pc |-> IF "webhooks" \in features THEN "targets" ELSE "done",
        mine |-> "userWebhooks" \in features]]
  /\ UNCHANGED <<about, features, active, wants, sends, notify, notices, bell, stream, deaf, dbFault>>

(* The webhook is of the whole server, or of the author of the article while    *)
(* accounts may have their own.                                                 *)
Selected(c, h) ==
  OwnerOf[h] = "system" \/ (dispatch[c].mine /\ OwnerOf[h] = about[c].owner)

FindTargets(c) ==
  /\ dispatch[c].pc = "targets"
  /\ dispatch' = [dispatch EXCEPT ![c].pc = "sending"]
  /\ sends' = [sends EXCEPT ![c] =
       [h \in Hooked |-> [NoSend EXCEPT !.pc =
          IF h \in active /\ Selected(c, h) THEN "calling" ELSE "none"]]]
  /\ UNCHANGED <<about, features, active, wants, notify, notices, bell, stream, deaf, dbFault>>

(* A query of either throws: the error is logged and nothing is sent.           *)
DispatchThrows(c) ==
  /\ dispatch[c].pc \in {"context", "targets"}
  /\ dispatch' = [dispatch EXCEPT ![c].pc = "done"]
  /\ UNCHANGED <<about, features, active, wants, sends, notify, notices, bell, stream, deaf, dbFault>>

(* deliver: called once, without a retry; the target answers 2xx or refuses, or *)
(* the call throws: a broken connection, a timeout, a template without a value. *)
Call(c, h) ==
  /\ sends[c][h].pc = "calling"
  /\ \E outcome \in {"answered", "refused", "threw"} :
       sends' = [sends EXCEPT ![c][h].pc = IF outcome = "threw" THEN "caught" ELSE "called",
                              ![c][h].outcome = outcome]
  /\ UNCHANGED <<about, features, active, wants, dispatch, notify, notices, bell, stream, deaf, dbFault>>

(* recordDelivery, in the catch block if the one of the try block threw: what   *)
(* was answered is then recorded as a failure.                                  *)
Record(c, h) ==
  /\ sends[c][h].pc \in {"called", "caught"}
  /\ sends' = [sends EXCEPT ![c][h].pc = "done", ![c][h].row =
       IF sends[c][h].pc = "called" /\ sends[c][h].outcome = "answered"
       THEN "success" ELSE "failure"]
  /\ UNCHANGED <<about, features, active, wants, dispatch, notify, notices, bell, stream, deaf, dbFault>>

RecordFails(c, h) ==
  /\ sends[c][h].pc \in {"called", "caught"}
  /\ sends' = [sends EXCEPT ![c][h].pc = IF @ = "called" THEN "caught" ELSE "done"]
  /\ dbFault' = dbFault \cup {<<c, h>>}
  /\ UNCHANGED <<about, features, active, wants, dispatch, notify, notices, bell, stream, deaf>>

-----------------------------------------------------------------------------
(* create: the row, and in the same step the event on every open stream.        *)
Announce(u) ==
  stream' = [stream EXCEPT ![u].told = IF stream[u].open THEN 1 ELSE 0]

Create(c, u) ==
  /\ notices' = [notices EXCEPT ![c][u] = @ + 1]
  /\ Announce(u)
  /\ deaf' = IF stream[u].open THEN deaf ELSE deaf \cup {u}

Quiet == UNCHANGED <<notices, stream, deaf>>

(* commentCreated reads the comment, then for each account the preferences, and *)
(* stores the notice; isEnabled is looked at again by create.                   *)
ReadComment(c) ==
  /\ notify[c].pc = "read"
  /\ notify' = [notify EXCEPT ![c].pc =
       IF about[c].parent \notin {"none", about[c].actor} THEN "parent" ELSE "owner"]
  /\ Quiet
  /\ UNCHANGED <<about, features, active, wants, dispatch, sends, bell, dbFault>>

TellParent(c) ==
  /\ notify[c].pc = "parent"
  /\ notify' = [notify EXCEPT ![c].pc =
                  IF <<about[c].parent, "reply">> \in wants THEN "createReply" ELSE "owner",
                              ![c].told = {about[c].parent}]
  /\ Quiet
  /\ UNCHANGED <<about, features, active, wants, dispatch, sends, bell, dbFault>>

CreateReply(c) ==
  /\ notify[c].pc = "createReply"
  /\ notify' = [notify EXCEPT ![c].pc = "owner"]
  /\ IF "notifications" \in features THEN Create(c, about[c].parent) ELSE Quiet
  /\ UNCHANGED <<about, features, active, wants, dispatch, sends, bell, dbFault>>

(* Mutant of Untold: the author of the article may have been told already.      *)
NotTheActor(c) == about[c].owner # about[c].actor

Untold(c) == about[c].owner # about[c].actor /\ about[c].owner \notin notify[c].told

TellOwner(c) ==
  /\ notify[c].pc = "owner"
  /\ notify' = [notify EXCEPT ![c].pc =
       IF Untold(c) /\ <<about[c].owner, "comment">> \in wants THEN "createComment" ELSE "done"]
  /\ Quiet
  /\ UNCHANGED <<about, features, active, wants, dispatch, sends, bell, dbFault>>

CreateComment(c) ==
  /\ notify[c].pc = "createComment"
  /\ notify' = [notify EXCEPT ![c].pc = "done"]
  /\ IF "notifications" \in features THEN Create(c, about[c].owner) ELSE Quiet
  /\ UNCHANGED <<about, features, active, wants, dispatch, sends, bell, dbFault>>

(* A query throws: the error is logged and the rest of the job is dropped.      *)
NotifyThrows(c) ==
  /\ notify[c].pc \notin {"none", "done"}
  /\ notify' = [notify EXCEPT ![c].pc = "done"]
  /\ Quiet
  /\ UNCHANGED <<about, features, active, wants, dispatch, sends, bell, dbFault>>

-----------------------------------------------------------------------------
(* The bell: a first fetch, and one for every event of the stream.  A fetch in  *)
(* flight is given up for the new one, but the first one is shared.             *)
Mine(u) == {c \in Comments : notices[c][u] > 0}

AskNotices(u) ==
  /\ bell[u].fetch = "none" /\ ~bell[u].have
  /\ bell' = [bell EXCEPT ![u].fetch = "asked"]
  /\ UNCHANGED <<about, features, active, wants, dispatch, sends, notify, notices, stream, deaf, dbFault>>

ReadNotices(u) ==
  /\ bell[u].fetch = "asked"
  /\ bell' = [bell EXCEPT ![u].fetch = "read", ![u].got =
       IF "notifications" \in features THEN Mine(u) ELSE {}]
  /\ deaf' = deaf \ {u}
  /\ UNCHANGED <<about, features, active, wants, dispatch, sends, notify, notices, stream, dbFault>>

ShowNotices(u) ==
  /\ bell[u].fetch = "read"
  /\ bell' = [bell EXCEPT ![u] = [have |-> TRUE, shows |-> bell[u].got, fetch |-> "none", got |-> {}]]
  /\ UNCHANGED <<about, features, active, wants, dispatch, sends, notify, notices, stream, deaf, dbFault>>

OpenStream(u) ==
  /\ ~stream[u].open
  /\ stream' = [stream EXCEPT ![u].open = TRUE]
  /\ UNCHANGED <<about, features, active, wants, dispatch, sends, notify, notices, bell, deaf, dbFault>>

(* The connection breaks; EventSource opens it again by itself.  What was on    *)
(* its way is lost.                                                             *)
BreakStream(u) ==
  /\ stream[u].open
  /\ stream' = [stream EXCEPT ![u] = [open |-> FALSE, told |-> 0]]
  /\ deaf' = IF stream[u].told > 0 THEN deaf \cup {u} ELSE deaf
  /\ UNCHANGED <<about, features, active, wants, dispatch, sends, notify, notices, bell, dbFault>>

Hear(u) ==
  /\ stream[u].told > 0
  /\ stream' = [stream EXCEPT ![u].told = 0]
  /\ IF bell[u].have \/ bell[u].fetch = "none"
     THEN /\ bell' = [bell EXCEPT ![u].fetch = "asked", ![u].got = {}]
          /\ UNCHANGED deaf
     ELSE /\ deaf' = deaf \cup {u}
          /\ UNCHANGED bell
  /\ UNCHANGED <<about, features, active, wants, dispatch, sends, notify, notices, dbFault>>

-----------------------------------------------------------------------------
(* Meanwhile an administrator turns a setting off, or a webhook is switched off.*)
TurnOff(f) ==
  /\ f \in features
  /\ features' = features \ {f}
  /\ UNCHANGED <<about, active, wants, dispatch, sends, notify, notices, bell, stream, deaf, dbFault>>

Deactivate(h) ==
  /\ h \in active
  /\ active' = active \ {h}
  /\ UNCHANGED <<about, features, wants, dispatch, sends, notify, notices, bell, stream, deaf, dbFault>>

DeliveryNext ==
  \/ \E c \in Comments :
       \/ PostComment(c) \/ BuildContext(c) \/ FindTargets(c) \/ DispatchThrows(c)
       \/ ReadComment(c) \/ TellParent(c) \/ CreateReply(c) \/ TellOwner(c)
       \/ CreateComment(c) \/ NotifyThrows(c)
       \/ \E h \in Hooked : Call(c, h) \/ Record(c, h) \/ RecordFails(c, h)
  \/ \E u \in Accounts :
       \/ AskNotices(u) \/ ReadNotices(u) \/ ShowNotices(u)
       \/ OpenStream(u) \/ BreakStream(u) \/ Hear(u)
  \/ \E f \in Features : TurnOff(f)
  \/ \E h \in Hooked : Deactivate(h)

DeliverySpec == DeliveryInit /\ [][DeliveryNext]_deliveryVars

-----------------------------------------------------------------------------
(* A comment gives an account at most one notice, whatever it is to the comment,*)
(* and none to the one who wrote it.                                            *)
OneNotice ==
  \A c \in Comments : notices[c][about[c].actor] = 0 /\ \A u \in Accounts : notices[c][u] <= 1

(* While there are notices at all, a bell at rest shows every notice of its     *)
(* account, except to one who got a notice while no stream was open or heard of *)
(* it while the first fetch was under way.                                      *)
BellsRing ==
  "notifications" \in features => \A u \in Accounts :
    bell[u].fetch = "none" /\ stream[u].told = 0 /\ u \notin deaf => bell[u].shows = Mine(u)

(* The row of a call says what the target did, unless storing it failed once.   *)
RecordsTrue ==
  \A c \in Comments, h \in Hooked :
    sends[c][h].row # "none" /\ <<c, h>> \notin dbFault =>
      (sends[c][h].row = "success" <=> sends[c][h].outcome = "answered")

(* All three: what a comment sets off reaches each account once and is shown    *)
(* and recorded as it happened.                                                 *)
DeliveryKept == OneNotice /\ BellsRing /\ RecordsTrue
=============================================================================

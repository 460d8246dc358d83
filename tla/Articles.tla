------------------------------- MODULE Articles -------------------------------
(***************************************************************************)
(* ArticlesService over the articles table: drafts, publication, rollback,  *)
(* the trash, who is given an article to read, and the notice that goes out *)
(* when one is published.  Groups decide who reads a members-only article,  *)
(* and can be deleted under it.                                             *)
(***************************************************************************)
EXTENDS Groups

CONSTANTS
  ArticleIds,       \* ids an article can get; an id is never used again
  ArticleHandlers,  \* article requests that can be in flight together
  Authors,          \* accounts that create articles
  Moderators,       \* accounts with the article permissions on any article
  MaxJobs           \* bound on the requests of a behaviour, of both kinds

VARIABLES
  article,    \* the rows; gone where there is none
  ajob,       \* requests in flight
  abegun,     \* how many requests have begun
  notice,     \* articlePublished running, by article: idle, read or store
  notified,   \* articles whose followers have the notification
  stale,      \* articles written since their notice read them (history)
  torn        \* articles whose texts overlapping requests wrote, or a body that
              \* named a copy of the text, until they are published (history)

articleVars == <<article, ajob, abegun, notice, notified, stale, torn>>
vars == <<groups, used, member, followers, gjob, gbegun, readded,
          article, ajob, abegun, notice, notified, stale, torn>>

ASSUME ArticlesAssumption ==
  /\ Authors \subseteq Users /\ Moderators \subseteq Users
  /\ MaxJobs \in Nat

Visibilities == {"public", "unlisted", "private", "members"}
Texts == 1..MaxJobs   \* the request that brought the text
NoText == 0
NoGroup == "nogroup"
Kept == "kept"        \* a body without a visibility, or without a group
Columns == {"none", "author", "deleted", "rendered", "last"}
Editing == {"save", "publish", "patch"}
ArticleOps == {"create", "rollback", "trash", "restore", "erase", "read"} \cup Editing
ArticlePCs == {"idle", "find", "check", "write", "answer"}

Gone == [exists |-> FALSE, author |-> "nobody", group |-> NoGroup, visibility |-> "unlisted",
         published |-> FALSE, private |-> FALSE, status |-> "draft",
         raw |-> NoText, rendered |-> NoText, last |-> NoText, deleted |-> FALSE]

NoForm == [visibility |-> "unlisted", group |-> NoGroup, text |-> NoText,
           published |-> FALSE, private |-> FALSE, column |-> "none", owner |-> "nobody"]
NoArticleJob == [pc |-> "idle", op |-> "create", actor |-> "nobody", article |-> "none",
                 form |-> NoForm, row |-> Gone, calm |-> TRUE]

ArticlesInit ==
  /\ article = [a \in ArticleIds |-> Gone]
  /\ ajob = [h \in ArticleHandlers |-> NoArticleJob]
  /\ abegun = 0
  /\ notice = [a \in ArticleIds |-> "idle"]
  /\ notified = {}
  /\ stale = {}
  /\ torn = {}

Init == GroupsInit /\ ArticlesInit

-----------------------------------------------------------------------------
(* Who reads what. *)

(* Mutant of Open: what is not private is open to everybody. *)
OpenUnlessPrivate(v, row) ==
  row.exists /\ ~row.deleted /\ (v = row.author \/ (row.visibility # "private" /\ ~row.private))

(* getArticle, for those it answers without looking at the group. *)
Open(v, row) ==
  /\ row.exists /\ ~row.deleted
  /\ v = row.author \/ (row.visibility \in {"public", "unlisted"} /\ ~row.private)

ForMembers(row) == row.exists /\ ~row.deleted /\ row.visibility = "members"

(* The row of user_groups that getArticle looks up. *)
Belongs(v, row) == MemberOf(v, row.group)

-----------------------------------------------------------------------------
(* Requests. *)
Others(h, a) == {p \in ArticleHandlers \ {h} : ajob[p].pc # "idle" /\ ajob[p].article = a}
Writers(h, a) == {p \in Others(h, a) : ajob[p].op # "read"}

SendArticle(h, op, u, a, form) ==
  /\ ajob[h].pc = "idle" /\ abegun + gbegun < MaxJobs
  /\ op # "create" => article[a].exists
  /\ abegun' = abegun + 1
  /\ ajob' = [p \in ArticleHandlers |->
       IF p = h THEN [NoArticleJob EXCEPT !.pc = IF op = "create" THEN "check" ELSE "find",
                        !.op = op, !.actor = u, !.article = a, !.form = form,
                        !.calm = Writers(h, a) = {}]
       ELSE IF op # "read" /\ p \in Others(h, a) THEN [ajob[p] EXCEPT !.calm = FALSE] ELSE ajob[p]]
  /\ UNCHANGED <<article, notice, notified, stale, torn>>
  /\ UNCHANGED groupsVars

ArticleAnswer(h) == ajob' = [ajob EXCEPT ![h] = NoArticleJob]

On(h, ops, pc) == ajob[h].op \in ops /\ ajob[h].pc = pc

(* requireArticlePermission: the permission on any article, or on one's own.  *)
MayTouch(u, row) == u \in Moderators \/ row.author = u

(* Mutant of FindArticle: the owner is not compared. *)
FindAnyArticle(h) ==
  LET row == article[ajob[h].article] IN
    /\ ajob[h].pc = "find" /\ ajob[h].op # "read"
    /\ ajob' = [ajob EXCEPT ![h].row = row,
          ![h].pc = IF ajob[h].op \in Editing THEN "check" ELSE "write"]
    /\ UNCHANGED <<article, abegun, notice, notified, stale, torn>>
    /\ UNCHANGED groupsVars

(* The guard, then findArticleById; a rollback needs a published version.     *)
FindArticle(h) ==
  LET row == article[ajob[h].article] IN
    /\ ajob[h].pc = "find" /\ ajob[h].op # "read"
    /\ IF /\ row.exists /\ MayTouch(ajob[h].actor, row)
          /\ ajob[h].op = "rollback" => row.last # NoText
       THEN ajob' = [ajob EXCEPT ![h].row = row,
              ![h].pc = IF ajob[h].op \in Editing THEN "check" ELSE "write"]
       ELSE ArticleAnswer(h)
    /\ UNCHANGED <<article, abegun, notice, notified, stale, torn>>
    /\ UNCHANGED groupsVars

(* resolveVisibility: the flags and then the row stand in for a body that      *)
(* names none.                                                              *)
VisibilityOf(job) ==
  IF job.form.visibility # Kept THEN job.form.visibility
  ELSE IF job.form.private THEN "private"
  ELSE IF job.form.published THEN "public"
  ELSE job.row.visibility

GroupOf(job) == IF job.form.group = Kept THEN job.row.group ELSE job.form.group

(* validateVisibility, and validateGroupMembership for a group that is named.  *)
FormAllowed(author, job) ==
  /\ VisibilityOf(job) = "members" => GroupOf(job) # NoGroup
  /\ job.form.group \notin {NoGroup, Kept} => MemberOf(author, job.form.group)

(* The row is read here once more for its status. *)
CheckForm(h) ==
  LET author == IF ajob[h].op = "create" THEN ajob[h].actor ELSE ajob[h].row.author IN
    /\ ajob[h].pc = "check" /\ ajob[h].op # "read"
    /\ IF FormAllowed(author, ajob[h])
       THEN ajob' = [ajob EXCEPT ![h].pc = "write", ![h].row.status = article[ajob[h].article].status]
       ELSE ArticleAnswer(h)
    /\ UNCHANGED <<article, abegun, notice, notified, stale, torn>>
    /\ UNCHANGED groupsVars

(* getArticle: the row, and for a members-only article then the membership.    *)
OpenArticle(h) ==
  LET row == article[ajob[h].article] IN
    /\ On(h, {"read"}, "find")
    /\ IF Open(ajob[h].actor, row)
       THEN ajob' = [ajob EXCEPT ![h].row = row, ![h].pc = "answer"]
       ELSE IF ForMembers(row)
       THEN ajob' = [ajob EXCEPT ![h].row = row, ![h].pc = "check"]
       ELSE ArticleAnswer(h)
    /\ UNCHANGED <<article, abegun, notice, notified, stale, torn>>
    /\ UNCHANGED groupsVars

CheckReader(h) ==
  /\ On(h, {"read"}, "check")
  /\ IF Belongs(ajob[h].actor, ajob[h].row)
     THEN ajob' = [ajob EXCEPT ![h].pc = "answer"]
     ELSE ArticleAnswer(h)
  /\ UNCHANGED <<article, abegun, notice, notified, stale, torn>>
  /\ UNCHANGED groupsVars

HandOut(h) ==
  /\ On(h, {"read"}, "answer")
  /\ ArticleAnswer(h)
  /\ UNCHANGED <<article, abegun, notice, notified, stale, torn>>
  /\ UNCHANGED groupsVars

(* articles_group_id_fkey and articles_members_group_check.                   *)
Storable(row) ==
  /\ row.group # NoGroup => row.group \in groups
  /\ row.visibility = "members" => row.group # NoGroup

(* A save or a patch whose body sets a published copy of the text by its name. *)
NamesText(job) == job.op \in {"save", "patch"} /\ job.form.column \in {"rendered", "last"}

(* One UPDATE or INSERT; a row the constraints refuse or that is gone is an   *)
(* error, and nothing is announced.                                         *)
Store(h, row, announce) ==
  LET a == ajob[h].article IN
    /\ IF Storable(row) /\ (article[a].exists \/ ajob[h].op = "create")
       THEN /\ article' = [article EXCEPT ![a] = row]
            /\ notice' = IF announce THEN [notice EXCEPT ![a] = "read"] ELSE notice
            /\ stale' = stale \cup {a}
            /\ torn' = IF ~ajob[h].calm \/ NamesText(ajob[h]) THEN torn \cup {a}
                       ELSE IF ajob[h].op = "publish" THEN torn \ {a} ELSE torn
       ELSE UNCHANGED <<article, notice, stale, torn>>
    /\ ArticleAnswer(h)
    /\ UNCHANGED <<abegun, notified>>
    /\ UNCHANGED groupsVars

(* createArticle, as a draft or published at once. *)
Created(job, public) ==
  [exists |-> TRUE, author |-> job.actor, group |-> GroupOf(job), visibility |-> VisibilityOf(job),
   published |-> job.form.published, private |-> job.form.private,
   status |-> IF public THEN "public" ELSE "draft", raw |-> job.form.text,
   rendered |-> IF public THEN job.form.text ELSE NoText,
   last |-> IF public THEN job.form.text ELSE NoText, deleted |-> FALSE]

CreateArticle(h) ==
  \E public \in BOOLEAN :
    LET job == ajob[h] IN
      /\ On(h, {"create"}, "write")
      /\ ~article[job.article].exists
      /\ Store(h, Created(job, public),
               public /\ job.form.published /\ VisibilityOf(job) = "public")

(* updateArticle takes the columns the editor sends out of the body and writes *)
(* what is left of it to the row as it stands.                              *)
Spread(row, form) ==
  [row EXCEPT !.author = IF form.column = "author" THEN form.owner ELSE @,
              !.deleted = @ \/ form.column = "deleted",
              !.rendered = IF form.column = "rendered" THEN form.text ELSE @,
              !.last = IF form.column = "last" THEN form.text ELSE @]

(* The visibility is always written, the group when the body names one.       *)
Edited(job) ==
  [Spread(article[job.article], job.form) EXCEPT
     !.visibility = VisibilityOf(job),
     !.group = IF job.form.group = Kept THEN @ ELSE job.form.group]

(* updateArticle with status draft: the flags go back as they were read.      *)
SaveDraft(h) ==
  LET job == ajob[h] IN
    /\ On(h, {"save"}, "write")
    /\ Store(h, [Edited(job) EXCEPT !.raw = job.form.text, !.status = "draft",
                   !.published = job.row.published, !.private = job.row.private], FALSE)

(* Mutant of PublishArticle: the rendered text is left as it was. *)
PublishUnrendered(h) ==
  LET job == ajob[h] IN
    /\ On(h, {"publish"}, "write")
    /\ Store(h, [Edited(job) EXCEPT !.raw = job.form.text, !.last = job.form.text,
                   !.status = "public"], FALSE)

(* updateArticle with status public; announced unless it was public before.   *)
PublishArticle(h) ==
  LET job == ajob[h]
      wasPublic == job.row.status = "public" /\ job.row.published
                     /\ job.row.visibility = "public"
  IN /\ On(h, {"publish"}, "write")
     /\ Store(h, [Edited(job) EXCEPT
                    !.raw = job.form.text, !.rendered = job.form.text, !.last = job.form.text,
                    !.status = "public",
                    !.published = job.form.published, !.private = job.form.private],
              job.form.published /\ VisibilityOf(job) = "public" /\ ~wasPublic)

(* updateArticle with neither status: texts, status and flags stay.           *)
PatchArticle(h) ==
  /\ On(h, {"patch"}, "write")
  /\ Store(h, Edited(ajob[h]), FALSE)

RollbackDraft(h) ==
  /\ On(h, {"rollback"}, "write")
  /\ Store(h, [article[ajob[h].article] EXCEPT !.raw = ajob[h].row.last, !.status = "public"], FALSE)

TrashArticle(h) ==
  /\ On(h, {"trash"}, "write")
  /\ Store(h, [article[ajob[h].article] EXCEPT !.deleted = TRUE], FALSE)

RestoreArticle(h) ==
  /\ On(h, {"restore"}, "write")
  /\ Store(h, [article[ajob[h].article] EXCEPT !.deleted = FALSE], FALSE)

(* hardDeleteArticle: the row and its tags in one transaction. *)
EraseArticle(h) ==
  /\ On(h, {"erase"}, "write")
  /\ article' = [article EXCEPT ![ajob[h].article] = Gone]
  /\ ArticleAnswer(h)
  /\ stale' = stale \cup {ajob[h].article}
  /\ UNCHANGED <<abegun, notice, notified, torn>>
  /\ UNCHANGED groupsVars

FailArticle(h) ==
  /\ ajob[h].pc # "idle"
  /\ ArticleAnswer(h)
  /\ UNCHANGED <<article, abegun, notice, notified, stale, torn>>
  /\ UNCHANGED groupsVars

-----------------------------------------------------------------------------
(* notificationService.articlePublished, which nobody waits for. *)

(* The article as it is by then; the trash is not looked at. *)
Announceable(row) ==
  /\ row.exists /\ row.status = "public" /\ row.published /\ ~row.private
  /\ row.visibility = "public"

ReadForNotice(a) ==
  /\ notice[a] = "read"
  /\ notice' = [notice EXCEPT ![a] = IF Announceable(article[a]) THEN "store" ELSE "idle"]
  /\ stale' = stale \ {a}
  /\ UNCHANGED <<article, ajob, abegun, notified, torn>>
  /\ UNCHANGED groupsVars

(* One notification for a follower and an article, however often it is stored. *)
StoreNotice(a) ==
  /\ notice[a] = "store"
  /\ notice' = [notice EXCEPT ![a] = "idle"]
  /\ notified' = notified \cup {a}
  /\ UNCHANGED <<article, ajob, abegun, stale, torn>>
  /\ UNCHANGED groupsVars

LoseNotice(a) ==
  /\ notice[a] # "idle"
  /\ notice' = [notice EXCEPT ![a] = "idle"]
  /\ UNCHANGED <<article, ajob, abegun, notified, stale, torn>>
  /\ UNCHANGED groupsVars

(* Deleting a group lets go of its articles, which the check of a members-only *)
(* article refuses: then, or when the group is gone, the request fails.       *)
RemoveGroup(h) ==
  LET g == gjob[h].group
      Its(a) == article[a].group = g
  IN IF g \in groups /\ \A a \in ArticleIds : Its(a) => article[a].visibility # "members"
     THEN /\ DeleteGroup(h)
          /\ article' = [a \in ArticleIds |-> IF Its(a) THEN [article[a] EXCEPT !.group = NoGroup]
                                              ELSE article[a]]
          /\ UNCHANGED <<ajob, abegun, notice, notified, stale, torn>>
     ELSE /\ Is(h, "remove", "write")
          /\ GroupAnswer(h)
          /\ UNCHANGED <<groups, used, member, followers, gbegun, readded>>
          /\ UNCHANGED articleVars

-----------------------------------------------------------------------------
(* The editor: picking a visibility sets the two flags, while a form that is   *)
(* opened and saved without picking one sends them as they were stored.      *)
Picked(visibility, g) ==
  [NoForm EXCEPT !.visibility = visibility, !.group = g, !.text = abegun + 1,
                 !.published = visibility # "unlisted", !.private = visibility = "private"]

Unpicked(row, g) ==
  [NoForm EXCEPT !.visibility = row.visibility, !.group = g, !.text = abegun + 1,
                 !.published = row.published, !.private = row.private]

Forms(row) ==
  LET gs == groups \cup {NoGroup}
  IN {Picked(v, g) : v \in Visibilities, g \in gs} \cup {Unpicked(row, g) : g \in gs}

(* Other clients of the API: the route checks nothing of the body, which may   *)
(* leave the visibility and the group out and name any column of the row.   *)
Bodies(row) ==
  LET plain == [Unpicked(row, Kept) EXCEPT !.visibility = Kept]
  IN {[plain EXCEPT !.column = c] : c \in Columns \ {"author"}}
       \cup {[plain EXCEPT !.column = "author", !.owner = u] : u \in Users}

SubmitArticle(h) ==
  /\ ajob[h].pc = "idle" /\ abegun + gbegun < MaxJobs
  /\ \/ \E u \in Authors, a \in ArticleIds : \E form \in Forms(Gone) :
          a \notin {ajob[p].article : p \in ArticleHandlers} /\ ~article[a].exists
            /\ SendArticle(h, "create", u, a, form)
     \/ \E u \in Users, a \in ArticleIds, op \in {"save", "publish"} :
          \E form \in Forms(article[a]) : SendArticle(h, op, u, a, form)
     \/ \E u \in Users, a \in ArticleIds, op \in Editing :
          \E form \in Bodies(article[a]) : SendArticle(h, op, u, a, form)
     \/ \E u \in Users, a \in ArticleIds, op \in ArticleOps \ (Editing \cup {"create"}) :
          SendArticle(h, op, u, a, NoForm)

ArticleStep(h) ==
  \/ FindArticle(h) \/ CheckForm(h) \/ CreateArticle(h)
  \/ OpenArticle(h) \/ CheckReader(h) \/ HandOut(h)
  \/ SaveDraft(h) \/ PublishArticle(h) \/ PatchArticle(h) \/ RollbackDraft(h)
  \/ TrashArticle(h) \/ RestoreArticle(h) \/ EraseArticle(h)

SubmitGroup(h) ==
  /\ gjob[h].pc = "idle" /\ gbegun < MaxGroupJobs /\ abegun + gbegun < MaxJobs
  /\ \E op \in Operations, actor \in Users, target \in Users, role \in GroupRoles, g \in GroupIds :
       /\ (op \in {"add", "update", "expel"}) # (target = actor)
       /\ op \notin {"add", "update"} => role = "member"
       /\ (op = "create") # (g \in used)
       /\ SendGroup(h, op, actor, g, target, role)
       /\ UNCHANGED articleVars

Next ==
  \/ \E h \in ArticleHandlers : SubmitArticle(h) \/ ArticleStep(h) \/ FailArticle(h)
  \/ \E a \in ArticleIds : ReadForNotice(a) \/ StoreNotice(a) \/ LoseNotice(a)
  \/ \E h \in GroupHandlers :
       \/ SubmitGroup(h)
       \/ GroupStep(h) /\ UNCHANGED articleVars
       \/ FailGroup(h) /\ UNCHANGED articleVars
       \/ RemoveGroup(h)

Spec == Init /\ [][Next]_vars

-----------------------------------------------------------------------------
TypeOK ==
  /\ GroupsTypeOK
  /\ \A a \in ArticleIds :
       /\ article[a].visibility \in Visibilities
       /\ article[a].group \in groups \cup {NoGroup}
       /\ {article[a].raw, article[a].rendered, article[a].last} \subseteq Texts \cup {NoText}
       /\ article[a].author \in Users \cup {"nobody"}
       /\ article[a].status \in {"draft", "public"}
       /\ notice[a] \in {"idle", "read", "store"}
  /\ \A h \in ArticleHandlers : ajob[h].pc \in ArticlePCs /\ ajob[h].op \in ArticleOps
  /\ notified \subseteq ArticleIds /\ stale \subseteq ArticleIds /\ torn \subseteq ArticleIds
  /\ abegun \in 0..MaxJobs

(* An article that is not being edited shows its readers the text its author  *)
(* sees in the editor, and a rollback would bring the same text back: the    *)
(* three copies of the text (articlesService updateArticle, rollbackDraft)  *)
(* part only when requests on the article overlapped or a body named one of *)
(* the copies, and are one again when it is next published alone.           *)
PublicInStep ==
  \A a \in ArticleIds :
    article[a].exists /\ article[a].status = "public" /\ a \notin torn =>
      article[a].raw = article[a].rendered /\ article[a].raw = article[a].last

(* Who may read an article at a moment: its author, the members of its group,  *)
(* or everybody; nobody reads one in the trash.                             *)
Readable(v, row) ==
  /\ row.exists /\ ~row.deleted
  /\ \/ v = row.author
     \/ row.visibility = "members" /\ MemberOf(v, row.group)
     \/ row.visibility \in {"public", "unlisted"} /\ ~row.private

(* Whoever is given an article to read could read the version they get with   *)
(* the memberships of that moment (articlesService getArticle reads the row, *)
(* waits, and then looks for the membership), and the article as it is by   *)
(* then, unless somebody else's request on it was in flight.                *)
ReadersMayRead ==
  [][\A h \in ArticleHandlers :
       ajob[h].pc # "answer" /\ ajob'[h].pc = "answer" =>
         /\ Readable(ajob[h].actor, ajob'[h].row)
         /\ ajob[h].calm => Readable(ajob[h].actor, article[ajob[h].article])]_vars

(* A members-only article always has the group whose members may read it,     *)
(* also after the group's owner deleted it (migration 014's check).         *)
MembersHaveGroup ==
  \A a \in ArticleIds : article[a].visibility = "members" => article[a].group \in groups

(* Followers are told of an article that is public at that moment, unless it  *)
(* was written between the look at it and the notification.                 *)
NoticesArePublic ==
  [][\A a \in ArticleIds \ stale :
       a \in notified' \ notified =>
         /\ article[a].visibility = "public" /\ article[a].status = "public"
         /\ article[a].published /\ ~article[a].private]_vars

(* An article is changed by its author or an account with the permission on   *)
(* any article: as it was looked up, and still at the write unless requests  *)
(* on it overlapped.  It changes hands only by an update whose body names   *)
(* the new author, and loses its group, besides, when the group is deleted. *)
MayWrite(h, a) ==
  /\ ajob[h].pc = "write" /\ ajob[h].article = a
  /\ MayTouch(ajob[h].actor, ajob[h].row)
  /\ ajob[h].calm => MayTouch(ajob[h].actor, article[a])

ArticlesManaged ==
  [][\A a \in ArticleIds :
       article[a].exists /\ article'[a] # article[a] =>
         \/ article'[a] = [article[a] EXCEPT !.group = NoGroup]
         \/ \E h \in ArticleHandlers :
              /\ MayWrite(h, a)
              /\ article'[a].exists /\ article'[a].author # article[a].author =>
                   ajob[h].op \in Editing /\ ajob[h].form.column = "author"]_vars

(* Articles and groups hold together: one owner of a group, one text of an    *)
(* article at rest, and no members-only article without its members.        *)
ArticlesConsistent == TypeOK /\ OneOwner /\ PublicInStep /\ MembersHaveGroup

(* Who acts may do so when the act takes effect: on memberships, on articles, *)
(* and in what followers are told of.                                       *)
ActsManaged == MembershipsManaged /\ ArticlesManaged /\ NoticesArePublic
=============================================================================

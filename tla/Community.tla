------------------------------- MODULE Community -------------------------------
(***************************************************************************)
(* What accounts do with each other's articles: likes, stock lists, comments *)
(* and their likes, follows and pickups.  A toggle looks for its row and then *)
(* adds or removes it; another request can run between.  The counts on the   *)
(* articles and comments are kept by triggers of the database.              *)
(***************************************************************************)
EXTENDS Naturals, FiniteSets

CONSTANTS
  Users,        \* accounts
  Moderators,   \* those with comment.delete.any
  ArticleIds,   \* articles
  ListIds,      \* ids a stock list can get
  FirstLists,   \* the default list of each account, made with the account
  CommentIds,   \* ids a comment can get
  Handlers,     \* requests that can be in flight together
  MaxPickups,   \* pickups an account may have (3 in the code)
  MaxJobs       \* bound on the requests of a behaviour

VARIABLES
  alive,      \* articles that have not been erased
  list,       \* stock_lists; owner "nobody" where there is none
  comment,    \* comments; author "nobody" where there is none
  rows,       \* the pairs of each relation
  count,      \* the number on each object of a counted relation
  comments,   \* comment_count of each article
  job,        \* requests in flight
  begun,      \* how many have begun
  crowded,    \* accounts whose checked writes overlapped (history)
  doubled     \* accounts that got a default list beside another (history)

contents == <<alive, list, comment, rows, count, comments>>
vars == <<alive, list, comment, rows, count, comments, job, begun, crowded, doubled>>

Nobody == "nobody"

(* No account and no article is the one that stands for none.                *)
ASSUME CommunityAssumption ==
  /\ Nobody \notin Users \cup ArticleIds /\ Moderators \subseteq Users
  /\ FirstLists \in [Users -> ListIds]
  /\ \A u, v \in Users : u # v => FirstLists[u] # FirstLists[v]
  /\ MaxPickups \in Nat /\ MaxJobs \in Nat

(* article_likes, stock_items, comment_likes, stock_list_likes, user_follows,  *)
(* article_pickups: who or what points at what.                             *)
Relations == {"like", "stock", "praise", "favour", "follow", "pickup"}
From(k) == IF k = "stock" THEN ListIds ELSE Users
To(k) ==
  CASE k \in {"like", "stock", "pickup"} -> ArticleIds
    [] k = "praise" -> CommentIds
    [] k = "favour" -> ListIds
    [] k = "follow" -> Users

Counted == {"like", "stock", "praise"}
Kinds == Relations \cup {"comment", "uncomment", "makelist", "makedefault", "default",
                         "undefault", "givelist", "droplist", "erase"}
PCs == {"idle", "find", "write"}

NoList == [owner |-> Nobody, default |-> FALSE]
NoComment == [author |-> Nobody, article |-> Nobody, deleted |-> FALSE]
NoJob == [pc |-> "idle", kind |-> "like", actor |-> Nobody, from |-> Nobody, to |-> Nobody,
          found |-> FALSE, defaults |-> {}, alone |-> TRUE]

Init ==
  /\ alive = ArticleIds
  /\ list = [l \in ListIds |->
       IF \E u \in Users : FirstLists[u] = l
       THEN [owner |-> CHOOSE u \in Users : FirstLists[u] = l, default |-> TRUE]
       ELSE NoList]
  /\ comment = [c \in CommentIds |-> NoComment]
  /\ rows = [k \in Relations |-> {}]
  /\ count = [k \in Counted |-> [o \in To(k) |-> 0]]
  /\ comments = [a \in ArticleIds |-> 0]
  /\ job = [h \in Handlers |-> NoJob]
  /\ begun = 0
  /\ crowded = {} /\ doubled = {}

ListsOf(u) == {l \in ListIds : list[l].owner = u}
DefaultsOf(u) == {l \in ListsOf(u) : list[l].default}
CommentsOn(a) == {c \in CommentIds : comment[c].article = a}
Pointing(k, x) == {p \in rows[k] : p[1] = x}
PointedAt(k, y) == {p \in rows[k] : p[2] = y}

(* The row at the other end of a foreign key. *)
Exists(k, y) ==
  CASE k \in {"like", "stock", "pickup"} -> y \in alive
    [] k = "praise" -> comment[y].author # Nobody
    [] k = "favour" -> list[y].owner # Nobody
    [] k = "follow" -> TRUE

-----------------------------------------------------------------------------
(* Pickups and defaults are about the other rows of the account.               *)
Checked == {"pickup", "default", "makedefault"}
Beside(h, kind, u) ==
  {p \in Handlers \ {h} : /\ {kind, job[p].kind} \subseteq Checked
                          /\ job[p].pc # "idle" /\ job[p].actor = u}

Send(h, kind, u, x, y) ==
  /\ job[h].pc = "idle" /\ begun < MaxJobs
  /\ begun' = begun + 1
  /\ job' = [p \in Handlers |->
       IF p = h THEN [NoJob EXCEPT !.pc = IF kind \in Relations \cup {"default"} THEN "find" ELSE "write",
                        !.kind = kind, !.actor = u, !.from = x, !.to = y]
       ELSE job[p]]
  /\ crowded' = IF Beside(h, kind, u) = {} THEN crowded ELSE crowded \cup {u}
  /\ UNCHANGED <<alive, list, comment, rows, count, comments, doubled>>

Settle(h, d) ==
  /\ job' = [job EXCEPT ![h] = NoJob] /\ doubled' = d
  /\ UNCHANGED <<begun, crowded>>
Answer(h) == Settle(h, doubled)

At(h, kind, pc) == job[h].kind = kind /\ job[h].pc = pc
Pair(h) == <<job[h].from, job[h].to>>

(* Go on to the write with what was found, or answer.                         *)
Find(h, from, allowed, found) ==
  /\ IF allowed
     THEN job' = [job EXCEPT ![h].pc = "write", ![h].from = from, ![h].found = found]
     ELSE job' = [job EXCEPT ![h] = NoJob]
  /\ UNCHANGED <<alive, list, comment, rows, count, comments, begun, crowded, doubled>>

(* getArticle, then the row. *)
FindLike(h) ==
  At(h, "like", "find") /\ Find(h, job[h].from, job[h].to \in alive, Pair(h) \in rows["like"])

(* toggleArticleInStock: one of one's own lists. *)
FindStock(h) ==
  /\ At(h, "stock", "find")
  /\ Find(h, job[h].from, job[h].from \in ListsOf(job[h].actor), Pair(h) \in rows["stock"])

(* toggleDefaultStock: a list marked as the default, if there is one.         *)
FindDefaultStock(h) ==
  LET u == job[h].actor IN
    /\ At(h, "stock", "find")
    /\ \/ DefaultsOf(u) = {} /\ Find(h, job[h].from, FALSE, FALSE)
       \/ \E l \in DefaultsOf(u) : Find(h, l, TRUE, <<l, job[h].to>> \in rows["stock"])

FindPraise(h) ==
  At(h, "praise", "find") /\ Find(h, job[h].from, TRUE, Pair(h) \in rows["praise"])

FindFavour(h) ==
  At(h, "favour", "find") /\ Find(h, job[h].from, TRUE, Pair(h) \in rows["favour"])

FindFollow(h) ==
  At(h, "follow", "find") /\ Find(h, job[h].from, TRUE, Pair(h) \in rows["follow"])

(* createPickupArticle counts the pickups; deletePickupArticle does not look.   *)
FindPickup(h) ==
  /\ At(h, "pickup", "find")
  /\ \/ Find(h, job[h].from, Cardinality(Pointing("pickup", job[h].from)) < MaxPickups, FALSE)
     \/ Find(h, job[h].from, TRUE, TRUE)

(* A statement that adds fails if its pair is there or one of its ends is not;  *)
(* one that removes fails if its pair is gone.  Adding to a list is an upsert. *)
Applies(h, k) ==
  IF job[h].found THEN Pair(h) \in rows[k]
  ELSE /\ Pair(h) \notin rows[k] /\ Exists(k, job[h].to)
       /\ k = "stock" => list[job[h].from].owner # Nobody

(* Mutant of Trigger: the count follows the request instead of the row.       *)
TriggerDeaf(h, k) == count' = [count EXCEPT ![k][job[h].to] = @ + 1]

(* update_article_counts and update_comment_like_count: one more or one less.   *)
Trigger(h, k) ==
  count' = [count EXCEPT ![k][job[h].to] = IF job[h].found THEN @ - 1 ELSE @ + 1]

Toggle(h) ==
  LET k == job[h].kind IN
    /\ job[h].pc = "write" /\ k \in Relations
    /\ IF Applies(h, k)
       THEN /\ rows' = [rows EXCEPT ![k] = IF job[h].found THEN @ \ {Pair(h)} ELSE @ \cup {Pair(h)}]
            /\ IF k \in Counted THEN Trigger(h, k) ELSE UNCHANGED count
       ELSE UNCHANGED <<rows, count>>
    /\ Answer(h)
    /\ UNCHANGED <<alive, list, comment, comments>>

-----------------------------------------------------------------------------
(* postComment: a row and the count of the article.  Nothing looks at who may  *)
(* read the article.                                                        *)
PostComment(h) ==
  LET c == job[h].from IN
    /\ At(h, "comment", "write")
    /\ IF job[h].to \in alive /\ comment[c].author = Nobody
       THEN /\ comment' = [comment EXCEPT ![c] = [author |-> job[h].actor, article |-> job[h].to, deleted |-> FALSE]]
            /\ comments' = [comments EXCEPT ![job[h].to] = @ + 1]
       ELSE UNCHANGED <<comment, comments>>
    /\ Answer(h)
    /\ UNCHANGED <<alive, list, rows, count>>

(* softDelete, of one's own comment or with comment.delete.any: the row and its *)
(* place in the count stay.                                                 *)
DeleteComment(h) ==
  LET c == job[h].to IN
    /\ At(h, "uncomment", "write")
    /\ comment' = IF comment[c].author = job[h].actor
                     \/ (comment[c].author # Nobody /\ job[h].actor \in Moderators)
                  THEN [comment EXCEPT ![c].deleted = TRUE] ELSE comment
    /\ Answer(h)
    /\ UNCHANGED <<alive, list, rows, count, comments>>

(* createStockList stores the body of the request, is_default with it, and the *)
(* other defaults stay; the actor is the account the body makes it for.     *)
CreateList(h) ==
  LET l == job[h].from
      u == job[h].actor
      default == job[h].kind = "makedefault" IN
    /\ job[h].kind \in {"makelist", "makedefault"} /\ job[h].pc = "write"
    /\ IF list[l].owner = Nobody
       THEN /\ list' = [list EXCEPT ![l] = [owner |-> u, default |-> default]]
            /\ Settle(h, IF default /\ DefaultsOf(u) # {} THEN doubled \cup {u} ELSE doubled)
       ELSE UNCHANGED list /\ Answer(h)
    /\ UNCHANGED <<alive, comment, rows, count, comments>>

(* updateList in one transaction: the defaults it sees are cleared and its own *)
(* list set; a default that another transaction sets meanwhile is not seen.   *)
FindDefaults(h) ==
  /\ At(h, "default", "find")
  /\ job' = [job EXCEPT ![h].pc = "write", ![h].defaults = DefaultsOf(job[h].actor)]
  /\ UNCHANGED <<alive, list, comment, rows, count, comments, begun, crowded, doubled>>

(* Mutant of MakeDefault: the other defaults stay. *)
MakeAlsoDefault(h) ==
  LET l == job[h].from IN
    /\ At(h, "default", "write")
    /\ list' = IF l \in ListsOf(job[h].actor) THEN [list EXCEPT ![l].default = TRUE] ELSE list
    /\ Answer(h)
    /\ UNCHANGED <<alive, comment, rows, count, comments>>

MakeDefault(h) ==
  LET l == job[h].from
      u == job[h].actor IN
    /\ At(h, "default", "write")
    /\ IF l \in ListsOf(u)
       THEN /\ list' = [m \in ListIds |-> [list[m] EXCEPT !.default =
                         m = l \/ (@ /\ m \notin job[h].defaults)]]
            /\ Settle(h, IF DefaultsOf(u) \subseteq job[h].defaults THEN doubled \ {u} ELSE doubled)
       ELSE UNCHANGED list /\ Answer(h)
    /\ UNCHANGED <<alive, comment, rows, count, comments>>

(* updateList with is_default false: no other list becomes the default.        *)
UnmakeDefault(h) ==
  LET l == job[h].from IN
    /\ At(h, "undefault", "write")
    /\ list' = IF l \in ListsOf(job[h].actor) THEN [list EXCEPT ![l].default = FALSE] ELSE list
    /\ Answer(h)
    /\ UNCHANGED <<alive, comment, rows, count, comments>>

(* updateList writes every other column of the body too: user_id hands the list *)
(* to another account, which may have a default of its own.                 *)
GiveList(h) ==
  LET l == job[h].from
      v == job[h].to IN
    /\ At(h, "givelist", "write")
    /\ IF l \in ListsOf(job[h].actor)
       THEN /\ list' = [list EXCEPT ![l].owner = v]
            /\ Settle(h, IF list[l].default THEN doubled \cup {v} ELSE doubled)
       ELSE UNCHANGED list /\ Answer(h)
    /\ UNCHANGED <<alive, comment, rows, count, comments>>

(* Items and likes of the list go with it, and the trigger runs for each item. *)
DropList(h) ==
  LET l == job[h].from IN
    /\ At(h, "droplist", "write")
    /\ IF l \in ListsOf(job[h].actor)
       THEN /\ list' = [list EXCEPT ![l] = NoList]
            /\ rows' = [rows EXCEPT !["stock"] = @ \ Pointing("stock", l),
                                    !["favour"] = @ \ PointedAt("favour", l)]
            /\ count' = [count EXCEPT !["stock"] = [a \in ArticleIds |->
                           IF <<l, a>> \in rows["stock"] THEN @[a] - 1 ELSE @[a]]]
       ELSE UNCHANGED <<list, rows, count>>
    /\ Answer(h)
    /\ UNCHANGED <<alive, comment, comments>>

(* hardDeleteArticle is refused while the article is liked, commented or picked *)
(* up; it goes from the lists.                                              *)
Erasable(a) == PointedAt("like", a) = {} /\ PointedAt("pickup", a) = {} /\ CommentsOn(a) = {}

(* Mutant of EraseArticle: likes and comments are left behind. *)
EraseAnyway(h) ==
  LET a == job[h].to IN
    /\ At(h, "erase", "write")
    /\ alive' = alive \ {a}
    /\ rows' = [rows EXCEPT !["stock"] = @ \ PointedAt("stock", a)]
    /\ count' = [count EXCEPT !["stock"][a] = 0]
    /\ Answer(h)
    /\ UNCHANGED <<list, comment, comments>>

EraseArticle(h) ==
  LET a == job[h].to IN
    /\ At(h, "erase", "write")
    /\ IF Erasable(a)
       THEN /\ alive' = alive \ {a}
            /\ rows' = [rows EXCEPT !["stock"] = @ \ PointedAt("stock", a)]
            /\ count' = [count EXCEPT !["stock"][a] = 0]
       ELSE UNCHANGED <<alive, rows, count>>
    /\ Answer(h)
    /\ UNCHANGED <<list, comment, comments>>

Fail(h) ==
  /\ job[h].pc # "idle"
  /\ Answer(h)
  /\ UNCHANGED contents

-----------------------------------------------------------------------------
Submit(h) ==
  \E u \in Users :
    \/ \E k \in Relations \ {"stock"}, y \in UNION {To(m) : m \in Relations} :
         y \in To(k) /\ Send(h, k, u, u, y)
    \/ \E l \in ListIds, a \in ArticleIds : Send(h, "stock", u, l, a)
    \/ \E l \in ListIds, kind \in {"makelist", "makedefault", "default", "undefault", "droplist"} :
         Send(h, kind, u, l, l)
    \/ \E l \in ListIds, v \in Users \ {u} : Send(h, "givelist", u, l, v)
    \/ \E c \in CommentIds, a \in ArticleIds : Send(h, "comment", u, c, a)
    \/ \E c \in CommentIds : Send(h, "uncomment", u, u, c)
    \/ \E a \in ArticleIds : Send(h, "erase", u, u, a)

Step(h) ==
  \/ FindLike(h) \/ FindStock(h) \/ FindDefaultStock(h) \/ FindPraise(h)
  \/ FindFavour(h) \/ FindFollow(h) \/ FindPickup(h) \/ Toggle(h)
  \/ PostComment(h) \/ DeleteComment(h)
  \/ CreateList(h) \/ FindDefaults(h) \/ MakeDefault(h) \/ UnmakeDefault(h) \/ GiveList(h)
  \/ DropList(h) \/ EraseArticle(h)

Next == \E h \in Handlers : Submit(h) \/ Step(h) \/ Fail(h)

Spec == Init /\ [][Next]_vars

-----------------------------------------------------------------------------
TypeOK ==
  /\ alive \subseteq ArticleIds
  /\ list \in [ListIds -> [owner : Users \cup {Nobody}, default : BOOLEAN]]
  /\ comment \in [CommentIds -> [author : Users \cup {Nobody},
                                 article : ArticleIds \cup {Nobody}, deleted : BOOLEAN]]
  /\ \A k \in Relations : rows[k] \subseteq From(k) \X To(k)
  /\ \A k \in Counted : count[k] \in [To(k) -> Nat]
  /\ comments \in [ArticleIds -> Nat]
  /\ \A h \in Handlers : job[h].pc \in PCs /\ job[h].kind \in Kinds
  /\ begun \in 0..MaxJobs /\ crowded \cup doubled \subseteq Users

(* The three buttons with a number kept by triggers.                           *)
LikeButton == INSTANCE Marks WITH
  Subjects <- Users, Objects <- ArticleIds, marks <- rows["like"], count <- count["like"]
StockButton == INSTANCE Marks WITH
  Subjects <- ListIds, Objects <- ArticleIds, marks <- rows["stock"], count <- count["stock"]
PraiseButton == INSTANCE Marks WITH
  Subjects <- Users, Objects <- CommentIds, marks <- rows["praise"], count <- count["praise"]

(* Every row points at rows that are there, and every comment is counted on    *)
(* its article: an erased article leaves nothing behind.                    *)
NothingDangles ==
  /\ \A k \in Relations : \A p \in rows[k] : Exists(k, p[2])
  /\ \A p \in rows["stock"] : list[p[1]].owner # Nobody
  /\ \A c \in CommentIds : comment[c].author # Nobody => comment[c].article \in alive
  /\ \A a \in ArticleIds : comments[a] = Cardinality(CommentsOn(a))

(* An account has at most three pickups (usersService createPickupArticle),    *)
(* unless two of its requests overlapped.                                   *)
PickupsLimited ==
  \A u \in Users \ crowded : Cardinality(Pointing("pickup", u)) <= MaxPickups

(* An account has at most one default list (stocksRepository updateList),      *)
(* unless two of its requests overlapped, or it got a default beside another   *)
(* one by a creation or from another account since it last chose one.       *)
OneDefault == \A u \in Users \ (crowded \cup doubled) : Cardinality(DefaultsOf(u)) <= 1

(* Likes, stocked articles and likes of comments keep the promise of a button  *)
(* with a number, however their toggles overlap: the number is never moved by *)
(* a request that did not move the row (triggers of init_schema.sql).        *)
ButtonsAreMarks == LikeButton!Spec /\ StockButton!Spec /\ PraiseButton!Spec

(* Rows point at rows that are there, through failures and erasures.           *)
CommunityConsistent == TypeOK /\ NothingDangles

(* The limits the services set by a look before a write: three pickups and one *)
(* default list for each account whose requests did not overlap; choosing a   *)
(* default ends a second one however it came about.                         *)
LimitsKept == PickupsLimited /\ OneDefault
=============================================================================

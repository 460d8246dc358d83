-------------------------- MODULE Community_proofs --------------------------
(* For every set of accounts, articles, lists and comments: the likes of    *)
(* articles, the stocked lists and the likes of comments are buttons with a *)
(* number (Marks), rows point at rows that are there, and the limits on     *)
(* pickups and lists hold for who sends one request at a time.              *)
EXTENDS Community, FiniteSetTheorems, TLAPS

-----------------------------------------------------------------------------
(* The ends of the counted relations, and of the two kinds that remove an   *)
(* end.                                                                     *)
LEMMA Ends ==
  /\ From("like") = Users /\ To("like") = ArticleIds
  /\ From("stock") = ListIds /\ To("stock") = ArticleIds
  /\ From("praise") = Users /\ To("praise") = CommentIds
BY DEF From, To

Things == Users \cup ArticleIds \cup ListIds \cup CommentIds \cup {Nobody}

JobRecords ==
  [pc : PCs, kind : Kinds, actor : Users \cup {Nobody}, from : Things, to : Things,
   found : BOOLEAN, defaults : SUBSET ListIds, alone : BOOLEAN]

(* What a request of a kind is about: the ends of its relation, its list, its *)
(* comment or its article.  An account picks articles up for itself.        *)
About(kind, actor, from, to) ==
  /\ kind \in Relations => from \in From(kind) /\ to \in To(kind)
  /\ kind = "pickup" => from = actor
  /\ kind \in {"makelist", "makedefault", "default", "undefault", "givelist", "droplist"}
       => from \in ListIds
  /\ kind = "givelist" => to \in Users
  /\ kind = "comment" => from \in CommentIds /\ to \in ArticleIds
  /\ kind = "uncomment" => to \in CommentIds
  /\ kind = "erase" => to \in ArticleIds

(* A request under way is somebody's, and about such things.                 *)
JobGood(j) == j.pc # "idle" => j.actor \in Users /\ About(j.kind, j.actor, j.from, j.to)

JobsGood ==
  /\ job \in [Handlers -> JobRecords]
  /\ \A h \in Handlers : JobGood(job[h])

RowsGood ==
  /\ rows = [k \in Relations |-> rows[k]]
  /\ \A k \in Relations : rows[k] \subseteq From(k) \X To(k)

CountGood ==
  /\ count = [k \in Counted |-> count[k]]
  /\ \A k \in Counted : count[k] = [o \in To(k) |-> count[k][o]]

ButtonInv == JobsGood /\ RowsGood /\ CountGood

-----------------------------------------------------------------------------
LEMMA NoJobType == NoJob \in JobRecords /\ JobGood(NoJob)
BY DEF NoJob, JobRecords, JobGood, PCs, Kinds, Relations, Things

LEMMA InitInv == Init => ButtonInv
<1> SUFFICES ASSUME Init PROVE ButtonInv
  OBVIOUS
<1>1. JobsGood
  BY NoJobType DEF Init, JobsGood
<1>2. RowsGood
  BY DEF Init, RowsGood
<1>3. CountGood
  BY DEF Init, CountGood
<1> QED BY <1>1, <1>2, <1>3 DEF ButtonInv

(* The jobs: a request begins, goes on or is answered.                      *)
LEMMA OneJob ==
  ASSUME JobsGood, NEW h \in Handlers, NEW j \in JobRecords, JobGood(j),
         job' = [job EXCEPT ![h] = j]
  PROVE  JobsGood'
<1>1. job' \in [Handlers -> JobRecords]
  BY DEF JobsGood
<1>2. ASSUME NEW p \in Handlers PROVE JobGood(job'[p])
  BY DEF JobsGood
<1> QED BY <1>1, <1>2 DEF JobsGood

LEMMA Answered ==
  ASSUME JobsGood, NEW h \in Handlers, NEW d, Settle(h, d) \/ Answer(h)
  PROVE  JobsGood'
BY NoJobType, OneJob DEF Answer, Settle

LEMMA Sent ==
  ASSUME JobsGood, NEW h \in Handlers, NEW kind \in Kinds, NEW u \in Users,
         NEW x \in Things, NEW y \in Things, Send(h, kind, u, x, y), About(kind, u, x, y)
  PROVE  JobsGood'
<1> DEFINE pc == IF kind \in Relations \cup {"default"} THEN "find" ELSE "write"
           j == [NoJob EXCEPT !.pc = pc, !.kind = kind, !.actor = u, !.from = x, !.to = y]
<1>1. pc \in PCs
  BY DEF PCs
<1>2. job' = [job EXCEPT ![h] = j]
  BY DEF Send, JobsGood
<1> HIDE DEF pc
<1>3. j \in JobRecords /\ j.kind = kind /\ j.actor = u /\ j.from = x /\ j.to = y
  BY <1>1, NoJobType DEF JobRecords
<1> HIDE DEF j
<1>4. JobGood(j)
  BY <1>3 DEF JobGood
<1> QED BY <1>2, <1>3, <1>4, OneJob

LEMMA Found ==
  ASSUME JobsGood, NEW h \in Handlers, NEW from \in Things, NEW found \in BOOLEAN,
         \/ job' = [job EXCEPT ![h] = NoJob]
         \/ job' = [job EXCEPT ![h].pc = "write", ![h].from = from, ![h].found = found],
         job[h].pc # "idle", job[h].kind \in Relations, from \in From(job[h].kind),
         job[h].kind = "pickup" => from = job[h].from
  PROVE  JobsGood'
<1>1. CASE job' = [job EXCEPT ![h].pc = "write", ![h].from = from, ![h].found = found]
  <2> DEFINE j == [job[h] EXCEPT !.pc = "write", !.from = from, !.found = found]
  <2>1. job' = [job EXCEPT ![h] = j]
    BY <1>1 DEF JobsGood
  <2>2. job[h] \in JobRecords /\ JobGood(job[h])
    BY DEF JobsGood
  <2>3. /\ j \in JobRecords /\ j.kind = job[h].kind /\ j.actor = job[h].actor
        /\ j.from = from /\ j.to = job[h].to
    BY <2>2 DEF JobRecords, PCs
  <2> HIDE DEF j
  <2>4. JobGood(j)
    BY <2>2, <2>3 DEF JobGood, About, Relations
  <2> QED BY <2>1, <2>3, <2>4, OneJob
<1>2. CASE job' = [job EXCEPT ![h] = NoJob]
  BY <1>2, NoJobType, OneJob
<1> QED BY <1>1, <1>2

-----------------------------------------------------------------------------
(* A step that leaves rows and counts alone.                                *)
Quiet == UNCHANGED <<rows, count>>

LEMMA SubmitStep ==
  ASSUME JobsGood, NEW h \in Handlers, Submit(h)
  PROVE  JobsGood' /\ Quiet
<1>1. PICK u \in Users :
        \/ \E k \in Relations \ {"stock"}, y \in UNION {To(m) : m \in Relations} :
             y \in To(k) /\ Send(h, k, u, u, y)
        \/ \E l \in ListIds, a \in ArticleIds : Send(h, "stock", u, l, a)
        \/ \E l \in ListIds,
              kind \in {"makelist", "makedefault", "default", "undefault", "droplist"} :
             Send(h, kind, u, l, l)
        \/ \E l \in ListIds, v \in Users \ {u} : Send(h, "givelist", u, l, v)
        \/ \E c \in CommentIds, a \in ArticleIds : Send(h, "comment", u, c, a)
        \/ \E c \in CommentIds : Send(h, "uncomment", u, u, c)
        \/ \E a \in ArticleIds : Send(h, "erase", u, u, a)
  BY DEF Submit
<1>2. Quiet
  BY <1>1 DEF Send, contents, Quiet
<1>3. ASSUME NEW k \in Relations \ {"stock"}, NEW y \in To(k), Send(h, k, u, u, y)
      PROVE  JobsGood'
  <2>1. k \in Kinds /\ y \in Things /\ u \in From(k) /\ k \notin {"droplist", "erase"}
    BY DEF Kinds, Things, From, To, Relations
  <2>2. About(k, u, u, y)
    BY <2>1 DEF About, Relations
  <2> QED BY <1>3, <2>1, <2>2, Sent DEF Things
<1>4. ASSUME NEW l \in ListIds, NEW a \in ArticleIds, Send(h, "stock", u, l, a)
      PROVE  JobsGood'
  BY <1>4, Ends, Sent DEF Things, Kinds, Relations, About
<1>5. ASSUME NEW l \in ListIds,
             NEW kind \in {"makelist", "makedefault", "default", "undefault", "droplist"},
             Send(h, kind, u, l, l)
      PROVE  JobsGood'
  BY <1>5, Sent DEF Things, Kinds, Relations, About
<1>6. ASSUME NEW c \in CommentIds, NEW a \in ArticleIds, Send(h, "comment", u, c, a)
      PROVE  JobsGood'
  BY <1>6, Sent DEF Things, Kinds, Relations, About
<1>7. ASSUME NEW c \in CommentIds, Send(h, "uncomment", u, u, c) PROVE JobsGood'
  BY <1>7, Sent DEF Things, Kinds, Relations, About
<1>8. ASSUME NEW a \in ArticleIds, Send(h, "erase", u, u, a) PROVE JobsGood'
  BY <1>8, Sent DEF Things, Kinds, Relations, About
<1>9. ASSUME NEW l \in ListIds, NEW v \in Users \ {u}, Send(h, "givelist", u, l, v)
      PROVE  JobsGood'
  BY <1>9, Sent DEF Things, Kinds, Relations, About
<1> QED BY <1>1, <1>2, <1>3, <1>4, <1>5, <1>6, <1>7, <1>8, <1>9

LEMMA FindStep ==
  ASSUME JobsGood, NEW h \in Handlers,
         \/ FindLike(h) \/ FindStock(h) \/ FindDefaultStock(h) \/ FindPraise(h)
         \/ FindFavour(h) \/ FindFollow(h) \/ FindPickup(h) \/ FindDefaults(h)
  PROVE  JobsGood' /\ Quiet
<1>0. Quiet
  BY DEF FindLike, FindStock, FindDefaultStock, FindPraise, FindFavour, FindFollow, FindPickup,
         FindDefaults, Find, Quiet
<1> SUFFICES JobsGood'
  BY <1>0
<1>1. job[h] \in JobRecords /\ JobGood(job[h])
  BY DEF JobsGood
<1>2. job[h].from \in Things /\ (job[h].pc # "idle" /\ job[h].kind \in Relations
        => job[h].from \in From(job[h].kind))
  BY <1>1 DEF JobRecords, JobGood, About
<1>4. CASE FindLike(h)
  <2> DEFINE found == Pair(h) \in rows["like"]
  <2>1. found \in BOOLEAN
    OBVIOUS
  <2>2. \/ job' = [job EXCEPT ![h] = NoJob]
        \/ job' = [job EXCEPT ![h].pc = "write", ![h].from = job[h].from, ![h].found = found]
    BY <1>4 DEF FindLike, Find
  <2> HIDE DEF found
  <2> QED BY <1>2, <1>4, <2>1, <2>2, Found DEF FindLike, At, Relations
<1>5. CASE FindStock(h)
  <2> DEFINE found == Pair(h) \in rows["stock"]
  <2>1. found \in BOOLEAN
    OBVIOUS
  <2>2. \/ job' = [job EXCEPT ![h] = NoJob]
        \/ job' = [job EXCEPT ![h].pc = "write", ![h].from = job[h].from, ![h].found = found]
    BY <1>5 DEF FindStock, Find
  <2> HIDE DEF found
  <2> QED BY <1>2, <1>5, <2>1, <2>2, Found DEF FindStock, At, Relations
<1>6. CASE FindDefaultStock(h)
  <2>1. At(h, "stock", "find")
    BY <1>6 DEF FindDefaultStock
  <2>2. CASE Find(h, job[h].from, FALSE, FALSE)
    BY <2>1, <2>2, NoJobType, OneJob DEF Find
  <2>3. ASSUME NEW l \in DefaultsOf(job[h].actor),
               Find(h, l, TRUE, <<l, job[h].to>> \in rows["stock"])
        PROVE  JobsGood'
    <3> DEFINE found == <<l, job[h].to>> \in rows["stock"]
    <3>1. l \in ListIds
      BY DEF DefaultsOf, ListsOf
    <3>2. found \in BOOLEAN
      OBVIOUS
    <3>3. job' = [job EXCEPT ![h].pc = "write", ![h].from = l, ![h].found = found]
      BY <2>3 DEF Find
    <3> HIDE DEF found
    <3> QED BY <2>1, <3>1, <3>2, <3>3, Ends, Found DEF At, Relations, Things
  <2> QED BY <1>6, <2>2, <2>3 DEF FindDefaultStock
<1>7. CASE FindPraise(h)
  <2> DEFINE found == Pair(h) \in rows["praise"]
  <2>1. found \in BOOLEAN
    OBVIOUS
  <2>2. \/ job' = [job EXCEPT ![h] = NoJob]
        \/ job' = [job EXCEPT ![h].pc = "write", ![h].from = job[h].from, ![h].found = found]
    BY <1>7 DEF FindPraise, Find
  <2> HIDE DEF found
  <2> QED BY <1>2, <1>7, <2>1, <2>2, Found DEF FindPraise, At, Relations
<1>8. CASE FindFavour(h)
  <2> DEFINE found == Pair(h) \in rows["favour"]
  <2>1. found \in BOOLEAN
    OBVIOUS
  <2>2. \/ job' = [job EXCEPT ![h] = NoJob]
        \/ job' = [job EXCEPT ![h].pc = "write", ![h].from = job[h].from, ![h].found = found]
    BY <1>8 DEF FindFavour, Find
  <2> HIDE DEF found
  <2> QED BY <1>2, <1>8, <2>1, <2>2, Found DEF FindFavour, At, Relations
<1>9. CASE FindFollow(h)
  <2> DEFINE found == Pair(h) \in rows["follow"]
  <2>1. found \in BOOLEAN
    OBVIOUS
  <2>2. \/ job' = [job EXCEPT ![h] = NoJob]
        \/ job' = [job EXCEPT ![h].pc = "write", ![h].from = job[h].from, ![h].found = found]
    BY <1>9 DEF FindFollow, Find
  <2> HIDE DEF found
  <2> QED BY <1>2, <1>9, <2>1, <2>2, Found DEF FindFollow, At, Relations
<1>10. CASE FindPickup(h)
  <2>1. PICK found \in BOOLEAN :
          \/ job' = [job EXCEPT ![h] = NoJob]
          \/ job' = [job EXCEPT ![h].pc = "write", ![h].from = job[h].from, ![h].found = found]
    BY <1>10 DEF FindPickup, Find
  <2> QED BY <1>2, <1>10, <2>1, Found DEF FindPickup, At, Relations
<1>11. CASE FindDefaults(h)
  <2> DEFINE j == [job[h] EXCEPT !.pc = "write", !.defaults = DefaultsOf(job[h].actor)]
  <2>1. job' = [job EXCEPT ![h] = j]
    BY <1>11 DEF FindDefaults, JobsGood
  <2>2. DefaultsOf(job[h].actor) \in SUBSET ListIds
    BY DEF DefaultsOf, ListsOf
  <2>3. /\ j \in JobRecords /\ j.kind = job[h].kind /\ j.actor = job[h].actor
        /\ j.from = job[h].from /\ j.to = job[h].to
    BY <1>1, <2>2 DEF JobRecords, PCs
  <2> HIDE DEF j
  <2>4. JobGood(j)
    BY <1>1, <1>11, <2>3 DEF JobGood, FindDefaults, At
  <2> QED BY <2>1, <2>3, <2>4, OneJob
<1> QED BY <1>4, <1>5, <1>6, <1>7, <1>8, <1>9, <1>10, <1>11

LEMMA OtherStep ==
  ASSUME JobsGood, NEW h \in Handlers,
         \/ PostComment(h) \/ DeleteComment(h) \/ CreateList(h) \/ MakeDefault(h)
         \/ UnmakeDefault(h) \/ GiveList(h) \/ Fail(h)
  PROVE  JobsGood' /\ Quiet
<1>1. PICK d : Settle(h, d)
  BY DEF PostComment, DeleteComment, CreateList, MakeDefault, UnmakeDefault, GiveList, Fail, Answer
<1>2. Quiet
  BY DEF PostComment, DeleteComment, CreateList, MakeDefault, UnmakeDefault, GiveList, Fail,
         contents, Quiet
<1> QED BY <1>1, <1>2, Answered

-----------------------------------------------------------------------------
(* A step of one button, or a stutter of it.                                *)
Buttons ==
  /\ [LikeButton!Next]_(LikeButton!vars)
  /\ [StockButton!Next]_(StockButton!vars)
  /\ [PraiseButton!Next]_(PraiseButton!vars)

LEMMA QuietButtons ==
  ASSUME Quiet
  PROVE  Buttons /\ (RowsGood /\ CountGood => (RowsGood /\ CountGood)')
<1>1. Buttons
  BY DEF Buttons, Quiet, LikeButton!vars, StockButton!vars, PraiseButton!vars
<1>2. RowsGood /\ CountGood => (RowsGood /\ CountGood)'
  BY DEF Quiet, RowsGood, CountGood
<1> QED BY <1>1, <1>2

(* The rows and the number of one relation move together by one pair.       *)
LEMMA PairMoves ==
  ASSUME RowsGood, CountGood, NEW k \in Relations, NEW x \in From(k), NEW y \in To(k),
         \/ /\ <<x, y>> \in rows[k]
            /\ rows' = [rows EXCEPT ![k] = rows[k] \ {<<x, y>>}]
            /\ IF k \in Counted
               THEN count' = [count EXCEPT ![k] = [count[k] EXCEPT ![y] = count[k][y] - 1]]
               ELSE count' = count
         \/ /\ <<x, y>> \notin rows[k]
            /\ rows' = [rows EXCEPT ![k] = rows[k] \cup {<<x, y>>}]
            /\ IF k \in Counted
               THEN count' = [count EXCEPT ![k] = [count[k] EXCEPT ![y] = count[k][y] + 1]]
               ELSE count' = count
  PROVE  Buttons /\ (RowsGood /\ CountGood)'
<1>1. \A m \in Relations \ {k} : rows'[m] = rows[m]
  BY DEF RowsGood
<1>2. \A m \in Counted \ {k} : count'[m] = count[m]
  BY DEF CountGood
<1>3. /\ k \in Counted =>
           \/ /\ <<x, y>> \in rows[k] /\ rows'[k] = rows[k] \ {<<x, y>>}
              /\ count'[k] = [count[k] EXCEPT ![y] = count[k][y] - 1]
           \/ /\ <<x, y>> \notin rows[k] /\ rows'[k] = rows[k] \cup {<<x, y>>}
              /\ count'[k] = [count[k] EXCEPT ![y] = count[k][y] + 1]
  BY DEF RowsGood, CountGood
<1>4. RowsGood'
  <2>1. rows' = [m \in Relations |-> rows'[m]]
    BY DEF RowsGood
  <2>2. rows'[k] \subseteq From(k) \X To(k)
    BY DEF RowsGood
  <2> QED BY <1>1, <2>1, <2>2 DEF RowsGood
<1>5. CountGood'
  <2>1. count' = [m \in Counted |-> count'[m]]
    BY DEF CountGood
  <2>2. ASSUME NEW m \in Counted PROVE count'[m] = [o \in To(m) |-> count'[m][o]]
    <3>1. CASE m = k
      BY <1>3, <3>1 DEF CountGood
    <3>2. CASE m # k
      BY <1>2, <3>2 DEF CountGood
    <3> QED BY <3>1, <3>2
  <2> QED BY <2>1, <2>2 DEF CountGood
<1>6. [LikeButton!Next]_(LikeButton!vars)
  <2>1. CASE k = "like"
    <3>1. LikeButton!Add(x, y) \/ LikeButton!Remove(x, y)
      BY <1>3, <2>1 DEF LikeButton!Add, LikeButton!Remove, Counted
    <3> QED BY <2>1, <3>1, Ends DEF LikeButton!Next
  <2>2. CASE k # "like"
    BY <1>1, <1>2, <2>2 DEF LikeButton!vars, Relations, Counted
  <2> QED BY <2>1, <2>2
<1>7. [StockButton!Next]_(StockButton!vars)
  <2>1. CASE k = "stock"
    <3>1. StockButton!Add(x, y) \/ StockButton!Remove(x, y)
      BY <1>3, <2>1 DEF StockButton!Add, StockButton!Remove, Counted
    <3> QED BY <2>1, <3>1, Ends DEF StockButton!Next
  <2>2. CASE k # "stock"
    BY <1>1, <1>2, <2>2 DEF StockButton!vars, Relations, Counted
  <2> QED BY <2>1, <2>2
<1>8. [PraiseButton!Next]_(PraiseButton!vars)
  <2>1. CASE k = "praise"
    <3>1. PraiseButton!Add(x, y) \/ PraiseButton!Remove(x, y)
      BY <1>3, <2>1 DEF PraiseButton!Add, PraiseButton!Remove, Counted
    <3> QED BY <2>1, <3>1, Ends DEF PraiseButton!Next
  <2>2. CASE k # "praise"
    BY <1>1, <1>2, <2>2 DEF PraiseButton!vars, Relations, Counted
  <2> QED BY <2>1, <2>2
<1> QED BY <1>4, <1>5, <1>6, <1>7, <1>8 DEF Buttons

LEMMA ToggleStep ==
  ASSUME ButtonInv, NEW h \in Handlers, Toggle(h)
  PROVE  Buttons /\ (RowsGood /\ CountGood)'
<1> DEFINE k == job[h].kind  x == job[h].from  y == job[h].to
<1>1. k \in Relations /\ x \in From(k) /\ y \in To(k) /\ Pair(h) = <<x, y>>
  BY DEF Toggle, ButtonInv, JobsGood, JobGood, About, Pair
<1>2. CASE ~Applies(h, k)
  <2>1. Quiet
    BY <1>2 DEF Toggle, Quiet
  <2> QED BY <2>1, QuietButtons DEF ButtonInv
<1>3. CASE Applies(h, k)
  <2>1. /\ rows' = [rows EXCEPT ![k] = IF job[h].found THEN rows[k] \ {<<x, y>>}
                                       ELSE rows[k] \cup {<<x, y>>}]
        /\ k \in Counted => count' = [count EXCEPT ![k] = [count[k] EXCEPT ![y] =
                                IF job[h].found THEN count[k][y] - 1 ELSE count[k][y] + 1]]
        /\ k \notin Counted => count' = count
    BY <1>1, <1>3 DEF Toggle, Trigger, ButtonInv, CountGood
  <2>2. job[h].found <=> <<x, y>> \in rows[k]
    BY <1>1, <1>3 DEF Applies
  <2> HIDE DEF k, x, y
  <2>3. CASE job[h].found
    BY <1>1, <2>1, <2>2, <2>3, PairMoves DEF ButtonInv
  <2>4. CASE ~job[h].found
    BY <1>1, <2>1, <2>2, <2>4, PairMoves DEF ButtonInv
  <2> QED BY <2>3, <2>4
<1> QED BY <1>2, <1>3

(* A list goes with its items and its likes: a subject of the second button.*)
LEMMA DropStep ==
  ASSUME ButtonInv, NEW h \in Handlers, DropList(h)
  PROVE  Buttons /\ (RowsGood /\ CountGood)'
<1> DEFINE l == job[h].from
<1>1. CASE l \notin ListsOf(job[h].actor)
  <2>1. Quiet
    BY <1>1 DEF DropList, Quiet
  <2> QED BY <2>1, QuietButtons DEF ButtonInv
<1>2. CASE l \in ListsOf(job[h].actor)
  <2>1. l \in ListIds
    BY <1>2 DEF ListsOf
  <2>2. /\ rows' = [rows EXCEPT !["stock"] = rows["stock"] \ Pointing("stock", l),
                                !["favour"] = rows["favour"] \ PointedAt("favour", l)]
        /\ count' = [count EXCEPT !["stock"] = [a \in ArticleIds |->
              IF <<l, a>> \in rows["stock"] THEN count["stock"][a] - 1 ELSE count["stock"][a]]]
    BY <1>2 DEF DropList, ButtonInv, RowsGood, CountGood, Relations, Counted
  <2> HIDE DEF l
  <2>3. /\ \A m \in Relations \ {"stock", "favour"} : rows'[m] = rows[m]
        /\ rows'["stock"] = rows["stock"] \ Pointing("stock", l)
        /\ rows'["favour"] = rows["favour"] \ PointedAt("favour", l)
    BY <2>2 DEF ButtonInv, RowsGood, Relations
  <2>4. /\ count'["like"] = count["like"] /\ count'["praise"] = count["praise"]
        /\ count'["stock"] = [a \in ArticleIds |->
              IF <<l, a>> \in rows["stock"] THEN count["stock"][a] - 1 ELSE count["stock"][a]]
    BY <2>2 DEF ButtonInv, CountGood, Counted
  <2>5. RowsGood'
    <3>1. rows' = [m \in Relations |-> rows'[m]]
      BY <2>2 DEF ButtonInv, RowsGood
    <3>2. ASSUME NEW m \in Relations PROVE rows'[m] \subseteq rows[m]
      BY <2>3
    <3> QED BY <3>1, <3>2 DEF ButtonInv, RowsGood
  <2>6. CountGood'
    <3>1. count' = [m \in Counted |-> count'[m]]
      BY <2>2 DEF ButtonInv, CountGood
    <3> QED BY <2>4, <3>1, Ends DEF ButtonInv, CountGood, Counted
  <2>7. StockButton!SubjectGoes(l)
    <3>1. rows["stock"] \subseteq ListIds \X ArticleIds
      BY Ends DEF ButtonInv, RowsGood, Relations
    <3>2. rows["stock"] \ Pointing("stock", l) = rows["stock"] \ ({l} \X ArticleIds)
      BY <3>1 DEF Pointing
    <3> QED BY <2>3, <2>4, <3>2 DEF StockButton!SubjectGoes
  <2>8. UNCHANGED LikeButton!vars /\ UNCHANGED PraiseButton!vars
    BY <2>3, <2>4 DEF LikeButton!vars, PraiseButton!vars, Relations
  <2> QED BY <2>1, <2>5, <2>6, <2>7, <2>8 DEF Buttons, StockButton!Next
<1> QED BY <1>1, <1>2

(* An article goes from the lists: an object of the second button.  Nobody  *)
(* likes it.                                                                *)
LEMMA EraseStep ==
  ASSUME ButtonInv, NEW h \in Handlers, EraseArticle(h)
  PROVE  Buttons /\ (RowsGood /\ CountGood)'
<1> DEFINE a == job[h].to
<1>1. CASE ~Erasable(a)
  <2>1. Quiet
    BY <1>1 DEF EraseArticle, Quiet
  <2> QED BY <2>1, QuietButtons DEF ButtonInv
<1>2. CASE Erasable(a)
  <2>1. a \in ArticleIds
    BY DEF EraseArticle, At, ButtonInv, JobsGood, JobGood, About
  <2>2. /\ rows' = [rows EXCEPT !["stock"] = rows["stock"] \ PointedAt("stock", a)]
        /\ count' = [count EXCEPT !["stock"] = [count["stock"] EXCEPT ![a] = 0]]
    BY <1>2 DEF EraseArticle, ButtonInv, RowsGood, CountGood, Relations, Counted
  <2> HIDE DEF a
  <2>3. /\ \A m \in Relations \ {"stock"} : rows'[m] = rows[m]
        /\ rows'["stock"] = rows["stock"] \ PointedAt("stock", a)
    BY <2>2 DEF ButtonInv, RowsGood, Relations
  <2>4. /\ count'["like"] = count["like"] /\ count'["praise"] = count["praise"]
        /\ count'["stock"] = [count["stock"] EXCEPT ![a] = 0]
    BY <2>2 DEF ButtonInv, CountGood, Counted
  <2>5. RowsGood'
    <3>1. rows' = [m \in Relations |-> rows'[m]]
      BY <2>2 DEF ButtonInv, RowsGood
    <3>2. ASSUME NEW m \in Relations PROVE rows'[m] \subseteq rows[m]
      BY <2>3
    <3> QED BY <3>1, <3>2 DEF ButtonInv, RowsGood
  <2>6. CountGood'
    <3>1. count' = [m \in Counted |-> count'[m]]
      BY <2>2 DEF ButtonInv, CountGood
    <3> QED BY <2>4, <3>1, Ends DEF ButtonInv, CountGood, Counted
  <2>7. StockButton!ObjectGoes(a)
    <3>1. rows["stock"] \subseteq ListIds \X ArticleIds
      BY Ends DEF ButtonInv, RowsGood, Relations
    <3>2. rows["stock"] \ PointedAt("stock", a) = rows["stock"] \ (ListIds \X {a})
      BY <3>1 DEF PointedAt
    <3> QED BY <2>3, <2>4, <3>2 DEF StockButton!ObjectGoes
  <2>8. UNCHANGED LikeButton!vars /\ UNCHANGED PraiseButton!vars
    BY <2>3, <2>4 DEF LikeButton!vars, PraiseButton!vars, Relations
  <2> QED BY <2>1, <2>5, <2>6, <2>7, <2>8 DEF Buttons, StockButton!Next
<1> QED BY <1>1, <1>2

-----------------------------------------------------------------------------
LEMMA ButtonStep ==
  ASSUME ButtonInv, [Next]_vars
  PROVE  Buttons /\ ButtonInv'
<1> USE DEF ButtonInv
<1>0. CASE UNCHANGED vars
  <2>1. JobsGood' /\ Quiet
    BY <1>0 DEF vars, JobsGood, Quiet
  <2> QED BY <2>1, QuietButtons
<1>1. ASSUME NEW h \in Handlers, JobsGood' /\ Quiet PROVE Buttons /\ ButtonInv'
  BY <1>1, QuietButtons
<1>2. ASSUME NEW h \in Handlers, Submit(h) PROVE Buttons /\ ButtonInv'
  BY <1>1, <1>2, SubmitStep
<1>3. ASSUME NEW h \in Handlers, Fail(h) PROVE Buttons /\ ButtonInv'
  BY <1>1, <1>3, OtherStep
<1>4. ASSUME NEW h \in Handlers, Toggle(h) PROVE Buttons /\ ButtonInv'
  BY <1>4, ToggleStep, Answered DEF Toggle
<1>5. ASSUME NEW h \in Handlers, DropList(h) PROVE Buttons /\ ButtonInv'
  BY <1>5, DropStep, Answered DEF DropList
<1>6. ASSUME NEW h \in Handlers, EraseArticle(h) PROVE Buttons /\ ButtonInv'
  BY <1>6, EraseStep, Answered DEF EraseArticle
<1>7. ASSUME NEW h \in Handlers, Step(h) PROVE Buttons /\ ButtonInv'
  <2>1. \/ FindLike(h) \/ FindStock(h) \/ FindDefaultStock(h) \/ FindPraise(h)
        \/ FindFavour(h) \/ FindFollow(h) \/ FindPickup(h) \/ FindDefaults(h)
        \/ PostComment(h) \/ DeleteComment(h) \/ CreateList(h) \/ MakeDefault(h)
        \/ UnmakeDefault(h) \/ GiveList(h) \/ Toggle(h) \/ DropList(h) \/ EraseArticle(h)
    BY <1>7 DEF Step
  <2> QED BY <1>1, <1>4, <1>5, <1>6, <2>1, FindStep, OtherStep
<1> QED BY <1>0, <1>2, <1>3, <1>7 DEF Next

(* Every behaviour of likes, stock lists and comments is, for each button   *)
(* with a number, a behaviour of the promise in Marks: a step of the        *)
(* services moves the row and its number together, or neither.              *)
THEOREM ButtonsKeepTheirPromise == Spec => ButtonsAreMarks
<1>1. Init => LikeButton!Init /\ StockButton!Init /\ PraiseButton!Init
  BY Ends DEF Init, Relations, Counted, LikeButton!Init, StockButton!Init, PraiseButton!Init
<1>2. ButtonInv /\ [Next]_vars => Buttons /\ ButtonInv'
  BY ButtonStep
<1> QED BY <1>1, <1>2, InitInv, PTL
        DEF Spec, ButtonsAreMarks, Buttons, LikeButton!Spec, StockButton!Spec, PraiseButton!Spec

-----------------------------------------------------------------------------
(* Those of S who have marked o, and what a button keeps: marks m of S on O   *)
(* and a number n for each.                                                 *)
MarkedBy(S, m, o) == {s \in S : <<s, o>> \in m}

Keeps(S, O, m, n) ==
  /\ m \subseteq S \X O
  /\ n \in [O -> Nat]
  /\ \A o \in O : n[o] = Cardinality(MarkedBy(S, m, o))

(* A step of the promise, from m and n to m2 and n2.                        *)
Moves(S, O, m, n, m2, n2) ==
  \/ m2 = m /\ n2 = n
  \/ \E s \in S, o \in O :
       \/ <<s, o>> \notin m /\ m2 = m \cup {<<s, o>>} /\ n2 = [n EXCEPT ![o] = @ + 1]
       \/ <<s, o>> \in m /\ m2 = m \ {<<s, o>>} /\ n2 = [n EXCEPT ![o] = @ - 1]
  \/ \E s \in S : /\ m2 = m \ ({s} \X O)
                  /\ n2 = [o \in O |-> IF <<s, o>> \in m THEN n[o] - 1 ELSE n[o]]
  \/ \E o \in O : m2 = m \ (S \X {o}) /\ n2 = [n EXCEPT ![o] = 0]

(* One subject more, or one less, changes the number by one.                *)
LEMMA OneMore ==
  ASSUME NEW S, IsFiniteSet(S), NEW x, x \notin S
  PROVE  IsFiniteSet(S \cup {x}) /\ Cardinality(S \cup {x}) = Cardinality(S) + 1
BY FS_AddElement

LEMMA OneLess ==
  ASSUME NEW S, IsFiniteSet(S), NEW x \in S
  PROVE  /\ IsFiniteSet(S \ {x}) /\ Cardinality(S \ {x}) = Cardinality(S) - 1
         /\ Cardinality(S) - 1 \in Nat
<1>1. Cardinality(S) \in Nat /\ IsFiniteSet(S \ {x})
  BY FS_RemoveElement, FS_CardinalityType
<1> QED BY <1>1, FS_RemoveElement, FS_CardinalityType

LEMMA MarkersFinite ==
  ASSUME NEW S, IsFiniteSet(S), NEW m, NEW o
  PROVE  IsFiniteSet(MarkedBy(S, m, o)) /\ Cardinality(MarkedBy(S, m, o)) \in Nat
<1>1. MarkedBy(S, m, o) \subseteq S
  BY DEF MarkedBy
<1> QED BY <1>1, FS_Subset, FS_CardinalityType

LEMMA MovesKeep ==
  ASSUME NEW S, NEW O, IsFiniteSet(S), NEW m, NEW n, NEW m2, NEW n2,
         Keeps(S, O, m, n), Moves(S, O, m, n, m2, n2)
  PROVE  Keeps(S, O, m2, n2)
<1>0. /\ m \subseteq S \X O /\ n \in [O -> Nat]
      /\ \A o \in O : n[o] = Cardinality(MarkedBy(S, m, o))
  BY DEF Keeps
<1>1. CASE m2 = m /\ n2 = n
  BY <1>1
<1>2. ASSUME NEW s \in S, NEW o \in O, <<s, o>> \notin m,
             m2 = m \cup {<<s, o>>}, n2 = [n EXCEPT ![o] = @ + 1]
      PROVE  Keeps(S, O, m2, n2)
  <2>1. m2 \subseteq S \X O /\ n2 \in [O -> Nat]
    BY <1>0, <1>2
  <2>2. ASSUME NEW p \in O PROVE n2[p] = Cardinality(MarkedBy(S, m2, p))
    <3>1. CASE p = o
      <4>1. MarkedBy(S, m2, o) = MarkedBy(S, m, o) \cup {s} /\ s \notin MarkedBy(S, m, o)
        BY <1>2 DEF MarkedBy
      <4>2. n2[o] = n[o] + 1
        BY <1>0, <1>2
      <4> QED BY <1>0, <3>1, <4>1, <4>2, MarkersFinite, OneMore
    <3>2. CASE p # o
      <4>1. MarkedBy(S, m2, p) = MarkedBy(S, m, p)
        BY <1>2, <3>2 DEF MarkedBy
      <4> QED BY <1>0, <1>2, <3>2, <4>1
    <3> QED BY <3>1, <3>2
  <2> QED BY <2>1, <2>2 DEF Keeps
<1>3. ASSUME NEW s \in S, NEW o \in O, <<s, o>> \in m,
             m2 = m \ {<<s, o>>}, n2 = [n EXCEPT ![o] = @ - 1]
      PROVE  Keeps(S, O, m2, n2)
  <2>1. MarkedBy(S, m2, o) = MarkedBy(S, m, o) \ {s} /\ s \in MarkedBy(S, m, o)
    BY <1>3 DEF MarkedBy
  <2>2. Cardinality(MarkedBy(S, m2, o)) = n[o] - 1 /\ n[o] - 1 \in Nat
    BY <1>0, <2>1, MarkersFinite, OneLess
  <2>3. m2 \subseteq S \X O /\ n2 \in [O -> Nat] /\ n2[o] = n[o] - 1
    BY <1>0, <1>3, <2>2
  <2>4. ASSUME NEW p \in O PROVE n2[p] = Cardinality(MarkedBy(S, m2, p))
    <3>1. CASE p = o
      BY <2>2, <2>3, <3>1
    <3>2. CASE p # o
      <4>1. MarkedBy(S, m2, p) = MarkedBy(S, m, p)
        BY <1>3, <3>2 DEF MarkedBy
      <4> QED BY <1>0, <1>3, <3>2, <4>1
    <3> QED BY <3>1, <3>2
  <2> QED BY <2>3, <2>4 DEF Keeps
<1>4. ASSUME NEW s \in S, m2 = m \ ({s} \X O),
             n2 = [o \in O |-> IF <<s, o>> \in m THEN n[o] - 1 ELSE n[o]]
      PROVE  Keeps(S, O, m2, n2)
  <2>1. ASSUME NEW p \in O
        PROVE  n2[p] \in Nat /\ n2[p] = Cardinality(MarkedBy(S, m2, p))
    <3>1. MarkedBy(S, m2, p) = MarkedBy(S, m, p) \ {s}
      BY <1>4 DEF MarkedBy
    <3>2. CASE <<s, p>> \in m
      <4>1. s \in MarkedBy(S, m, p) /\ n2[p] = n[p] - 1
        BY <1>4, <3>2 DEF MarkedBy
      <4> QED BY <1>0, <3>1, <4>1, MarkersFinite, OneLess
    <3>3. CASE <<s, p>> \notin m
      <4>1. MarkedBy(S, m, p) \ {s} = MarkedBy(S, m, p) /\ n2[p] = n[p]
        BY <1>4, <3>3 DEF MarkedBy
      <4> QED BY <1>0, <3>1, <4>1
    <3> QED BY <3>2, <3>3
  <2>2. m2 \subseteq S \X O /\ n2 \in [O -> Nat]
    BY <1>0, <1>4, <2>1
  <2> QED BY <2>1, <2>2 DEF Keeps
<1>5. ASSUME NEW o \in O, m2 = m \ (S \X {o}), n2 = [n EXCEPT ![o] = 0]
      PROVE  Keeps(S, O, m2, n2)
  <2>1. m2 \subseteq S \X O /\ n2 \in [O -> Nat]
    BY <1>0, <1>5
  <2>2. ASSUME NEW p \in O PROVE n2[p] = Cardinality(MarkedBy(S, m2, p))
    <3>1. CASE p = o
      <4>1. MarkedBy(S, m2, p) = {}
        BY <1>5, <3>1 DEF MarkedBy
      <4> QED BY <1>0, <1>5, <3>1, <4>1, FS_EmptySet
    <3>2. CASE p # o
      <4>1. MarkedBy(S, m2, p) = MarkedBy(S, m, p)
        BY <1>5, <3>2 DEF MarkedBy
      <4> QED BY <1>0, <1>5, <3>2, <4>1
    <3> QED BY <3>1, <3>2
  <2> QED BY <2>1, <2>2 DEF Keeps
<1> QED BY <1>1, <1>2, <1>3, <1>4, <1>5 DEF Moves

(* The numbers that Community keeps.                                        *)
NumbersMatch ==
  /\ Keeps(Users, ArticleIds, rows["like"], count["like"])
  /\ Keeps(ListIds, ArticleIds, rows["stock"], count["stock"])
  /\ Keeps(Users, CommentIds, rows["praise"], count["praise"])

LEMMA NothingKept ==
  ASSUME NEW S, NEW O, NEW m, NEW n, m = {}, n = [o \in O |-> 0]
  PROVE  Keeps(S, O, m, n)
<1>1. ASSUME NEW o \in O PROVE n[o] = Cardinality(MarkedBy(S, m, o))
  <2>1. MarkedBy(S, m, o) = {}
    BY DEF MarkedBy
  <2> QED BY <2>1, FS_EmptySet
<1> QED BY <1>1 DEF Keeps

LEMMA ButtonsMove ==
  ASSUME Buttons
  PROVE  /\ Moves(Users, ArticleIds, rows["like"], count["like"], rows'["like"], count'["like"])
         /\ Moves(ListIds, ArticleIds, rows["stock"], count["stock"], rows'["stock"], count'["stock"])
         /\ Moves(Users, CommentIds, rows["praise"], count["praise"], rows'["praise"], count'["praise"])
<1>1. Moves(Users, ArticleIds, rows["like"], count["like"], rows'["like"], count'["like"])
  BY DEF Buttons, Moves, LikeButton!vars, LikeButton!Next, LikeButton!Add, LikeButton!Remove,
         LikeButton!SubjectGoes, LikeButton!ObjectGoes
<1>2. Moves(ListIds, ArticleIds, rows["stock"], count["stock"], rows'["stock"], count'["stock"])
  BY DEF Buttons, Moves, StockButton!vars, StockButton!Next, StockButton!Add, StockButton!Remove,
         StockButton!SubjectGoes, StockButton!ObjectGoes
<1>3. Moves(Users, CommentIds, rows["praise"], count["praise"], rows'["praise"], count'["praise"])
  BY DEF Buttons, Moves, PraiseButton!vars, PraiseButton!Next, PraiseButton!Add, PraiseButton!Remove,
         PraiseButton!SubjectGoes, PraiseButton!ObjectGoes
<1> QED BY <1>1, <1>2, <1>3

(* The number on an article, for its likes and for the lists that hold it,   *)
(* and the number on a comment are how many have marked it, for ever: the   *)
(* triggers of init_schema.sql count what the toggles did.                  *)
THEOREM NumbersAreMarks ==
  IsFiniteSet(Users) /\ IsFiniteSet(ListIds) => (Spec => []NumbersMatch)
<1> SUFFICES ASSUME IsFiniteSet(Users), IsFiniteSet(ListIds) PROVE Spec => []NumbersMatch
  OBVIOUS
<1>1. Init => NumbersMatch
  BY Ends, NothingKept DEF Init, Relations, Counted, NumbersMatch
<1>2. Buttons /\ NumbersMatch => NumbersMatch'
  BY ButtonsMove, MovesKeep DEF NumbersMatch
<1>3. ButtonInv /\ [Next]_vars => Buttons /\ ButtonInv'
  BY ButtonStep
<1> QED BY <1>1, <1>2, <1>3, InitInv, PTL DEF Spec
-----------------------------------------------------------------------------
(* What is where: lists and comments are somebody's or nobody's, a comment   *)
(* that is nobody's is on no article, and each is counted on its article.   *)
ListsGood == list \in [ListIds -> [owner : Users \cup {Nobody}, default : BOOLEAN]]

CommentsGood ==
  /\ comment \in [CommentIds -> [author : Users \cup {Nobody},
                                 article : ArticleIds \cup {Nobody}, deleted : BOOLEAN]]
  /\ \A c \in CommentIds :
       IF comment[c].author = Nobody THEN comment[c].article = Nobody
       ELSE comment[c].article \in alive
  /\ comments = [a \in ArticleIds |-> comments[a]]
  /\ \A a \in ArticleIds :
       IsFiniteSet(CommentsOn(a)) /\ comments[a] = Cardinality(CommentsOn(a))

RowsStand ==
  /\ \A k \in Relations : \A p \in rows[k] : Exists(k, p[2])
  /\ \A p \in rows["stock"] : list[p[1]].owner # Nobody

PlaceInv ==
  /\ alive \subseteq ArticleIds
  /\ ListsGood /\ CommentsGood /\ RowsStand
  /\ begun \in 0..MaxJobs /\ crowded \cup doubled \subseteq Users

LEMMA PlaceInit == Init => PlaceInv
<1> SUFFICES ASSUME Init PROVE PlaceInv
  OBVIOUS
<1>1. ListsGood
  <2>1. ASSUME NEW l \in ListIds
        PROVE  list[l] \in [owner : Users \cup {Nobody}, default : BOOLEAN]
    BY DEF Init, NoList
  <2> QED BY <2>1 DEF Init, ListsGood
<1>2. CommentsGood
  <2>1. ASSUME NEW a \in ArticleIds PROVE CommentsOn(a) = {}
    BY CommunityAssumption DEF Init, CommentsOn, NoComment
  <2>2. ASSUME NEW a \in ArticleIds
        PROVE  IsFiniteSet(CommentsOn(a)) /\ comments[a] = Cardinality(CommentsOn(a))
    BY <2>1, FS_EmptySet DEF Init
  <2> QED BY <2>2 DEF Init, CommentsGood, NoComment
<1>3. RowsStand
  BY DEF Init, RowsStand, Relations
<1> QED BY <1>1, <1>2, <1>3, CommunityAssumption DEF Init, PlaceInv

(* A step that leaves the contents alone.                                   *)
LEMMA SamePlace ==
  ASSUME PlaceInv, UNCHANGED contents, begun' \in 0..MaxJobs,
         crowded' \cup doubled' \subseteq Users
  PROVE  PlaceInv'
BY DEF PlaceInv, contents, ListsGood, CommentsGood, CommentsOn, RowsStand, Exists

(* Rows that were there still point at what is there, as long as nothing that *)
(* they point at goes.                                                      *)
LEMMA StillStand ==
  ASSUME RowsStand,
         \A k \in Relations : \A p \in rows'[k] : p \in rows[k] /\ (Exists(k, p[2]) => Exists(k, p[2])'),
         \A p \in rows'["stock"] : list[p[1]].owner # Nobody => list'[p[1]].owner # Nobody
  PROVE  RowsStand'
BY DEF RowsStand, Relations

LEMMA TogglePlace ==
  ASSUME PlaceInv, ButtonInv, NEW h \in Handlers, Toggle(h)
  PROVE  PlaceInv'
<1> DEFINE k == job[h].kind  x == job[h].from  y == job[h].to
<1>1. k \in Relations /\ Pair(h) = <<x, y>>
  BY DEF Toggle, Pair
<1>2. UNCHANGED <<alive, list, comment, comments, begun, crowded, doubled>>
  BY DEF Toggle, Answer, Settle
<1>3. ASSUME NEW m \in Relations, NEW p \in rows'[m]
      PROVE  p \in rows[m] \/ (m = k /\ p = <<x, y>> /\ Applies(h, k) /\ ~job[h].found)
  <2>1. \/ rows' = rows
        \/ /\ Applies(h, k)
           /\ rows' = [rows EXCEPT ![k] = IF job[h].found THEN rows[k] \ {<<x, y>>}
                                          ELSE rows[k] \cup {<<x, y>>}]
    BY <1>1 DEF Toggle
  <2> HIDE DEF k, x, y
  <2> QED BY <1>1, <2>1 DEF ButtonInv, RowsGood
<1>4. RowsStand'
  <2>1. ASSUME NEW m \in Relations, NEW p \in rows'[m] PROVE Exists(m, p[2])'
    <3>1. Exists(m, p[2])
      <4>1. CASE p \in rows[m]
        BY <4>1 DEF PlaceInv, RowsStand
      <4>2. CASE m = k /\ p = <<x, y>> /\ Applies(h, k) /\ ~job[h].found
        BY <4>2 DEF Applies
      <4> QED BY <1>3, <4>1, <4>2
    <3> QED BY <1>2, <3>1 DEF Exists
  <2>2. ASSUME NEW p \in rows'["stock"] PROVE list'[p[1]].owner # Nobody
    <3>1. CASE p \in rows["stock"]
      BY <1>2, <3>1 DEF PlaceInv, RowsStand
    <3>2. CASE k = "stock" /\ p = <<x, y>> /\ Applies(h, k) /\ ~job[h].found
      BY <1>2, <3>2 DEF Applies
    <3> QED BY <1>3, <3>1, <3>2 DEF Relations
  <2> QED BY <2>1, <2>2 DEF RowsStand
<1> QED BY <1>2, <1>4 DEF PlaceInv, ListsGood, CommentsGood, CommentsOn

LEMMA PostPlace ==
  ASSUME PlaceInv, ButtonInv, NEW h \in Handlers, PostComment(h)
  PROVE  PlaceInv'
<1> DEFINE c == job[h].from  a == job[h].to
<1>1. UNCHANGED <<alive, list, rows, begun, crowded, doubled>>
  BY DEF PostComment, Answer, Settle
<1>2. c \in CommentIds /\ a \in ArticleIds /\ job[h].actor \in Users
  BY DEF PostComment, At, ButtonInv, JobsGood, JobGood, About
<1>3. CASE ~(a \in alive /\ comment[c].author = Nobody)
  <2>1. UNCHANGED contents
    BY <1>1, <1>3 DEF PostComment, contents
  <2> QED BY <1>1, <2>1, SamePlace DEF PlaceInv
<1>4. CASE a \in alive /\ comment[c].author = Nobody
  <2> DEFINE r == [author |-> job[h].actor, article |-> a, deleted |-> FALSE]
  <2>1. /\ comment' = [comment EXCEPT ![c] = r]
        /\ comments' = [comments EXCEPT ![a] = comments[a] + 1]
    BY <1>4 DEF PostComment
  <2>2. /\ r \in [author : Users \cup {Nobody}, article : ArticleIds \cup {Nobody}, deleted : BOOLEAN]
        /\ r.author # Nobody /\ r.article = a
    BY <1>2, CommunityAssumption
  <2> HIDE DEF r
  <2>3. /\ comment \in [CommentIds -> [author : Users \cup {Nobody},
                                       article : ArticleIds \cup {Nobody}, deleted : BOOLEAN]]
        /\ \A d \in CommentIds :
             IF comment[d].author = Nobody THEN comment[d].article = Nobody
             ELSE comment[d].article \in alive
        /\ comments = [b \in ArticleIds |-> comments[b]]
        /\ \A b \in ArticleIds :
             IsFiniteSet(CommentsOn(b)) /\ comments[b] = Cardinality(CommentsOn(b))
    BY DEF PlaceInv, CommentsGood
  <2>4. comment[c].article = Nobody
    BY <1>2, <1>4, <2>3
  <2>5. ASSUME NEW b \in ArticleIds
        PROVE  IsFiniteSet(CommentsOn(b))' /\ comments'[b] = Cardinality(CommentsOn(b)')
    <3>1. CASE b = a
      <4>1. c \notin CommentsOn(b)
        BY <1>2, <2>4, CommunityAssumption DEF CommentsOn
      <4>2. ASSUME NEW d \in CommentIds
            PROVE  comment'[d].article = b <=> (comment[d].article = b \/ d = c)
        BY <1>2, <2>1, <2>2, <2>3, <3>1
      <4>3. CommentsOn(b)' = CommentsOn(b) \cup {c}
        BY <1>2, <4>2 DEF CommentsOn
      <4>4. comments'[b] = comments[b] + 1
        BY <1>2, <2>1, <2>3, <3>1
      <4>5. IsFiniteSet(CommentsOn(b)) /\ comments[b] = Cardinality(CommentsOn(b))
        BY <2>3
      <4>6. /\ IsFiniteSet(CommentsOn(b) \cup {c})
            /\ Cardinality(CommentsOn(b) \cup {c}) = Cardinality(CommentsOn(b)) + 1
        BY ONLY <4>1, <4>5, OneMore
      <4> QED BY <4>3, <4>4, <4>5, <4>6
    <3>2. CASE b # a
      <4>1. CommentsOn(b)' = CommentsOn(b)
        BY <1>2, <2>1, <2>2, <2>3, <2>4, <3>2, CommunityAssumption DEF CommentsOn
      <4>2. comments'[b] = comments[b]
        BY <2>1, <2>3, <3>2
      <4> QED BY <2>3, <4>1, <4>2
    <3> QED BY <3>1, <3>2
  <2>6. CommentsGood'
    <3>1. comment' \in [CommentIds -> [author : Users \cup {Nobody},
                                       article : ArticleIds \cup {Nobody}, deleted : BOOLEAN]]
      BY <2>1, <2>2, <2>3
    <3>2. ASSUME NEW d \in CommentIds
          PROVE  IF comment'[d].author = Nobody THEN comment'[d].article = Nobody
                 ELSE comment'[d].article \in alive'
      BY <1>1, <1>4, <2>1, <2>2, <2>3
    <3>3. comments' = [b \in ArticleIds |-> comments'[b]]
      BY <2>1, <2>3
    <3> QED BY <2>5, <3>1, <3>2, <3>3 DEF CommentsGood
  <2>7. RowsStand'
    <3>1. ASSUME NEW k \in Relations, NEW p \in rows[k], Exists(k, p[2])
          PROVE  Exists(k, p[2])'
      <4>1. ASSUME k = "praise" PROVE comment'[p[2]].author # Nobody
        <5>1. p[2] \in CommentIds
          BY <4>1, Ends DEF ButtonInv, RowsGood
        <5> QED BY <1>4, <2>1, <2>2, <2>3, <3>1, <4>1, <5>1 DEF Exists
      <4> QED BY <1>1, <3>1, <4>1 DEF Exists, Relations
    <3> QED BY <1>1, <3>1, StillStand DEF PlaceInv
  <2> QED BY <1>1, <2>6, <2>7 DEF PlaceInv, ListsGood
<1> QED BY <1>3, <1>4

LEMMA DeletePlace ==
  ASSUME PlaceInv, ButtonInv, NEW h \in Handlers, DeleteComment(h)
  PROVE  PlaceInv'
<1>1. UNCHANGED <<alive, list, rows, comments, begun, crowded, doubled>>
  BY DEF DeleteComment, Answer, Settle
<1>2. /\ comment' \in [CommentIds -> [author : Users \cup {Nobody},
                                      article : ArticleIds \cup {Nobody}, deleted : BOOLEAN]]
      /\ \A c \in CommentIds :
           comment'[c].author = comment[c].author /\ comment'[c].article = comment[c].article
  BY DEF DeleteComment, PlaceInv, CommentsGood
<1>3. ASSUME NEW a \in ArticleIds PROVE CommentsOn(a)' = CommentsOn(a)
  BY <1>2 DEF CommentsOn
<1>4. CommentsGood'
  BY <1>1, <1>2, <1>3 DEF PlaceInv, CommentsGood
<1>5. RowsStand'
  <2>1. ASSUME NEW k \in Relations, NEW p \in rows[k], Exists(k, p[2])
        PROVE  Exists(k, p[2])'
    <3>1. ASSUME k = "praise" PROVE comment'[p[2]].author # Nobody
      <4>1. p[2] \in CommentIds
        BY <3>1, Ends DEF ButtonInv, RowsGood
      <4> QED BY <1>2, <2>1, <3>1, <4>1 DEF Exists
    <3> QED BY <1>1, <2>1, <3>1 DEF Exists, Relations
  <2> QED BY <1>1, <2>1, StillStand DEF PlaceInv
<1> QED BY <1>1, <1>4, <1>5 DEF PlaceInv, ListsGood

(* Making, changing or handing over a list leaves no list without an owner.   *)
LEMMA ListPlace ==
  ASSUME PlaceInv, ButtonInv, NEW h \in Handlers,
         CreateList(h) \/ MakeDefault(h) \/ UnmakeDefault(h) \/ GiveList(h)
  PROVE  PlaceInv'
<1>1. UNCHANGED <<alive, comment, rows, comments, begun, crowded>>
  BY DEF CreateList, MakeDefault, UnmakeDefault, GiveList, Answer, Settle
<1>2. job[h].from \in ListIds /\ job[h].actor \in Users
  BY DEF CreateList, MakeDefault, UnmakeDefault, GiveList, At, ButtonInv, JobsGood, JobGood, About
<1>5. doubled' \subseteq Users
  <2>1. GiveList(h) => job[h].to \in Users
    BY DEF GiveList, At, ButtonInv, JobsGood, JobGood, About
  <2> QED BY <1>2, <2>1 DEF CreateList, MakeDefault, UnmakeDefault, GiveList, Answer, Settle, PlaceInv
<1>3. /\ list' \in [ListIds -> [owner : Users \cup {Nobody}, default : BOOLEAN]]
      /\ \A l \in ListIds : list[l].owner # Nobody => list'[l].owner # Nobody
  <2>1. CASE CreateList(h)
    <3> DEFINE d == job[h].kind = "makedefault"
               r == [owner |-> job[h].actor, default |-> d]
    <3>1. r \in [owner : Users \cup {Nobody}, default : BOOLEAN] /\ r.owner # Nobody
      BY <1>2, CommunityAssumption
    <3>2. list' = list \/ list' = [list EXCEPT ![job[h].from] = r]
      BY <2>1 DEF CreateList
    <3> HIDE DEF r
    <3> QED BY <3>1, <3>2 DEF PlaceInv, ListsGood
  <2>2. CASE MakeDefault(h)
    <3>1. CASE list' = list
      BY <3>1 DEF PlaceInv, ListsGood
    <3>2. CASE list' # list
      <4> DEFINE b(m) == m = job[h].from \/ (list[m].default /\ m \notin job[h].defaults)
      <4>1. list' = [m \in ListIds |-> [list[m] EXCEPT !.default = b(m)]]
        BY <2>2, <3>2 DEF MakeDefault
      <4>2. ASSUME NEW m \in ListIds PROVE b(m) \in BOOLEAN
        BY DEF PlaceInv, ListsGood
      <4> HIDE DEF b
      <4> QED BY <4>1, <4>2 DEF PlaceInv, ListsGood
    <3> QED BY <3>1, <3>2
  <2>3. CASE UnmakeDefault(h)
    BY <1>2, <2>3 DEF UnmakeDefault, PlaceInv, ListsGood
  <2>4. CASE GiveList(h)
    <3>1. job[h].to \in Users /\ job[h].to # Nobody
      BY <2>4, CommunityAssumption DEF GiveList, At, ButtonInv, JobsGood, JobGood, About
    <3> QED BY <1>2, <2>4, <3>1 DEF GiveList, PlaceInv, ListsGood
  <2> QED BY <2>1, <2>2, <2>3, <2>4
<1>4. RowsStand'
  <2>1. ASSUME NEW k \in Relations, NEW p \in rows[k], Exists(k, p[2])
        PROVE  Exists(k, p[2])'
    <3>1. ASSUME k = "favour" PROVE list'[p[2]].owner # Nobody
      <4>1. p[2] \in ListIds
        BY <3>1 DEF ButtonInv, RowsGood, To
      <4> QED BY <1>3, <2>1, <3>1, <4>1 DEF Exists
    <3> QED BY <1>1, <2>1, <3>1 DEF Exists, Relations
  <2>2. ASSUME NEW p \in rows["stock"], list[p[1]].owner # Nobody
        PROVE  list'[p[1]].owner # Nobody
    <3>1. p[1] \in ListIds
      BY Ends DEF ButtonInv, RowsGood, Relations
    <3> QED BY <1>3, <2>2, <3>1
  <2> QED BY <1>1, <2>1, <2>2, StillStand DEF PlaceInv
<1> QED BY <1>1, <1>3, <1>4, <1>5 DEF PlaceInv, ListsGood, CommentsGood, CommentsOn

(* A list goes with its items and its likes.                                *)
LEMMA DropPlace ==
  ASSUME PlaceInv, ButtonInv, NEW h \in Handlers, DropList(h)
  PROVE  PlaceInv'
<1> DEFINE l == job[h].from
<1>1. UNCHANGED <<alive, comment, comments, begun, crowded, doubled>>
  BY DEF DropList, Answer, Settle
<1>2. CASE l \notin ListsOf(job[h].actor)
  <2>1. UNCHANGED contents
    BY <1>1, <1>2 DEF DropList, contents
  <2> QED BY <1>1, <2>1, SamePlace DEF PlaceInv
<1>3. CASE l \in ListsOf(job[h].actor)
  <2>1. l \in ListIds
    BY <1>3 DEF ListsOf
  <2>2. /\ list' = [list EXCEPT ![l] = NoList]
        /\ rows' = [rows EXCEPT !["stock"] = rows["stock"] \ Pointing("stock", l),
                                !["favour"] = rows["favour"] \ PointedAt("favour", l)]
    BY <1>3 DEF DropList
  <2> HIDE DEF l
  <2>3. ListsGood'
    BY <2>1, <2>2 DEF PlaceInv, ListsGood, NoList
  <2>4. /\ \A m \in Relations : rows'[m] \subseteq rows[m]
        /\ \A p \in rows'["stock"] : p[1] # l
        /\ \A p \in rows'["favour"] : p[2] # l
    BY <2>2 DEF ButtonInv, RowsGood, Relations, Pointing, PointedAt
  <2>5. ASSUME NEW k \in Relations, NEW p \in rows'[k], Exists(k, p[2])
        PROVE  Exists(k, p[2])'
    <3>1. ASSUME k = "favour" PROVE list'[p[2]].owner # Nobody
      <4>1. p[2] \in ListIds /\ p[2] # l
        BY <2>4, <3>1 DEF ButtonInv, RowsGood, To
      <4> QED BY <2>2, <2>5, <3>1, <4>1 DEF Exists, PlaceInv, ListsGood
    <3> QED BY <1>1, <2>5, <3>1 DEF Exists, Relations
  <2>6. ASSUME NEW p \in rows'["stock"] PROVE p[1] \in ListIds /\ list'[p[1]] = list[p[1]]
    <3>1. p[1] \in ListIds /\ p[1] # l
      BY <2>4, Ends DEF ButtonInv, RowsGood, Relations
    <3> QED BY <2>2, <3>1 DEF PlaceInv, ListsGood
  <2>7. RowsStand'
    BY <2>4, <2>5, <2>6, StillStand DEF PlaceInv
  <2> QED BY <1>1, <2>3, <2>7 DEF PlaceInv, CommentsGood, CommentsOn
<1> QED BY <1>2, <1>3

(* An article that is erased is liked, commented and picked up by nobody, and *)
(* leaves the lists.                                                        *)
LEMMA ErasePlace ==
  ASSUME PlaceInv, ButtonInv, NEW h \in Handlers, EraseArticle(h)
  PROVE  PlaceInv'
<1> DEFINE a == job[h].to
<1>1. UNCHANGED <<list, comment, comments, begun, crowded, doubled>>
  BY DEF EraseArticle, Answer, Settle
<1>2. CASE ~Erasable(a)
  <2>1. UNCHANGED contents
    BY <1>1, <1>2 DEF EraseArticle, contents
  <2> QED BY <1>1, <2>1, SamePlace DEF PlaceInv
<1>3. CASE Erasable(a)
  <2>1. /\ alive' = alive \ {a}
        /\ rows' = [rows EXCEPT !["stock"] = rows["stock"] \ PointedAt("stock", a)]
    BY <1>3 DEF EraseArticle
  <2>2. PointedAt("like", a) = {} /\ PointedAt("pickup", a) = {} /\ CommentsOn(a) = {}
    BY <1>3 DEF Erasable
  <2>3. a \in ArticleIds
    BY DEF EraseArticle, At, ButtonInv, JobsGood, JobGood, About
  <2> HIDE DEF a
  <2>4. /\ \A m \in Relations : rows'[m] \subseteq rows[m]
        /\ \A m \in {"like", "pickup", "stock"} : \A p \in rows'[m] : p[2] # a
    BY <2>1, <2>2 DEF ButtonInv, RowsGood, Relations, PointedAt
  <2>5. ASSUME NEW k \in Relations, NEW p \in rows'[k], Exists(k, p[2])
        PROVE  Exists(k, p[2])'
    BY <1>1, <2>1, <2>4, <2>5 DEF Exists, Relations
  <2>6. RowsStand'
    BY <1>1, <2>4, <2>5, StillStand DEF PlaceInv
  <2>7. ASSUME NEW c \in CommentIds, comment[c].author # Nobody PROVE comment[c].article \in alive'
    BY <2>1, <2>2, <2>7 DEF PlaceInv, CommentsGood, CommentsOn
  <2>8. CommentsGood'
    BY <1>1, <2>7 DEF PlaceInv, CommentsGood, CommentsOn
  <2> QED BY <1>1, <2>1, <2>6, <2>8 DEF PlaceInv, ListsGood
<1> QED BY <1>2, <1>3

LEMMA PlaceStep ==
  ASSUME PlaceInv, ButtonInv, [Next]_vars
  PROVE  PlaceInv'
<1>0. CASE UNCHANGED vars
  BY <1>0, SamePlace DEF vars, contents, PlaceInv
<1>1. ASSUME NEW h \in Handlers, UNCHANGED <<contents, begun, crowded, doubled>> PROVE PlaceInv'
  BY <1>1, SamePlace DEF PlaceInv
<1>2. ASSUME NEW h \in Handlers, Submit(h) PROVE PlaceInv'
  <2>1. /\ UNCHANGED contents /\ doubled' = doubled
        /\ begun < MaxJobs /\ begun' = begun + 1
        /\ \E u \in Users : crowded' = crowded \/ crowded' = crowded \cup {u}
    BY <1>2 DEF Submit, Send, contents
  <2> QED BY <2>1, SamePlace, CommunityAssumption DEF PlaceInv
<1>3. ASSUME NEW h \in Handlers, Fail(h) PROVE PlaceInv'
  BY <1>1, <1>3 DEF Fail, Answer, Settle
<1>4. ASSUME NEW h \in Handlers,
             \/ FindLike(h) \/ FindStock(h) \/ FindDefaultStock(h) \/ FindPraise(h)
             \/ FindFavour(h) \/ FindFollow(h) \/ FindPickup(h) \/ FindDefaults(h)
      PROVE  PlaceInv'
  <2>1. UNCHANGED <<contents, begun, crowded, doubled>>
    BY <1>4 DEF FindLike, FindStock, FindDefaultStock, FindPraise, FindFavour, FindFollow,
                FindPickup, FindDefaults, Find, contents
  <2> QED BY <1>1, <2>1
<1>5. ASSUME NEW h \in Handlers, Step(h) PROVE PlaceInv'
  <2>1. \/ FindLike(h) \/ FindStock(h) \/ FindDefaultStock(h) \/ FindPraise(h)
        \/ FindFavour(h) \/ FindFollow(h) \/ FindPickup(h) \/ FindDefaults(h)
        \/ PostComment(h) \/ DeleteComment(h) \/ CreateList(h) \/ MakeDefault(h)
        \/ UnmakeDefault(h) \/ GiveList(h) \/ Toggle(h) \/ DropList(h) \/ EraseArticle(h)
    BY <1>5 DEF Step
  <2> QED BY <1>4, <2>1, TogglePlace, PostPlace, DeletePlace, ListPlace, DropPlace, ErasePlace
<1> QED BY <1>0, <1>2, <1>3, <1>5 DEF Next

(* Rows point at rows that are there, through every order of the requests and *)
(* their failures: an erased article or a dropped list leaves nothing behind, *)
(* and the comments of an article are as many as its number says.           *)
THEOREM CommunityStaysConsistent ==
  IsFiniteSet(Users) /\ IsFiniteSet(ListIds) => (Spec => []CommunityConsistent)
<1> SUFFICES ASSUME IsFiniteSet(Users), IsFiniteSet(ListIds)
             PROVE  Spec => []CommunityConsistent
  OBVIOUS
<1>1. PlaceInv /\ ButtonInv /\ [Next]_vars => PlaceInv' /\ ButtonInv'
  BY PlaceStep, ButtonStep
<1>2. ASSUME PlaceInv, ButtonInv, NumbersMatch PROVE CommunityConsistent
  <2>1. ASSUME NEW k \in Counted PROVE count[k] \in [To(k) -> Nat]
    BY <1>2, Ends DEF NumbersMatch, Keeps, Counted
  <2>2. comments \in [ArticleIds -> Nat]
    BY <1>2, FS_CardinalityType DEF PlaceInv, CommentsGood
  <2>3. ASSUME NEW h \in Handlers PROVE job[h].pc \in PCs /\ job[h].kind \in Kinds
    BY <1>2 DEF ButtonInv, JobsGood, JobRecords
  <2>4. TypeOK
    BY <1>2, <2>1, <2>2, <2>3
    DEF TypeOK, PlaceInv, ListsGood, CommentsGood, ButtonInv, RowsGood
  <2>5. NothingDangles
    BY <1>2 DEF NothingDangles, PlaceInv, RowsStand, CommentsGood
  <2> QED BY <2>4, <2>5 DEF CommunityConsistent
<1> QED BY <1>1, <1>2, NumbersAreMarks, PlaceInit, InitInv, PTL DEF Spec
-----------------------------------------------------------------------------
(* Two requests for a limited thing of one account are under way together   *)
(* only if they overlapped.                                                 *)
Solo ==
  \A h, p \in Handlers :
    /\ h # p /\ job[h].pc # "idle" /\ job[p].pc # "idle"
    /\ job[h].kind \in Checked /\ job[p].kind \in Checked /\ job[h].actor = job[p].actor
    => job[h].actor \in crowded

(* A pickup that has been let through still has room, and a list that is to be *)
(* the default has seen the defaults there are.                             *)
HasRoom(j) ==
  j.kind = "pickup" /\ j.pc = "write" /\ ~j.found /\ j.actor \notin crowded
    => Cardinality(Pointing("pickup", j.actor)) < MaxPickups

SawDefaults(j) ==
  j.kind = "default" /\ j.pc = "write" /\ j.actor \notin crowded \cup doubled
    => DefaultsOf(j.actor) \subseteq j.defaults

PickInv ==
  /\ \A h \in Handlers : HasRoom(job[h])
  /\ \A u \in Users : IsFiniteSet(Pointing("pickup", u))
  /\ PickupsLimited

DefaultInv ==
  /\ \A h \in Handlers : SawDefaults(job[h])
  /\ \A u \in Users \ (crowded \cup doubled) : \A l, m \in DefaultsOf(u) : l = m

LimitInv == Solo /\ PickInv /\ DefaultInv

LEMMA LimitInit == Init => LimitInv
<1> SUFFICES ASSUME Init PROVE LimitInv
  OBVIOUS
<1>1. Solo
  BY DEF Init, Solo, NoJob
<1>2. PickInv
  <2>1. ASSUME NEW u \in Users PROVE Pointing("pickup", u) = {}
    BY DEF Init, Pointing, Relations
  <2>2. IsFiniteSet({}) /\ Cardinality({}) = 0 /\ MaxPickups \in Nat
    BY FS_EmptySet, CommunityAssumption
  <2>3. ASSUME NEW u \in Users
        PROVE  /\ IsFiniteSet(Pointing("pickup", u))
               /\ Cardinality(Pointing("pickup", u)) <= MaxPickups
    BY <2>1, <2>2
  <2>4. ASSUME NEW h \in Handlers PROVE HasRoom(job[h])
    BY DEF Init, HasRoom, NoJob
  <2> QED BY <2>3, <2>4 DEF PickInv, PickupsLimited
<1>3. DefaultInv
  <2>1. ASSUME NEW u \in Users, NEW l \in DefaultsOf(u) PROVE l = FirstLists[u]
    <3>1. l \in ListIds /\ list[l].owner = u
      BY DEF DefaultsOf, ListsOf
    <3>2. CASE \E v \in Users : FirstLists[v] = l
      BY <3>1, <3>2 DEF Init
    <3>3. CASE ~\E v \in Users : FirstLists[v] = l
      BY <3>1, <3>3, CommunityAssumption DEF Init, NoList
    <3> QED BY <3>2, <3>3
  <2> QED BY <2>1 DEF Init, DefaultInv, SawDefaults, NoJob
<1> QED BY <1>1, <1>2, <1>3 DEF LimitInv

(* One request goes on as j or is answered, and nobody begins.              *)
LEMMA SoloKept ==
  ASSUME Solo, JobsGood, NEW h \in Handlers, NEW j, job' = [job EXCEPT ![h] = j],
         crowded' = crowded,
         \/ j.pc = "idle"
         \/ job[h].pc # "idle" /\ j.kind = job[h].kind /\ j.actor = job[h].actor
  PROVE  Solo'
<1>1. job'[h] = j /\ \A p \in Handlers \ {h} : job'[p] = job[p]
  BY DEF JobsGood
<1> QED BY <1>1 DEF Solo

LEMMA PickKept ==
  ASSUME PickInv, JobsGood, NEW h \in Handlers, NEW j, job' = [job EXCEPT ![h] = j],
         crowded' = crowded, rows'["pickup"] = rows["pickup"], HasRoom(j)
  PROVE  PickInv'
<1>1. job'[h] = j /\ \A p \in Handlers \ {h} : job'[p] = job[p]
  BY DEF JobsGood
<1>2. ASSUME NEW u PROVE Pointing("pickup", u)' = Pointing("pickup", u)
  BY DEF Pointing
<1>3. ASSUME NEW p \in Handlers PROVE HasRoom(job[p])'
  BY <1>1, <1>2 DEF PickInv, HasRoom
<1> QED BY <1>2, <1>3 DEF PickInv, PickupsLimited

LEMMA DefaultKept ==
  ASSUME DefaultInv, JobsGood, NEW h \in Handlers, NEW j, job' = [job EXCEPT ![h] = j],
         crowded' = crowded, doubled \subseteq doubled', SawDefaults(j)',
         \A u : u \in doubled' \/ DefaultsOf(u)' \subseteq DefaultsOf(u)
  PROVE  DefaultInv'
<1>1. job'[h] = j /\ \A p \in Handlers \ {h} : job'[p] = job[p]
  BY DEF JobsGood
<1>2. ASSUME NEW p \in Handlers PROVE SawDefaults(job[p])'
  BY <1>1 DEF DefaultInv, SawDefaults
<1> QED BY <1>2 DEF DefaultInv

LEMMA GoesOn ==
  ASSUME LimitInv, JobsGood, NEW h \in Handlers, NEW j, job' = [job EXCEPT ![h] = j],
         UNCHANGED <<list, rows, crowded, doubled>>,
         j.pc = "idle" \/ (job[h].pc # "idle" /\ j.kind = job[h].kind /\ j.actor = job[h].actor),
         HasRoom(j), SawDefaults(j)
  PROVE  LimitInv'
<1>1. \A u : DefaultsOf(u)' \subseteq DefaultsOf(u)
  BY DEF DefaultsOf, ListsOf
<1>2. Solo'
  BY SoloKept DEF LimitInv
<1>3. PickInv'
  BY PickKept DEF LimitInv
<1>4. SawDefaults(j)'
  BY DEF SawDefaults, DefaultsOf, ListsOf
<1>5. DefaultInv'
  BY <1>1, <1>4, DefaultKept DEF LimitInv
<1> QED BY <1>2, <1>3, <1>5 DEF LimitInv

(* A write that leaves the pickups and makes no default for an account that it *)
(* does not mark.                                                           *)
LEMMA SettlesPlainly ==
  ASSUME LimitInv, JobsGood, NEW h \in Handlers, NEW d, Settle(h, d), doubled \subseteq d,
         rows'["pickup"] = rows["pickup"],
         \A u : u \in d \/ DefaultsOf(u)' \subseteq DefaultsOf(u)
  PROVE  LimitInv'
<1>1. NoJob.pc = "idle" /\ HasRoom(NoJob) /\ SawDefaults(NoJob)'
  BY DEF NoJob, HasRoom, SawDefaults
<1>2. job' = [job EXCEPT ![h] = NoJob] /\ crowded' = crowded /\ doubled' = d
  BY DEF Settle
<1>3. Solo'
  BY <1>1, <1>2, SoloKept DEF LimitInv
<1>4. PickInv'
  BY <1>1, <1>2, PickKept DEF LimitInv
<1>5. DefaultInv'
  BY <1>1, <1>2, DefaultKept DEF LimitInv
<1> QED BY <1>3, <1>4, <1>5 DEF LimitInv

LEMMA AnswersPlainly ==
  ASSUME LimitInv, JobsGood, NEW h \in Handlers, Answer(h), rows'["pickup"] = rows["pickup"],
         \A u : DefaultsOf(u)' \subseteq DefaultsOf(u)
  PROVE  LimitInv'
BY SettlesPlainly DEF Answer

(* A request begins: if another of the account is under way, it is crowded. *)
LEMMA SendLimit ==
  ASSUME LimitInv, JobsGood, NEW h \in Handlers, NEW kind, NEW u, NEW x, NEW y,
         Send(h, kind, u, x, y)
  PROVE  LimitInv'
<1>1. /\ \A p \in Handlers \ {h} : job'[p] = job[p]
      /\ job'[h].kind = kind /\ job'[h].actor = u
      /\ kind \in {"pickup", "default"} => job'[h].pc = "find"
  BY DEF Send, NoJob, Relations
<1>2. UNCHANGED <<list, rows, doubled>> /\ crowded \subseteq crowded'
  BY DEF Send
<1>3. ASSUME NEW v
      PROVE  Pointing("pickup", v)' = Pointing("pickup", v) /\ DefaultsOf(v)' = DefaultsOf(v)
  BY <1>2 DEF Pointing, DefaultsOf, ListsOf
<1>4. Solo'
  <2>1. ASSUME NEW p \in Handlers \ {h}, job[p].pc # "idle", job[p].kind \in Checked,
               kind \in Checked, job[p].actor = u
        PROVE  u \in crowded'
    <3>1. p \in Beside(h, kind, u)
      BY <2>1 DEF Beside
    <3> QED BY <3>1 DEF Send
  <2> QED BY <1>1, <1>2, <2>1 DEF LimitInv, Solo
<1>5. PickInv'
  <2>1. ASSUME NEW p \in Handlers PROVE HasRoom(job[p])'
    BY <1>1, <1>2, <1>3 DEF LimitInv, PickInv, HasRoom
  <2> QED BY <1>2, <1>3, <2>1 DEF LimitInv, PickInv, PickupsLimited
<1>6. DefaultInv'
  <2>1. ASSUME NEW p \in Handlers PROVE SawDefaults(job[p])'
    BY <1>1, <1>2, <1>3 DEF LimitInv, DefaultInv, SawDefaults
  <2> QED BY <1>2, <1>3, <2>1 DEF LimitInv, DefaultInv
<1> QED BY <1>4, <1>5, <1>6 DEF LimitInv

LEMMA FindLimit ==
  ASSUME LimitInv, JobsGood, NEW h \in Handlers,
         \/ FindLike(h) \/ FindStock(h) \/ FindDefaultStock(h) \/ FindPraise(h)
         \/ FindFavour(h) \/ FindFollow(h) \/ FindPickup(h) \/ FindDefaults(h)
  PROVE  LimitInv'
<1>1. job[h] \in JobRecords /\ JobGood(job[h])
  BY DEF JobsGood
<1>2. ASSUME job' = [job EXCEPT ![h] = NoJob], UNCHANGED <<list, rows, crowded, doubled>>
      PROVE  LimitInv'
  BY <1>2, GoesOn DEF NoJob, HasRoom, SawDefaults
<1>3. ASSUME NEW from, NEW found, job[h].pc # "idle",
             job' = [job EXCEPT ![h].pc = "write", ![h].from = from, ![h].found = found],
             UNCHANGED <<list, rows, crowded, doubled>>,
             job[h].kind # "default",
             job[h].kind = "pickup" => \/ found = TRUE
                                       \/ Cardinality(Pointing("pickup", job[h].actor)) < MaxPickups
      PROVE  LimitInv'
  <2> DEFINE j == [job[h] EXCEPT !.pc = "write", !.from = from, !.found = found]
  <2>1. job' = [job EXCEPT ![h] = j]
    BY <1>3 DEF JobsGood
  <2>2. j.kind = job[h].kind /\ j.actor = job[h].actor /\ j.found = found
    BY <1>1 DEF JobRecords
  <2> HIDE DEF j
  <2>3. HasRoom(j) /\ SawDefaults(j)
    BY <1>3, <2>2 DEF HasRoom, SawDefaults
  <2> QED BY <1>3, <2>1, <2>2, <2>3, GoesOn
<1>4. CASE \/ FindLike(h) \/ FindStock(h) \/ FindPraise(h) \/ FindFavour(h) \/ FindFollow(h)
  <2>1. PICK found : \/ job' = [job EXCEPT ![h] = NoJob]
                     \/ job' = [job EXCEPT ![h].pc = "write", ![h].from = job[h].from, ![h].found = found]
    BY <1>4 DEF FindLike, FindStock, FindPraise, FindFavour, FindFollow, Find
  <2>2. /\ UNCHANGED <<list, rows, crowded, doubled>>
        /\ job[h].kind \notin {"default", "pickup"} /\ job[h].pc # "idle"
    BY <1>4 DEF FindLike, FindStock, FindPraise, FindFavour, FindFollow, Find, At
  <2> QED BY <1>2, <1>3, <2>1, <2>2
<1>5. CASE FindDefaultStock(h)
  <2>1. PICK from, found :
          \/ job' = [job EXCEPT ![h] = NoJob]
          \/ job' = [job EXCEPT ![h].pc = "write", ![h].from = from, ![h].found = found]
    BY <1>5 DEF FindDefaultStock, Find
  <2>2. /\ UNCHANGED <<list, rows, crowded, doubled>>
        /\ job[h].kind \notin {"default", "pickup"} /\ job[h].pc # "idle"
    BY <1>5 DEF FindDefaultStock, Find, At
  <2> QED BY <1>2, <1>3, <2>1, <2>2
<1>6. CASE FindPickup(h)
  <2>1. /\ UNCHANGED <<list, rows, crowded, doubled>>
        /\ job[h].kind = "pickup" /\ job[h].pc # "idle"
    BY <1>6 DEF FindPickup, Find, At
  <2>2. job[h].from = job[h].actor
    BY <1>1, <2>1 DEF JobGood, About
  <2>3. PICK found \in BOOLEAN :
          \/ job' = [job EXCEPT ![h] = NoJob]
          \/ /\ job' = [job EXCEPT ![h].pc = "write", ![h].from = job[h].from, ![h].found = found]
             /\ found \/ Cardinality(Pointing("pickup", job[h].from)) < MaxPickups
    BY <1>6 DEF FindPickup, Find
  <2> QED BY <1>2, <1>3, <2>1, <2>2, <2>3
<1>7. CASE FindDefaults(h)
  <2> DEFINE j == [job[h] EXCEPT !.pc = "write", !.defaults = DefaultsOf(job[h].actor)]
  <2>1. /\ job' = [job EXCEPT ![h] = j] /\ UNCHANGED <<list, rows, crowded, doubled>>
        /\ job[h].kind = "default" /\ job[h].pc # "idle"
    BY <1>7 DEF FindDefaults, JobsGood, At
  <2>2. /\ j.kind = job[h].kind /\ j.actor = job[h].actor
        /\ j.defaults = DefaultsOf(job[h].actor)
    BY <1>1 DEF JobRecords
  <2> HIDE DEF j
  <2>3. HasRoom(j) /\ SawDefaults(j)
    BY <2>1, <2>2 DEF HasRoom, SawDefaults
  <2> QED BY <2>1, <2>2, <2>3, GoesOn
<1> QED BY <1>4, <1>5, <1>6, <1>7

(* Room was looked for, and nobody else picked up for this account since.   *)
LEMMA ToggleLimit ==
  ASSUME LimitInv, ButtonInv, NEW h \in Handlers, Toggle(h)
  PROVE  LimitInv'
<1> DEFINE k == job[h].kind  x == job[h].from  y == job[h].to
<1>1. /\ k \in Relations /\ Pair(h) = <<x, y>> /\ Answer(h) /\ list' = list
      /\ job[h].pc = "write" /\ JobsGood /\ job[h].actor \in Users
      /\ k = "pickup" => x = job[h].actor
  BY DEF Toggle, ButtonInv, JobsGood, JobGood, About, Pair
<1>2. \A u : DefaultsOf(u)' \subseteq DefaultsOf(u)
  BY <1>1 DEF DefaultsOf, ListsOf
<1>3. \/ rows' = rows
      \/ rows' = [rows EXCEPT ![k] = rows[k] \ {<<x, y>>}]
      \/ /\ ~job[h].found /\ <<x, y>> \notin rows[k]
         /\ rows' = [rows EXCEPT ![k] = rows[k] \cup {<<x, y>>}]
  BY <1>1 DEF Toggle, Applies
<1>4. job'[h] = NoJob /\ \A p \in Handlers \ {h} : job'[p] = job[p]
  BY <1>1 DEF Answer, Settle, JobsGood
<1>5. CASE k # "pickup"
  <2>1. rows'["pickup"] = rows["pickup"]
    BY <1>1, <1>3, <1>5 DEF ButtonInv, RowsGood, Relations
  <2> QED BY <1>1, <1>2, <2>1, AnswersPlainly
<1>6. CASE k = "pickup"
  <2>1. Solo'
    BY <1>1, SoloKept DEF Answer, Settle, NoJob, LimitInv
  <2>2. DefaultInv'
    BY <1>1, <1>2, DefaultKept DEF Answer, Settle, NoJob, LimitInv, SawDefaults
  <2>3. PickInv'
    <3> HIDE DEF k, x, y
    <3>1. /\ \A p \in Handlers : HasRoom(job[p])
          /\ \A u \in Users : IsFiniteSet(Pointing("pickup", u))
          /\ \A u \in Users \ crowded : Cardinality(Pointing("pickup", u)) <= MaxPickups
      BY DEF LimitInv, PickInv, PickupsLimited
    <3>2. \/ rows'["pickup"] = rows["pickup"]
          \/ rows'["pickup"] = rows["pickup"] \ {<<x, y>>}
          \/ /\ ~job[h].found /\ <<x, y>> \notin rows["pickup"]
             /\ rows'["pickup"] = rows["pickup"] \cup {<<x, y>>}
      BY <1>1, <1>3, <1>6 DEF ButtonInv, RowsGood
    <3>3. crowded' = crowded
      BY <1>1 DEF Answer, Settle
    <3>4. CASE rows'["pickup"] = rows["pickup"]
      BY <1>1, <3>4, PickKept DEF Answer, Settle, NoJob, LimitInv, HasRoom
    <3>5. CASE rows'["pickup"] = rows["pickup"] \ {<<x, y>>}
      <4>1. ASSUME NEW u \in Users
            PROVE  /\ IsFiniteSet(Pointing("pickup", u)')
                   /\ Cardinality(Pointing("pickup", u)') <= Cardinality(Pointing("pickup", u))
                   /\ Cardinality(Pointing("pickup", u)') \in Nat
                   /\ Cardinality(Pointing("pickup", u)) \in Nat
        <5>1. Pointing("pickup", u)' \subseteq Pointing("pickup", u)
          BY <3>5 DEF Pointing
        <5> QED BY <3>1, <5>1, FS_Subset, FS_CardinalityType
      <4>2. ASSUME NEW p \in Handlers PROVE HasRoom(job[p])'
        <5>1. CASE p = h
          BY <1>4, <5>1 DEF HasRoom, NoJob
        <5>2. CASE p # h /\ job[p].pc # "idle"
          <6>1. job[p].actor \in Users /\ HasRoom(job[p]) /\ job'[p] = job[p]
            BY <1>1, <1>4, <3>1, <5>2 DEF JobsGood, JobGood
          <6> QED BY <3>3, <4>1, <6>1, CommunityAssumption DEF HasRoom
        <5>3. CASE p # h /\ job[p].pc = "idle"
          BY <1>4, <5>3 DEF HasRoom
        <5> QED BY <5>1, <5>2, <5>3
      <4>3. ASSUME NEW u \in Users \ crowded
            PROVE  Cardinality(Pointing("pickup", u)') <= MaxPickups
        BY <3>1, <4>1, CommunityAssumption
      <4> QED BY <3>3, <4>1, <4>2, <4>3 DEF PickInv, PickupsLimited
    <3>6. CASE /\ ~job[h].found /\ <<x, y>> \notin rows["pickup"]
               /\ rows'["pickup"] = rows["pickup"] \cup {<<x, y>>}
      <4>1. ASSUME NEW u \in Users, u # x PROVE Pointing("pickup", u)' = Pointing("pickup", u)
        BY <3>6, <4>1 DEF Pointing
      <4>2. /\ IsFiniteSet(Pointing("pickup", x))
            /\ <<x, y>> \notin Pointing("pickup", x)
        BY <1>1, <1>6, <3>1, <3>6 DEF Pointing
      <4>3. ASSUME NEW u \in Users, u = x
            PROVE  /\ IsFiniteSet(Pointing("pickup", u)')
                   /\ Cardinality(Pointing("pickup", u)') = Cardinality(Pointing("pickup", u)) + 1
                   /\ Cardinality(Pointing("pickup", u)) \in Nat
        <5>1. Pointing("pickup", u)' = Pointing("pickup", u) \cup {<<x, y>>}
          BY <3>6, <4>3 DEF Pointing
        <5> QED BY <4>2, <4>3, <5>1, OneMore, FS_CardinalityType
      <4>4. x \in crowded \/ Cardinality(Pointing("pickup", x)) < MaxPickups
        BY <1>1, <1>6, <3>1, <3>6 DEF HasRoom, k
      <4>5. ASSUME NEW p \in Handlers PROVE HasRoom(job[p])'
        <5>1. CASE p = h
          BY <1>4, <5>1 DEF HasRoom, NoJob
        <5>2. CASE p # h /\ job[p].pc # "idle" /\ job[p].kind = "pickup" /\ job[p].actor = x
          <6>1. job[p].actor \in crowded
            BY <1>1, <1>6, <5>2 DEF LimitInv, Solo, Checked, k
          <6> QED BY <1>4, <3>3, <5>2, <6>1 DEF HasRoom
        <5>3. CASE p # h /\ job[p].pc # "idle" /\ job[p].actor # x
          <6>1. job[p].actor \in Users /\ HasRoom(job[p]) /\ job'[p] = job[p]
            BY <1>1, <1>4, <3>1, <5>3 DEF JobsGood, JobGood
          <6> QED BY <3>3, <4>1, <5>3, <6>1 DEF HasRoom
        <5>4. CASE p # h /\ (job[p].pc = "idle" \/ job[p].kind # "pickup")
          BY <1>4, <5>4 DEF HasRoom
        <5> QED BY <5>1, <5>2, <5>3, <5>4
      <4>6. ASSUME NEW u \in Users \ crowded
            PROVE  Cardinality(Pointing("pickup", u)') <= MaxPickups
        BY <3>1, <4>1, <4>3, <4>4, CommunityAssumption
      <4>7. ASSUME NEW u \in Users PROVE IsFiniteSet(Pointing("pickup", u)')
        BY <3>1, <4>1, <4>3
      <4> QED BY <3>3, <4>5, <4>6, <4>7 DEF PickInv, PickupsLimited
    <3> QED BY <3>2, <3>4, <3>5, <3>6
  <2> QED BY <2>1, <2>2, <2>3 DEF LimitInv
<1> QED BY <1>5, <1>6

(* The defaults it saw are cleared: alone, its list is the only one left.   *)
LEMMA MakeDefaultLimit ==
  ASSUME LimitInv, JobsGood, ListsGood, NEW h \in Handlers, MakeDefault(h)
  PROVE  LimitInv'
<1> DEFINE l == job[h].from  u == job[h].actor
<1>1. /\ job[h].kind = "default" /\ job[h].pc = "write"
      /\ job' = [job EXCEPT ![h] = NoJob] /\ crowded' = crowded
      /\ rows' = rows /\ u \in Users
  BY DEF MakeDefault, At, JobsGood, JobGood, Answer, Settle
<1>2. job'[h] = NoJob /\ \A p \in Handlers \ {h} : job'[p] = job[p]
  BY <1>1 DEF JobsGood
<1>3. CASE l \notin ListsOf(u)
  <2>1. list' = list /\ Answer(h)
    BY <1>3 DEF MakeDefault
  <2>2. \A v : DefaultsOf(v)' \subseteq DefaultsOf(v)
    BY <2>1 DEF DefaultsOf, ListsOf
  <2> QED BY <1>1, <2>1, <2>2, AnswersPlainly
<1>4. CASE l \in ListsOf(u)
  <2>1. ASSUME NEW m \in ListIds
        PROVE  /\ list'[m].owner = list[m].owner
               /\ list'[m].default = (m = l \/ (list[m].default /\ m \notin job[h].defaults))
    BY <1>4 DEF MakeDefault, ListsGood
  <2>2. l \in ListIds /\ list[l].owner = u
    BY <1>4 DEF ListsOf
  <2>3. ASSUME NEW v, NEW m \in DefaultsOf(v)'
        PROVE  m \in DefaultsOf(v) \/ (v = u /\ m = l)
    BY <2>1, <2>2 DEF DefaultsOf, ListsOf
  <2>0. /\ doubled \ {u} \subseteq doubled'
        /\ u \in doubled' \/ DefaultsOf(u) \subseteq job[h].defaults \/ u \notin doubled
    BY <1>4 DEF MakeDefault, Settle
  <2>4. ASSUME u \notin crowded \cup doubled', NEW m \in ListIds, list'[m].owner = u,
               list'[m].default
        PROVE  m = l
    <3>1. DefaultsOf(u) \subseteq job[h].defaults
      BY <1>1, <2>0, <2>4 DEF LimitInv, DefaultInv, SawDefaults
    <3> QED BY <2>1, <2>4, <3>1 DEF DefaultsOf, ListsOf
  <2>5. ASSUME NEW v \in Users \ (crowded \cup doubled'), NEW m \in DefaultsOf(v)',
               NEW n \in DefaultsOf(v)'
        PROVE  m = n
    <3>1. m \in ListIds /\ n \in ListIds /\ list'[m].owner = v /\ list'[n].owner = v
          /\ list'[m].default /\ list'[n].default
      BY DEF DefaultsOf, ListsOf
    <3>2. CASE v = u
      BY <2>4, <3>1, <3>2
    <3>3. CASE v # u
      <4>1. v \in Users \ (crowded \cup doubled)
        BY <2>0, <3>3
      <4> QED BY <2>3, <3>3, <4>1 DEF LimitInv, DefaultInv
    <3> QED BY <3>2, <3>3
  <2>6. ASSUME NEW p \in Handlers PROVE SawDefaults(job[p])'
    <3>1. CASE p = h
      BY <1>2, <3>1 DEF SawDefaults, NoJob
    <3>2. CASE p # h /\ job[p].pc # "idle" /\ job[p].kind = "default" /\ job[p].actor = u
      <4>1. job[p].actor \in crowded
        BY <1>1, <3>2 DEF LimitInv, Solo, Checked
      <4> QED BY <1>1, <1>2, <3>2, <4>1 DEF SawDefaults
    <3>3. CASE p # h /\ job[p].actor # u
      <4>1. SawDefaults(job[p]) /\ job'[p] = job[p]
        BY <1>2, <3>3 DEF LimitInv, DefaultInv
      <4> QED BY <1>1, <2>0, <2>3, <3>3, <4>1 DEF SawDefaults
    <3>4. CASE p # h /\ (job[p].pc = "idle" \/ job[p].kind # "default")
      BY <1>2, <3>4 DEF SawDefaults
    <3> QED BY <3>1, <3>2, <3>3, <3>4
  <2>7. DefaultInv'
    BY <1>1, <2>5, <2>6 DEF DefaultInv
  <2>8. Solo'
    BY <1>1, SoloKept DEF NoJob, LimitInv
  <2>9. PickInv'
    BY <1>1, PickKept DEF NoJob, HasRoom, LimitInv
  <2> QED BY <2>7, <2>8, <2>9 DEF LimitInv
<1> QED BY <1>3, <1>4

(* A list made as the default of an account that has none is its only one.     *)
LEMMA FirstDefaultLimit ==
  ASSUME LimitInv, JobsGood, ListsGood, NEW h \in Handlers, CreateList(h),
         job[h].kind = "makedefault", DefaultsOf(job[h].actor) = {}
  PROVE  LimitInv'
<1> DEFINE l == job[h].from  u == job[h].actor
<1>1. /\ job[h].pc = "write" /\ l \in ListIds
      /\ job' = [job EXCEPT ![h] = NoJob] /\ UNCHANGED <<crowded, doubled, rows>>
  BY DEF CreateList, JobsGood, JobGood, About, Answer, Settle
<1>2. job'[h] = NoJob /\ \A p \in Handlers \ {h} : job'[p] = job[p]
  BY <1>1 DEF JobsGood
<1>3. \A m \in ListIds \ {l} : list'[m] = list[m]
  BY DEF CreateList, ListsGood
<1>4. list'[l] = list[l] \/ list'[l].owner = u
  BY <1>1 DEF CreateList, ListsGood
<1>5. ASSUME NEW v, NEW m \in DefaultsOf(v)' PROVE m \in DefaultsOf(v) \/ (v = u /\ m = l)
  BY <1>3, <1>4 DEF DefaultsOf, ListsOf
<1>6. ASSUME NEW v \in Users \ (crowded \cup doubled), NEW m \in DefaultsOf(v)',
             NEW n \in DefaultsOf(v)'
      PROVE  m = n
  BY <1>5 DEF LimitInv, DefaultInv
<1>7. ASSUME NEW p \in Handlers PROVE SawDefaults(job[p])'
  <2>1. CASE p = h
    BY <1>2, <2>1 DEF SawDefaults, NoJob
  <2>2. CASE p # h /\ job[p].pc # "idle" /\ job[p].kind = "default" /\ job[p].actor = u
    <3>1. job[p].actor \in crowded
      BY <1>1, <2>2 DEF LimitInv, Solo, Checked
    <3> QED BY <1>1, <1>2, <2>2, <3>1 DEF SawDefaults
  <2>3. CASE p # h /\ job[p].actor # u
    <3>1. SawDefaults(job[p]) /\ job'[p] = job[p]
      BY <1>2, <2>3 DEF LimitInv, DefaultInv
    <3> QED BY <1>1, <1>5, <2>3, <3>1 DEF SawDefaults
  <2>4. CASE p # h /\ (job[p].pc = "idle" \/ job[p].kind # "default")
    BY <1>2, <2>4 DEF SawDefaults
  <2> QED BY <2>1, <2>2, <2>3, <2>4
<1>8. DefaultInv'
  BY <1>1, <1>6, <1>7 DEF DefaultInv
<1>9. Solo'
  BY <1>1, SoloKept DEF NoJob, LimitInv
<1>10. PickInv'
  BY <1>1, PickKept DEF NoJob, HasRoom, LimitInv
<1> QED BY <1>8, <1>9, <1>10 DEF LimitInv

LEMMA WriteLimit ==
  ASSUME LimitInv, ButtonInv, ListsGood, NEW h \in Handlers,
         \/ PostComment(h) \/ DeleteComment(h) \/ DropList(h) \/ UnmakeDefault(h)
         \/ EraseArticle(h) \/ Fail(h)
  PROVE  LimitInv'
<1>1. Answer(h) /\ JobsGood
  BY DEF PostComment, DeleteComment, DropList, UnmakeDefault, EraseArticle, Fail, ButtonInv
<1>2. rows'["pickup"] = rows["pickup"]
  BY DEF PostComment, DeleteComment, DropList, UnmakeDefault, EraseArticle, Fail, contents,
         ButtonInv, RowsGood, Relations
<1>3. ASSUME NEW u PROVE DefaultsOf(u)' \subseteq DefaultsOf(u)
  <2>1. CASE list' = list
    BY <2>1 DEF DefaultsOf, ListsOf
  <2>2. CASE DropList(h) \/ UnmakeDefault(h)
    <3>1. ASSUME NEW l \in ListIds
          PROVE  list'[l] = list[l] \/ list'[l].default = FALSE
      BY <2>2 DEF DropList, UnmakeDefault, ListsGood, NoList
    <3> QED BY <3>1 DEF DefaultsOf, ListsOf
  <2> QED BY <2>1, <2>2 DEF PostComment, DeleteComment, EraseArticle, Fail, contents
<1> QED BY <1>1, <1>2, <1>3, AnswersPlainly

(* A list made or handed over as a default marks who gets it.                 *)
LEMMA GetLimit ==
  ASSUME LimitInv, ButtonInv, ListsGood, NEW h \in Handlers,
         \/ CreateList(h) /\ ~(job[h].kind = "makedefault" /\ DefaultsOf(job[h].actor) = {})
         \/ GiveList(h)
  PROVE  LimitInv'
<1>1. JobsGood /\ rows'["pickup"] = rows["pickup"]
  BY DEF CreateList, GiveList, ButtonInv
<1>2. Settle(h, doubled')
  BY DEF CreateList, GiveList, Answer, Settle
<1>3. doubled \subseteq doubled'
  BY DEF CreateList, GiveList, Answer, Settle
<1>4. ASSUME NEW u, u \notin doubled' PROVE DefaultsOf(u)' \subseteq DefaultsOf(u)
  <2>1. CASE list' = list
    BY <2>1 DEF DefaultsOf, ListsOf
  <2>2. CASE CreateList(h) /\ list' # list
    <3> DEFINE a == job[h].from
               d == job[h].kind = "makedefault"
    <3>0. /\ list' = [list EXCEPT ![a] = [owner |-> job[h].actor, default |-> d]]
          /\ d => job[h].actor \in doubled'
      <4>1. d => DefaultsOf(job[h].actor) # {}
        BY DEF GiveList, At
      <4>2. list' = [list EXCEPT ![a] = [owner |-> job[h].actor, default |-> d]]
        BY <2>2 DEF CreateList
      <4>3. d /\ DefaultsOf(job[h].actor) # {} => job[h].actor \in doubled'
        BY <2>2 DEF CreateList, Settle
      <4> QED BY <4>1, <4>2, <4>3
    <3>1. ASSUME NEW l \in ListIds
          PROVE  list'[l] = list[l] \/ ~list'[l].default \/ list'[l].owner \in doubled'
      <4> HIDE DEF a, d
      <4> QED BY <3>0 DEF ListsGood
    <3> QED BY <1>4, <3>1 DEF DefaultsOf, ListsOf
  <2>3. CASE GiveList(h) /\ list' # list
    <3>1. ASSUME NEW l \in ListIds
          PROVE  list'[l] = list[l] \/ ~list'[l].default \/ list'[l].owner \in doubled'
      BY <2>3 DEF GiveList, Settle, ListsGood
    <3> QED BY <1>4, <3>1 DEF DefaultsOf, ListsOf
  <2> QED BY <2>1, <2>2, <2>3
<1> QED BY <1>1, <1>2, <1>3, <1>4, SettlesPlainly

LEMMA LimitStep ==
  ASSUME LimitInv, ButtonInv, ListsGood, [Next]_vars
  PROVE  LimitInv'
<1>0. CASE UNCHANGED vars
  BY <1>0 DEF vars, LimitInv, Solo, PickInv, DefaultInv, HasRoom, SawDefaults, PickupsLimited,
              Pointing, DefaultsOf, ListsOf
<1>1. ASSUME NEW h \in Handlers, Submit(h) PROVE LimitInv'
  <2>1. PICK kind, u, x, y : Send(h, kind, u, x, y)
    BY <1>1 DEF Submit
  <2> QED BY <2>1, SendLimit DEF ButtonInv
<1>2. ASSUME NEW h \in Handlers, Step(h) PROVE LimitInv'
  <2>1. \/ FindLike(h) \/ FindStock(h) \/ FindDefaultStock(h) \/ FindPraise(h)
        \/ FindFavour(h) \/ FindFollow(h) \/ FindPickup(h) \/ FindDefaults(h)
        \/ PostComment(h) \/ DeleteComment(h) \/ CreateList(h) \/ MakeDefault(h)
        \/ UnmakeDefault(h) \/ GiveList(h) \/ Toggle(h) \/ DropList(h) \/ EraseArticle(h)
    BY <1>2 DEF Step
  <2>2. JobsGood
    BY DEF ButtonInv
  <2> QED BY <2>1, <2>2, FindLimit, ToggleLimit, MakeDefaultLimit, FirstDefaultLimit, GetLimit,
             WriteLimit
<1>3. ASSUME NEW h \in Handlers, Fail(h) PROVE LimitInv'
  BY <1>3, WriteLimit
<1> QED BY <1>0, <1>1, <1>2, <1>3 DEF Next

(* At most three pickups, for ever, for each account whose requests for them   *)
(* did not overlap, and at most one default list for such an account unless it *)
(* was given a second one by a creation or from another account and has not   *)
(* chosen since: the look before the write is enough for who sends one request *)
(* at a time, whatever the others do (usersService createPickupArticle,      *)
(* stocksRepository updateList).                                            *)
THEOREM LimitsAreKept == Spec => []LimitsKept
<1>1. /\ PlaceInv /\ ButtonInv /\ [Next]_vars => PlaceInv' /\ ButtonInv'
      /\ PlaceInv => ListsGood
  BY PlaceStep, ButtonStep DEF PlaceInv
<1>2. LimitInv /\ ButtonInv /\ ListsGood /\ [Next]_vars => LimitInv'
  BY LimitStep
<1>3. ASSUME LimitInv PROVE LimitsKept
  <2>1. ASSUME NEW u \in Users \ (crowded \cup doubled)
        PROVE  Cardinality(DefaultsOf(u)) <= 1
    <3>1. CASE DefaultsOf(u) = {}
      BY <3>1, FS_EmptySet
    <3>2. CASE DefaultsOf(u) # {}
      <4>1. PICK l \in DefaultsOf(u) : DefaultsOf(u) = {l}
        BY <1>3, <3>2 DEF LimitInv, DefaultInv
      <4>2. Cardinality({l}) = 1
        BY FS_Singleton
      <4> QED BY <4>1, <4>2
    <3> QED BY <3>1, <3>2
  <2> QED BY <1>3, <2>1 DEF LimitInv, PickInv, LimitsKept, OneDefault
<1> QED BY <1>1, <1>2, <1>3, LimitInit, PlaceInit, InitInv, PTL DEF Spec
=============================================================================

------------------------------- MODULE Browser -------------------------------
(* One query of one page beside one mutation of the same page, through the      *)
(* query cache of the web client.  The tables of the hooks say what the         *)
(* mutation invalidates; the tables of the routes, handlers and repositories    *)
(* say what it changes on the server and what the query reads there.            *)
EXTENDS Api, Handlers, Routes, Pages

CONSTANT MaxRev   \* bound: changes of the rows the query reads
ASSUME BrowserBound == MaxRev \in Nat

VARIABLES
  scene,     \* a mutation and a query of one page: it changes what the query reads
  table,     \* how often the rows the query reads have been changed
  entry,     \* the query in the cache
  mounted,   \* whether the page is shown
  fetch,     \* the request of the query in flight
  call,      \* the request of the mutation in flight, whether it has settled, and
             \* the query before its guess
  acked      \* the last change the page was told had succeeded

browserVars == <<scene, table, entry, mounted, fetch, call, acked>>

-----------------------------------------------------------------------------
HandlerOf(c) == Router[Calls[c]].handler

(* A new tag or list has no page of its own yet, so only what lists them shows  *)
(* it; TagEdit alone upserts a tag that exists.                                 *)
Creating == {"useUpsertTag", "useCreateStockList"}
Listings == {"useTagsQuery", "useStockLists", "useArticleStockLists", "usePublicStockLists"}

Touches(page, m, q) ==
  /\ TablesWritten(HandlerOf(Mutations[m].call)) \cap TablesRead(HandlerOf(Queries[q].call)) # {}
  /\ m \in Creating /\ page # "TagEdit" => q \in Listings

Scenes ==
  UNION {{[m |-> z[1], q |-> z[2]] :
            z \in {y \in AllPages[p].does \X AllPages[p].shows : Touches(p, y[1], y[2])}} :
         p \in DOMAIN AllPages}

mutation == scene.m
query == scene.q

(* What a hook does about a query when its mutation has succeeded.              *)
Covers(m, q) == Invalidates(m, q) \/ Replaces(m, q) \/ Flips(m, q)

(* What the hooks leave out: the mutations that do nothing about a query of     *)
(* their own page although they change what it reads, so that the page goes on  *)
(* showing what was there before.  Three of them leave the page (the article    *)
(* editor, which shows no counts, and removeGroup); the button of an article    *)
(* does not show how many like a list.                                          *)
LeftOut ==
  {<<"useCreateArticle", "useTagsQuery">>, <<"useCreateArticle", "myGroups">>,
   <<"useEditArticle", "useTagsQuery">>, <<"useEditArticle", "myGroups">>,
   <<"removeGroup", "groupEdit">>,
   <<"useFollowBack", "useUserFollowingStateQuery">>, <<"useFollowBack", "useFollowingQuery">>,
   <<"useFollowBack", "useFollowersQuery">>,
   <<"useToggleTagFollow", "useFollowingTagsQuery">>,
   <<"useLikeStockList", "useArticleStockLists">>,
   <<"useSaveOwnWebhook", "useOwnWebhookQuery">>, <<"useDeleteOwnWebhook", "useOwnWebhookQuery">>,
   <<"useDeleteOwnWebhook", "useOwnDeliveriesQuery">>, <<"useSetOwnActive", "useOwnWebhookQuery">>,
   <<"useSaveWebhook", "useWebhookQuery">>, <<"useDeleteWebhook", "useWebhookQuery">>,
   <<"useDeleteWebhook", "useWebhookDeliveriesQuery">>, <<"useSetWebhookActive", "useWebhookQuery">>,
   <<"useAssignRoles", "useAdminUsersQuery">>}

(* The tables say exactly this: of what a page shows, its mutations change      *)
(* these queries and no other without a word to the cache.                      *)
ASSUME HooksCoverPages ==
  {<<s.m, s.q>> : s \in {z \in Scenes : ~Covers(z.m, z.q)}} = LeftOut

Empty == [have |-> FALSE, rev |-> 0, invalid |-> FALSE, aged |-> FALSE,
          failed |-> FALSE, missed |-> FALSE]
NoFetch == [pc |-> "none", rev |-> 0]
Asked == [pc |-> "asked", rev |-> 0]
NoCall == [pc |-> "idle", rev |-> 0, prior |-> Empty]

BrowserInit ==
  /\ scene \in Scenes
  /\ table = 0
  /\ entry = Empty
  /\ mounted = FALSE
  /\ fetch = NoFetch
  /\ call = NoCall
  /\ acked = 0

-----------------------------------------------------------------------------
(* Showing a query loads it when it has no data, was invalidated or has aged;   *)
(* a request in flight is shared.                                               *)
Load ==
  IF fetch.pc = "none" /\ (~entry.have \/ entry.invalid \/ entry.aged)
  THEN /\ fetch' = Asked
       /\ entry' = [entry EXCEPT !.missed = FALSE]
  ELSE UNCHANGED <<fetch, entry>>

Show ==
  /\ ~mounted
  /\ mounted' = TRUE
  /\ Load
  /\ UNCHANGED <<scene, table, call, acked>>

(* The page is left; what is in flight goes on.                                 *)
Leave ==
  /\ mounted
  /\ mounted' = FALSE
  /\ UNCHANGED <<scene, table, entry, fetch, call, acked>>

(* staleTime passes; the signed-in account never ages.                          *)
Age ==
  /\ entry.have /\ ~entry.aged /\ query # "useAuthUserQuery"
  /\ entry' = [entry EXCEPT !.aged = TRUE]
  /\ UNCHANGED <<scene, table, mounted, fetch, call, acked>>

(* gcTime passes while the query is not shown.                                  *)
Collect ==
  /\ entry.have /\ ~mounted /\ fetch.pc = "none"
  /\ entry' = Empty
  /\ UNCHANGED <<scene, table, mounted, fetch, call, acked>>

-----------------------------------------------------------------------------
(* The server reads the rows, and its answer arrives some time later.           *)
Read ==
  /\ fetch.pc = "asked"
  /\ fetch' = [pc |-> "read", rev |-> table]
  /\ UNCHANGED <<scene, table, entry, mounted, call, acked>>

Settled == IF call.pc = "settling" THEN NoCall ELSE call

Receive ==
  /\ fetch.pc = "read"
  /\ entry' = [Empty EXCEPT !.have = TRUE, !.rev = fetch.rev, !.missed = entry.missed]
  /\ fetch' = NoFetch
  /\ call' = Settled
  /\ UNCHANGED <<scene, table, mounted, acked>>

(* The request and its one retry have failed: the former data stay.             *)
FetchFails ==
  /\ fetch.pc # "none"
  /\ entry' = [entry EXCEPT !.failed = TRUE, !.invalid = entry.have]
  /\ fetch' = NoFetch
  /\ call' = Settled
  /\ UNCHANGED <<scene, table, mounted, acked>>

-----------------------------------------------------------------------------
(* The user uses the mutation.  The likes first give up the requests in flight  *)
(* and, when the data they need are there, show what they expect; nothing asks  *)
(* again for what was given up until the call succeeds.                         *)
Press ==
  LET gone == Cancels(mutation, query) /\ fetch.pc # "none"
      kept == IF gone THEN [entry EXCEPT !.missed = TRUE] ELSE entry IN
  /\ mounted /\ call.pc = "idle"
  /\ call' = [pc |-> "sent", rev |-> 0,
              prior |-> IF Guesses(mutation, query) THEN kept ELSE Empty]
  /\ \/ entry' = kept
     \/ Guesses(mutation, query) /\ entry.have
          /\ entry' = [kept EXCEPT !.invalid = FALSE, !.aged = FALSE]
  /\ fetch' = IF gone THEN NoFetch ELSE fetch
  /\ UNCHANGED <<scene, table, mounted, acked>>

(* The server applies it; somebody else may change the same rows.               *)
Apply ==
  /\ call.pc = "sent" /\ table < MaxRev
  /\ table' = table + 1
  /\ call' = [call EXCEPT !.pc = "applied", !.rev = table']
  /\ UNCHANGED <<scene, entry, mounted, fetch, acked>>

Elsewhere ==
  /\ table < MaxRev
  /\ table' = table + 1
  /\ UNCHANGED <<scene, entry, mounted, fetch, call, acked>>

(* Refused, or the answer is lost: the page is told that it failed, and a guess *)
(* is taken back by storing what was there before it.                           *)
CallFails ==
  /\ call.pc \in {"sent", "applied"}
  /\ call' = NoCall
  /\ entry' = IF call.prior.have
              THEN [call.prior EXCEPT !.invalid = FALSE, !.aged = FALSE,
                                      !.missed = @ \/ entry.missed]
              ELSE entry
  /\ UNCHANGED <<scene, table, mounted, fetch, acked>>

(* Mutant of Refetch: a request in flight is shared even if there are data.     *)
RefetchShared ==
  /\ entry' = [entry EXCEPT !.invalid = TRUE]
  /\ fetch' = IF mounted /\ fetch.pc = "none" THEN Asked ELSE fetch

(* invalidateQueries: a query that is shown is fetched again, an older request  *)
(* is given up unless it is the first one, which is shared; a query that is not *)
(* shown is only marked, and a request in flight will clear the mark.           *)
Refetch ==
  LET shared == fetch.pc # "none" /\ (~mounted \/ ~entry.have) IN
  /\ entry' = [entry EXCEPT !.invalid = TRUE, !.missed = shared]
  /\ fetch' = IF mounted /\ ~shared THEN Asked ELSE fetch

(* setQueryData with the answer.                                                *)
Store ==
  /\ entry' = [Empty EXCEPT !.have = TRUE, !.rev = call.rev, !.missed = fetch.pc # "none"]
  /\ fetch' = fetch

(* useToggleDefaultStock turns the flag in the data that are there, if any, and  *)
(* asks for nothing: when they are those the call found they become those it    *)
(* left, and otherwise the page shows the opposite.                             *)
Flip ==
  /\ entry' = IF entry.have
              THEN [Empty EXCEPT !.have = TRUE, !.rev = entry.rev + 1,
                                 !.missed = fetch.pc # "none" \/ entry.rev + 1 # call.rev]
              ELSE [entry EXCEPT !.missed = @ \/ fetch.pc # "none"]
  /\ fetch' = fetch

(* onSuccess; when it awaits the invalidation the mutation settles after it.    *)
Succeed ==
  /\ call.pc = "applied"
  /\ acked' = call.rev
  /\ IF Replaces(mutation, query) THEN Store
     ELSE IF Flips(mutation, query) THEN Flip
     ELSE IF Invalidates(mutation, query) THEN Refetch
     ELSE UNCHANGED <<entry, fetch>>
  /\ call' = IF Mutations[mutation].waits /\ Invalidates(mutation, query) /\ mounted
             THEN [NoCall EXCEPT !.pc = "settling"] ELSE NoCall
  /\ UNCHANGED <<scene, table, mounted>>

BrowserNext ==
  \/ Show \/ Leave \/ Age \/ Collect
  \/ Read \/ Receive \/ FetchFails
  \/ Press \/ Apply \/ Elsewhere \/ CallFails \/ Succeed

BrowserSpec == BrowserInit /\ [][BrowserNext]_browserVars

-----------------------------------------------------------------------------
(* Nothing of the page is under way.                                            *)
AtRest == mounted /\ entry.have /\ fetch.pc = "none" /\ call.pc = "idle"

(* A page that is at rest does not show what was there before a change it was   *)
(* told had succeeded, where the hook of the mutation does something about the  *)
(* query (LeftOut lists where it does not), however the requests overlap and    *)
(* the page is left and shown.  Excused are a fetch that failed, and an answer   *)
(* or a press that met a request in flight which the cache does not restart, or *)
(* a flag turned in other data than the call found.                             *)
ShowsOwnWrites ==
  AtRest /\ ~entry.failed /\ ~entry.missed /\ Covers(mutation, query) => entry.rev >= acked
=============================================================================

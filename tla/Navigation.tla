----------------------------- MODULE Navigation -----------------------------
(* Where the client lets its user go, beside what the server answers there: the *)
(* guards of the client's routes decide by the account, the permissions and the *)
(* public settings it has fetched, the routers by their own guards.             *)
EXTENDS Api, Routes, Pages

CONSTANT Viewers   \* who may use the client: nobody, or an account with its permissions

VARIABLES
  viewer,   \* who uses the client
  site,     \* the server's settings: maintenance, requireAuth
  known,    \* the public settings as last fetched
  place,    \* the page the router is at, or on its way to
  settled,  \* whether no guard has still to run
  hops      \* history: the redirects since the page was asked for

navVars == <<viewer, site, known, place, settled, hops>>

-----------------------------------------------------------------------------
(* The catalog of permissions and what each one brings with it.                 *)
Bringing(base, perms) == [p \in perms |-> {p, base}]

Catalog ==
     Bringing("article.read",
       {"article.read", "article.create", "article.update.own", "article.update.any",
        "article.delete.own", "article.delete.any", "comment.create", "comment.delete.own",
        "comment.delete.any"})
  @@ Bringing("tag.create", {"tag.create", "tag.manage"})
  @@ Bringing("user.read", {"user.read", "user.manage"})
  @@ Bringing("role.read", {"role.read", "role.create", "role.update", "role.delete", "role.assign"})
  @@ [p \in {"group.create", "system.settings.manage", "system.idp.manage",
             "system.webhook.manage", "system.backup.execute", "system.maintenance.bypass",
             "eventlog.read"} |-> {p}]

(* Permissions are an account's, and come with those they depend on:            *)
(* normalizePermissionDependencies closes every role that is stored.            *)
ASSUME ViewersAssumption ==
  /\ Viewers \subseteq [signedIn : BOOLEAN, admin : BOOLEAN, perms : SUBSET DOMAIN Catalog]
  /\ \A v \in Viewers : \A p \in v.perms : Catalog[p] \subseteq v.perms
  /\ \A v \in Viewers : v.perms # {} => v.signedIn

Sites == [maintenance : BOOLEAN, requireAuth : BOOLEAN]

(* What requireSiteAuthentication goes by.                                      *)
Mode ==
  IF site.maintenance THEN "maintenance" ELSE IF site.requireAuth THEN "login" ELSE "open"

Places == DOMAIN AllPages \cup {"Maintenance"}

NavInit ==
  /\ viewer \in Viewers
  /\ site \in Sites
  /\ known = site
  /\ place \in Places
  /\ settled = FALSE
  /\ hops = 0

-----------------------------------------------------------------------------
AnonymousRoutes == DOMAIN AuthPages

(* Mutant of MaintenanceRoutes: the notice itself is not exempt.                *)
NoticeGuarded == {"Login"}

MaintenanceRoutes == {"Maintenance", "Login"}

Bypasses == "system.maintenance.bypass" \in viewer.perms

(* beforeLoad of the root route: the redirects it throws at page p, in the      *)
(* order they are tried.                                                        *)
RootGuardPast(p, bypasses) ==
  IF known.maintenance /\ ~bypasses /\ p \notin MaintenanceRoutes THEN {"Maintenance"}
  ELSE IF \/ ~known.maintenance /\ p = "Maintenance"
          \/ viewer.signedIn /\ p \in AnonymousRoutes
  THEN {"Home"}
  ELSE IF /\ known.requireAuth /\ ~viewer.signedIn
          /\ p \notin AnonymousRoutes \cup {"Maintenance"}
  THEN {"Login"}
  ELSE {}

(* Mutant of RootGuard: whoever is signed in bypasses the maintenance mode.     *)
RootGuardSignedIn(p) == RootGuardPast(p, viewer.signedIn)

RootGuard(p) == RootGuardPast(p, Bypasses)

(* The routes of one's own articles, stock lists and settings; the frame of the *)
(* administration, which shows a visitor nothing but that it loads.             *)
OwnRoutes ==
  {"New", "Edit", "Drafts", "Trash", "StockDetails", "StockEditPages"} \cup DOMAIN SettingsPages

PageGuard(p) ==
  IF \/ p \in OwnRoutes /\ ~viewer.signedIn
     \/ p \in DOMAIN AdminPages /\ viewer.signedIn /\ AdminAccess \cap viewer.perms = {}
  THEN {"Home"} ELSE {}

Thrown(p) == IF RootGuard(p) # {} THEN RootGuard(p) ELSE PageGuard(p)

Redirect ==
  /\ ~settled
  /\ place' \in Thrown(place)
  /\ hops' = hops + 1
  /\ UNCHANGED <<viewer, site, known, settled>>

ShowPage ==
  /\ ~settled
  /\ Thrown(place) = {}
  /\ settled' = TRUE
  /\ UNCHANGED <<viewer, site, known, place, hops>>

(* Following a link or typing an address.                                       *)
Go(p) ==
  /\ settled
  /\ place' = p
  /\ settled' = FALSE
  /\ hops' = 0
  /\ UNCHANGED <<viewer, site, known>>

(* An administrator changes the settings.                                       *)
ChangeSite(s) ==
  /\ site' = s
  /\ UNCHANGED <<viewer, known, place, settled, hops>>

(* The public settings are fetched again, at the latest when an answer says     *)
(* MAINTENANCE_MODE; AppRouter then lets the guards run again.                  *)
FetchSettings ==
  /\ known # site
  /\ known' = site
  /\ settled' = FALSE
  /\ hops' = 0
  /\ UNCHANGED <<viewer, site, place>>

NavNext ==
  \/ Redirect \/ ShowPage \/ FetchSettings
  \/ \E p \in Places : Go(p)
  \/ \E s \in Sites \ {site} : ChangeSite(s)

NavSpec == NavInit /\ [][NavNext]_navVars

-----------------------------------------------------------------------------
(* The routes that the guards name.                                             *)
ASSUME RouteNames ==
  /\ "Login" \in AnonymousRoutes /\ "Home" \notin AnonymousRoutes
  /\ AnonymousRoutes \cup OwnRoutes \cup DOMAIN AdminPages \subseteq DOMAIN AllPages
  /\ "Maintenance" \notin DOMAIN AllPages
  /\ {"Home", "Login"} \cap (OwnRoutes \cup DOMAIN AdminPages) = {}

(* What a page asks for at once needs no permission, or one that comes with     *)
(* each permission the page is offered for, or with the one without which the   *)
(* page keeps the query back; everything under /admin needs system.idp.manage   *)
(* besides.                                                                     *)
Grants(p, q, guard) ==
  \/ guard.any = {}
  \/ /\ p \in DOMAIN AdminPages
     /\ \/ "system.idp.manage" \in guard.any
        \/ \A perm \in AdminPages[p].opens : Catalog[perm] \cap guard.any # {}
        \/ /\ q \in DOMAIN AdminPages[p].asks
           /\ Catalog[AdminPages[p].asks[q]] \cap guard.any # {}

(* Where the client and the routers disagree, besides: the page of the webhooks *)
(* opens with system.webhook.manage alone, and the page of the sign-in with     *)
(* system.idp.manage alone; both ask at once for the settings of the server,    *)
(* which need system.settings.manage.                                           *)
Ungranted ==
  {<<"Webhooks", "useServerSettingsQuery">>, <<"AdminSecurity", "useServerSettingsQuery">>}

(* The tables say exactly this: these queries, and no other of what the pages   *)
(* ask for, are refused to somebody to whom the page is offered and who holds   *)
(* system.idp.manage.                                                           *)
ASSUME PagesMatchRoutes ==
  {z \in UNION {{p} \X AllPages[p].shows : p \in DOMAIN AllPages} :
     \E guard \in Guards(Calls[Queries[z[2]].call]) : ~Grants(z[1], z[2], guard)} = Ungranted

(* A page at which the client has settled is one of a site that the server      *)
(* admits its user to, once the client has fetched the settings, however often  *)
(* they change and whatever page was asked for: no visitor is left before the   *)
(* content of a site that requires authentication, nobody before the content of *)
(* one under maintenance, where each request would be refused.  The routes for  *)
(* signing in, which work without being admitted, and the notice of a           *)
(* maintenance, which asks for nothing, are not meant; nor is the one user whom *)
(* client and server take for another: who holds system.maintenance.bypass      *)
(* without the role admin passes the guard of the root route and is refused by  *)
(* requireSiteAuthentication, which asks for the role by its name.              *)
ShownPagesAreAdmitted ==
  /\ settled /\ known = site
  /\ place \in DOMAIN AllPages \ AnonymousRoutes
  /\ Bypasses => viewer.admin
  => SiteAdmits(viewer, Mode)

(* The guards of the routes, which redirect to one another's pages, never send  *)
(* anybody round in a circle: two redirects at most, whoever asks for whatever  *)
(* page of a site under maintenance, with required authentication, or both.     *)
RedirectsEnd == hops <= 2
=============================================================================

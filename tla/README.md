# Kuon in TLA+

Kuon is a knowledge-sharing server: an Express 5 application in one Node process
(`src/server/src`), PostgreSQL through Prisma, a file store (local disk, S3
or Azure Blob) and a React client (`src/client/src`). This directory models the parts in
which several requests, or a request and a failure, can meet, and the tables by which the
client and the server have to agree.

One convention holds in every module of the server. Node runs one piece of JavaScript at a
time, so a handler is interrupted only where it awaits. **An action is the code
between two awaits together with the statement, transaction or command it waits
for.** PostgreSQL runs at READ COMMITTED: one statement, and one transaction that
only writes, is atomic; a transaction whose first statement looks at rows that
its second replaces is not, and is split (`EraseRows`, `CommitRows` in Roles).
Each handler's local variables are a record (`job`, `req`, `ajob`, `gjob`) with a `pc`. A query may
fail at every await (`Fail...`), which ends the handler and leaves what was written.

## 1. Inventory

| Component | State | Operations | Meets | Hard behaviour |
|---|---|---|---|---|
| Roles and permissions (`permissionService`, `permissionRepository`) | `roles`, `role_permissions`, `user_roles` | create, update, delete role; assign roles | every `requirePermission` | checks several awaits before the write |
| Instance restore (`restoreService`), maintenance lock and gate (`runtimeMaintenanceService`) | database, uploads, lock, settings cache | validate, copy, lock, dump, pg_restore, migrate, replace files, end sessions, reload, unlock; rollback | every other request, settings, migrations, sessions | a failure or crash at each command, overlap with a second restore |
| Sessions (`usersService`, `middlewares/auth`, `usersController`) | `user_sessions`, the browser's cookies | login, refresh, logout, logout of all or one device, optional authentication, expiry | password reset, restore, the client's tab | several tabs, lost answers, rotation |
| Password reset and change (`passwordResetService`, `passwordResetRoutes`) | `password_hash`, `password_reset_tokens`, `user_sessions` | request link, reset, change | login, mail | four statements without a transaction |
| Migrations and startup (`connect`, `migrationRunner`, `initRepository`, `index`) | `schema_migrations`, seed rows | connect, apply pending files in order, seed, load | settings, restore | death at any await, and another start |
| Server settings (`serverSettingsService`) | `server_settings`, process cache, environment | initialize, get, set | restore, registration, gates | cache and table written apart |
| Storage and SMTP settings | rows of `server_settings`, storage client | validate, save, switch | file storage, mail | rows at once by `Promise.all` |
| File storage, uploads | objects on disk, in S3 or Azure Blob | put, get, delete, list | restore, settings, avatars | the client in use against the stored settings |
| Backup export (`backupService`) | – | dump, list, archive | database, storage | none: it reads |
| Two-factor authentication (`totpService`) | secret, enabled flag | setup, confirm, verify, disable | login, external authentication | secret read twice |
| Registration and email verification | accounts, verification tokens, policy | register, send, verify, prepare policy | settings, login | account and mark written apart |
| External authentication (`authService`) | identities, flows in memory | start, callback, link, unlink | sessions, second factor | one flow used twice, last identity |
| Identity provider configuration | providers, environment providers | configure, switch, delete, clean up | external authentication, startup | identities that go with a provider |
| Groups (`groupsService`) | groups, memberships, follows | create, rename, remove; add, change, expel, leave; follow | articles | role checks before writes |
| Articles (`articlesService`) | articles with three copies of the text | create, save, publish, roll back, trash, restore, erase; the lists | groups, notifications | decided from a row read before |
| Comments, tags, stocks | rows and the numbers triggers keep | post, delete, toggle, lists and default list | articles | look, then write |
| Users, profiles, follows, pickups | users, follows, pickup rows | edit, follow, pick up to three | articles | a count, then an insert |
| Notifications (`notificationService`, `notificationStreamService`) | notifications, open streams in memory | create, list, stream | articles, comments, the bell | stored and announced apart |
| Webhooks (`webhookDispatcherService`, `webhookSelectionService`) | webhooks, deliveries | select, call, record | comments | nobody waits |
| Server events | append-only log | record, list | all | no decision reads it |
| Access gates, API keys | – | site access, maintenance, permissions | every route, the client's router | prefixes guarded by several routers |
| Sharing, OGP, PlantUML | caches on disk | render, proxy | articles | pure I/O |
| Web client: calls and cache (`FetchHttpClient`, `AuthSessionManager`, hooks, router) | query cache, cookies, account, route | fetch, mutate, invalidate, refresh, redirect | every route | requests that overlap a refresh or each other |
| Web client: rendering | – | layout, Markdown, editor | – | no state another part reads |
| Database schema | tables, keys, triggers, cascades | – | all | cascades, checks, triggers |

What makes each modelled component correct:

* **Roles**: nobody gains a permission that no acting account had; somebody can
  always administer; nobody is without a role; a role has the dependencies of
  its permissions; an assignment replaces.
* **Restore**: success means the backup's contents and no old session; failure
  means the old contents; the cache follows the table; the lock is held while
  contents are replaced, and released.
* **Sessions**: an ended session stays ended; logout ends what it says; rotation
  signs nobody out; only a logout ends a live session.
* **Password reset**: a link resets once; a reset ends older sessions and older
  links; the newest mailed link, and no other, works.
* **Startup and settings**: what is served is what is stored and what a restart would load;
  the environment wins; a stored configuration starts the server; a secret is not lost;
  starts and saves end.
* **Registration and sign-in**: everybody can sign in who was not asked to confirm an
  address; no session without a code; every account keeps a way in and shares it with nobody.
* **Groups and articles**: one owner; who changes a membership or an article may do so when
  the change is written; whoever is given an article may read it; followers hear of public articles.
* **Likes, stocks, comments**: the number on an object is the number of its marks, whatever
  overlaps; an erased article leaves nothing behind; the limits of pickups and default lists.
* **Notifications and webhooks**: each account is told of a comment once, its bell shows it,
  the row of a call says what the target did.
* **Web client**: a page shows what its own mutations changed; a tab keeps its user while the
  session lives; who is shown a page is admitted to it, and the router's redirects come to an end.

`PROJECT.json` lists the hazards at their lines, those without a property too.

## 2. Modules and the code they stand for

The extension of modules is the composition of components: `Settings` EXTENDS `Startup`,
`Articles` EXTENDS `Groups`, `MCClient` runs `Browser`, `Shell`, `Delivery` and `Navigation`; `Community` implements
`Marks`.

### Roles.tla
`roles`, `rolePerms` and `userRoles` are the three tables. A handler is started by
`RequestCreate`, `RequestUpdate`, `RequestDelete` or `RequestAssign` (the route's
`requirePermission`, never looked at again) and goes through one action per await:

    create   CheckCreate, WriteCreate
    update   CheckUpdate, WriteUpdate
    delete   DeleteRole
    assign   ReadRoles, CheckAssign, ReadCurrent, CountAdmins, EraseRows, CommitRows

`Normalize` is `normalizePermissionDependencies`, stated as the least closed set.
`Fail` is any query that throws. Foreign keys are guards: a role somebody has cannot
be deleted, a deleted role cannot be assigned. `user_roles` has no unique key: a row is
a role with the handler that inserted it, so that two transactions replacing the roles
of one account can both keep theirs, as PostgreSQL lets them.

### Restore.tla
`db` holds rows, sessions, the maintenance setting and whether migrations are
applied; `uploads` the keys of the store; `cache` the cached setting; `locked` the
process-local flag. A restore is the chain `Begin`, `Validate`, `CopyUploads`, `Lock`,
`Dump`, `PgRestore`, `Migrate`, `ListKeys`, `DeleteKeys`, `PutFiles`, `EndSessions`,
`Reload`, `MaintenanceOff`, `Finally`; `CatchPC` is the catch block's choice of what to
roll back, `Rollback*` its steps. `Fail*` let each command fail with its target partly
changed (`pg_restore --clean` without a transaction: tables of the old or the new
database, in part). `Crash` is the end of the process and its next start.
`Admit`, `PerformWrite`, `PerformLogin` are other requests, behind `GateBlocks`. Express
hands a middleware mounted at `/api` the path *below* the mount: `PathBelowMount`.

### Sessions.tla
`sessions` is `user_sessions`, `cookie` what every browser holds, `req` the requests in
flight with the cookies they were *sent* with. An answer is delivered later
(`Deliver`), in any order, or never (`Lose`, which is also a failing query). A refresh
that fails is answered with cleared cookies, whatever failed (`FailRefresh`). `Expire`
is the clock. `upset` is a history variable: browsers that overlapped requests or lost
an answer since their last undisturbed login. Login is the path without a second
factor; sign-in by TOTP or an external provider ends in the same statements.

### PasswordReset.tla
One account: its password, the `used_at` of every token, sessions by id, and the
handlers of `request`, `reset`, `login` and `/password/change`, statement by
statement. `Fail` leaves what was written. `resets`, `known`, `seen` and `tangled` (two requests
for or with a link have overlapped) are history.
`expired`, `recent` change by the clock (`Expire`, `EndCooldown`).

### Startup.tla and Settings.tla
`main()` as phases: `connect`, `migrate`, `seed`, then `LoadSettings` and `LoadStorage`
in Settings, then `listening`; every step has the failure that ends the process, and `Reboot`
starts it again over the same database. A migration file is a transaction with its row in
`schema_migrations`; a seeded provider is two inserts.
In Settings `table` is `server_settings`, `cache` the process-local values of the switches,
`live` the storage configuration in force and `client` those a storage client was made for. Setting a
switch is `Upsert`, `ApplySetting` (the row, then the cache). Saving the storage form is
`ReadStorage`, one `WriteRow` or `FailRow` per row of the `Promise.all` in any order,
`RowsWritten` or `StraysDone` (the other writes go on behind the answer of the one that failed),
`WriteSecret`, `SwitchStorage`. A restore, seen from here, is `Replace`, `FindAll`, `Assign`. `raced` and
`spoiled` are history: switches whose last writers overlapped, and storage rows that no single save left behind.

### SignIn.tla
Accounts are numbered in the order they are made. A request is one of these sequences, by the
service it is in:

    registration   EnsureAllowed, ReadPolicy, CountUsers, InsertAccount, MarkVerified
    verification   FindUnverified, InvalidateLinks, StoreLink; FindLink, ConfirmAddress, UseLink
    policy         PreparePolicy, StorePolicy
    login          LoginAccount, LoginPolicy, LoginFactor, OpenSession or CheckCode
    second factor  SavePendingSecret; ConfirmCode, ReadSecret, Enable; Disable
    callback       FindProvider, ExchangeCode or ValidateAssertion, FindIdentity,
                   LinkIdentity or CreateUserWithIdentity, FinishCallback, CallbackFactor
    unlink         CountIdentities, DeleteIdentity
    providers      UpsertIdp, ToggleIdp, DeleteIdp, CleanupOrphan

A flow (`flow`, the store in memory) is removed at the end of its callback, so that two callbacks can use it.
`excused` is history: what two requests of one account, or two callbacks of one identity, touched
while both were in flight, and what a failure left half-done.

### Groups.tla and Articles.tla
A group request reads the role of its sender (`Authorize`), then the membership it changes
(`CheckTarget`), then writes (`AddMember`, `UpdateMember`, `RemoveMember`, `RenameGroup`,
`DeleteGroup`). `overtaken` is history: a role it read was changed since. An article request is
`FindArticle` (the middleware's permission and the row), `CheckForm` (visibility and the
author's membership), then one write, `Store`, under the constraints of the table (`Storable`).
The body of an update is spread into the statement unvalidated (`articlesService.ts:214-227`): beside the fields of
the editor a form may name one further column, the author, the flag of the trash or a copy of the text, and it
may leave status, visibility or group as they are (`PatchArticle`). Reading is a request as well: `OpenArticle` reads the row
and `CheckReader` the membership, an await later. `articlePublished` runs by itself: `ReadForNotice`, `StoreNotice`. `RemoveGroup`
is the deletion composed with `ON DELETE SET NULL` on articles. `torn` and `stale` are history: articles whose text
overlapping requests wrote, or a body that named a copy of it; articles written since the notice was read.

### Marks.tla and Community.tla
`Marks` is the abstract specification of a button with a number: a subject marks an object or
takes the mark back, and the number is how many have. `Community` has the toggles as the services do
them (`FindLike` ..., `Toggle`), the unique keys that fail a double insert, the triggers that move the
numbers, comments (deleted by their author or a moderator), pickups, follows and `EraseArticle` with its cascades.
A stock list is created with the `is_default` of the form (`CreateList`) and updated with the body: made the default
(`FindDefaults`, `MakeDefault`), no longer the default (`UnmakeDefault`) or another account's (`GiveList`). `doubled` is history: accounts
that got a second default by a creation or from another account and have not chosen one since.
`LikeButton`, `StockButton` and `PraiseButton` are three instances of `Marks`; the mapping takes a
relation's rows for the marks and its column for the number.

### Delivery.tla
What follows a posted comment: `BuildContext`, `FindTargets`, a `Call` and its `Record` for each webhook;
`ReadComment`, `TellParent`, `CreateReply`, `TellOwner`, `CreateComment` for the notices; the stream's
event and the bell's fetch (`Hear`, `AskNotices`, `ReadNotices`, `ShowNotices`).

### Api, Tables, Handlers, Routes, Hooks, Pages; Browser and Navigation
Six modules of tables, each read off one layer: which request each function of the client's API sends; which tables
each repository function reads and writes; which repository functions a handler reaches; which handler
answers a route and what each router on its path asks for; which key and call each query hook has and
what each mutation hook invalidates, replaces, flips, cancels or guesses; which hooks each page uses, the frames
around it included (a page is inside what its `getParentRoute` names, whatever the folder of its file).
`Browser` is one query beside one mutation of one page through the query cache, for every such pair in
which the mutation changes a table the query reads (`Scenes`): fetches, failures, sharing of a request
in flight, invalidation, leaving and coming back. The likes give up the fetches in flight and show what they
expect before the answer (`Press`), and put back what was there when the call fails; the default of the stock lists
turns a flag in the data the cache has (`Flip`) and asks for nothing. `LeftOut` lists the pairs of
which the hook does nothing at all. `Navigation` is the router: `Redirect` follows
what the `beforeLoad` of the root route and of the page throw, in the order of the code, by the settings the client has
fetched, and `hops` counts until a page is shown; the server decides by its own settings (`SiteAdmits`).

### Shell.tla
One tab: requests that find the access token about to expire, or are answered 401, share one refresh
(`Refreshing`); the two kinds of authentication on the server (`AuthenticateStrict`,
`AuthenticatePage`), the rotation (`FindSession`, `RotateToken`), answers that are lost, a reload,
the clock.

### MC modules
They give the constants small values, and `MCClient` runs the four models of the client, one in each
behaviour. Definitions described as a mutant in their comment (`NormalizeNothing`,
`LockUntaken`, ...) are plausible mistakes; each is used to see that a property can
fail, and none is part of a specification.

## 3. Runs

| Run | Shows |
|---|---|
| `roles_serial` | One handler, three accounts, one custom role: somebody can administer, roles stay closed, an assignment replaces, after any sequence of requests and failures |
| `roles_coalition` | Two overlapping requests of a role manager who is not an administrator, an assignment beside a deletion among them: no permission gained, nobody without a role |
| `roles_last_admin` (violation) | Two administrators demoting each other at once leave none (the e2e README promises one) |
| `restore_contents` | Two restores one after another, a failure or crash at every command, another request writing or logging in: the contents, sessions and cache follow the outcome, and the lock is released again (liveness) |
| `restore_managed` (violation) | One restore where the environment manages the maintenance mode: it is rolled back by its last step although nothing failed |
| `sessions_all` | Two browsers of one account, two requests in flight, lost answers, expiry: all session properties |
| `reset_concurrent` | Two requests in flight, failures, crashes: older sessions end, older links are spent; until two requests on links overlap, one usable link, used once, which works when it is mailed |
| `settings` | Two starts, two requests that set a switch, save the storage form or restore, a failure at every row: served is stored, starts and saves end (liveness) |
| `articles` | Three requests on an article and its group, two of a kind in flight, updates of any one column: one owner, one text, readers and actors who may, notices of public articles |
| `community` | Three requests of two accounts, one of them a moderator, two in flight: nothing dangles, limits, and the refinement of `Marks` |
| `signin` | Four requests, two in flight, on a fresh or a running instance, two providers: nobody locked out, the second factor asked, ways in |
| `client` | Every query and mutation of one page, for every page; one tab with two requests; the bell and a webhook of a comment; every page asked for under every setting, with settings that change, by a visitor and a role for each permission |

Six properties are conjunctions named after their module, so that one run answers one question:

* `SettingsAgree`: `MigrationsInOrder`, `ProvidersWhole` (a provider that is served has its
  configuration, unless a start died between its two inserts), `CacheSettles`, `EnvironmentWins`, `LiveFollowsTable`, `StoredConfigBoots`,
  `ClientFollows`. `SettingsEnd`: `StartupEnds`, `SavesEnd`, `SecretKept`.
* `ArticlesConsistent`: `OneOwner`, `PublicInStep`, `MembersHaveGroup`. `ActsManaged`:
  `MembershipsManaged`, `ArticlesManaged`, `NoticesArePublic`.
* `CommunityConsistent`: `NothingDangles`. `LimitsKept`: `PickupsLimited`, `OneDefault`.
* `DeliveryKept`: `OneNotice`, `BellsRing`, `RecordsTrue`.

**Bounds.** Two requests in flight are enough for every pairwise race; no handler's
decision reads more than one other's writes, and the properties name one account, one
session, one article or one token at a time. Roles' four roles include built-in, custom and
re-created ones; three permission lists cover ordinary, delegating and full ones.
`MaxRestores = 2` lets a restore start from what the previous one left. `MaxSessions = 2`,
`MaxTokens = 3`: a session from before and one from after, a rotation each and one more.
Two reset tokens (`MaxTokens = 2`): one that is spent or replaced, one that is live. Passwords: right and wrong.
Settings: `MaxStarts = 2`, `MaxAttempts = 2`, two migrations, one provider, a switch that is
free and one the environment manages; two requests, each of which can be any form of the storage dialog.
Articles: an owner, an admin who writes, an outsider; one article and a group that can be deleted
and created anew; `MaxJobs = 3` requests of which `MaxGroupJobs = 2` are the group's (a save, and a removal and a deletion under it).
A body names one column beside the editor's; an id or a counter in a body is left out. Readers are signed in.
An update of a stock list names one column, `user_id` or `is_default`. Community: `MaxPickups = 1` stands for the three of the code, so that the limit is met by two requests;
two articles, three lists, one comment. Sign-in: `MaxJobs = 4`, `MaxUsers = 3`, `MaxSecrets = 2`, one link, one flow, two identities of two
providers, one of them set by the environment and SAML. Client: `MaxRev = 3` changes of what is
read (`hops` needs no bound: `RedirectsEnd` is one), `MaxTokens = 4` refresh tokens in the tab, two accounts, one comment, one webhook; all pages and settings, and a role for each permission.
Symmetry is used for requests in flight, which appear in no constant that tells
them apart, in runs that check no liveness.

**History variables** (`upset`, `tangled`, `raced`, `spoiled`, `overtaken`, `readded`, `torn`, `stale`, `crowded`,
`doubled`, `excused`, `lost`, `missed`) say exactly when a property may fail: the code has no lock, so a sentence that
is true of requests one after another need not be true of two at once, and each of these marks the
overlap, failure or loss after which it is not claimed. Every run reaches states on both sides of them, and the
mutants break the properties on the unmarked side.

**Deadlock** is checked in `roles_serial`, `sessions_all` and `reset_concurrent`. It is
off where the number of requests, restores, starts or revisions is bounded, so that the model stops when they are used up, and in the other
Roles runs, which restrict who sends what so that the senders may lose the
permission to send anything more.

**Fairness.** `restore_contents` has `WF_vars(RestoreStep(r))`: once begun a restore goes on.
`settings` has `WF_vars(Boot)` and `WF_vars(Serve(r))`: a start and a request that has begun go on. Steps
between awaits are run by the event loop; a command that never ends (`pg_dump`, `pg_restore`, a storage call, a
query) would violate the assumption, and the code puts no timeout on them. Connection attempts are counted
by the code (`MaxAttempts`). There is no fairness on users, on clients, on the clock or on crashes.

**Refinement.** `community` checks `ButtonsAreMarks`, that is `LikeButton!Spec`, `StockButton!Spec` and
`PraiseButton!Spec`: every step of the services is, for each button, a step of `Marks` or none. The
theorem `ButtonsKeepTheirPromise` says so for all values of the constants, and `NumbersAreMarks` what
follows from it: the number is the number of the rows.

## 4. Differences between the code and what is said of it

Two have a run, and `PROJECT.json` quotes the sentences they contradict under `findings`:

* **The last administrator** (`roles_last_admin`): two concurrent demotions leave none, while `src/e2e/README.md:79` promises one.
* **Managed maintenance mode** (`restore_managed`). With `KUON_SETTING_MAINTENANCE_MODE` set, the last step of every restore
  throws (`serverSettingsService.ts:169`) and the restore is rolled back, although
  `src/docs/backup-restore.md:25` says that the contents of a validated archive replace those there were.
  `WhyRestoresFail` proves that no restore succeeds there, and that elsewhere only a failing command fails one.

The states of the models show more, which no run is spent on:

* **The gate.** A middleware mounted at `/api` sees the path below the mount, so a locked instance serves `/api`
  requests during a restore (`PathBelowMount` in Restore).
* **Overlapping restores.** `Finally` releases the lock whoever holds it: of two overlapping restores one
  that fails opens the gate for a third. The theorems about restores take one at a time.
* **The safety copy** of the uploads is older than the dump: a file uploaded between
  `CopyUploads` and `Dump` is in the rows that a rollback brings back and not in the files.
* **Logout** with a cookie whose token a refresh has just replaced deletes nothing (`upset` in Sessions).
* **A reset link** completes two resets that overlap; a reset that fails after `WritePassword` is answered
  as an invalid link and has replaced the password.
* **Two assignments** of roles to one account that overlap leave the union of both.
* **A group's owner** added again by another manager gets the role of the form (`readded` in Groups).
* **The body of an article's update** reaches the UPDATE as it is: who may edit an article can give it away, set the flag
  of the trash or set one copy of its text apart from the others (`torn`, and the last line of `ArticlesManaged`).
* **The body of a stock list's update** does, too, and `createStockList` stores `is_default` beside a default that is
  there: two requests one after another leave an account two defaults (`doubled`), until it chooses one.
* **The pickups** of a profile (`findPickupArticles`, `articlesRepository.ts:524`) are read without a filter on visibility
  or trash, and `createPickupArticle` asks nothing of the article. Only the page itself (`getArticle`) is modelled as a reader,
  so `ReadersMayRead` says nothing of the lists.
* **The permission of a page** and that of its requests differ for two queries (`Ungranted` in Navigation): the page of the webhooks is
  offered for `system.webhook.manage` alone and asks for the server's settings whoever opens it (`Webhooks.tsx:62`), and so does the page
  of the sign-in for `system.idp.manage`; the settings need `system.settings.manage`. `PagesMatchRoutes` says that there is no third.
* **`idpRouter`** asks `system.idp.manage` of everything under `/admin`, whatever router the request is
  for, while `constants/permissions.ts:66-67` and `src/docs/development.md:457` describe one permission per area;
  `Ungranted` is what remains for somebody who has it.
* **The maintenance mode** is bypassed by the role named admin (`siteAccess.ts:41`), not by the permission to bypass it
  (`constants/permissions.ts:69`), which is what the client goes by. `ShownPagesAreAdmitted` leaves out who has the one without the other.
* **Hooks** that do not invalidate a query of their own page although they change what it reads:
  `LeftOut` in Browser lists them, among them `useAssignRoles`, `useSaveWebhook` and `useFollowBack`; `HooksCoverPages` says
  that there are no others.
* **`useToggleDefaultStock`** turns the flag of the lists in the cache and does not ask for them again: after a change from
  another tab, or a fetch between the write and the answer, the page shows the opposite of what is stored.
* **A like** gives up the fetch in flight; when the call then fails, nobody asks for it again (`missed` in Browser).

## 5. Proofs

The theorems of a component are in a module `<Component>_proofs` that extends it. Four small components
share one with a neighbour: `SignIn_proofs` also holds Shell's (the tab renews what a login opened),
`Settings_proofs` Startup's (whose variables and steps are part of Settings) and Delivery's, `Roles_proofs`
Browser's and Navigation's, in its last parts. `Articles_proofs` is about Groups and Articles together.

The theorems hold for every value of the constants: any number of handlers, accounts, roles, tokens, sessions,
browsers, articles, groups, lists, comments, providers, secrets, settings, requests, restarts, rows and
files. They assume what the modules assume of the constants, each an `ASSUME` that TLC evaluates in the runs:

* `ConstantsAssumption` (finitely many accounts, the admin role is built in, dependencies relate permissions),
  `SeedAssumption` (the instance starts with an administrator, everybody has roles, seeded roles are closed);
* `BoundsAssumption`, `OwnerAssumption` (every browser is of an account), `ShellBounds`, `BrowserBound`,
  `DeliveryConstants`, `StartupAssumption`: types of the parameters;
* `ArchiveAssumption` (the backup, the live instance and what other requests write can be told apart);
* `GroupsAssumption`, `FirstOwners` (the first groups are of the group ids and have one owner each),
  `ArticlesAssumption`, `CommunityAssumption` (the value that stands for "no owner" is no account and no article);
* `SignInAssumption` (there is room for the two accounts the running instance starts with; providers of the
  environment and SAML providers are providers);
* `SettingsAssumption` (the keys of switches and of the storage form differ, as they do in the code; the rows in
  a backup are rows that an instance can have: `Tables`);
* `ViewersAssumption` (permissions are an account's and come with those they depend on, which `RolesStayClosed` proves of every role);
* `RouteNames` (the pages that the guards name are pages of the kinds their names say);
* `HooksCoverPages`, which is about the tables of the client and has no parameter: of the mutations and queries that one page
  holds, those where the hook leaves alone a query whose rows the mutation changes are exactly `LeftOut`. It is a closed formula,
  which TLC evaluates over the whole tables; they are put together with `@@`, which the provers cannot
  expand. The theorem about the cache needs of it nothing but the types, since `ShowsOwnWrites` itself names the hooks (`Covers`).

`PagesMatchRoutes` is of the same kind and carries no theorem: the queries that a page asks for at once, and that the
server refuses to somebody who may open the page and holds `system.idp.manage`, are exactly `Ungranted`.

A theorem that holds only when requests come one at a time says so in its hypothesis.

| Theorem | Says | Inductive invariant |
|---|---|---|
| `Roles_proofs!TypeCorrect` | `TypeOK` | itself |
| `PermissionsNeverEscalate` | `NoEscalation` | `EscalationInv` |
| `RolesStayClosed` | `PermissionsClosed` | `ClosedInv` |
| `EveryoneKeepsARole` | `NobodyLeftRoleless` | itself, with `TypeOK` |
| `OneHandlerKeepsAnAdministrator` | `AdministrationRecoverable`, one handler | `AdminInv` |
| `OneHandlerReplacesRoles` | `AssignmentReplacesRoles`, one handler | `ErasedInv` |
| `PasswordReset_proofs!TypeCorrect` | `TypeOK` | with `TokenRows` |
| `ResetSignsOut` | `OlderSessionsEnd` | `OlderInv` |
| `ResetSpendsLinks` | `ResetSpendsTokens` | `SpendInv` |
| `OneLink`, `LinksResetOnce` | `OneUsableToken`, `TokenSingleUse`, until requests on links overlap (`tangled`) | `SerialInv` |
| `MailedLinksWork` | `MailedTokenWorks`, likewise | `SerialInv` |
| `Sessions_proofs!TypeCorrect` | `TypeOK` | itself |
| `EndedSessionsStayEnded` | `EndedStaysEnded` | `TypeOK` |
| `OnlyLogoutEnds` | `OnlyLogoutEndsLive` | `TypeOK` |
| `LogoutFromAllDevices` | `LogoutAllEnds` | `LogoutAllInv`, `RowsKnown` |
| `RotationKeepsUp` | `CookieCurrent` | `CookieInv` |
| `CalmLogoutEnds` | `LogoutEndsItsSession` | `CookieInv` |
| `Restore_proofs!TypeCorrect` | `TypeOK`, any number of restores | itself |
| `SessionsEnd`, `ContentsReplaced` | `RestoredSessionsInvalid`, `RestoreReplaces`, one restore | `OneInv` |
| `RollsBack`, `CacheFollows` | `FailedRestoreRollsBack`, `CacheFollowsRestore`, one restore | `OneInv` |
| `LockHeld` | `LockHeldWhileReplacing`, one restore | `OneInv` |
| `WhyRestoresFail` | `OutcomesExplained`: no restore succeeds where the maintenance mode is managed, and elsewhere one fails by a fault only; one restore | `OneInv`, `Excused` |
| `GroupsAndArticlesHold` | `ArticlesConsistent` | `GroupInv`, `ArtInv` |
| `ActorsMayAct` | `ActsManaged` | `GroupInv`, `ArtInv` |
| `ReadersAreEntitled` | `ReadersMayRead` | `GroupInv`, `ArtInv` |
| `NumbersAreMarks` | `NumbersMatch`: a button's number is the number of its rows, finitely many accounts and lists | itself, each step being one of `Marks` (`Buttons`) |
| `ButtonsKeepTheirPromise` | `ButtonsAreMarks`: `Community` implements `Marks` | `ButtonInv` |
| `CommunityStaysConsistent` | `CommunityConsistent`, finitely many accounts and lists | `PlaceInv`, `ButtonInv` |
| `LimitsAreKept` | `LimitsKept` | `LimitInv` |
| `NobodyIsLockedOut` | `NobodyLockedOut` | `BaseInv`, `Confirmed` |
| `SecondFactorIsKept` | `SecondFactorKept` | `BaseInv`, `Alone`, `FactorInv` |
| `EveryoneKeepsAWayIn` | `WaysIn` | `BaseInv`, `Alone`, `FactorInv`, `WaysInv` |
| `SettingsStayInAgreement` | `SettingsAgree` | `SettingsInv` |
| `SecretIsKept` | `SecretKept` | `SettingsInv` |
| `CommentsDelivered` | `DeliveryKept` | `DeliveryInv`, `Posted` |
| `TabStaysSignedIn` | `SignedOutJustly` | `ShellInv` |
| `PagesShowOwnWrites` | `ShowsOwnWrites` | `BrowserInv` |
| `ShownAreAdmitted` | `ShownPagesAreAdmitted` | `NavInv` |
| `GuardsEnd` | `RedirectsEnd` | `NavInv`, `RouteNames` |

Each proof has the same shape: the invariant holds initially, every action keeps it, it
implies the property. What makes each one inductive:

* `EscalationInv`: the checks are made against what the actor had *when it was read*, so
  the invariant bounds not the current permissions but a pool that all acting accounts
  started from, and says of every handler past its check that what it is about to write
  stays in that pool.
* `ClosedInv`: what a handler is about to write is already closed, because
  `Normalize` is applied before the await; `NormalizeClosed` is the lemma about it.
* `AdminInv`: between the count and the write of a single handler nothing changes, so
  what `CountAdmins` saw still holds. With two handlers this is false, and
  `roles_last_admin` shows the step that breaks it.
* `OlderInv`: session ids are never used again, so what a reset saw and deleted cannot
  come back; this needs no serialisation.
* `SpendInv`: a used token stays used, whoever used it; `TokenWriters`
  and `SessionWriters` say which actions touch a table.
* `SerialInv`: as long as nothing is `tangled`, one request is on links at a time (`OneByOne`), and `LinkInv(r)` says for each
  place it can be interrupted at what the token it works on is. Logins and password changes run beside it
  and touch no token. Once two overlap it is false.
* `LogoutAllInv`: ids are given out in order, so the rows a `/logout/all` saw can only
  disappear; a refresh running at the time updates a row and never inserts one.
* `CookieInv`: a held cookie identifies one session (`HeldSane`); no two browsers, and no
  browser and an undelivered login, hold the same one (`HeldApart`); an answer in flight
  carries the tokens its row has (`RequestInv`); a browser that is not upset has the
  current token or the answer with it on its way (`CalmInv`). Each needs the others: the
  rotation of one browser leaves another's token alone only because the two hold
  different sessions.
* `OneInv(r)` is six predicates of the restore in slot `r`: `LockInv` (the lock is held
  exactly past the safety copy), `FlagsInv` (the flags of the catch block tell how far the
  restore came), `CopiesInv` (what was not started is as before, what was is in the safety
  copies), `ForwardInv` and `BackwardInv` (how much of the backup, or of the old contents,
  is in place at each command), `EndedInv` (what the outcome promises). Nothing else is
  needed for a failure at any command because `CatchPC` decides by the flags alone
  (`CaughtStep`, `UncaughtStep`). With two slots `LockInv` is false: `Finally` of one
  releases the other's lock.
* `Excused`: without a managed setting the only throws are `Lock` on a taken lock, which
  `LockInv` excludes, and faults (`ExcusedUnmanaged`); with one, every way to the end leads through the
  catch block, since `MaintenanceOff` comes before the outcome and throws (`ExcusedManaged`).
* `GroupInv`: `Owned` is one owner or a group whose owner was added again. It needs of the requests in flight what
  no other request can take back (`Lasting`: no request past its check would write "owner", nor over an
  owner's role) and what holds until one is overtaken (`Current`: the roles it read are the roles there are).
  `RoleWritten` is the lemma that one written role leaves both.
* `ArtInv`: the text of a published row that is not `torn` is one in all copies (`RowGood`); a rollback writes back what it read, which is still there unless another
  request was on the article at the time. `Apart` says that of two requests on one article (`Together`) neither counts as calm,
  unless the other one only reads, and neither creates it, hence an id's author never changes under a request that may touch it (`JobGood`), and a notice about to be stored
  is of an article that may be announced or was written since (`NoticeGood`).
* `ButtonInv` is types; the argument is in the steps: a toggle that inserts a row that is there, or deletes one that is not, moves no
  number, and an erased article takes its rows and its number with it.
* `ErasedInv`: the transaction of an assignment erases the rows that its first statement saw and inserts the new
  ones. With one handler the rows it saw are all there are; with two, a row that the other inserts in between stays.
* `PlaceInv`: a comment is on an article that is there, a row of a relation points at something that is there, and the
  number of an article's comments is the number of its rows. Every erasure takes its rows with
  it in the same step, so this needs nothing of the requests in flight; the finiteness in the hypothesis is what
  makes counting rows meaningful.
* `LimitInv`: `Solo` says that two requests for a limited thing of one account are in flight together only when the
  account is marked as overlapped (`crowded`). For the others what was looked at still holds at the write: there is
  room (`HasRoom`), and the defaults that will be cleared are all there are (`SawDefaults`), which is why choosing
  a default ends a second one and takes the account out of `doubled`.
* `BaseInv` is the shape of SignIn: what a request holds fits the place it is at (`JobFits`), and the tables of
  accounts, links, factors and identities are of accounts that were made. Most of the work is in
  `JobFits`, since a request keeps a provider, an account or a link over up to five awaits.
* `Confirmed`: an account with a password that is not marked as confirmed was asked to confirm, or its registration is
  still under way and will mark it, or that failed. `MarkVerified` is the step the proof is about; the failure is
  `Fail` at that await, which the code does not repair and the property names as an excuse.
* `Alone`: what a request checks and then writes (`Touches`: a factor, the ways in of an account, an identity at a
  provider) no other request in flight touches, unless the two are excused. Everything below that says "not excused"
  rests on it.
* `FactorInv`: a request whose account has the factor on never passes the place where the code is asked for
  (`Guarding`), and a confirmation that is about to turn a secret on has seen a code of that same secret (`Shown`),
  although the secret is read twice: the replacement of a secret in between is a request that touches the same factor.
* `WaysInv`: an unlink that is about to delete has counted an identity of another provider and it is still there
  (`CountedMore`); a callback that is about to link or create found nobody with the identity and there still is
  nobody (`FoundNobody`). The count means what it should only because an account has one identity of each provider
  (`OneOfEach`), an identity one account (`OneHolder`), and a provider that goes takes its
  identities with it (`ProvidersThere`).
* `SettingsInv` adds to Startup's invariant and the types: no other request in flight writes the keys of a request
  that is `calm` (`Apart`); hence what it has written, or read, is still what is stored at its next statement
  (`FormsKept`, case by case in `Faithful`); a switch that was not raced, with no request between
  its row and the cache, is cached as stored, and one the environment sets always has the environment's value
  (`CacheInv`); a storage form that was applied in part is remembered as spoiled, and otherwise the client in use is
  that of the stored, valid settings (`StoreInv`). Before `listening` there are no requests (`NotYet`), so that loading
  the settings is the only writer of the cache. `CacheInv` is false without `FormsKept`: what `set` puts in the cache
  is what it was asked to store, not what it reads back.
* `DeliveryInv`: who has been told is remembered in the handler (`told`), and the second notice of one
  comment is for somebody else (`NoticesGood`); what a fetch has read is what there is unless the stream
  has announced something since (`BellGood`).
* `ShellInv`: while the session lives and nothing was lost, at most one refresh is under way and it has the server's token
  (`RefreshGood`); a request that would fall back on the refresh token by itself left with an access token that
  outlives it (`RequestGood`). That is why the shared refresh and the early one are both needed.
* `BrowserInv`: what was read after the last success, or will be (`FreshInv`): a fetch under way at the success is
  given up and repeated by the invalidation; one that the cache shares instead, one that a like gave up and a flag turned in other data
  than the call found are remembered (`missed`) until the query is asked for anew. A like keeps what was there before it
  (`prior`), as new as the last success, and stores it again when the call fails. The step of a success is where `Covers` is
  used: a hook that left the query alone would leave the old answer in place.
* `NavInv`: a page that is shown is `Final`, that is, no guard of it throws; one that was reached by a redirect is Home or final, and
  Home leads to the notice of the maintenance or to Login, which are final where they are led to (`RedirectsLead`, `HomeIsLeftOnce`).
  The proof needs the redirects tried in the order of the code: were the notice or Login not exempt from the rule that sends people there, nobody
  would arrive. TLC's run has one role per permission and the visitor; the theorems are about every closed set of permissions.

Every safety invariant and every action property that a passing run checks is a theorem.
**Model-checked only**:

* `LockReleased`, `StartupEnds`, `SavesEnd`: liveness; fairness and `ENABLED` are outside the prover's reach.
* `HooksCoverPages` and `PagesMatchRoutes`, evaluated by TLC, as said above.
* The runs `roles_last_admin` and `restore_managed`, which are counterexamples: with two handlers `LastAdminStays` is false, and
  so is `FailsOnlyOnFault` with a managed setting.

The hypotheses "one handler" and "one restore" mark what overlaps can break: a second
assignment's rows survive the first, a second restore releases the lock. The excuses of the others (`tangled`, `crowded`, `excused`,
`raced`, `spoiled`, `upset`, `overtaken`, `stale`) mark the overlaps the code does not guard against, `torn` and `doubled` also
what one request after another can do, as section 4 says.

## 6. What is not modelled

* **Backup export** changes no state; what a restore does with an archive is in Restore. **Server
  events** are a log no decision reads. **Sharing, OGP images, diagrams** and the **rendering** of the
  client are pure input and output. **End-to-end tests and documents** are read as statements of what
  the server promises.
* **API keys**: `Routes` and `Navigation` are about callers with cookies. `X-API-Key` callers pass the same guards
  with the permissions of their key.
* **Storage back ends** (local, S3, Azure Blob) put, get and delete one object; a failure of one is an
  action of Restore, and a storage managed by the environment has no form to save. Mail is an action that may fail (SignIn, PasswordReset).
* **Articles**: tags, uploads and the search syntax; the lists, what they show and in which order. `ReadForNotice` has one slot for each
  article, so that of two publications close to one another one notice is followed. **Users**: profile fields and avatars
  are single statements and appear in `Tables` as what they read and write. **Webhooks**: the template is a pure function whose
  result no property looks at; there is no retry to model.
* **The client's** `refetchOnReconnect` and what is typed into a form while its query is
  fetched again. A mutation and a query of different pages share nothing but the key, which `Browser` already
  follows from page to page through leaving and coming back.
* **`serverSettingsService.delete`** has no caller. In Settings the last step of a restore (turning
  maintenance off) is left to Restore.
* **Pure functions** (search parser, template evaluation, validation of forms) are abstracted to what
  they accept.

Within the modelled components: `pg_restore --clean` replaces every table, while tables that only a later migration made
stay behind in the code (no property looks at one); archive parsing is one step that accepts or refuses, and a
temporary directory that cannot be made ends the request before anything is changed or locked;
password hashing, tokens and codes are equality of model values; rate limits are left
out (they only remove behaviours). The time
between a check and its use is unbounded: a property that holds here holds whatever the
delays, and one that needs them is not claimed.

## 7. Plan

What would come next, the most consequential first.

1. Abstract specifications of SignIn (a session is opened by a password and, when it is on, the factor) and of Settings
   (one register per key), implemented as `Community` implements `Marks`.
2. Callers with API keys beside cookies in `Routes`; the lists of articles, the pickups among them, as readers beside the page.
3. Two processes over one database: the cache of the settings, streams and flows are kept per process.
4. The search query parser and template evaluation against reference definitions.

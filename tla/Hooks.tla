-------------------------------- MODULE Hooks --------------------------------
(* The hooks of src/client/src/hooks: what each query keeps under which key of  *)
(* the query cache, and what each mutation does to the cache when its call has  *)
(* succeeded.  Identifiers in a key are left out: the hooks are taken to be     *)
(* about one object.                                                            *)
EXTENDS TLC, Naturals, Sequences

Query(key, call) == [key |-> key, call |-> call]

AdminQueries == [
  useAdminUsersQuery     |-> Query(<<"admin", "users">>, "fetchAdminUsers"),
  useIdpConfigQuery      |-> Query(<<"admin", "idps", "config">>, "fetchIdpConfig"),
  useIdpListQuery        |-> Query(<<"admin", "idps">>, "fetchIdpList"),
  useServerSettingsQuery |-> Query(<<"admin", "server-settings">>, "fetchServerSettings"),
  useAdminStatusQuery    |-> Query(<<"admin", "status">>, "fetchAdminStatus") ]

ArticleQueries == [
  useArticleQuery          |-> Query(<<"articles", "detail">>, "fetchArticle"),
  useArticlesInfiniteQuery |-> Query(<<"articles">>, "fetchArticles"),
  useRecommendedArticlesInfiniteQuery |->
    Query(<<"articles", "recommends">>, "fetchRecommendedArticles"),
  useTrendArticlesInfiniteQuery |-> Query(<<"articles", "trends">>, "fetchTrendArticles"),
  useArticleOwnershipQuery |-> Query(<<"articles", "ownership">>, "fetchArticleOwnership"),
  useArticleLikeUsersQuery |-> Query(<<"articles", "likes">>, "fetchArticleLikeUsers"),
  useArticleIsLikedQuery   |-> Query(<<"articles", "is-liked">>, "fetchArticleIsLiked"),
  useUserArticlesQuery     |-> Query(<<"articles", "mine">>, "fetchUserArticles"),
  useTrashArticlesQuery    |-> Query(<<"articles", "trash">>, "fetchTrashArticles"),
  useMarpQuery             |-> Query(<<"articles", "marp">>, "fetchMarp") ]

AuthQueries == [
  useAuthUserQuery       |-> Query(<<"authUser">>, "fetchAuthUser"),
  useUploadedImagesQuery |-> Query(<<"uploaded_images">>, "fetchUploadedImages"),
  useActiveIdpsQuery     |-> Query(<<"activeIdp">>, "fetchActiveIdps"),
  useUserIdpInfoQuery    |-> Query(<<"userAvatars">>, "fetchUserIdpInfo"),
  useSessionDevicesQuery |-> Query(<<"device">>, "fetchSessionDevices"),
  useApiKeysQuery        |-> Query(<<"user-api-keys">>, "fetchApiKeys") ]

CommentQueries == [
  useCommentsQuery         |-> Query(<<"comments", "article">>, "fetchComments"),
  useCommentLikeUsersQuery |-> Query(<<"comments", "likes">>, "fetchCommentLikeUsers"),
  useCommentIsLikedQuery   |-> Query(<<"comments", "is-liked">>, "fetchCommentIsLiked") ]

NotificationQueries == [
  useNotificationsQuery |-> Query(<<"notifications", "list">>, "fetchNotifications"),
  useUnreadNotificationCountQuery |->
    Query(<<"notifications", "unread-count">>, "fetchUnreadCount"),
  useNotificationPreferencesQuery |->
    Query(<<"notifications", "preferences">>, "fetchNotificationPreferences") ]

RoleQueries == [
  useMyPermissionsQuery     |-> Query(<<"my-permissions">>, "fetchMyPermissions"),
  usePermissionCatalogQuery |-> Query(<<"permission-catalog">>, "fetchPermissionCatalog"),
  useRolesQuery             |-> Query(<<"roles", "list">>, "fetchRoles") ]

EventQueries == [useServerEventsQuery |-> Query(<<"server-events", "list">>, "fetchServerEvents")]
SmtpQueries == [useSmtpSettingsQuery |-> Query(<<"smtp", "settings">>, "fetchSmtpSettings")]
StorageQueries ==
  [useStorageSettingsQuery |-> Query(<<"storage", "settings">>, "fetchStorageSettings")]

StockQueries == [
  useStockLists        |-> Query(<<"stocks", "lists", "mine">>, "fetchMyStockLists"),
  useArticleStockLists |-> Query(<<"stocks", "lists", "article">>, "fetchMyStockLists"),
  usePublicStockLists  |-> Query(<<"stocks", "lists", "public">>, "fetchPublicStockLists"),
  useStockListDetail   |-> Query(<<"stocks", "detail">>, "fetchStockListDetail"),
  useStockListLike     |-> Query(<<"stocks", "likes">>, "fetchStockListLike") ]

TagQueries == [
  useTagsQuery            |-> Query(<<"tags", "list">>, "fetchTags"),
  useTagQuery             |-> Query(<<"tags", "detail">>, "fetchTag"),
  useFollowingTagsQuery   |-> Query(<<"tags", "following">>, "fetchFollowingTags"),
  useMyFollowingTagsQuery |-> Query(<<"tags", "my-following">>, "fetchMyFollowingTags"),
  useTagFollowStateQuery  |-> Query(<<"tags", "follow-state">>, "fetchTagFollowState") ]

UserQueries == [
  useUserQuery               |-> Query(<<"users", "detail">>, "fetchUser"),
  useUserFollowingStateQuery |-> Query(<<"users", "following-state">>, "fetchIsFollowing"),
  useFollowingQuery          |-> Query(<<"users", "following">>, "fetchFollowing"),
  useFollowersQuery          |-> Query(<<"users", "followers">>, "fetchFollowers"),
  useUserCommentCountQuery   |-> Query(<<"users", "comment-count">>, "fetchUserCommentCount"),
  useUserArticleCountQuery   |-> Query(<<"users", "article-count">>, "fetchUserArticleCount"),
  usePickupArticlesQuery     |-> Query(<<"users", "pickup">>, "fetchPickupArticles"),
  useUserRankingQuery        |-> Query(<<"users", "ranking">>, "fetchUserRanking") ]

(* The hooks with the scope of the administration and with the scope "user".    *)
WebhookQueries == [
  useWebhookMetadataQuery   |-> Query(<<"webhooks", "admin", "metadata">>, "fetchWebhookMetadata"),
  useWebhooksQuery          |-> Query(<<"webhooks", "admin", "list">>, "fetchWebhooks"),
  useWebhookQuery           |-> Query(<<"webhooks", "admin", "detail">>, "fetchWebhook"),
  useWebhookDeliveriesQuery |->
    Query(<<"webhooks", "admin", "deliveries">>, "fetchWebhookDeliveries"),
  usePublishWebhookOptionsQuery |->
    Query(<<"webhooks", "publish-options">>, "fetchPublishWebhookOptions"),
  useOwnMetadataQuery       |-> Query(<<"webhooks", "user", "metadata">>, "fetchOwnMetadata"),
  useOwnWebhooksQuery       |-> Query(<<"webhooks", "user", "list">>, "fetchOwnWebhooks"),
  useOwnWebhookQuery        |-> Query(<<"webhooks", "user", "detail">>, "fetchOwnWebhook"),
  useOwnDeliveriesQuery     |->
    Query(<<"webhooks", "user", "deliveries">>, "fetchOwnDeliveries") ]

PublicSettingsQueries ==
  [usePublicServerSettings |-> Query(<<"publicServerSettings">>, "fetchPublicServerSettings")]
RegistrationQueries ==
  [useLocalRegistrationStatus |->
     Query(<<"localRegistrationStatus">>, "fetchLocalRegistrationStatus")]

(* Queries the group pages and the sign-in pages build themselves.              *)
GroupQueries == [
  groups          |-> Query(<<"groups">>, "fetchGroups"),
  groupFeed       |-> Query(<<"groups", "feed">>, "fetchGroupFeed"),
  group           |-> Query(<<"groups", "slug">>, "fetchGroup"),
  groupEdit       |-> Query(<<"groups", "slug", "edit">>, "fetchGroup"),
  groupFollowing  |-> Query(<<"groups", "slug", "following">>, "fetchGroupFollowing"),
  followedGroups  |-> Query(<<"groups", "following">>, "fetchFollowedGroupsByUser"),
  joinedGroups    |-> Query(<<"groups", "joined">>, "fetchJoinedGroupsByUser"),
  myGroups        |-> Query(<<"groups", "me">>, "fetchMyGroups") ]
PageQueries == [
  userArticles        |-> Query(<<"articles", "user">>, "articlesOfUser"),
  tagArticles         |-> Query(<<"articles", "tag">>, "fetchArticles"),
  searchedArticles    |-> Query(<<"articles", "search">>, "fetchArticles"),
  pickupCandidates    |-> Query(<<"articles", "user", "infinite">>, "articlesOfUser"),
  passwordResetStatus |-> Query(<<"passwordResetStatus">>, "passwordResetStatus"),
  usernameRules       |-> Query(<<"username-rules">>, "usernameRules"),
  plantuml            |-> Query(<<"plantuml">>, "plantuml") ]

Queries ==
  AdminQueries @@ ArticleQueries @@ AuthQueries @@ CommentQueries @@ NotificationQueries
    @@ RoleQueries @@ EventQueries @@ SmtpQueries @@ StorageQueries @@ StockQueries
    @@ TagQueries @@ UserQueries @@ WebhookQueries @@ PublicSettingsQueries
    @@ RegistrationQueries @@ GroupQueries @@ PageQueries

(* A mutation: the call it makes, the keys it invalidates, the key it sets from  *)
(* the answer or changes by a flag of the old data, the keys whose requests it  *)
(* gives up before the call and those it guesses the outcome of, and whether it *)
(* stays pending until the invalidated queries that are shown have been fetched *)
(* again.                                                                       *)
Mutation(call, drops, waits) ==
  [call |-> call, drops |-> drops, sets |-> <<>>, flips |-> <<>>, cancels |-> {},
   guesses |-> {}, waits |-> waits]
Await(call, drops) == Mutation(call, drops, TRUE)
Fire(call, drops) == Mutation(call, drops, FALSE)

AdminMutations == [
  useUpdateIdpConfig       |-> Await("updateIdpConfig",
                                     {<<"admin", "idps", "config">>, <<"admin", "idps">>}),
  useToggleIdpActive       |-> Await("toggleIdpActive",
                                     {<<"admin", "idps", "config">>, <<"admin", "idps">>}),
  useTestIdpConnectivity   |-> Fire("testIdpConnectivity", {}),
  useCleanupIdpRegistry    |-> Await("cleanupIdpRegistry", {<<"admin", "idps">>}),
  useToggleAdminUserActive |-> Await("toggleAdminUserActive", {<<"admin", "users">>}),
  useDeleteIdpConfig       |-> Await("deleteIdpConfig",
                                     {<<"admin", "idps">>, <<"admin", "idps", "config">>}),
  useUpdateServerSetting   |-> Await("updateServerSetting",
                                     {<<"admin", "server-settings">>, <<"publicServerSettings">>,
                                      <<"localRegistrationStatus">>}) ]

LikedKeys == {<<"articles", "detail">>, <<"articles", "likes">>, <<"articles", "is-liked">>}

ArticleMutations == [
  useCreateArticle      |-> Fire("createArticle", {<<"articles">>, <<"articles", "mine">>}),
  useEditArticle        |-> Fire("editArticle", {<<"articles">>, <<"articles", "detail">>,
                                                 <<"articles", "mine">>}),
  useToggleArticleLike  |->
    [Fire("toggleArticleLike", LikedKeys)
       EXCEPT !.cancels = LikedKeys,
              !.guesses = {<<"articles", "detail">>, <<"articles", "is-liked">>}],
  useUploadArticleImage |-> Fire("uploadArticleImage", {}),
  useRollbackArticle    |-> Fire("rollbackArticle",
                                 {<<"articles", "mine">>, <<"articles", "detail">>}),
  useDeleteArticle      |-> Fire("deleteArticle",
                                 {<<"articles">>, <<"articles", "mine">>,
                                  <<"articles", "trash">>, <<"articles", "detail">>}),
  useRestoreArticle     |-> Fire("restoreArticle",
                                 {<<"articles">>, <<"articles", "mine">>,
                                  <<"articles", "trash">>, <<"articles", "detail">>}),
  useHardDeleteArticle  |-> Fire("hardDeleteArticle", {<<"articles", "trash">>}) ]

AuthMutations == [
  useVerifySetup2FA    |-> Await("verifySetup2FA", {<<"authUser">>}),
  useSetup2FA          |-> Fire("setup2FA", {}),
  useDelete2FA         |-> Await("delete2FA", {<<"authUser">>}),
  useUpdateUserInfo    |-> Await("updateUserInfo", {<<"authUser">>}),
  useUpdateUsername    |-> Await("updateUsername", {<<"authUser">>}),
  useSwitchAvatar      |-> Await("switchAvatar", {<<"authUser">>, <<"userAvatars">>}),
  useUnlinkIdentity    |-> Await("unlinkIdentity", {<<"authUser">>, <<"userAvatars">>}),
  useUploadLocalAvatar |-> Await("uploadLocalAvatar", {<<"authUser">>, <<"userAvatars">>}) ]

DeviceMutations == [
  useLogoutSession |-> Fire("logoutSession", {<<"device">>}),
  useCreateApiKey  |-> Fire("createApiKey", {<<"user-api-keys">>}),
  useRevokeApiKey  |-> Fire("revokeApiKey", {<<"user-api-keys">>}) ]

(* No query keeps a comment of its own, so its likes are never guessed.         *)
PraisedKeys == {<<"comments", "detail">>, <<"comments", "likes">>, <<"comments", "is-liked">>}

CommentMutations == [
  useCreateComment     |-> Fire("createComment", {<<"comments", "article">>}),
  useSoftDeleteComment |-> Fire("softDeleteComment", {<<"comments", "article">>}),
  useToggleCommentLike |->
    [Fire("toggleCommentLike", PraisedKeys \cup {<<"comments", "article">>})
       EXCEPT !.cancels = PraisedKeys] ]

(* useFollowBack names keys that no query uses any more.                        *)
NotificationMutations == [
  useMarkNotificationRead     |-> Await("markNotificationRead", {<<"notifications">>}),
  useMarkAllNotificationsRead |-> Await("markAllNotificationsRead", {<<"notifications">>}),
  useDeleteNotification       |-> Await("deleteNotification", {<<"notifications">>}),
  useDeleteAllNotifications   |-> Await("deleteAllNotifications", {<<"notifications">>}),
  useFollowBack               |-> Await("followBack",
                                        {<<"notifications">>, <<"isFollowing">>,
                                         <<"following">>, <<"follower">>}),
  useUpdateNotificationPreferences |->
    [Fire("updateNotificationPreferences", {})
       EXCEPT !.sets = <<"notifications", "preferences">>] ]

RoleMutations == [
  useCreateRole  |-> Await("createRole", {<<"roles">>}),
  useUpdateRole  |-> Await("updateRole", {<<"roles">>, <<"my-permissions">>}),
  useDeleteRole  |-> Await("deleteRole", {<<"roles">>}),
  useAssignRoles |-> Await("assignRoles", {<<"users">>, <<"my-permissions">>}) ]

SmtpMutations == [
  useUpdateSmtpSettings |-> Await("updateSmtpSettings", {<<"smtp", "settings">>}),
  useSendSmtpTest       |-> Fire("sendSmtpTest", {}) ]
StorageMutations ==
  [useUpdateStorageSettings |-> Await("updateStorageSettings", {<<"storage", "settings">>})]

StockMutations == [
  useToggleArticleStock |-> Fire("toggleArticleStock",
                                 {<<"stocks", "lists">>, <<"stocks", "detail">>}),
  useCreateStockList    |-> Fire("createStockList", {<<"stocks", "lists">>, <<"tags">>}),
  useUpdateStockList    |-> Fire("updateStockList",
                                 {<<"stocks", "lists">>, <<"stocks", "detail">>, <<"tags">>}),
  useDeleteStockList    |-> Fire("deleteStockList",
                                 {<<"stocks", "lists">>, <<"stocks", "detail">>}),
  useToggleDefaultStock |->
    [Fire("toggleDefaultStock", {<<"stocks", "lists", "mine">>, <<"stocks", "detail">>})
       EXCEPT !.flips = <<"stocks", "lists", "article">>],
  useLikeStockList      |-> Fire("likeStockList",
                                 {<<"stocks", "likes">>, <<"stocks", "detail">>}) ]

TagMutations == [
  useUpsertTag       |-> Await("upsertTag", {<<"tags", "list">>, <<"tags", "detail">>}),
  useToggleTagFollow |-> Await("toggleTagFollow",
                               {<<"tags", "follow-state">>, <<"tags", "my-following">>,
                                <<"tags", "detail">>}),
  useUploadTagAvatar |-> Fire("uploadTagAvatar", {}) ]

UserMutations == [
  useFollowUser          |-> Fire("followUser",
                                  {<<"users", "following-state">>, <<"users", "following">>,
                                   <<"users", "followers">>}),
  useCreatePickupArticle |-> Await("createPickupArticle", {<<"users", "pickup">>}),
  useDeletePickupArticle |-> Await("deletePickupArticle", {<<"users", "pickup">>}) ]

WebhookMutations == [
  useSaveWebhook           |-> Await("saveWebhook", {<<"webhooks", "admin", "list">>}),
  useDeleteWebhook         |-> Await("deleteWebhook", {<<"webhooks", "admin", "list">>}),
  useSetWebhookActive      |-> Await("setWebhookActive", {<<"webhooks", "admin", "list">>}),
  usePreviewWebhookPayload |-> Fire("previewWebhookPayload", {}),
  useTestWebhook           |-> Fire("testWebhook", {}),
  useSaveOwnWebhook        |-> Await("saveOwnWebhook", {<<"webhooks", "user", "list">>}),
  useDeleteOwnWebhook      |-> Await("deleteOwnWebhook", {<<"webhooks", "user", "list">>}),
  useSetOwnActive          |-> Await("setOwnActive", {<<"webhooks", "user", "list">>}),
  usePreviewOwnPayload     |-> Fire("previewOwnPayload", {}),
  useTestOwnWebhook        |-> Fire("testOwnWebhook", {}) ]

(* Mutations written in the group pages.                                        *)
GroupMutations == [
  createGroup        |-> Fire("createGroup", {<<"groups">>}),
  saveGroup          |-> Await("updateGroup", {<<"groups", "slug">>}),
  addGroupMember     |-> Fire("addGroupMember", {<<"groups", "slug">>}),
  changeGroupRole    |-> Fire("updateGroupMember", {<<"groups", "slug">>}),
  removeGroupMember  |-> Fire("removeGroupMember", {<<"groups", "slug">>}),
  removeGroup        |-> Fire("deleteGroup", {}),
  toggleGroupFollow  |->
    [Fire("toggleGroupFollowing", {}) EXCEPT !.sets = <<"groups", "slug", "following">>] ]

(* Signing in and out replaces the cache (Shell); these pages change no data     *)
(* that a query shows.                                                          *)
PageMutations == [
  useChangePassword |-> Fire("changePassword", {}),
  requestReset      |-> Fire("requestPasswordReset", {}),
  reset             |-> Fire("resetPassword", {}),
  register          |-> Fire("register", {}),
  exportArchive     |-> Fire("exportBackup", {}),
  restoreArchive    |-> Fire("restoreBackup", {}) ]

Mutations ==
  AdminMutations @@ ArticleMutations @@ AuthMutations @@ DeviceMutations @@ CommentMutations
    @@ NotificationMutations @@ RoleMutations @@ SmtpMutations @@ StorageMutations
    @@ StockMutations @@ TagMutations @@ UserMutations @@ WebhookMutations
    @@ GroupMutations @@ PageMutations

(* invalidateQueries({ queryKey }) reaches the keys that begin with it.         *)
Reaches(key, dropped) ==
  Len(dropped) <= Len(key) /\ SubSeq(key, 1, Len(dropped)) = dropped

Invalidates(m, q) == \E dropped \in Mutations[m].drops : Reaches(Queries[q].key, dropped)
Replaces(m, q) == Mutations[m].sets # <<>> /\ Mutations[m].sets = Queries[q].key
Flips(m, q) == Mutations[m].flips # <<>> /\ Mutations[m].flips = Queries[q].key
Cancels(m, q) == \E key \in Mutations[m].cancels : Reaches(Queries[q].key, key)
Guesses(m, q) == Cancels(m, q) /\ Queries[q].key \in Mutations[m].guesses
=============================================================================

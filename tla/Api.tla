--------------------------------- MODULE Api ---------------------------------
(* What the web client calls: every function of src/client/src/api and the      *)
(* request it sends.  Identifiers in a path are written ":id".                  *)
EXTENDS TLC

ArticleCalls == [
  createArticle            |-> "POST /articles/create",
  editArticle              |-> "PATCH /articles/:id/edit",
  fetchArticle             |-> "GET /articles/:id",
  fetchArticles            |-> "GET /articles",
  fetchRecommendedArticles |-> "GET /articles/recommends",
  fetchTrendArticles       |-> "GET /articles/trends",
  fetchArticleOwnership    |-> "GET /articles/:id/isowned",
  fetchArticleLikeUsers    |-> "GET /articles/:id/likes",
  fetchArticleIsLiked      |-> "GET /articles/:id/islike",
  toggleArticleLike        |-> "POST /articles/:id/like",
  fetchUserArticles        |-> "GET /articles/me",
  uploadArticleImage       |-> "POST /articles/upload",
  rollbackArticle          |-> "POST /articles/:id/rollback",
  deleteArticle            |-> "DELETE /articles/:id",
  fetchTrashArticles       |-> "GET /articles/trash/list",
  restoreArticle           |-> "POST /articles/:id/restore",
  hardDeleteArticle        |-> "DELETE /articles/:id/hard",
  fetchMarp                |-> "GET /articles/marp/:id" ]

CommentCalls == [
  fetchComments         |-> "GET /articles/:id/comments",
  createComment         |-> "POST /articles/:id/comments",
  softDeleteComment     |-> "DELETE /articles/:id/comments/:id",
  fetchCommentLikeUsers |-> "GET /articles/:id/comments/:id/likes",
  fetchCommentIsLiked   |-> "GET /articles/:id/comments/:id/islike",
  toggleCommentLike     |-> "POST /articles/:id/comments/:id/like" ]

AuthCalls == [
  fetchAuthUser       |-> "GET /me",
  login               |-> "POST /login",
  verifyLogin2FA      |-> "POST /login/verify-2fa",
  logout              |-> "POST /logout",
  setup2FA            |-> "GET /users/settings/setup2fa",
  verifySetup2FA      |-> "POST /users/settings/verify2fa",
  delete2FA           |-> "DELETE /users/settings/delete2fa",
  fetchUploadedImages |-> "GET /users/settings/uploaded_images",
  updateUserInfo      |-> "PUT /users/update/info",
  updateUsername      |-> "PUT /users/update/username",
  fetchActiveIdps     |-> "GET /idp/active",
  fetchUserIdpInfo    |-> "GET /users/settings/idpinfo",
  switchAvatar        |-> "POST /auth/avatar/select",
  unlinkIdentity      |-> "DELETE /auth/:id/unlink",
  uploadLocalAvatar   |-> "POST /users/settings/upload_avatar",
  fetchSessionDevices |-> "GET /devices",
  logoutAll           |-> "POST /logout/all",
  logoutSession       |-> "POST /logout/device/:id",
  fetchApiKeys        |-> "GET /users/settings/api-keys",
  createApiKey        |-> "POST /users/settings/api-keys",
  revokeApiKey        |-> "DELETE /users/settings/api-keys/:id" ]

GroupCalls == [
  fetchGroups               |-> "GET /groups",
  fetchMyGroups             |-> "GET /groups/me",
  fetchFollowedGroupsByUser |-> "GET /groups/users/:id/following",
  fetchJoinedGroupsByUser   |-> "GET /groups/users/:id/joined",
  fetchGroupFeed            |-> "GET /groups/feed",
  fetchGroupFollowing       |-> "GET /groups/:id/is-following",
  toggleGroupFollowing      |-> "POST /groups/:id/follow",
  fetchGroup                |-> "GET /groups/:id",
  createGroup               |-> "POST /groups",
  updateGroup               |-> "PATCH /groups/:id",
  deleteGroup               |-> "DELETE /groups/:id",
  addGroupMember            |-> "POST /groups/:id/members",
  updateGroupMember         |-> "PATCH /groups/:id/members/:id",
  removeGroupMember         |-> "DELETE /groups/:id/members/:id" ]

NotificationCalls == [
  fetchNotifications            |-> "GET /notifications",
  fetchUnreadCount              |-> "GET /notifications/unread-count",
  markNotificationRead          |-> "PATCH /notifications/:id/read",
  markAllNotificationsRead      |-> "PATCH /notifications/read-all",
  deleteNotification            |-> "DELETE /notifications/:id",
  deleteAllNotifications        |-> "DELETE /notifications",
  followBack                    |-> "POST /users/follow",
  fetchNotificationPreferences  |-> "GET /notifications/preferences",
  updateNotificationPreferences |-> "PUT /notifications/preferences" ]

AdminCalls == [
  fetchAdminUsers       |-> "GET /admin/settings/users",
  fetchIdpConfig        |-> "GET /admin/idp_settings/:id",
  fetchIdpList          |-> "GET /admin/idp_list",
  updateIdpConfig       |-> "POST /admin/idp_settings",
  fetchIdpDiscovery     |-> "GET /admin/idp_settings/discovery",
  toggleIdpActive       |-> "POST /admin/idp_settings/toggle_active/:id",
  testIdpConnectivity   |-> "POST /admin/idp_settings/:id/test",
  cleanupIdpRegistry    |-> "DELETE /admin/idp_registry/:id",
  toggleAdminUserActive |-> "POST /admin/settings/users/toggle_active/:id",
  deleteIdpConfig       |-> "DELETE /admin/idp_settings/:id",
  fetchServerSettings   |-> "GET /admin/settings/server",
  updateServerSetting   |-> "PUT /admin/settings/server",
  fetchAdminStatus      |-> "GET /admin/status" ]

RoleCalls == [
  fetchMyPermissions     |-> "GET /permissions/me",
  fetchPermissionCatalog |-> "GET /admin/permissions",
  fetchRoles             |-> "GET /admin/roles",
  createRole             |-> "POST /admin/roles",
  updateRole             |-> "PUT /admin/roles/:id",
  deleteRole             |-> "DELETE /admin/roles/:id",
  assignRoles            |-> "PUT /admin/settings/users/:id/roles" ]

EventCalls == [fetchServerEvents |-> "GET /admin/server-events"]

SmtpCalls == [
  fetchSmtpSettings  |-> "GET /admin/settings/smtp",
  updateSmtpSettings |-> "PUT /admin/settings/smtp",
  sendSmtpTest       |-> "POST /admin/settings/smtp/test" ]

StorageCalls == [
  fetchStorageSettings  |-> "GET /admin/settings/storage",
  updateStorageSettings |-> "PUT /admin/settings/storage" ]

StockCalls == [
  fetchMyStockLists     |-> "GET /stocks/mylists",
  fetchPublicStockLists |-> "GET /stocks/lists",
  fetchStockListDetail  |-> "GET /stocks/lists/:id",
  toggleArticleStock    |-> "POST /stocks/lists/:id/articles",
  createStockList       |-> "POST /stocks/lists",
  updateStockList       |-> "PATCH /stocks/lists/:id",
  deleteStockList       |-> "DELETE /stocks/lists/:id",
  toggleDefaultStock    |-> "POST /stocks/default/articles",
  fetchStockListLike    |-> "GET /stocks/lists/:id/islike",
  likeStockList         |-> "POST /stocks/lists/:id/like" ]

TagCalls == [
  fetchTags            |-> "GET /tags",
  fetchTag             |-> "GET /tags/:id",
  upsertTag            |-> "POST /tags",
  fetchFollowingTags   |-> "GET /users/:id/following_tags",
  fetchMyFollowingTags |-> "GET /users/tags/me",
  fetchTagFollowState  |-> "GET /tags/:id/isFollowing",
  toggleTagFollow      |-> "POST /tags/:id/follow",
  uploadTagAvatar      |-> "POST /tags/:id/upload_avatar" ]

UserCalls == [
  fetchUser             |-> "GET /users/:id",
  fetchIsFollowing      |-> "GET /users/:id/isfollowing",
  fetchFollowing        |-> "GET /users/:id/follow",
  fetchFollowers        |-> "GET /users/:id/follower",
  fetchUserCommentCount |-> "GET /users/:id/comments",
  fetchUserArticleCount |-> "GET /users/:id/articles",
  followUser            |-> "POST /users/follow",
  fetchPickupArticles   |-> "GET /users/:id/pickup",
  createPickupArticle   |-> "POST /users/pickup/create",
  deletePickupArticle   |-> "POST /users/pickup/delete",
  fetchUserRanking      |-> "GET /users/ranking/all" ]

WebhookCalls == [
  fetchWebhookMetadata       |-> "GET /admin/webhooks/metadata",
  fetchWebhooks              |-> "GET /admin/webhooks",
  fetchWebhook               |-> "GET /admin/webhooks/:id",
  fetchWebhookDeliveries     |-> "GET /admin/webhooks/:id/deliveries",
  fetchPublishWebhookOptions |-> "GET /webhooks/available/article-published",
  saveWebhook                |-> "PUT /admin/webhooks/:id",
  deleteWebhook              |-> "DELETE /admin/webhooks/:id",
  setWebhookActive           |-> "PATCH /admin/webhooks/:id/active",
  previewWebhookPayload      |-> "POST /admin/webhooks/preview",
  testWebhook                |-> "POST /admin/webhooks/test" ]

(* The same functions with the base path of a user's own webhooks.              *)
OwnWebhookCalls == [
  fetchOwnMetadata   |-> "GET /users/settings/webhooks/metadata",
  fetchOwnWebhooks   |-> "GET /users/settings/webhooks",
  fetchOwnWebhook    |-> "GET /users/settings/webhooks/:id",
  fetchOwnDeliveries |-> "GET /users/settings/webhooks/:id/deliveries",
  saveOwnWebhook     |-> "PUT /users/settings/webhooks/:id",
  deleteOwnWebhook   |-> "DELETE /users/settings/webhooks/:id",
  setOwnActive       |-> "PATCH /users/settings/webhooks/:id/active",
  previewOwnPayload  |-> "POST /users/settings/webhooks/preview",
  testOwnWebhook     |-> "POST /users/settings/webhooks/test" ]

PublicCalls == [
  fetchPublicServerSettings    |-> "GET /server/public-settings",
  fetchLocalRegistrationStatus |-> "GET /registration-status" ]

(* Requests the sign-in pages and the group pages send without an api function. *)
PageCalls == [
  exportBackup         |-> "POST /admin/backup/export",
  restoreBackup        |-> "POST /admin/backup/restore",
  passwordResetStatus  |-> "GET /password-reset/status",
  requestPasswordReset |-> "POST /password-reset/request",
  resetPassword        |-> "POST /password-reset/reset",
  changePassword       |-> "PUT /password/change",
  usernameRules        |-> "GET /username-rules",
  register             |-> "POST /register",
  verifyEmail          |-> "GET /email-verification/verify",
  resendVerification   |-> "POST /email-verification/resend",
  articlesOfUser       |-> "GET /articles/user/:id",
  plantuml             |-> "POST /plantuml/:id" ]

Calls ==
  ArticleCalls @@ CommentCalls @@ AuthCalls @@ GroupCalls @@ NotificationCalls
    @@ AdminCalls @@ RoleCalls @@ EventCalls @@ SmtpCalls @@ StorageCalls
    @@ StockCalls @@ TagCalls @@ UserCalls @@ WebhookCalls @@ OwnWebhookCalls @@ PublicCalls @@ PageCalls
=============================================================================

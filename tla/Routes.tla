------------------------------- MODULE Routes -------------------------------
(* The routers of src/server/src/routes: for each request the handler that      *)
(* answers it and what the caller must show first.  A request may pass several  *)
(* routers before the one that answers it: "use" guards a whole prefix, and     *)
(* contentAuthorizationRouter guards some of the content routes mounted later.  *)
EXTENDS TLC

(* Who may pass: anybody, a signed-in user, or one holding a permission of `any`. *)
Open == [login |-> FALSE, any |-> {}]
Signed == [login |-> TRUE, any |-> {}]
OneOf(perms) == [login |-> TRUE, any |-> perms]
Needs(perm) == OneOf({perm})

At(guard, handler) == [guard |-> guard, handler |-> handler]

ArticleReaders ==
     "GET /articles"            :> At(Open, "getArticles")
  @@ "GET /articles/trends"     :> At(Open, "getTrendingArticles")
  @@ "GET /articles/recommends" :> At(Open, "getRecommendArticles")
  @@ "GET /articles/me"         :> At(Signed, "getAllArticlesByUserId")
  @@ "GET /articles/user/:id"   :> At(Open, "getArticlesByUserId")

ArticleViews ==
     "GET /articles/:id.md"      :> At(Open, "getArticleMarkdown")
  @@ "GET /articles/marp/:id"    :> At(Open, "getArticleMarp")
  @@ "GET /articles/:id"         :> At(Open, "getArticle")
  @@ "GET /articles/:id/isowned" :> At(Signed, "getArticleIsOwned")
  @@ "POST /articles/:id/like"   :> At(Signed, "toggleLike")

ArticleWriters ==
     "GET /articles/:id/likes"  :> At(Open, "getArticleLikeUserByArticleId")
  @@ "GET /articles/:id/islike" :> At(Signed, "getIsLiked")
  @@ "POST /articles/create"    :> At(Signed, "createArticle")
  @@ "PATCH /articles/:id/edit" :> At(Signed, "updateArticle")

ArticleBin ==
     "POST /articles/:id/rollback" :> At(Signed, "rollBackDraft")
  @@ "DELETE /articles/:id"        :> At(Signed, "deleteArticle")
  @@ "GET /articles/trash/list"    :> At(Signed, "getDeletedArticlesByUserId")
  @@ "POST /articles/:id/restore"  :> At(Signed, "restoreArticle")
  @@ "DELETE /articles/:id/hard"   :> At(Signed, "hardDeleteArticle")
  @@ "POST /articles/upload"       :> At(Signed, "uploadArticleImage")

CommentThread ==
     "GET /articles/:id/comments"        :> At(Open, "getComments")
  @@ "POST /articles/:id/comments"       :> At(Signed, "postComment")
  @@ "DELETE /articles/:id/comments/:id" :> At(Signed, "deleteComment")
  @@ "POST /articles/:id/comments/:id/like" :> At(Signed, "toggleCommentLike")

CommentLikes ==
     "GET /articles/:id/comments/:id/likes"  :> At(Open, "getCommentLikeUserByCommentId")
  @@ "GET /articles/:id/comments/:id/islike" :> At(Signed, "getCommentIsLiked")

StockReaders ==
     "GET /stocks/lists"    :> At(Open, "getPublicStockLists")
  @@ "GET /stocks/mylists"  :> At(Signed, "getMyStockLists")
  @@ "GET /stocks/alllists" :> At(Signed, "getMyAllStockListDetail")
  @@ "POST /stocks/lists"   :> At(Signed, "createStockList")

StockWriters ==
     "POST /stocks/lists/:id/articles" :> At(Signed, "toggleArticleInList")
  @@ "POST /stocks/default/articles"   :> At(Signed, "toggleDefaultStock")
  @@ "GET /stocks/lists/:id"           :> At(Open, "getStockListDetail")
  @@ "PATCH /stocks/lists/:id"         :> At(Signed, "updateStockList")

StockMarks ==
     "DELETE /stocks/lists/:id"     :> At(Signed, "deleteStockList")
  @@ "POST /stocks/lists/:id/like"  :> At(Signed, "toggleListLike")
  @@ "GET /stocks/lists/:id/islike" :> At(Signed, "getListIsLiked")

(* upsertTag asks for one of its permissions itself: to create a tag, or to     *)
(* manage the one that exists.                                                  *)
TagEditors ==
     "GET /tags"                 :> At(Open, "getTags")
  @@ "GET /tags/:id"             :> At(Open, "getTag")
  @@ "POST /tags"                :> At(OneOf({"tag.create", "tag.manage"}), "upsertTag")
  @@ "GET /tags/:id/isFollowing" :> At(Signed, "getIsFollowing")

TagFollowers ==
     "POST /tags/:id/follow"        :> At(Signed, "toggleFollowing")
  @@ "POST /tags/:id/upload_avatar" :> At(Needs("tag.manage"), "uploadTagAvatar")

GroupsRouter ==
     "GET /groups"                     :> At(Open, "list")
  @@ "GET /groups/me"                  :> At(Signed, "mine")
  @@ "GET /groups/feed"                :> At(Open, "feed")
  @@ "GET /groups/users/:id/following" :> At(Open, "followedByUser")
  @@ "GET /groups/users/:id/joined"    :> At(Open, "joinedByUser")
  @@ "GET /groups/:id/is-following"    :> At(Signed, "isFollowing")
  @@ "POST /groups/:id/follow"         :> At(Signed, "toggleGroupFollowing")
  @@ "GET /groups/:id"                 :> At(Open, "detail")
  @@ "POST /groups"                    :> At(Signed, "create")
  @@ "PATCH /groups/:id"               :> At(Signed, "update")
  @@ "DELETE /groups/:id"              :> At(Signed, "remove")
  @@ "POST /groups/:id/members"        :> At(Signed, "addMember")
  @@ "DELETE /groups/:id/members/me"   :> At(Signed, "leave")
  @@ "PATCH /groups/:id/members/:id"   :> At(Signed, "updateMember")
  @@ "DELETE /groups/:id/members/:id"  :> At(Signed, "removeMember")

PumlRouter == "POST /plantuml/:id" :> At(Open, "postPlantUMLImage")

AccountsRouter ==
     "GET /username-rules"             :> At(Open, "usernameRules")
  @@ "GET /registration-status"        :> At(Open, "registrationStatus")
  @@ "GET /email-verification/verify"  :> At(Open, "verifyEmail")
  @@ "POST /email-verification/resend" :> At(Open, "resendVerification")

(* The profiles among the users router's requests pass requireSiteAuthentication. *)
ProfilesRouter == [
  e \in {"GET /users/:id", "GET /users/:id/follower", "GET /users/:id/follow",
         "GET /users/:id/following_tags", "GET /users/:id/pickup", "GET /users/:id/comments",
         "GET /users/:id/articles", "GET /users/ranking/all"} |->
    At(Open, CASE e = "GET /users/:id" -> "getUserByUsername"
               [] e = "GET /users/:id/follower" -> "getFollowers"
               [] e = "GET /users/:id/follow" -> "getFollowings"
               [] e = "GET /users/:id/following_tags" -> "getFollowingTags"
               [] e = "GET /users/:id/pickup" -> "getPickupArticles"
               [] e = "GET /users/:id/comments" -> "getCommentCount"
               [] e = "GET /users/:id/articles" -> "getArticleCount"
               [] e = "GET /users/ranking/all" -> "getAllRanking") ]

UsersRouter ==
     "GET /me"                     :> At(Signed, "getMe")
  @@ "GET /permissions/me"         :> At(Signed, "getMyPermissions")
  @@ "POST /register"              :> At(Open, "registerUser")
  @@ "POST /refresh"               :> At(Open, "refreshToken")
  @@ "POST /logout"                :> At(Open, "logoutUser")
  @@ "GET /devices"                :> At(Signed, "getDevices")
  @@ "POST /logout/all"            :> At(Signed, "logoutAllDevices")
  @@ "POST /logout/device/:id"     :> At(Signed, "logoutDevice")
  @@ "PUT /users/update/info"      :> At(Signed, "updateUserInfo")
  @@ "PUT /users/update/username"  :> At(Signed, "updateUsername")
  @@ "POST /users/follow"          :> At(Signed, "toggleFollow")
  @@ "GET /users/:id/isfollowing"  :> At(Signed, "isFollowingUser")

UserSettingsRouter ==
     "GET /users/settings/uploaded_images" :> At(Signed, "getUploadedImages")
  @@ "GET /users/settings/idpinfo"         :> At(Signed, "getUserIdentities")
  @@ "POST /users/settings/upload_avatar"  :> At(Signed, "uploadLocalAvatar")
  @@ "GET /users/tags/me"                  :> At(Signed, "getMyFollowingtags")
  @@ "POST /users/pickup/create"           :> At(Signed, "createPickupArticle")
  @@ "POST /users/pickup/delete"           :> At(Signed, "deletePickupArticle")
  @@ "GET /users/settings/api-keys"        :> At(Signed, "getApiKeys")
  @@ "POST /users/settings/api-keys"       :> At(Signed, "createApiKey")
  @@ "DELETE /users/settings/api-keys/:id" :> At(Signed, "revokeApiKey")

OwnWebhooksRouter ==
     "GET /users/settings/webhooks"                :> At(Signed, "getOwnWebhooks")
  @@ "GET /users/settings/webhooks/metadata"       :> At(Signed, "getMetadata")
  @@ "POST /users/settings/webhooks/preview"       :> At(Signed, "preview")
  @@ "POST /users/settings/webhooks/test"          :> At(Signed, "testSend")
  @@ "GET /users/settings/webhooks/:id"            :> At(Signed, "getOwnWebhook")
  @@ "PUT /users/settings/webhooks/:id"            :> At(Signed, "updateOwnWebhook")
  @@ "PATCH /users/settings/webhooks/:id/active"   :> At(Signed, "setOwnActive")
  @@ "GET /users/settings/webhooks/:id/deliveries" :> At(Signed, "getOwnDeliveries")
  @@ "DELETE /users/settings/webhooks/:id"         :> At(Signed, "deleteOwnWebhook")

LocalAuthRouter ==
     "POST /login"            :> At(Open, "login")
  @@ "POST /login/verify-2fa" :> At(Open, "verify2FA")

TotpRouter ==
     "GET /users/settings/setup2fa"     :> At(Signed, "setup")
  @@ "POST /users/settings/verify2fa"   :> At(Signed, "verifySetup")
  @@ "DELETE /users/settings/delete2fa" :> At(Signed, "disable")

PasswordRouter ==
     "GET /password-reset/status"   :> At(Open, "passwordResetStatus")
  @@ "POST /password-reset/request" :> At(Open, "requestPasswordReset")
  @@ "POST /password-reset/reset"   :> At(Open, "resetPassword")
  @@ "PUT /password/change"         :> At(Signed, "changePassword")

AuthRouter ==
     "POST /auth/avatar/select" :> At(Signed, "selectAvatar")
  @@ "DELETE /auth/:id/unlink"  :> At(Signed, "unlinkProvider")

NotificationRouter ==
     "GET /notifications"              :> At(Signed, "listNotifications")
  @@ "GET /notifications/unread-count" :> At(Signed, "unreadCount")
  @@ "GET /notifications/preferences"  :> At(Signed, "getPreferences")
  @@ "PUT /notifications/preferences"  :> At(Signed, "updatePreferences")
  @@ "PATCH /notifications/:id/read"   :> At(Signed, "markRead")
  @@ "PATCH /notifications/read-all"   :> At(Signed, "markAllRead")
  @@ "DELETE /notifications/:id"       :> At(Signed, "deleteOne")
  @@ "DELETE /notifications"           :> At(Signed, "deleteAll")

ServerSettingsRouter == "GET /server/public-settings" :> At(Open, "publicSettings")

ActiveProviders == "GET /idp/active" :> At(Open, "getActiveIdp")

ProvidersRouter ==
     "GET /admin/idp_list"                        :> At(Signed, "getAllProviders")
  @@ "GET /admin/idp_settings/discovery"          :> At(Signed, "discoverOidc")
  @@ "POST /admin/idp_settings/:id/test"          :> At(Signed, "testConnectivity")
  @@ "DELETE /admin/idp_registry/:id"             :> At(Signed, "cleanupOrphanProvider")
  @@ "GET /admin/idp_settings/:id"                :> At(Signed, "getIdpConf")
  @@ "DELETE /admin/idp_settings/:id"             :> At(Signed, "deleteIdp")
  @@ "POST /admin/idp_settings"                   :> At(Signed, "upsertIdp")
  @@ "POST /admin/idp_settings/toggle_active/:id" :> At(Signed, "toggleActive")

AdminSettingsRouter ==
     "GET /admin/status"             :> At(Needs("system.settings.manage"), "getStatus")
  @@ "GET /admin/settings/users"     :> At(Needs("user.read"), "getUserList")
  @@ "POST /admin/settings/users/toggle_active/:id" :> At(Needs("user.manage"), "toggleUserActive")
  @@ "GET /admin/settings/server"    :> At(Needs("system.settings.manage"), "getServerSettings")
  @@ "PUT /admin/settings/server"    :> At(Needs("system.settings.manage"), "updateServerSetting")
  @@ "GET /admin/settings/smtp"      :> At(Needs("system.settings.manage"), "getMailSettings")
  @@ "PUT /admin/settings/smtp"      :> At(Needs("system.settings.manage"), "updateMailSettings")
  @@ "POST /admin/settings/smtp/test" :> At(Needs("system.settings.manage"), "sendTest")
  @@ "GET /admin/settings/storage"   :> At(Needs("system.settings.manage"), "getStorageSettings")
  @@ "PUT /admin/settings/storage"   :> At(Needs("system.settings.manage"), "updateStorageSettings")

AdminRolesRouter ==
     "GET /admin/permissions"              :> At(Needs("role.read"), "getPermissions")
  @@ "GET /admin/roles"                    :> At(Needs("role.read"), "getRoles")
  @@ "POST /admin/roles"                   :> At(Needs("role.create"), "createRole")
  @@ "PUT /admin/roles/:id"                :> At(Needs("role.update"), "updateRole")
  @@ "DELETE /admin/roles/:id"             :> At(Needs("role.delete"), "deleteRole")
  @@ "PUT /admin/settings/users/:id/roles" :> At(Needs("role.assign"), "assignUserRoles")

WebhookTargets ==
  "GET /webhooks/available/article-published" :> At(Signed, "getArticlePublishedTargets")

AdminWebhooksRouter ==
     "GET /admin/webhooks/metadata"       :> At(Needs("system.webhook.manage"), "getMetadata")
  @@ "POST /admin/webhooks/preview"       :> At(Needs("system.webhook.manage"), "preview")
  @@ "POST /admin/webhooks/test"          :> At(Needs("system.webhook.manage"), "testSend")
  @@ "GET /admin/webhooks"                :> At(Needs("system.webhook.manage"), "getAllWebhooks")
  @@ "GET /admin/webhooks/:id/deliveries" :> At(Needs("system.webhook.manage"), "getDeliveries")
  @@ "PATCH /admin/webhooks/:id/active"   :> At(Needs("system.webhook.manage"), "setWebhookActive")
  @@ "GET /admin/webhooks/:id"            :> At(Needs("system.webhook.manage"), "getWebhook")
  @@ "PUT /admin/webhooks/:id"            :> At(Needs("system.webhook.manage"), "updateWebhook")
  @@ "DELETE /admin/webhooks/:id"         :> At(Needs("system.webhook.manage"), "deleteWebhook")
  @@ "POST /admin/backup/export"          :> At(Needs("system.backup.execute"), "exportBackup")
  @@ "POST /admin/backup/restore"         :> At(Needs("system.backup.execute"), "restoreBackup")

ServerEventRouter == "GET /admin/server-events" :> At(Needs("eventlog.read"), "listEvents")

(* The requests whose path begins with /admin.                                  *)
AdminRouters ==
  ProvidersRouter @@ AdminSettingsRouter @@ AdminRolesRouter @@ AdminWebhooksRouter
    @@ ServerEventRouter

ContentRouters ==
  ArticleReaders @@ ArticleViews @@ ArticleWriters @@ ArticleBin @@ GroupsRouter
    @@ TagEditors @@ TagFollowers @@ CommentThread @@ CommentLikes @@ StockReaders
    @@ StockWriters @@ StockMarks @@ PumlRouter

Router ==
  ServerSettingsRouter @@ LocalAuthRouter @@ PasswordRouter @@ TotpRouter
    @@ AccountsRouter @@ ProfilesRouter @@ UsersRouter @@ UserSettingsRouter @@ OwnWebhooksRouter
    @@ ActiveProviders @@ WebhookTargets @@ AdminRouters @@ NotificationRouter
    @@ AuthRouter @@ ContentRouters

(* Guards of contentAuthorizationRouter; the caller is taken to be the author.  *)
ContentAuthorization ==
     "POST /articles/create"         :> Needs("article.create")
  @@ "POST /articles/upload"         :> Needs("article.create")
  @@ "POST /groups"                  :> Needs("group.create")
  @@ "POST /articles/:id/comments"   :> Needs("comment.create")
  @@ "PATCH /articles/:id/edit"      :> OneOf({"article.update.own", "article.update.any"})
  @@ "POST /articles/:id/rollback"   :> OneOf({"article.update.own", "article.update.any"})
  @@ "DELETE /articles/:id"          :> OneOf({"article.delete.own", "article.delete.any"})
  @@ "POST /articles/:id/restore"    :> OneOf({"article.delete.own", "article.delete.any"})
  @@ "DELETE /articles/:id/hard"     :> OneOf({"article.delete.own", "article.delete.any"})
  @@ "DELETE /articles/:id/comments/:id" :> OneOf({"comment.delete.own", "comment.delete.any"})

(* idpRouter is mounted before adminRouter and guards everything under /admin.  *)
AdminPrefix == Needs("system.idp.manage")

Guards(request) ==
  {Router[request].guard}
    \cup (IF request \in DOMAIN AdminRouters THEN {AdminPrefix} ELSE {})
    \cup (IF request \in DOMAIN ContentAuthorization
          THEN {ContentAuthorization[request]} ELSE {})

(* requireSiteAuthentication; the maintenance mode admits the role admin only.  *)
SiteAdmits(viewer, site) ==
  CASE site = "maintenance" -> viewer.signedIn /\ viewer.admin
    [] site = "login" -> viewer.signedIn
    [] OTHER -> TRUE
=============================================================================

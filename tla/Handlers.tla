------------------------------ MODULE Handlers ------------------------------
(* The controllers of src/server/src/controllers: the repository functions a    *)
(* handler reaches through its service.  Handlers of one controller keep their  *)
(* source names unless another controller uses the name too.  A notification,   *)
(* a webhook delivery or a server event sent on the side is not listed: it      *)
(* belongs to other users' pages and happens after the answer.                  *)
EXTENDS Tables

AccountHandlers == [
  getMe             |-> {"findUserById", "findSecurity", "getUserRole"},
  getUserByUsername |-> {"findUserByUsername"} ]

ProfileHandlers == [
  changePassword    |-> {"updatePassword"},
  updateUserInfo    |-> {"updateUser"},
  updateUsername    |-> {"updateUser"},
  toggleFollow      |-> {"followUser", "unFollowUser"},
  isFollowingUser   |-> {"isFollowingUser"},
  getFollowers      |-> {"getFollowers"},
  getFollowings     |-> {"getFollowings"},
  getUploadedImages |-> {"findImagesByUserId"},
  getUserIdentities |-> {"getUserIdentities"},
  uploadLocalAvatar |-> {"upsertLocalAvatar", "createUploadImage"} ]

ReaderHandlers == [
  getFollowingTags    |-> {"followingTags"},
  getMyFollowingtags  |-> {"userFollowingTags"},
  getPickupArticles   |-> {"findPickupArticles"},
  createPickupArticle |-> {"createPickupArticleRow"},
  deletePickupArticle |-> {"deletePickupArticleRow"},
  getCommentCount     |-> {"commentCount"},
  getArticleCount     |-> {"articleCount"},
  getAllRanking       |-> {"allRanking"},
  getApiKeys          |-> {"findApiKeysByUserId"},
  createApiKey        |-> {"createApiKeyRow"},
  revokeApiKey        |-> {"deleteApiKey"} ]

(* getDevices, logoutDevice and logoutAllDevices; the sessions themselves are   *)
(* in the module Sessions.                                                      *)
DeviceHandlers == [
  getDevices       |-> {"getUserSessions"},
  logoutUser       |-> {"deleteSessionById"},
  logoutAllDevices |-> {"deleteAllSessionsByUser"},
  logoutDevice     |-> {"deleteSessionById"},
  login            |-> {"createSession"},
  verify2FA        |-> {"createSession"} ]

TotpHandlers == [
  setup       |-> {"savePendingSecret"},
  verifySetup |-> {"enable"},
  disable     |-> {"disable"} ]

LinkHandlers == [
  selectAvatar   |-> {"setSelectedAvatar"},
  unlinkProvider |-> {"deleteIdentityAndAvatar"} ]

ArticleHandlers == [
  getArticles            |-> {"findAllPublishedArticles"},
  getTrendingArticles    |-> {"findTrendingArticles"},
  getRecommendArticles   |-> {"findRecommendedArticles"},
  getAllArticlesByUserId |-> {"findAllArticlesByUserId"},
  getArticlesByUserId    |-> {"findArticlesByUserId"},
  getArticle             |-> {"findArticleById"} ]

ArticleMarkHandlers == [
  getArticleMarkdown            |-> {"findArticleById"},
  getArticleIsOwned             |-> {"isOwned"},
  getArticleLikeUserByArticleId |-> {"findArticleById", "getArticleLikeUserByArticleId"},
  getIsLiked                    |-> {"isLikedArticle"},
  toggleLike                    |-> {"addLikeArticle", "removeLikeArticle"} ]

ArticleChangeHandlers == [
  createArticle              |-> {"createArticles"},
  updateArticle              |-> {"updateArticles"},
  rollBackDraft              |-> {"updateArticles"},
  deleteArticle              |-> {"softDeleteArticle"},
  getDeletedArticlesByUserId |-> {"findDeletedArticlesByUserId"},
  restoreArticle             |-> {"restoreArticleRow"},
  hardDeleteArticle          |-> {"hardDeleteArticleRow"} ]

ArticleFileHandlers == [
  uploadArticleImage |-> {"createUploadImage"},
  getArticleMarp     |-> {"findArticleById"} ]

CommentHandlers == [
  getComments                   |-> {"findByArticleId"},
  postComment                   |-> {"createCommentRow"},
  deleteComment                 |-> {"softDelete"},
  getCommentLikeUserByCommentId |-> {"getCommentLikeUserByCommentId"},
  getCommentIsLiked             |-> {"isLikedComment"},
  toggleCommentLike             |-> {"addLikeComment", "removeLikeComment"} ]

StockHandlers == [
  getPublicStockLists     |-> {"findPublicLists"},
  getMyStockLists         |-> {"findListsByUserId"},
  createStockList         |-> {"createList"},
  toggleArticleInList     |-> {"addItem", "removeItem"},
  toggleDefaultStock      |-> {"addItem", "removeItem"},
  getListIsLiked          |-> {"isLikedList"},
  toggleListLike          |-> {"addLikeList", "removeLikeList"},
  getMyAllStockListDetail |-> {"findAllItemsByUserId"},
  getStockListDetail      |-> {"findListDetail"},
  updateStockList         |-> {"updateList"},
  deleteStockList         |-> {"deleteList"} ]

(* The picture of a tag goes to the file storage only: the form saves its path. *)
TagHandlers == [
  getTags         |-> {"findAllTags"},
  getTag          |-> {"findTagBySlug"},
  upsertTag       |-> {"createTag", "updateTagBySlug"},
  uploadTagAvatar |-> {},
  getIsFollowing  |-> {"isFollowingTag"},
  toggleFollowing |-> {"addFollowing", "removeFollowing"} ]

GroupHandlers == [
  list                 |-> {"findAllGroups"},
  mine                 |-> {"findMine"},
  feed                 |-> {"findFeed"},
  followedByUser       |-> {"findFollowedByUser"},
  joinedByUser         |-> {"findJoinedByUser"},
  isFollowing          |-> {"findFollow"},
  toggleGroupFollowing |-> {"addFollow", "removeFollow"},
  detail               |-> {"findGroupBySlug", "findMembership", "findGroupArticles"},
  create               |-> {"createGroup"},
  update               |-> {"updateGroup"},
  remove               |-> {"deleteGroup"},
  addMember            |-> {"addMember"},
  leave                |-> {"removeMember"},
  updateMember         |-> {"updateMemberRole"},
  removeMember         |-> {"removeMember"} ]

NotificationHandlers == [
  listNotifications |-> {"findByUserId"},
  unreadCount       |-> {"countUnread"},
  getPreferences    |-> {"getPreferences"},
  updatePreferences |-> {"updatePreferences"},
  markRead          |-> {"markRead"},
  markAllRead       |-> {"markAllRead"},
  deleteOne         |-> {"deleteOne"},
  deleteAll         |-> {"deleteAll"} ]

RoleHandlers == [
  getMyPermissions |-> {"getUserPermissions"},
  getPermissions   |-> {},
  getRoles         |-> {"getRoles"},
  createRole       |-> {"createRoleRow"},
  updateRole       |-> {"updateRoleRow"},
  deleteRole       |-> {"deleteRoleRow"},
  assignUserRoles  |-> {"replaceUserRoles"} ]

AdminHandlers == [
  getUserList         |-> {"findAllUsersWithRoles"},
  toggleUserActive    |-> {"toggleUserActiveStatus"},
  getServerSettings   |-> {"findAllSettings"},
  updateServerSetting |-> {"upsertSetting"} ]

StatusHandler == [getStatus |-> {}]

SettingHandlers == [
  getMailSettings    |-> {"findSmtpKeys"},
  updateMailSettings |-> {"upsertSmtpKey"},
  sendTest           |-> {} ]

StorageHandlers == [
  getStorageSettings    |-> {"findStorageKeys"},
  updateStorageSettings |-> {"upsertStorageKey"} ]

WebhookHandlers == [
  getMetadata      |-> {},
  preview          |-> {},
  testSend         |-> {},
  getAllWebhooks   |-> {"findAllWebhooks"},
  getWebhook       |-> {"findDetailById"},
  updateWebhook    |-> {"createWebhook", "updateWebhook", "setActive"},
  setWebhookActive |-> {"setActive"},
  getDeliveries    |-> {"findDeliveries"},
  deleteWebhook    |-> {"deleteRow"} ]

OwnWebhookHandlers == [
  getOwnWebhooks   |-> {"findAllWebhooks"},
  getOwnWebhook    |-> {"findDetailById"},
  updateOwnWebhook |-> {"createWebhook", "updateWebhook", "setActive"},
  setOwnActive     |-> {"setActive"},
  getOwnDeliveries |-> {"findDeliveries"},
  deleteOwnWebhook |-> {"deleteRow"} ]

TargetHandlers == [getArticlePublishedTargets |-> {"findActiveTargets"}]

ProviderHandlers == [
  getActiveIdp          |-> {"getProviders"},
  getAllProviders       |-> {"getAllProviders"},
  getIdpConf            |-> {"getConfiguration"},
  discoverOidc          |-> {},
  upsertIdp             |-> {"upsertIdp"},
  toggleActive          |-> {"toggleIdpActiveRow"},
  testConnectivity      |-> {},
  cleanupOrphanProvider |-> {"cleanupOrphanProvider"},
  deleteIdp             |-> {"deleteIdp"} ]

EventHandlers == [listEvents |-> {"findEvents"}]

(* Handlers written in their router; what a verified address changes is in the  *)
(* module SignIn, and no page shows it.                                         *)
InlineHandlers == [
  publicSettings      |-> {"findAllSettings"},
  registrationStatus  |-> {"findAllSettings", "findAllUsers"},
  usernameRules       |-> {},
  verifyEmail         |-> {},
  resendVerification  |-> {} ]

PasswordHandlers == [
  passwordResetStatus  |-> {"findSmtpKeys"},
  requestPasswordReset |-> {},
  resetPassword        |-> {"updatePassword"} ]

(* Handlers outside the data of the pages: a rendered diagram, an archive, a new *)
(* account; a restore (module Restore) replaces everything, and its page is left.*)
OtherHandlers == [
  h \in {"postPlantUMLImage", "exportBackup", "restoreBackup", "registerUser", "refreshToken"}
    |-> {}]

HandlerCalls ==
  AccountHandlers @@ ProfileHandlers @@ ReaderHandlers @@ DeviceHandlers @@ TotpHandlers
    @@ LinkHandlers @@ ArticleHandlers @@ ArticleMarkHandlers @@ ArticleChangeHandlers
    @@ ArticleFileHandlers @@ CommentHandlers @@ StockHandlers @@ TagHandlers
    @@ GroupHandlers @@ NotificationHandlers @@ RoleHandlers @@ AdminHandlers
    @@ StatusHandler @@ SettingHandlers @@ StorageHandlers @@ WebhookHandlers
    @@ OwnWebhookHandlers @@ TargetHandlers @@ ProviderHandlers @@ EventHandlers
    @@ InlineHandlers @@ PasswordHandlers @@ OtherHandlers

TablesRead(handler) ==
  UNION {Repositories[fn].reads : fn \in HandlerCalls[handler]}
TablesWritten(handler) ==
  UNION {Repositories[fn].writes : fn \in HandlerCalls[handler]}
=============================================================================

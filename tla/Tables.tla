------------------------------- MODULE Tables -------------------------------
(* What the repositories of src/server/src/repositories read and change: for    *)
(* each function the tables its answer rests on and the tables it writes.  A    *)
(* table stands for the columns that the pages show: "users.is_active" is kept  *)
(* apart from the profile because no profile shows it, a counter that triggers  *)
(* keep on articles is a reading of the marks it counts, and what a ranking is  *)
(* sorted by is left out.                                                       *)
EXTENDS TLC

Reading(tables) == [reads |-> tables, writes |-> {}]
Writing(tables) == [reads |-> {}, writes |-> tables]

Profiles == [
  findUserById       |-> Reading({"users"}),
  findUserByUsername |-> Reading({"users"}),
  findAllUsers       |-> Reading({"users"}),
  updateUser         |-> Writing({"users"}),
  updatePassword     |-> Writing({"local_accounts"}) ]

Follows == [
  followUser      |-> Writing({"user_follows"}),
  unFollowUser    |-> Writing({"user_follows"}),
  isFollowingUser |-> Reading({"user_follows"}),
  getFollowers    |-> Reading({"user_follows", "users"}),
  getFollowings   |-> Reading({"user_follows", "users"}) ]

SessionRows == [
  getUserSessions         |-> Reading({"user_sessions"}),
  createSession           |-> Writing({"user_sessions"}),
  deleteSessionById       |-> Writing({"user_sessions"}),
  deleteAllSessionsByUser |-> Writing({"user_sessions"}) ]

Identities == [
  getUserRole       |-> Reading({"user_roles", "roles"}),
  getUserIdentities |-> Reading({"user_identities", "identity_providers", "user_avatars"}),
  upsertLocalAvatar |-> Writing({"user_avatars", "users"}) ]

Contributions == [
  userFollowingTags   |-> Reading({"tag_follows", "tags"}),
  commentCount        |-> Reading({"comments"}),
  articleCount        |-> Reading({"articles"}),
  allRanking          |-> Reading({"users", "articles", "comments"}),
  findApiKeysByUserId |-> Reading({"user_api_keys"}),
  createApiKeyRow     |-> Writing({"user_api_keys"}),
  deleteApiKey        |-> Writing({"user_api_keys"}) ]

LinkedAccounts == [
  setSelectedAvatar       |-> Writing({"user_avatars", "users"}),
  deleteIdentityAndAvatar |-> Writing({"user_identities", "user_avatars", "users"}) ]

SecondFactors == [
  findSecurity      |-> Reading({"user_security"}),
  savePendingSecret |-> Writing({"user_security.pending"}),
  enable            |-> Writing({"user_security"}),
  disable           |-> Writing({"user_security"}) ]

(* A list of articles shows author, tags, group and the counted likes.          *)
ArticleCards == {"articles", "users", "groups", "article_tags", "tags", "article_likes"}

ArticleLists == [
  findAllPublishedArticles |-> Reading(ArticleCards),
  findTrendingArticles     |-> Reading(ArticleCards),
  findRecommendedArticles  |-> Reading(ArticleCards \cup {"tag_follows"}),
  findArticlesByUserId     |-> Reading(ArticleCards) ]

OwnArticles == [
  findAllArticlesByUserId     |-> Reading(ArticleCards),
  findDeletedArticlesByUserId |-> Reading(ArticleCards) ]

ArticleRows == [
  findArticleById               |-> Reading(ArticleCards),
  isOwned                       |-> Reading({"articles"}),
  isLikedArticle                |-> Reading({"article_likes"}),
  getArticleLikeUserByArticleId |-> Reading({"article_likes", "users"}),
  addLikeArticle                |-> Writing({"article_likes"}),
  removeLikeArticle             |-> Writing({"article_likes"}),
  createArticles                |-> Writing({"articles", "article_tags"}),
  updateArticles                |-> Writing({"articles", "article_tags"}),
  softDeleteArticle             |-> Writing({"articles"}),
  restoreArticleRow             |-> Writing({"articles"}),
  hardDeleteArticleRow          |-> Writing({"articles", "article_tags"}) ]

Pickups == [
  findPickupArticles     |-> Reading({"article_pickups"} \cup ArticleCards),
  createPickupArticleRow |-> Writing({"article_pickups"}),
  deletePickupArticleRow |-> Writing({"article_pickups"}) ]

CommentRows == [
  findByArticleId               |-> Reading({"comments", "users", "comment_likes"}),
  createCommentRow              |-> Writing({"comments"}),
  softDelete                    |-> Writing({"comments"}),
  isLikedComment                |-> Reading({"comment_likes"}),
  getCommentLikeUserByCommentId |-> Reading({"comment_likes", "users"}),
  addLikeComment                |-> Writing({"comment_likes"}),
  removeLikeComment             |-> Writing({"comment_likes"}) ]

StockLists == [
  createList        |-> Writing({"stock_lists", "stock_list_tags"}),
  findListsByUserId |-> Reading({"stock_lists", "stock_items", "stock_list_likes"}),
  addItem           |-> Writing({"stock_items"}),
  removeItem        |-> Writing({"stock_items"}) ]

StockItems == [findAllItemsByUserId |-> Reading({"stock_lists", "stock_items"} \cup ArticleCards)]

PublicStockLists == [
  findPublicLists |->
    Reading({"stock_lists", "users", "stock_list_tags", "tags", "stock_items", "stock_list_likes"}),
  findListDetail  |->
    Reading({"stock_lists", "stock_items", "stock_list_tags", "stock_list_likes"}
              \cup ArticleCards) ]

StockChanges == [
  updateList |-> Writing({"stock_lists", "stock_list_tags"}),
  deleteList |-> Writing({"stock_lists", "stock_items", "stock_list_tags", "stock_list_likes"}) ]

StockLikes == [
  isLikedList    |-> Reading({"stock_list_likes"}),
  addLikeList    |-> Writing({"stock_list_likes"}),
  removeLikeList |-> Writing({"stock_list_likes"}) ]

TagRows == [
  findAllTags     |-> Reading({"tags", "article_tags"}),
  findTagBySlug   |-> Reading({"tags", "article_tags", "tag_follows"}),
  createTag       |-> Writing({"tags"}),
  updateTagBySlug |-> Writing({"tags"}),
  followingTags   |-> Reading({"tag_follows", "tags"}),
  isFollowingTag  |-> Reading({"tag_follows"}),
  addFollowing    |-> Writing({"tag_follows"}),
  removeFollowing |-> Writing({"tag_follows"}) ]

GroupRows == [
  findAllGroups      |-> Reading({"groups", "user_groups", "articles"}),
  findGroupBySlug    |-> Reading({"groups", "user_groups", "users", "articles"}),
  findMembership     |-> Reading({"user_groups"}),
  findMine           |-> Reading({"groups", "user_groups", "articles"}),
  findFollow         |-> Reading({"group_follows"}),
  addFollow          |-> Writing({"group_follows"}),
  removeFollow       |-> Writing({"group_follows"}),
  findFeed           |-> Reading(ArticleCards) ]

GroupChanges == [
  createGroup      |-> Writing({"groups", "user_groups"}),
  updateGroup      |-> Writing({"groups"}),
  deleteGroup      |-> Writing({"groups", "user_groups", "group_follows"}),
  addMember        |-> Writing({"user_groups"}),
  updateMemberRole |-> Writing({"user_groups"}),
  removeMember     |-> Writing({"user_groups"}) ]

GroupReaders == [
  findGroupArticles  |-> Reading(ArticleCards),
  findFollowedByUser |-> Reading({"group_follows", "groups", "user_groups", "articles"}),
  findJoinedByUser   |-> Reading({"groups", "user_groups", "articles"}) ]

NotificationRows == [
  findByUserId |-> Reading({"user_notifications"}),
  countUnread  |-> Reading({"user_notifications"}) ]

NotificationChanges == [
  markRead          |-> Writing({"user_notifications"}),
  markAllRead       |-> Writing({"user_notifications"}),
  deleteOne         |-> Writing({"user_notifications"}),
  deleteAll         |-> Writing({"user_notifications"}),
  getPreferences    |-> Reading({"user_settings"}),
  updatePreferences |-> Writing({"user_settings"}) ]

RoleRows == [
  getUserPermissions |-> Reading({"user_roles", "role_permissions"}),
  getRoles           |-> Reading({"roles", "role_permissions"}) ]

RoleChanges == [
  createRoleRow    |-> Writing({"roles", "role_permissions"}),
  updateRoleRow    |-> Writing({"roles", "role_permissions"}),
  deleteRoleRow    |-> Writing({"roles", "role_permissions"}),
  replaceUserRoles |-> Writing({"user_roles"}) ]

Administration == [
  findAllUsersWithRoles  |-> Reading({"users", "users.is_active", "user_roles", "roles"}),
  toggleUserActiveStatus |-> Writing({"users.is_active"}) ]

WebhookRows == [
  findAllWebhooks |-> Reading({"webhooks"}),
  findDetailById  |-> Reading({"webhooks", "webhook_headers"}),
  createWebhook   |-> Writing({"webhooks", "webhook_headers"}),
  updateWebhook   |-> Writing({"webhooks", "webhook_headers"}),
  setActive       |-> Writing({"webhooks"}),
  findDeliveries  |-> Reading({"webhook_deliveries"}),
  deleteRow       |-> Writing({"webhooks", "webhook_headers", "webhook_deliveries"}) ]

DeliveryRows == [findActiveTargets |-> Reading({"webhooks", "webhook_headers"})]

ProviderRows == [
  getProviders     |-> Reading({"identity_providers", "idp_configurations"}),
  getAllProviders  |-> Reading({"identity_providers", "idp_configurations"}),
  getConfiguration |-> Reading({"identity_providers", "idp_configurations"}),
  upsertIdp        |-> Writing({"identity_providers", "idp_configurations"}) ]

ProviderChanges == [
  toggleIdpActiveRow    |-> Writing({"idp_configurations"}),
  deleteIdp             |-> Writing({"identity_providers", "idp_configurations"}),
  cleanupOrphanProvider |-> Writing({"identity_providers"}) ]

EventRows == [findEvents |-> Reading({"server_events"})]

(* The mail and the storage keys of the table have pages of their own.          *)
SettingRows == [
  findAllSettings  |-> Reading({"server_settings"}),
  upsertSetting    |-> Writing({"server_settings"}),
  findSmtpKeys     |-> Reading({"server_settings.smtp"}),
  upsertSmtpKey    |-> Writing({"server_settings.smtp"}),
  findStorageKeys  |-> Reading({"server_settings.storage"}),
  upsertStorageKey |-> Writing({"server_settings.storage"}) ]

ImageRows == [
  createUploadImage   |-> Writing({"upload_images"}),
  findImagesByUserId  |-> Reading({"upload_images"}) ]

Repositories ==
  Profiles @@ Follows @@ SessionRows @@ Identities @@ Contributions @@ LinkedAccounts
    @@ SecondFactors @@ ArticleLists @@ OwnArticles @@ ArticleRows @@ Pickups
    @@ CommentRows @@ StockLists @@ StockItems @@ PublicStockLists @@ StockChanges
    @@ StockLikes @@ TagRows @@ GroupRows @@ GroupChanges @@ GroupReaders
    @@ NotificationRows @@ NotificationChanges @@ RoleRows @@ RoleChanges
    @@ Administration @@ WebhookRows @@ DeliveryRows @@ ProviderRows
    @@ ProviderChanges @@ EventRows @@ SettingRows @@ ImageRows
=============================================================================

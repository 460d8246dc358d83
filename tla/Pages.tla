-------------------------------- MODULE Pages --------------------------------
(* The pages and components of src/client/src: the queries each one shows and   *)
(* the mutations it offers to a signed-in user.  Layout, wording, renderings of *)
(* slides and diagrams, and components that use neither are left out.  A page   *)
(* stands in the layout its route names with getParentRoute.                    *)
EXTENDS Hooks

Part(shows, does) == [shows |-> shows, does |-> does]
With(part, parts) ==
  [shows |-> part.shows \cup UNION {p.shows : p \in parts},
   does  |-> part.does \cup UNION {p.does : p \in parts}]
Of(parts) == With(Part({}, {}), parts)

NotificationBell == Part(
  {"useNotificationsQuery", "useUnreadNotificationCountQuery"},
  {"useMarkNotificationRead", "useMarkAllNotificationsRead", "useDeleteNotification",
   "useDeleteAllNotifications", "useFollowBack"})
TopBar == With(Part({"useAuthUserQuery", "useMyPermissionsQuery", "usePublicServerSettings"}, {}),
               {NotificationBell})

TagLists == Part({"useMyFollowingTagsQuery"}, {})
Ranking == Part({"useUserRankingQuery"}, {})
sidebarLayoutRoute == Of({TopBar, TagLists, Ranking})

(* Stocking an article: the button shows the lists of the article, the dialog   *)
(* changes them, and a list can be made on the way.                             *)
StockCreateDialog == Part({"useMyPermissionsQuery", "useTagsQuery"},
                          {"useCreateStockList", "useUpsertTag"})
StockManageDialog == With(Part({"useArticleStockLists"}, {"useToggleArticleStock"}),
                          {StockCreateDialog})
StockButton == With(Part({"useArticleStockLists"}, {"useToggleDefaultStock"}),
                    {StockManageDialog})

CommentEditor == Part({"useAuthUserQuery"}, {"useCreateComment"})
CommentCard == With(
  Part({"useCommentLikeUsersQuery", "useCommentIsLikedQuery"},
       {"useSoftDeleteComment", "useToggleCommentLike"}), {CommentEditor})
Comment == With(Part({"useCommentsQuery"}, {}), {CommentCard, CommentEditor})
ArticleLayout == With(
  Part({"useArticleQuery", "useArticleOwnershipQuery", "useArticleLikeUsersQuery",
        "useArticleIsLikedQuery"}, {"useToggleArticleLike"}),
  {TopBar, Comment, StockButton})
ArticleLiker == With(Part({"useArticleQuery", "useArticleLikeUsersQuery"}, {}), {TopBar})

Home == With(Part({"useRecommendedArticlesInfiniteQuery", "useTrendArticlesInfiniteQuery"}, {}),
             {sidebarLayoutRoute, StockButton})
Timeline == With(Part({"useArticlesInfiniteQuery"}, {}), {sidebarLayoutRoute, StockButton})
Trends == With(Part({"useTrendArticlesInfiniteQuery"}, {}), {sidebarLayoutRoute, StockButton})
SearchPage == With(Part({"searchedArticles"}, {}), {TopBar, StockButton})

PublishWebhookSettings == Part({"usePublishWebhookOptionsQuery"}, {})
ArticleEditor == With(
  Part({"useAuthUserQuery", "useMyPermissionsQuery", "useTagsQuery", "myGroups"},
       {"useUpsertTag", "useUploadArticleImage"}), {PublishWebhookSettings})
New == With(Part({}, {"useCreateArticle"}), {ArticleEditor})
Edit == With(Part({"useArticleQuery", "useArticleOwnershipQuery"}, {"useEditArticle"}),
             {ArticleEditor})
Drafts == With(Part({"useUserArticlesQuery"}, {"useDeleteArticle", "useRollbackArticle"}),
               {TopBar})
Trash == With(Part({"useTrashArticlesQuery"}, {"useRestoreArticle", "useHardDeleteArticle"}),
              {TopBar})

Groups == With(Part({"groups", "groupFeed", "useMyPermissionsQuery"}, {"createGroup"}),
               {TopBar, StockButton})
GroupDetail == With(Part({"group", "groupFollowing"}, {"toggleGroupFollow"}),
                    {TopBar, StockButton})
GroupEdit == With(
  Part({"groupEdit"},
       {"saveGroup", "addGroupMember", "changeGroupRole", "removeGroupMember", "removeGroup"}),
  {TopBar})

StockLayout == With(Part({"useStockLists"}, {}), {TopBar})
StockDetail == With(Part({"useStockListDetail"}, {}), {StockButton})
StockDetails == Of({StockLayout, StockDetail})
StockEditPages == With(
  Part({"useStockListDetail", "useTagsQuery", "useMyPermissionsQuery"},
       {"useCreateStockList", "useUpdateStockList", "useDeleteStockList", "useUpsertTag"}),
  {StockLayout})
StockList == With(Part({"usePublicStockLists"}, {}), {TopBar})
StockPage == With(
  Part({"useStockListDetail", "useStockListLike", "useUserFollowingStateQuery"},
       {"useLikeStockList", "useFollowUser"}), {TopBar, StockDetail})

TagDetailCard == Part({"useTagFollowStateQuery", "useMyPermissionsQuery"}, {"useToggleTagFollow"})
TagProfile == With(Part({"useTagQuery", "tagArticles"}, {}),
                   {TopBar, TagDetailCard, StockButton})
TagList == With(Part({"useTagsQuery"}, {}), {TopBar})
TagEdit == With(
  Part({"useTagQuery", "useMyPermissionsQuery"}, {"useUpsertTag", "useUploadTagAvatar"}), {TopBar})
TagCard == Part({"useTagFollowStateQuery"}, {"useToggleTagFollow"})

UserDetailCard == Part(
  {"useUserQuery", "useUserFollowingStateQuery", "useFollowingQuery", "useFollowersQuery",
   "useUserCommentCountQuery", "useUserArticleCountQuery"}, {"useFollowUser"})
PickupList == Part({"usePickupArticlesQuery", "pickupCandidates"},
                   {"useCreatePickupArticle", "useDeletePickupArticle"})
UserGroups == Part({"followedGroups", "joinedGroups"}, {})
UserArticles == Part({"userArticles"}, {})
UserProfile == With(Part({"useUserQuery", "useFollowingTagsQuery"}, {}),
                    {TopBar, UserDetailCard, UserGroups})
UserTop == Of({UserProfile, PickupList, UserArticles, StockButton})
UserList == Part({"useUserFollowingStateQuery"}, {"useFollowUser"})
FollowerList == With(Part({"useFollowersQuery", "useUserQuery"}, {}), {UserProfile, UserList})
FollowingList == With(Part({"useFollowingQuery", "useUserQuery"}, {}), {UserProfile, UserList})
FollowingTagsPage == With(Part({"useFollowingTagsQuery", "useUserQuery"}, {}),
                          {UserProfile, TagCard})

Account == With(
  Part({"useActiveIdpsQuery", "useUserIdpInfoQuery"},
       {"useSwitchAvatar", "useUnlinkIdentity", "useUpdateUsername"}), {TopBar})
AvatarUpload == With(Part({"useAuthUserQuery"}, {"useUploadLocalAvatar"}), {TopBar})
PublicProfile == With(Part({"useAuthUserQuery"}, {"useUpdateUserInfo"}), {TopBar})
Devices == With(Part({"useSessionDevicesQuery"}, {"useLogoutSession"}), {TopBar})
TwoFASetting == With(Part({"useAuthUserQuery"}, {"useSetup2FA", "useVerifySetup2FA", "useDelete2FA"}),
                     {TopBar})
ChangePassword == With(Part({}, {"useChangePassword"}), {TopBar})
APIKeySettings == With(Part({"useApiKeysQuery"}, {"useCreateApiKey", "useRevokeApiKey"}), {TopBar})
Notifications == With(
  Part({"useNotificationPreferencesQuery"}, {"useUpdateNotificationPreferences"}), {TopBar})
UploadedImages == With(Part({"useUploadedImagesQuery"}, {}), {TopBar})
OwnWebhooks == With(
  Part({"useOwnMetadataQuery", "useOwnWebhooksQuery", "useOwnWebhookQuery",
        "useOwnDeliveriesQuery"},
       {"useSaveOwnWebhook", "useDeleteOwnWebhook", "useSetOwnActive", "usePreviewOwnPayload",
        "useTestOwnWebhook"}), {TopBar})

Login == Part({"useLocalRegistrationStatus", "useActiveIdpsQuery", "passwordResetStatus"}, {})
Register == Part({"useLocalRegistrationStatus", "usernameRules"}, {"register"})
ForgotPassword == Part({"passwordResetStatus"}, {"requestReset"})
ResetPassword == Part({}, {"reset"})

(* The pages of the administration.  Those who hold one of `opens` are offered  *)
(* the page; what it shows it asks for at once, except the queries it keeps     *)
(* back from those who lack the permission named in `asks`.                     *)
Console(opens, part, asks) == [opens |-> opens, part |-> part, asks |-> asks]
AlwaysAsks == [q \in {} |-> ""]

Dashboard == Part({"useMyPermissionsQuery", "useServerSettingsQuery", "useAdminStatusQuery"}, {})
SmtpSettingsSection ==
  Part({"useSmtpSettingsQuery"}, {"useUpdateSmtpSettings", "useSendSmtpTest"})
StorageSettingsSection == Part({"useStorageSettingsQuery"}, {"useUpdateStorageSettings"})
ServerSettings == With(Part({"useServerSettingsQuery"}, {"useUpdateServerSetting"}),
                       {SmtpSettingsSection, StorageSettingsSection})
AuthSettingForm == Part(
  {"useIdpConfigQuery"}, {"useUpdateIdpConfig", "useToggleIdpActive", "useTestIdpConnectivity"})
IdpManagers == Part({"useIdpListQuery"}, {"useUpdateIdpConfig", "useDeleteIdpConfig"})
AuthSettings == With(Part({"useIdpListQuery"}, {"useCleanupIdpRegistry"}),
                     {IdpManagers, AuthSettingForm})
AuthSecuritySettingsSection == Part({"useServerSettingsQuery"}, {"useUpdateServerSetting"})
AdminSecurity == Of({AuthSecuritySettingsSection, AuthSettings})
UserManagement == Part({"useAdminUsersQuery", "useMyPermissionsQuery", "useRolesQuery"},
                       {"useToggleAdminUserActive", "useAssignRoles"})
RoleManagement == Part({"usePermissionCatalogQuery", "useRolesQuery"},
                       {"useCreateRole", "useUpdateRole", "useDeleteRole"})
Webhooks == Part(
  {"useWebhookMetadataQuery", "useWebhooksQuery", "useServerSettingsQuery", "useWebhookQuery",
   "useWebhookDeliveriesQuery"},
  {"useSaveWebhook", "useDeleteWebhook", "useSetWebhookActive", "usePreviewWebhookPayload",
   "useTestWebhook", "useUpdateServerSetting"})
BackupRestore == Part({}, {"exportArchive", "restoreArchive"})
ServerEvents == Part({"useServerEventsQuery"}, {})

AdminAccess ==
  {"system.settings.manage", "system.idp.manage", "system.webhook.manage",
   "system.backup.execute", "system.maintenance.bypass", "user.read", "user.manage",
   "role.read", "role.create", "role.update", "role.delete", "role.assign", "eventlog.read"}

AdminPages ==
     "Dashboard" :> Console(AdminAccess, Dashboard,
                            "useServerSettingsQuery" :> "system.settings.manage"
                              @@ "useAdminStatusQuery" :> "system.settings.manage")
  @@ "ServerSettings" :> Console({"system.settings.manage"}, ServerSettings, AlwaysAsks)
  @@ "AdminSecurity"  :> Console({"system.idp.manage", "system.settings.manage"},
                                 AdminSecurity, AlwaysAsks)
  @@ "UserManagement" :> Console({"user.read"}, UserManagement,
                                 "useRolesQuery" :> "role.assign")
  @@ "RoleManagement" :> Console({"role.read"}, RoleManagement, AlwaysAsks)
  @@ "Webhooks"       :> Console({"system.webhook.manage"}, Webhooks, AlwaysAsks)
  @@ "BackupRestore"  :> Console({"system.backup.execute"}, BackupRestore, AlwaysAsks)
  @@ "ServerEvents"   :> Console({"eventlog.read"}, ServerEvents, AlwaysAsks)

ContentPages ==
     "ArticleLayout" :> ArticleLayout @@ "ArticleLiker" :> ArticleLiker @@ "Home" :> Home
  @@ "Timeline" :> Timeline @@ "Trends" :> Trends
  @@ "SearchPage" :> SearchPage @@ "New" :> New @@ "Edit" :> Edit
  @@ "Drafts" :> Drafts @@ "Trash" :> Trash @@ "Groups" :> Groups
  @@ "GroupDetail" :> GroupDetail @@ "GroupEdit" :> GroupEdit
  @@ "StockDetails" :> StockDetails @@ "StockEditPages" :> StockEditPages
  @@ "StockList" :> StockList @@ "StockPage" :> StockPage @@ "TagProfile" :> TagProfile
  @@ "TagList" :> TagList @@ "TagEdit" :> TagEdit @@ "UserTop" :> UserTop
  @@ "FollowerList" :> FollowerList @@ "FollowingList" :> FollowingList
  @@ "FollowingTagsPage" :> FollowingTagsPage

SettingsPages ==
     "Account" :> Account @@ "AvatarUpload" :> AvatarUpload @@ "PublicProfile" :> PublicProfile
  @@ "Devices" :> Devices @@ "TwoFASetting" :> TwoFASetting
  @@ "ChangePassword" :> ChangePassword @@ "APIKeySettings" :> APIKeySettings
  @@ "Notifications" :> Notifications @@ "UploadedImages" :> UploadedImages
  @@ "OwnWebhooks" :> OwnWebhooks

AuthPages ==
     "Login" :> Login @@ "Register" :> Register @@ "ForgotPassword" :> ForgotPassword
  @@ "ResetPassword" :> ResetPassword

AllPages ==
  ContentPages @@ SettingsPages @@ AuthPages @@ [p \in DOMAIN AdminPages |-> AdminPages[p].part]
=============================================================================

SPECIFICATION FairSpec
CONSTANTS
  Restores = {r1}
  Clients = {c1}
  Urls <- OneUrl
  LiveDb <- MCLiveDb
  LiveFiles = {"liveFile"}
  ArchiveDb <- MCArchiveDb
  ArchiveFiles = {"archivedFile"}
  MaxRestores = 2
  EnvMaintenance = "unset"
INVARIANTS
  TypeOK
  RestoredSessionsInvalid
  RestoreReplaces
  FailedRestoreRollsBack
  CacheFollowsRestore
PROPERTIES LockReleased
CHECK_DEADLOCK FALSE

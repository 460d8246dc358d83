SPECIFICATION Spec
CONSTANTS
  Restores = {r1}
  Clients = {c1}
  Urls <- OneUrl
  LiveDb <- MCLiveDb
  LiveFiles = {"liveFile"}
  ArchiveDb <- MCArchiveDb
  ArchiveFiles = {"archivedFile"}
  MaxRestores = 1
  EnvMaintenance = "off"
INVARIANT FailsOnlyOnFault
CHECK_DEADLOCK FALSE

SPECIFICATION Spec
CONSTANTS
  Migrations = 2
  Templates = {t1}
  MaxAttempts = 2
  MaxStarts = 2
  Requests = {r1, r2}
  Switches = {"free", "managed"}
  Defaults <- MCDefaults
  Environment <- MCEnvironment
  Backup <- MCBackup
  MaxRequests = 2
INVARIANT SettingsAgree
PROPERTY SettingsEnd
CHECK_DEADLOCK FALSE

SPECIFICATION Spec
CONSTANTS
  alice = alice
  bob = bob
  carol = carol
  admin = admin
  general = general
  manager = manager
  custom = custom
  Users = {alice, bob}
  Actors = {bob}
  RoleIds = {admin, general, manager, custom}
  Admin = admin
  BuiltinRoles = {admin, general}
  InitialRoles <- MCInitialRoles
  Permissions <- MCPermissions
  Requires <- MCRequires
  AdminRequired <- MCAdminRequired
  RoleCreate = "create"
  RoleUpdate = "update"
  RoleDelete = "delete"
  RoleAssign = "assign"
  SeedPermissions <- MCSeedPermissions
  SeedRoles <- OneManager
  Handlers = {h1, h2}
  Seed = seed
  NoUser = nobody
  PermissionRequests <- ManagerEdits
  RoleRequests <- ManagerRoles
INVARIANTS NoEscalation NobodyLeftRoleless
CHECK_DEADLOCK FALSE

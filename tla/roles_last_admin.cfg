SPECIFICATION Spec
CONSTANTS
  alice = alice
  bob = bob
  carol = carol
  admin = admin
  general = general
  manager = manager
  custom = custom
  Users = {alice, bob, carol}
  Actors = {alice, bob}
  RoleIds = {admin, general}
  Admin = admin
  BuiltinRoles = {admin, general}
  InitialRoles <- Builtin
  Permissions <- MCPermissions
  Requires <- MCRequires
  AdminRequired <- MCAdminRequired
  RoleCreate = "create"
  RoleUpdate = "update"
  RoleDelete = "delete"
  RoleAssign = "assign"
  SeedPermissions <- BuiltinSeedPermissions
  SeedRoles <- TwoAdmins
  Handlers = {h1, h2}
  Seed = seed
  NoUser = nobody
  PermissionRequests <- NoEdit
  RoleRequests <- OneRoleEach
INVARIANT LastAdminStays
CHECK_DEADLOCK FALSE

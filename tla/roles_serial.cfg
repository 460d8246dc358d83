SPECIFICATION Spec
CONSTANTS
  alice = alice
  bob = bob
  carol = carol
  admin = admin
  general = general
  manager = manager
  custom = custom
  Users = {alice, bob, carol}
  Actors = {alice, bob, carol}
  RoleIds = {admin, general, custom}
  Admin = admin
  BuiltinRoles = {admin, general}
  InitialRoles <- Builtin
  Permissions <- MCPermissions
  Requires <- MCRequires
  AdminRequired <- MCAdminRequired
  RoleCreate = "create"
  RoleUpdate = "update"
  RoleDelete = "delete"
  RoleAssign = "assign"
  SeedPermissions <- BuiltinSeedPermissions
  SeedRoles <- OneAdmin
  Handlers = {h1}
  Seed = seed
  NoUser = nobody
  PermissionRequests <- AnyEdit
  RoleRequests <- AnyRoles
INVARIANTS TypeOK AdministrationRecoverable PermissionsClosed
PROPERTIES AssignmentReplacesRoles

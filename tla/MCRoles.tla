------------------------------ MODULE MCRoles ------------------------------
(* Small instances of Roles: a catalog of seven keys with the dependencies  *)
(* of the real one, three accounts and the roles each run names.           *)
EXTENDS Roles, TLC

CONSTANTS alice, bob, carol, admin, general, manager, custom

MCPermissions == {"read", "create", "update", "delete", "assign", "backup", "post"}
MCRequires == {"create", "update", "delete", "assign"} \X {"read"}
MCAdminRequired == {"read", "update", "assign"}

MCSeedPermissions ==
  (admin :> MCPermissions) @@ (general :> {"post"})
    @@ (manager :> {"read", "create", "update", "delete", "assign", "post"})
MCInitialRoles == {admin, general, manager}

BuiltinSeedPermissions == (admin :> MCPermissions) @@ (general :> {"post"})
Builtin == {admin, general}

(* One admin beside two ordinary accounts. *)
OneAdmin == (alice :> {admin}) @@ (bob :> {general}) @@ (carol :> {general})

(* Two admins. *)
TwoAdmins == (alice :> {admin}) @@ (bob :> {admin}) @@ (carol :> {general})

(* A role manager who is not an admin. *)
OneManager == (alice :> {admin}) @@ (bob :> {manager})

AnyEdit == {{"post"}, {"update", "assign"}, MCPermissions}
ManagerEdits == {{"backup"}, {"post", "update"}}
NoEdit == {}

AnyRoles == {{admin}, {general}, {custom}, {general, custom}}
ManagerRoles == {{admin}, {general}, {custom}, {manager, custom}}
OneRoleEach == {{admin}, {general}}
=============================================================================

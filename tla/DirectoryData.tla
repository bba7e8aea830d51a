--------------------------- MODULE DirectoryData ---------------------------
(***************************************************************************)
(* The tables "users", "roles" and "user_roles" as every module of the     *)
(* directory of users sees them.  Of a user's columns two are kept: the    *)
(* email, which is unique, and the flag active, which stands for all the   *)
(* columns that are not.                                                   *)
(***************************************************************************)
EXTENDS FiniteSets

CONSTANTS Users,     \* the rows of "users" there may ever be, by id
          Roles,     \* the rows of "roles" there may ever be, by id
          Emails,
          Names,     \* of roles
          UserRole,  \* "ROLE_USER"
          AdminRole, \* "ROLE_ADMIN"
          AdminEmail, \* app.admin.email
          Unused,    \* no row has this id yet
          Deleted    \* the row that had this id is gone

ASSUME NameAssumption == UserRole \in Names /\ AdminRole \in Names /\ UserRole # AdminRole
ASSUME EmailAssumption == AdminEmail \in Emails

UserRow == [email: Emails, active: BOOLEAN]

ASSUME AbsentAssumption ==
    Unused # Deleted /\ {Unused, Deleted} \cap (UserRow \cup Names) = {}

UserTable == [Users -> UserRow \cup {Unused, Deleted}]
RoleTable == [Roles -> Names \cup {Unused, Deleted}]

Rows(table) == {k \in DOMAIN table : table[k] \notin {Unused, Deleted}}

HasEmail(table, email) == {u \in Rows(table) : table[u].email = email}

HasName(table, name) == {k \in Rows(table) : table[k] = name}
=============================================================================

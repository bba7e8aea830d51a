\* Roles created, renamed and deleted while PATCHes assign them.
CONSTANTS
    u1 = u1
    u2 = u2
    u3 = u3
    k1 = k1
    k2 = k2
    k3 = k3
    root = root
    ann = ann
    bob = bob
    Unused = Unused
    Deleted = Deleted
    Null = Null
    NoRequest = NoRequest
    NoCopy = NoCopy
    Users = {u1}
    Roles = {k1, k2, k3}
    Emails = {root, ann}
    Names = {"ROLE_USER", "ROLE_ADMIN", "ROLE_TELLER"}
    UserRole = "ROLE_USER"
    AdminRole = "ROLE_ADMIN"
    AdminEmail = root
    AskedEmails = {Null}
    AskedFlags = {Null}
    AskedNames <- NoneOrOne
    Requests = {r1, r2}
    Kinds = {"PATCH", "ADD_ROLE", "RENAME_ROLE", "DELETE_ROLE"}
    Restarts = FALSE
    Opening <- AnnAlone
SPECIFICATION HSpec
SYMMETRY Threads
INVARIANTS TypeOK UniqueRoleNames AssignedRolesExist UsersHaveRoles RolesInv
PROPERTIES FreshChangesAreAtomic NothingOlderComesBack
CHECK_DEADLOCK FALSE

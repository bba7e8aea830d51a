\* Password changes against PUTs and deletions of the same users and roles.
CONSTANTS
    u1 = u1
    u2 = u2
    u3 = u3
    k1 = k1
    k2 = k2
    k3 = k3
    root = root
    ann = ann
    bob = bob
    Unused = Unused
    Deleted = Deleted
    Null = Null
    NoRequest = NoRequest
    NoCopy = NoCopy
    Users = {u1, u2}
    Roles = {k1, k2}
    Emails = {root, ann, bob}
    Names = {"ROLE_USER", "ROLE_ADMIN"}
    UserRole = "ROLE_USER"
    AdminRole = "ROLE_ADMIN"
    AdminEmail = root
    AskedEmails = {ann, bob}
    AskedFlags = {FALSE}
    AskedNames <- JustAdmin
    Requests = {r1, r2}
    Kinds = {"PASSWORD", "DELETE", "PUT", "RENAME_ROLE", "DELETE_ROLE"}
    Restarts = FALSE
    Opening <- TwoUsers
SPECIFICATION HSpec
SYMMETRY Threads
INVARIANTS UniqueEmails Inv
PROPERTIES FreshChangesAreAtomic NothingOlderComesBack
CHECK_DEADLOCK FALSE

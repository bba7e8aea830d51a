\* Starts on an empty database, with creations that want the emails and the
\* role names that the start wants.
CONSTANTS
    u1 = u1
    u2 = u2
    u3 = u3
    k1 = k1
    k2 = k2
    k3 = k3
    root = root
    ann = ann
    bob = bob
    Unused = Unused
    Deleted = Deleted
    Null = Null
    NoRequest = NoRequest
    NoCopy = NoCopy
    Users = {u1, u2}
    Roles = {k1, k2}
    Emails = {root, ann}
    Names = {"ROLE_USER", "ROLE_ADMIN"}
    UserRole = "ROLE_USER"
    AdminRole = "ROLE_ADMIN"
    AdminEmail = root
    AskedEmails = {root, ann}
    AskedFlags = {FALSE, Null}
    AskedNames <- JustUser
    Requests = {r1, r2}
    Kinds = {"REGISTER", "CREATE", "BULK", "ADD_ROLE"}
    Restarts = TRUE
    Opening <- Empty
SPECIFICATION HSpec
SYMMETRY Threads
INVARIANTS UniqueEmails UniqueRoleNames LastingInv
PROPERTIES ChangesArePromised ImplementsAtomicDirectory
CHECK_DEADLOCK FALSE

\* A password change and PATCHes of the roles of one user.
CONSTANTS
    u1 = u1
    u2 = u2
    u3 = u3
    k1 = k1
    k2 = k2
    k3 = k3
    root = root
    ann = ann
    bob = bob
    Unused = Unused
    Deleted = Deleted
    Null = Null
    NoRequest = NoRequest
    NoCopy = NoCopy
    Users = {u1}
    Roles = {k1, k2}
    Emails = {ann, bob}
    Names = {"ROLE_USER", "ROLE_ADMIN"}
    UserRole = "ROLE_USER"
    AdminRole = "ROLE_ADMIN"
    AdminEmail = ann
    AskedEmails = {Null}
    AskedFlags = {Null}
    AskedNames <- AnyNames
    Requests = {r1, r2}
    Kinds = {"PATCH", "PASSWORD"}
    Restarts = FALSE
    Opening <- AnnAlone
SPECIFICATION Spec
SYMMETRY Threads
INVARIANTS AtLeastOneRole

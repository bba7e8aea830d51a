\* The page of the administrators, while two requests and a start change them.
CONSTANTS
    u1 = u1
    u2 = u2
    k1 = k1
    k2 = k2
    k3 = k3
    root = root
    ann = ann
    Unused = Unused
    Deleted = Deleted
    Null = Null
    NoRequest = NoRequest
    NoCopy = NoCopy
    NoPage = NoPage
    Users = {u1, u2}
    Roles = {k1, k2}
    Emails = {root, ann}
    Names = {"ROLE_USER", "ROLE_ADMIN"}
    UserRole = "ROLE_USER"
    AdminRole = "ROLE_ADMIN"
    AdminEmail = root
    AskedEmails = {Null}
    AskedFlags = {FALSE, Null}
    AskedNames = {{}}
    Requests = {r1, r2}
    Kinds = {"PASSWORD", "RENAME_ROLE", "DELETE_ROLE"}
    Restarts = TRUE
    Pages = {{"ROLE_ADMIN"}}
    MaxAge = 2
    MaxPages = 0
    Opening <- AnnAlone
SPECIFICATION CFairSpec
INVARIANTS CInv CTypeOK CachedPagesAreTrue
PROPERTIES MissedPagesLeave
CHECK_DEADLOCK FALSE

\* The requests that lock more than one row; transfers of a cent and a half.
\* Every user may be deleted.
CONSTANTS
    a1 = a1
    a2 = a2
    a3 = a3
    alice = alice
    root = root
    Unused = Unused
    Deleted = Deleted
    NotLoaded = NotLoaded
    NoRequest = NoRequest
    Free = Free
    Ibans = {a1, a2}
    Users = {alice, root}
    Admins = {root}
    Currencies = {"BYN"}
    Amounts <- CentAndAHalf
    MaxBalance = 30
    Requests = {r1, r2}
    Kinds = {"TRANSFER", "CREATE", "CHANGE_PASSWORD", "DELETE_USER"}
    Opening <- TwoCents
SPECIFICATION FairSpec
INVARIANTS Inv CentsInv
PROPERTIES RequestsFinish
CHECK_DEADLOCK FALSE

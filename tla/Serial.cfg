\* One thread, every kind of request, two currencies.
CONSTANTS
    a1 = a1
    a2 = a2
    a3 = a3
    alice = alice
    root = root
    Unused = Unused
    Deleted = Deleted
    NotLoaded = NotLoaded
    NoRequest = NoRequest
    Free = Free
    Ibans = {a1, a2, a3}
    Users = {alice, root}
    Admins = {root}
    Currencies = {"BYN", "USD"}
    Amounts <- OneAndTwoCents
    MaxBalance = 30
    Requests = {r1}
    Kinds = {"DEPOSIT", "WITHDRAWAL", "TRANSFER", "CLOSE", "OPEN", "DELETE", "CREATE", "CHANGE_PASSWORD", "DELETE_USER"}
    Opening <- TwoAndOne
SPECIFICATION Spec
PROPERTIES ImplementsAtomicBank
CHECK_DEADLOCK FALSE

\* Two deposits on one account.
CONSTANTS
    a1 = a1
    a2 = a2
    a3 = a3
    alice = alice
    root = root
    Unused = Unused
    Deleted = Deleted
    NotLoaded = NotLoaded
    NoRequest = NoRequest
    Free = Free
    Ibans = {a1, a2}
    Users = {alice, root}
    Admins = {root}
    Currencies = {"BYN"}
    Amounts <- OneCent
    MaxBalance = 20
    Requests = {r1, r2}
    Kinds = {"DEPOSIT"}
    Opening <- TwoActive
SPECIFICATION Spec
SYMMETRY Threads
PROPERTIES AcknowledgedAmountsArrive

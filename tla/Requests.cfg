\* Two threads of requests on an account and one to create.  Users and ibans
\* may be used up.
CONSTANTS
    a1 = a1
    a2 = a2
    a3 = a3
    alice = alice
    root = root
    Unused = Unused
    Deleted = Deleted
    NotLoaded = NotLoaded
    NoRequest = NoRequest
    Free = Free
    Ibans = {a1, a2}
    Users = {alice, root}
    Admins = {root}
    Currencies = {"BYN"}
    Amounts <- OneCent
    MaxBalance = 10
    Requests = {r1, r2}
    Kinds = {"DEPOSIT", "TRANSFER", "CLOSE", "OPEN", "DELETE", "CREATE", "DELETE_USER"}
    Opening <- OneEmpty
SPECIFICATION Spec
SYMMETRY Threads
INVARIANTS TypeOK Inv ClosedAccountsAreEmpty AccountsHaveOwners
PROPERTIES FreshCommitsAreAtomic
CHECK_DEADLOCK FALSE

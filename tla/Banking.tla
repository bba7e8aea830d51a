------------------------------ MODULE Banking ------------------------------
(***************************************************************************)
(* Concurrent requests on the accounts: TransactionsController,            *)
(* AccountsController and the account-changing parts of the users'         *)
(* controllers, over Spring Data JPA and PostgreSQL (READ COMMITTED).      *)
(*                                                                         *)
(* A web request has one persistence context for its whole life (Spring's  *)
(* open-in-view).  The first query that returns a row stores its copy      *)
(* there; later queries of the request give back that same copy, so every  *)
(* guard of the services looks at the copy.  At commit Hibernate writes    *)
(* all the columns of a changed copy (no version, no dynamic update),      *)
(* UPDATE by UPDATE in load order; each takes the row lock it keeps until  *)
(* the commit, and fails the transaction when the row is gone.             *)
(***************************************************************************)
EXTENDS AccountData, Sequences, SequencesExt

CONSTANTS Requests,   \* the worker threads: requests in flight at one time
          Admins,     \* the users with ROLE_ADMIN
          Kinds,      \* the kinds of request the clients send
          Opening,    \* the tables when the application starts
          NotLoaded,  \* a row the persistence context has not read
          NoRequest,  \* a thread that waits for a request
          Free        \* a row no transaction has written

ASSUME AdminAssumption == Admins \subseteq Users
ASSUME OpeningAssumption ==
    /\ Opening.users \subseteq Users
    /\ Opening.accounts \in AccountTable
    /\ \A i \in Ibans : Live(Opening.accounts, i) =>
          Sound(Opening.accounts[i]) /\ Opening.accounts[i].owner \in Opening.users
ASSUME NullAssumption == NotLoaded \notin Row \cup {Unused, Deleted} /\ Free \notin Requests
ASSUME KeyAssumption == Ibans \cap Users = {} /\ IsFiniteSet(Ibans)

VARIABLES accounts, \* the committed rows of table accounts
          users,    \* the users with a committed row
          pc,       \* where the thread is in its handler
          req,      \* the request the thread serves
          session,  \* its persistence context: row copies as they were read
          todo,     \* statements of its flush that still have to run
          lock      \* the transaction that has written a row and not ended

vars == <<accounts, users, pc, req, session, todo, lock>>
tables == <<accounts, users>>

-----------------------------------------------------------------------------
(* Requests *)

Transactions == {"DEPOSIT", "WITHDRAWAL", "TRANSFER"}

SingleAccountTransaction ==
    [kind: {"DEPOSIT", "WITHDRAWAL"}, by: Users, iban: Ibans, amount: Amounts,
     currency: Currencies]
TransferTransaction ==
    [kind: {"TRANSFER"}, by: Users, iban: Ibans, to: Ibans, amount: Amounts,
     currency: Currencies]
AccountRequest == [kind: {"CLOSE", "OPEN", "DELETE"}, by: Users, iban: Ibans]
CreateRequest == [kind: {"CREATE"}, by: Users, user: Users, currency: Currencies]
PasswordRequest == [kind: {"CHANGE_PASSWORD"}, by: Users]
DeleteUserRequest == [kind: {"DELETE_USER"}, by: Users, user: Users]

Request == SingleAccountTransaction \cup TransferTransaction \cup AccountRequest
             \cup CreateRequest \cup PasswordRequest \cup DeleteUserRequest

(* @PreAuthorize("hasRole('ADMIN')"), the paths /api/admin and /api/user.  *)
MaySend(q) ==
    /\ q.kind \in {"DELETE", "DELETE_USER"} => q.by \in Admins
    /\ q.kind = "CREATE" => q.by \in Admins \/ q.user = q.by

EmptySession == [i \in Ibans |-> NotLoaded]

Loaded(s, i) == s[i] # NotLoaded

OwnedBy(user) == {i \in Ibans : Live(accounts, i) /\ accounts[i].owner = user}

(* The copies of a user's accounts, as one SELECT with a join returns them. *)
Snapshot(user) == [i \in Ibans |-> IF i \in OwnedBy(user) THEN accounts[i] ELSE NotLoaded]

InContext(r) == {i \in Ibans : Loaded(session[r], i)}

(* The rows a handler looks up; their UPDATEs run in the order of loading. *)
Lookups(q) == IF q.kind = "TRANSFER" THEN <<q.iban, q.to>> ELSE <<q.iban>>

Wants(q) == Range(Lookups(q))

(* The guards of TransactionValidator and of the services.  All of them    *)
(* look at copies.  (The operators whose names end in an underscore and a  *)
(* word are the faults the properties are tried against.)                  *)
NotClosed(row) == row.status # "CLOSED"

InCurrency(q, row) == row.currency = q.currency

(* The amount is above zero already: BaseTransactionDto says so.           *)
Funded_Unchecked(q, row) == TRUE
Funded(q, row) == row.balance >= q.amount

Empty_Unchecked(row) == TRUE
Empty(row) == ~(row.balance > 0)

Allowed(q, s) ==
    LET row == s[q.iban] IN
    CASE q.kind = "DEPOSIT" -> NotClosed(row) /\ InCurrency(q, row)
      [] q.kind = "WITHDRAWAL" -> NotClosed(row) /\ InCurrency(q, row) /\ Funded(q, row)
      [] q.kind = "TRANSFER" ->
            /\ q.iban # q.to
            /\ NotClosed(row) /\ NotClosed(s[q.to])
            /\ row.currency = s[q.to].currency /\ InCurrency(q, row)
            /\ Funded(q, row)
      [] q.kind = "CLOSE" -> NotClosed(row) /\ Empty(row)
      [] q.kind \in {"OPEN", "DELETE"} -> ~NotClosed(row)

(* What an accepted request adds to an account. *)
Posting_NoCredit(q, i) ==
    CASE q.kind = "DEPOSIT" /\ i = q.iban -> q.amount
      [] q.kind \in {"WITHDRAWAL", "TRANSFER"} /\ i = q.iban -> -q.amount
      [] OTHER -> 0

Posting(q, i) ==
    CASE q.kind = "DEPOSIT" /\ i = q.iban -> q.amount
      [] q.kind \in {"WITHDRAWAL", "TRANSFER"} /\ i = q.iban -> -q.amount
      [] q.kind = "TRANSFER" /\ i = q.to /\ i # q.iban -> q.amount
      [] OTHER -> 0

(* An UPDATE writes every column from the copy, whatever the row has.      *)
Columns_OnlyChanged(i, copy) == accounts[i]
Columns(i, copy) == copy

(* The row the request's statement leaves. *)
Written(q, i, copy) ==
    CASE q.kind \in {"DELETE", "DELETE_USER"} -> Deleted
      [] q.kind = "CLOSE" -> [Columns(i, copy) EXCEPT !.status = "CLOSED"]
      [] q.kind = "OPEN" -> [Columns(i, copy) EXCEPT !.status = "ACTIVE"]
      [] q.kind \in Transactions -> [Columns(i, copy) EXCEPT !.balance = Column(@ + Posting(q, i))]
      [] OTHER -> copy

(* numeric(38,2) refuses a value it has no room for. *)
Overflows(q, i, copy) ==
    q.kind \in Transactions /\ Column(copy.balance + Posting(q, i)) > MaxBalance
-----------------------------------------------------------------------------
Init ==
    /\ accounts = Opening.accounts
    /\ users = Opening.users
    /\ pc = [r \in Requests |-> "idle"]
    /\ req = [r \in Requests |-> NoRequest]
    /\ session = [r \in Requests |-> EmptySession]
    /\ todo = [r \in Requests |-> <<>>]
    /\ lock = [k \in Ibans \cup Users |-> Free]

Goto(r, step) == pc' = [pc EXCEPT ![r] = step]

(* The response leaves: locks, persistence context and request are gone. *)
EndRequest(r) ==
    /\ Goto(r, "idle")
    /\ req' = [req EXCEPT ![r] = NoRequest]
    /\ session' = [session EXCEPT ![r] = EmptySession]
    /\ todo' = [todo EXCEPT ![r] = <<>>]
    /\ lock' = [k \in DOMAIN lock |-> IF lock[k] = r THEN Free ELSE lock[k]]

(* An exception: the transaction, if there is one, rolls back. *)
Fail(r) == EndRequest(r) /\ UNCHANGED tables

FirstStep(kind) ==
    CASE kind \in Transactions -> "authorize"
      [] kind = "CHANGE_PASSWORD" -> "merge"
      [] kind \in {"CREATE", "DELETE_USER"} -> "loadUser"
      [] OTHER -> "load"

(* JwtAuthenticationFilter finds the user of the token, with the accounts, *)
(* in a persistence context of its own.  Only changePassword, which takes  *)
(* the user from the authentication, ever looks at these copies again.     *)
Receive(r) ==
    /\ pc[r] = "idle"
    /\ \E q \in Request :
          /\ q.kind \in Kinds /\ q.by \in users /\ MaySend(q)
          /\ req' = [req EXCEPT ![r] = q]
          /\ Goto(r, FirstStep(q.kind))
          /\ session' = [session EXCEPT ![r] =
                IF q.kind = "CHANGE_PASSWORD" THEN Snapshot(q.by) ELSE EmptySession]
    /\ UNCHANGED <<tables, todo, lock>>

OwnsSource(q) == Live(accounts, q.iban) /\ accounts[q.iban].owner = q.by

(* AccountSecurityService.canPerformTransaction.  Only the withdrawal or   *)
(* transfer of someone who is no admin looks at an account, and the copy   *)
(* it reads is the one the services decide on later.                       *)
Authorize(r) ==
    LET q == req[r]
        mustOwn == q.by \notin Admins /\ q.kind # "DEPOSIT" IN
    /\ pc[r] = "authorize"
    /\ \/ /\ q.by \in users
          /\ mustOwn => OwnsSource(q)
          /\ session' = IF mustOwn
                        THEN [session EXCEPT ![r][q.iban] = accounts[q.iban]]
                        ELSE session
          /\ Goto(r, "load")
          /\ UNCHANGED <<tables, req, todo, lock>>
       \/ /\ q.by \notin users \/ (mustOwn /\ ~OwnsSource(q))
          /\ Fail(r)

(* AccountRepository.findByIban, once per account the handler needs: a row *)
(* the context holds already is not read again.                            *)
Load(r) ==
    LET q == req[r]
        i == IF Loaded(session[r], q.iban) THEN q.to ELSE q.iban IN
    /\ pc[r] = "load"
    /\ \/ /\ Wants(q) \subseteq InContext(r)
          /\ Goto(r, IF q.kind \in {"CLOSE", "OPEN"} THEN "access" ELSE "execute")
          /\ UNCHANGED <<tables, req, session, todo, lock>>
       \/ /\ ~(Wants(q) \subseteq InContext(r))
          /\ Live(accounts, i)
          /\ session' = [session EXCEPT ![r][i] = accounts[i]]
          /\ UNCHANGED <<tables, pc, req, todo, lock>>
       \/ /\ ~(Wants(q) \subseteq InContext(r))
          /\ ~Live(accounts, i)
          /\ Fail(r)

(* The second half of validateAndGetAccount: the user, then hasAccess. *)
CheckAccess(r) ==
    LET q == req[r]
        granted == q.by \in users /\ (q.by \in Admins \/ session[r][q.iban].owner = q.by) IN
    /\ pc[r] = "access"
    /\ \/ granted /\ Goto(r, "execute") /\ UNCHANGED <<tables, req, session, todo, lock>>
       \/ ~granted /\ Fail(r)

(* The body of processTransaction, closeAccount, openAccount or            *)
(* deleteAccount.  The services of a transaction query the rows once more, *)
(* which tells them of a deletion and of nothing else.                     *)
Execute(r) ==
    LET q == req[r]
        allowed == /\ q.kind \in Transactions => \A i \in Wants(q) : Live(accounts, i)
                   /\ Allowed(q, session[r]) IN
    /\ pc[r] = "execute"
    /\ \/ /\ allowed
          /\ todo' = [todo EXCEPT ![r] = Lookups(q)]
          /\ Goto(r, "flush")
          /\ UNCHANGED <<tables, req, session, lock>>
       \/ ~allowed /\ Fail(r)

(* UserRepository.findById in createAccount and in deleteUser; the latter  *)
(* hands the user and the accounts read with them to EntityManager.remove, *)
(* which deletes the accounts, in the order of a HashSet, and then the     *)
(* user.                                                                   *)
LoadUser(r) ==
    LET q == req[r] IN
    /\ pc[r] = "loadUser"
    /\ \/ /\ q.user \in users /\ q.kind = "CREATE"
          /\ Goto(r, "insert")
          /\ UNCHANGED <<tables, req, session, todo, lock>>
       \/ /\ q.user \in users /\ q.kind = "DELETE_USER"
          /\ session' = [session EXCEPT ![r] = Snapshot(q.user)]
          /\ \E order \in SetToSeqs(OwnedBy(q.user)) :
                todo' = [todo EXCEPT ![r] = Append(order, q.user)]
          /\ Goto(r, "flush")
          /\ UNCHANGED <<tables, req, lock>>
       \/ q.user \notin users /\ Fail(r)

(* userRepository.save(user) in changePassword merges the copies of the    *)
(* filter's context over the rows as they are now: every account whose row *)
(* differs from its copy becomes dirty, a row that is gone fails the merge. *)
(* The passwords the user typed may not do; they are no data of the model. *)
Merge(r) ==
    LET user == req[r].by
        dirty == {i \in InContext(r) : accounts[i] # session[r][i]}
        found == user \in users /\ \A i \in InContext(r) : Live(accounts, i) IN
    /\ pc[r] = "merge"
    /\ \/ /\ found
          /\ \E order \in SetToSeqs(dirty) : todo' = [todo EXCEPT ![r] = <<user>> \o order]
          /\ Goto(r, "flush")
          /\ UNCHANGED <<tables, req, session, lock>>
       \/ Fail(r)

(* accountRepository.save of a new account: the identity column makes it   *)
(* an immediate INSERT, which waits for a transaction that is deleting the *)
(* user, violates the foreign key when the user is gone, and the unique    *)
(* iban when IbanGenerator drew one that is taken.                         *)
ForeignKeyHolds_NoConstraint(user) == TRUE
ForeignKeyHolds(user) == user \in users

Insert(r) ==
    LET q == req[r] IN
    /\ pc[r] = "insert"
    /\ ~\E s \in Requests : lock[q.user] = s /\ req[s].kind = "DELETE_USER"
    /\ \E i \in Ibans :
          \/ /\ ForeignKeyHolds(q.user) /\ accounts[i] = Unused
             /\ accounts' = [accounts EXCEPT ![i] = NewAccount(q.user, q.currency)]
             /\ EndRequest(r)
             /\ UNCHANGED users
          \/ /\ ~ForeignKeyHolds(q.user) \/ accounts[i] # Unused
             /\ Fail(r)
-----------------------------------------------------------------------------
(* The flush, and PostgreSQL *)

(* The transaction holds the row its next statement needs, or none does. *)
Grantable(r) == lock[Head(todo[r])] \in {Free, r}

(* An account that this transaction has not deleted refers to the user. *)
StillReferred_NoConstraint(r, user) == FALSE
StillReferred(r, user) == \E i \in OwnedBy(user) : lock[i] # r

(* A statement that cannot do what it says: no row to change, a value the  *)
(* column has no room for, an account that still refers to the user.       *)
StatementFails(r) ==
    LET q == req[r]
        k == Head(todo[r]) IN
    IF k \in Users
    THEN \/ k \notin users
         \/ q.kind = "DELETE_USER" /\ StillReferred(r, k)
    ELSE ~Live(accounts, k) \/ Overflows(q, k, session[r][k])

Flush(r) ==
    /\ pc[r] = "flush" /\ todo[r] # <<>>
    /\ Grantable(r)
    /\ \/ /\ ~StatementFails(r)
          /\ lock' = [lock EXCEPT ![Head(todo[r])] = r]
          /\ todo' = [todo EXCEPT ![r] = Tail(@)]
          /\ UNCHANGED <<tables, pc, req, session>>
       \/ StatementFails(r) /\ Fail(r)

Writes(r) == {i \in Ibans : lock[i] = r}

(* A row this commit writes is no longer what its copy says it was. *)
Stale(r) == \E i \in Writes(r) : accounts[i] # session[r][i]

Commit(r) ==
    LET q == req[r] IN
    /\ pc[r] = "flush" /\ todo[r] = <<>>
    /\ accounts' = [i \in Ibans |-> IF i \in Writes(r)
                                    THEN Written(q, i, session[r][i]) ELSE accounts[i]]
    /\ users' = IF q.kind = "DELETE_USER" THEN users \ {q.user} ELSE users
    /\ EndRequest(r)

Waits(r) == pc[r] = "flush" /\ todo[r] # <<>> /\ ~Grantable(r)

Blocker(r) == lock[Head(todo[r])]

(* PostgreSQL finds a cycle of waiting transactions and aborts one of them. *)
AbortDeadlock_Never(r) == FALSE

AbortDeadlock(r) ==
    /\ \E cycle \in SUBSET Requests :
          /\ r \in cycle
          /\ \A s \in cycle : Waits(s)
          /\ {Blocker(s) : s \in cycle} = cycle
    /\ Fail(r)

(* The application dies with everything that was in flight. *)
Crash ==
    /\ \E r \in Requests : pc[r] # "idle"
    /\ pc' = [r \in Requests |-> "idle"]
    /\ req' = [r \in Requests |-> NoRequest]
    /\ session' = [r \in Requests |-> EmptySession]
    /\ todo' = [r \in Requests |-> <<>>]
    /\ lock' = [k \in Ibans \cup Users |-> Free]
    /\ UNCHANGED tables

Handle(r) == \/ Authorize(r) \/ Load(r) \/ CheckAccess(r) \/ Execute(r)
             \/ LoadUser(r) \/ Merge(r) \/ Insert(r)
             \/ Flush(r) \/ Commit(r)

Next == (\E r \in Requests : Receive(r) \/ Handle(r) \/ AbortDeadlock(r)) \/ Crash

Spec == Init /\ [][Next]_vars

(* A thread that has a request goes on with it; PostgreSQL grants a row to *)
(* those who queue for it in their order, and looks for deadlocks.  No     *)
(* client has to send anything.                                            *)
Fairness == \A r \in Requests : /\ WF_vars(Handle(r))
                                /\ SF_vars(Flush(r) \/ Insert(r))
                                /\ WF_vars(AbortDeadlock(r))

FairSpec == Spec /\ Fairness
-----------------------------------------------------------------------------
(* Properties *)

Steps == {"idle", "authorize", "load", "access", "execute", "loadUser", "merge",
          "insert", "flush"}

(* Every variable holds what its place in the program can hold; a balance  *)
(* of the table is never negative and always fits the column.              *)
TypeOK ==
    /\ accounts \in AccountTable
    /\ users \subseteq Users
    /\ pc \in [Requests -> Steps]
    /\ req \in [Requests -> Request \cup {NoRequest}]
    /\ session \in [Requests -> [Ibans -> Row \cup {NotLoaded}]]
    /\ todo \in [Requests -> Seq(Ibans \cup Users)]
    /\ lock \in [Ibans \cup Users -> Requests \cup {Free}]

(* A closed account holds no money, although closeAccount decides on one   *)
(* copy of the row, deposits on another, and each writes the whole row     *)
(* over the other's: status and balance always come from one copy.         *)
ClosedAccountsAreEmpty == \A i \in Ibans : Live(accounts, i) => Sound(accounts[i])

(* No account outlives its user: a createAccount that has found the user   *)
(* and a deleteUser that has read the accounts overlap without leaving an  *)
(* account nobody owns.                                                    *)
AccountsHaveOwners == \A i \in Ibans : Live(accounts, i) => accounts[i].owner \in users

Atomic == INSTANCE AtomicBank WITH accounts <- accounts, users <- users

(* The operation of the abstract bank that a request asks for.             *)
Asked(q) ==
    \/ q.kind = "DEPOSIT" /\ Atomic!Deposit(q.iban, q.amount, q.currency)
    \/ q.kind = "WITHDRAWAL" /\ Atomic!Withdraw(q.iban, q.amount, q.currency)
    \/ q.kind = "TRANSFER" /\ Atomic!Transfer(q.iban, q.to, q.amount, q.currency)
    \/ q.kind = "CLOSE" /\ Atomic!Close(q.iban)
    \/ q.kind = "OPEN" /\ Atomic!Open(q.iban)
    \/ q.kind = "DELETE" /\ Atomic!Delete(q.iban)
    \/ q.kind = "CREATE" /\ \E i \in Ibans : Atomic!Create(i, q.user, q.currency)
    \/ q.kind = "DELETE_USER" /\ Atomic!DeleteUser(q.user)

StaleCommit == \E r \in Requests : Stale(r) /\ Commit(r)

(* The tables change by an operation of the abstract bank that a request   *)
(* in flight asks for, on the rows as they are and with all its effects,   *)
(* or by a commit from a copy that is no longer the row.  In particular a  *)
(* transfer never shows in one account only, a failed request or a crash   *)
(* leaves nothing, and a new password changes no account.                  *)
FreshCommitsAreAtomic ==
    [][StaleCommit \/ \E r \in Requests : pc[r] \in {"flush", "insert"} /\ Asked(req[r])]_tables

(* With one worker thread no copy is ever old and the code implements the  *)
(* bank it promises.                                                       *)
ImplementsAtomicBank == Atomic!Spec

(* Every request ends: requests that wait for each other's rows, as two    *)
(* opposite transfers do, are not left waiting.                            *)
RequestsFinish == \A r \in Requests : pc[r] # "idle" ~> pc[r] = "idle"
-----------------------------------------------------------------------------
(* What the tests and messages of the repository say, and the code does    *)
(* not keep.                                                               *)

(* An acknowledged deposit, withdrawal or transfer changes each balance by *)
(* the amount it says: the tests of TransactionService expect 1000 + 100   *)
(* to be 1100.                                                             *)
AcknowledgedAmountsArrive ==
    [][\A r \in Requests : Commit(r) /\ req[r].kind \in Transactions =>
          \A i \in Wants(req[r]) :
             accounts'[i].balance = accounts[i].balance + Posting(req[r], i)]_vars

(* changePassword changes a password: no account of anybody changes.       *)
PasswordLeavesAccountsAlone ==
    [][\A r \in Requests : Commit(r) /\ req[r].kind = "CHANGE_PASSWORD"
                             => UNCHANGED accounts]_vars
=============================================================================

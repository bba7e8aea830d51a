-------------------------- MODULE BankingRefinement --------------------------
(***************************************************************************)
(* Every step of Banking is a step of AtomicBank, a step that leaves the   *)
(* tables alone, or a commit from an old copy: for every set of accounts,  *)
(* users, threads and whole-cent amounts.                                  *)
(*                                                                         *)
(* A commit whose copies are still the rows writes what AtomicBank writes: *)
(* its guards held of the copies (DecidedOnCopies), all the rows it had to *)
(* write are written (FlushWritesRequest), and the column rounds nothing   *)
(* away from whole cents (CentsInv).                                       *)
(***************************************************************************)
EXTENDS BankingProofs

(* The column stores whole cents, and whole cents as they are.             *)
LEMMA ColumnOfCents ==
    /\ \A v \in Int : WholeCents(Column(v))
    /\ \A v \in Int : WholeCents(v) => Column(v) = v
    /\ \A v, w \in Int : WholeCents(v) /\ WholeCents(w) => WholeCents(v + w) /\ WholeCents(v - w)
<1>1. \A v \in Int : WholeCents(Column(v))
  BY DEF WholeCents, Column
<1>2. \A v \in Int : WholeCents(v) => Column(v) = v
  BY DEF WholeCents, Column
<1>3. \A v, w \in Int : WholeCents(v) /\ WholeCents(w) => WholeCents(v + w) /\ WholeCents(v - w)
  BY DEF WholeCents
<1> QED
  BY <1>1, <1>2, <1>3

(* What a context holds after a step it held before, or is a present row.  *)
LEMMA CopiesComeFromRows ==
    ASSUME Inv, [Next]_vars, NEW s \in Requests, NEW i \in Ibans, Loaded(session'[s], i)
    PROVE  session'[s][i] = session[s][i] \/ (Live(accounts, i) /\ session'[s][i] = accounts[i])
<1>1. \A r \in Requests : EndRequest(r) =>
         session'[s] = session[s] \/ session'[s] = EmptySession
  BY DEF Inv, TypeOK, EndRequest
<1>2. session'[s] # EmptySession
  BY DEF Loaded, EmptySession
<1>3. ASSUME NEW r \in Requests, EndRequest(r) PROVE session'[s][i] = session[s][i]
  BY <1>1, <1>2, <1>3
<1>4. ASSUME NEW r \in Requests, NEW u, session' = [session EXCEPT ![r] = Snapshot(u)]
      PROVE  session'[s][i] = session[s][i] \/ (Live(accounts, i) /\ session'[s][i] = accounts[i])
  BY <1>4 DEF Inv, TypeOK, Snapshot, OwnedBy, Loaded
<1>5. ASSUME NEW r \in Requests, NEW j \in Ibans, Live(accounts, j),
             session' = [session EXCEPT ![r][j] = accounts[j]]
      PROVE  session'[s][i] = session[s][i] \/ (Live(accounts, i) /\ session'[s][i] = accounts[i])
  BY <1>5 DEF Inv, TypeOK
<1>6. ASSUME NEW r \in Requests, Receive(r)
      PROVE  session'[s][i] = session[s][i] \/ (Live(accounts, i) /\ session'[s][i] = accounts[i])
  <2>1. session' = [session EXCEPT ![r] = EmptySession]
          \/ \E u : session' = [session EXCEPT ![r] = Snapshot(u)]
    BY <1>6 DEF Receive
  <2>2. session' = [session EXCEPT ![r] = EmptySession] =>
           session'[s] = session[s] \/ session'[s] = EmptySession
    BY DEF Inv, TypeOK
  <2> QED
    BY <1>2, <1>4, <2>1, <2>2
<1>7. ASSUME NEW r \in Requests, Authorize(r)
      PROVE  session'[s][i] = session[s][i] \/ (Live(accounts, i) /\ session'[s][i] = accounts[i])
  <2>1. req[r].iban \in Ibans
    BY <1>7, LookupsOfRequest DEF Authorize, Inv, StepsServe, RowRequest
  <2>2. \/ EndRequest(r) \/ session' = session
        \/ /\ Live(accounts, req[r].iban)
           /\ session' = [session EXCEPT ![r][req[r].iban] = accounts[req[r].iban]]
    BY <1>7 DEF Authorize, Fail, OwnsSource
  <2> QED
    BY <1>3, <1>5, <2>1, <2>2
<1>8. ASSUME NEW r \in Requests, Load(r)
      PROVE  session'[s][i] = session[s][i] \/ (Live(accounts, i) /\ session'[s][i] = accounts[i])
  <2> DEFINE j == IF Loaded(session[r], req[r].iban) THEN req[r].to ELSE req[r].iban
  <2>1. ~(Wants(req[r]) \subseteq InContext(r)) => j \in Ibans
    BY <1>8, LookupsOfRequest DEF Load, Inv, StepsServe, InContext
  <2>2. \/ EndRequest(r) \/ session' = session
        \/ /\ ~(Wants(req[r]) \subseteq InContext(r))
           /\ Live(accounts, j) /\ session' = [session EXCEPT ![r][j] = accounts[j]]
    BY <1>8 DEF Load, Fail
  <2> HIDE DEF j
  <2> QED
    BY <1>3, <1>5, <2>1, <2>2
<1>9. ASSUME NEW r \in Requests, LoadUser(r)
      PROVE  session'[s][i] = session[s][i] \/ (Live(accounts, i) /\ session'[s][i] = accounts[i])
  <2>1. \/ EndRequest(r) \/ session' = session
        \/ session' = [session EXCEPT ![r] = Snapshot(req[r].user)]
    BY <1>9 DEF LoadUser, Fail
  <2> QED
    BY <1>3, <1>4, <2>1
<1>10. ASSUME NEW r \in Requests,
              CheckAccess(r) \/ Execute(r) \/ Merge(r) \/ Insert(r) \/ Flush(r) \/ Commit(r)
                \/ AbortDeadlock(r)
       PROVE  session'[s][i] = session[s][i]
  <2>1. EndRequest(r) \/ session' = session
    BY <1>10 DEF CheckAccess, Execute, Merge, Insert, Flush, Commit, AbortDeadlock, Fail
  <2> QED
    BY <1>3, <2>1
<1>11. ~Crash
  BY DEF Crash, Loaded, EmptySession
<1> QED
  BY <1>6, <1>7, <1>8, <1>9, <1>10, <1>11 DEF Next, Handle, vars

(* Only an INSERT and a commit change the table of accounts.               *)
LEMMA TablesChange ==
    ASSUME Inv, [Next]_vars
    PROVE  \/ UNCHANGED <<accounts, users>>
           \/ \E r \in Requests : Commit(r)
           \/ \E r \in Requests, i \in Ibans :
                 /\ pc[r] = "insert" /\ req[r] \in CreateRequest
                 /\ req[r].user \in users /\ accounts[i] = Unused
                 /\ accounts' = [accounts EXCEPT ![i] = NewAccount(req[r].user, req[r].currency)]
                 /\ UNCHANGED users
<1>1. ASSUME NEW r \in Requests, Insert(r)
      PROVE  \/ UNCHANGED <<accounts, users>>
             \/ \E i \in Ibans :
                   /\ pc[r] = "insert" /\ req[r] \in CreateRequest
                   /\ req[r].user \in users /\ accounts[i] = Unused
                   /\ accounts' = [accounts EXCEPT ![i] = NewAccount(req[r].user, req[r].currency)]
                   /\ UNCHANGED users
  <2>1. req[r] \in CreateRequest
    BY <1>1 DEF Insert, Inv, StepsServe
  <2> QED
    BY <1>1, <2>1 DEF Insert, ForeignKeyHolds, Fail, tables
<1>2. ASSUME NEW r \in Requests,
             Receive(r) \/ Authorize(r) \/ Load(r) \/ CheckAccess(r) \/ Execute(r) \/ LoadUser(r)
               \/ Merge(r) \/ Flush(r) \/ AbortDeadlock(r)
      PROVE  UNCHANGED <<accounts, users>>
  BY <1>2 DEF Receive, Authorize, Load, CheckAccess, Execute, LoadUser, Merge, Flush,
              AbortDeadlock, Fail, tables
<1>3. Crash \/ UNCHANGED vars => UNCHANGED <<accounts, users>>
  BY DEF Crash, tables, vars
<1> QED
  BY <1>1, <1>2, <1>3 DEF Next, Handle
-----------------------------------------------------------------------------
(* Whole cents stay whole cents: the column sees to it.                    *)
LEMMA CentsInit == WholeCentOpening /\ Init => CentsInv
  BY DEF WholeCentOpening, Init, CentsInv, Loaded, EmptySession, Live

(* A row that a money transaction has locked is one it looked up, and the  *)
(* guards held of its copies.                                              *)
LEMMA PostingOfWrite ==
    ASSUME Inv, NEW r \in Requests, NEW i \in Ibans, lock[i] = r, req[r].kind \in Transactions
    PROVE  /\ req[r].amount \in Amounts /\ req[r].amount \in Nat
           /\ i \in Wants(req[r]) /\ Allowed(req[r], session[r])
           /\ Posting(req[r], i) \in {req[r].amount, -req[r].amount}
<1> DEFINE q == req[r]
<1>1. pc[r] = "flush"
  BY DEF Inv, LockedRowsStay
<1>2. q \in TransactionRequest
  BY <1>1 DEF Inv, StepsServe, RowRequest, AccountRequest, PasswordRequest, DeleteUserRequest,
              Transactions
<1>3. q.amount \in Amounts /\ q.amount \in Nat
  BY <1>2, AmountAssumption DEF TransactionRequest, SingleAccountTransaction, TransferTransaction
<1>4. i \in Wants(q) /\ Allowed(q, session[r])
  BY <1>1, <1>2 DEF Inv, FlushWritesRequest, DecidedOnCopies, Writes, RowRequest
<1>5. Posting(q, i) \in {q.amount, -q.amount}
  <2>1. Wants(q) = IF q.kind = "TRANSFER" THEN {q.iban, q.to} ELSE {q.iban}
    BY <1>2, LookupsOfRequest DEF RowRequest
  <2> QED
    BY <1>4, <2>1, Postings DEF Transactions
<1> QED
  BY <1>3, <1>4, <1>5

LEMMA CentsStep == Inv /\ CentsInv /\ [Next]_vars => CentsInv'
<1> SUFFICES ASSUME Inv, CentsInv, [Next]_vars PROVE CentsInv'
  OBVIOUS
<1>1. \A s \in Requests, i \in Ibans :
         Loaded(session'[s], i) => WholeCents(session'[s][i].balance)
  BY CopiesComeFromRows DEF CentsInv, Loaded
<1>2. \A i \in Ibans : Live(accounts', i) => WholeCents(accounts'[i].balance)
  <2>1. CASE UNCHANGED accounts
    BY <2>1 DEF CentsInv, Live
  <2>2. ASSUME NEW r \in Requests, NEW j \in Ibans,
               accounts' = [accounts EXCEPT ![j] = NewAccount(req[r].user, req[r].currency)]
        PROVE  \A i \in Ibans : Live(accounts', i) => WholeCents(accounts'[i].balance)
    <3>1. \A i \in Ibans : accounts'[i] = accounts[i] \/ accounts'[i].balance = 0
      BY <2>2 DEF Inv, TypeOK, AccountTable, NewAccount
    <3>2. WholeCents(0)
      BY DEF WholeCents
    <3> QED
      BY <3>1, <3>2 DEF CentsInv, Live
  <2>3. ASSUME NEW r \in Requests, Commit(r), NEW i \in Ibans, Live(accounts', i)
        PROVE  WholeCents(accounts'[i].balance)
    <3>1. CASE lock[i] # r
      <4>1. accounts'[i] = accounts[i]
        BY <2>3, <3>1 DEF Commit, Writes
      <4> QED
        BY <2>3, <4>1 DEF CentsInv, Live
    <3>2. CASE lock[i] = r
      <4> DEFINE q == req[r]
                 copy == session[r][i]
      <4>1. accounts'[i] = Written(q, i, copy)
        BY <2>3, <3>2 DEF Commit, Writes
      <4>2. copy \in Row /\ Loaded(session[r], i) /\ WholeCents(copy.balance)
        BY <3>2 DEF Inv, LockedRowsStay, Loaded, TypeOK, CentsInv
      <4>3. CASE q.kind \in {"DELETE", "DELETE_USER"}
        BY <2>3, <4>1, <4>3, WrittenByKind DEF Live
      <4>4. CASE q.kind \in Transactions
        <5>1. accounts'[i] = [copy EXCEPT !.balance = Column(copy.balance + Posting(q, i))]
          BY <4>1, <4>4, WrittenByKind
        <5>2. accounts'[i].balance = Column(copy.balance + Posting(q, i))
          BY <4>2, <5>1 DEF Row
        <5>3. copy.balance + Posting(q, i) \in Int
          <6>1. copy.balance \in Int
            BY <4>2, MaxBalanceAssumption DEF Row
          <6>2. Posting(q, i) \in Int
            BY <3>2, <4>4, PostingOfWrite
          <6> QED
            BY <6>1, <6>2
        <5> QED
          BY <5>2, <5>3, ColumnOfCents
      <4>5. CASE q.kind \notin {"DELETE", "DELETE_USER"} \cup Transactions
        <5>1. accounts'[i] \in {copy, [copy EXCEPT !.status = "CLOSED"],
                                [copy EXCEPT !.status = "ACTIVE"]}
          BY <4>1, <4>5, WrittenByKind
        <5>2. accounts'[i].balance = copy.balance
          BY <4>2, <5>1 DEF Row
        <5> QED
          BY <4>2, <5>2
      <4> QED
        BY <4>3, <4>4, <4>5
    <3> QED
      BY <3>1, <3>2
  <2> QED
    BY <2>1, <2>2, <2>3, TablesChange
<1> QED
  BY <1>1, <1>2 DEF CentsInv

(* What the commit of a money transaction stores, when its copy is the row *)
(* and everything is whole cents: the row plus the amount, which fits.     *)
LEMMA FreshPosting ==
    ASSUME Inv, CentsInv, WholeCentBank, NEW r \in Requests, NEW i \in Ibans,
           lock[i] = r, accounts[i] = session[r][i], req[r].kind \in Transactions
    PROVE  /\ accounts[i] \in Row /\ accounts[i].balance \in Nat
           /\ req[r].amount \in Amounts /\ req[r].amount \in Nat
           /\ i \in Wants(req[r]) /\ Allowed(req[r], session[r])
           /\ accounts[i].balance + Posting(req[r], i) <= MaxBalance
           /\ Written(req[r], i, session[r][i]) =
                 [accounts[i] EXCEPT !.balance = accounts[i].balance + Posting(req[r], i)]
<1> DEFINE q == req[r]
           row == accounts[i]
<1>1. /\ pc[r] = "flush" /\ Live(accounts, i) /\ Loaded(session[r], i)
      /\ ~Overflows(q, i, row)
  BY DEF Inv, LockedRowsStay
<1>2. row \in Row
  BY <1>1 DEF Inv, TypeOK, AccountTable, Live
<1>3. row.balance \in Nat /\ WholeCents(row.balance)
  BY <1>1, <1>2, MaxBalanceAssumption DEF Row, CentsInv
<1>4. /\ q.amount \in Amounts /\ q.amount \in Nat
      /\ i \in Wants(q) /\ Allowed(q, session[r])
      /\ Posting(q, i) \in {q.amount, -q.amount}
  BY PostingOfWrite
<1>5. Column(row.balance + Posting(q, i)) = row.balance + Posting(q, i)
  <2>1. WholeCents(q.amount)
    BY <1>4 DEF WholeCentBank
  <2>2. Posting(q, i) \in Int /\ WholeCents(row.balance + Posting(q, i))
    BY <1>3, <1>4, <2>1 DEF WholeCents
  <2> QED
    BY <1>3, <2>2, ColumnOfCents
<1>6. row.balance + Posting(q, i) <= MaxBalance
  <2>1. ~(row.balance + Posting(q, i) > MaxBalance)
    BY <1>1, <1>5 DEF Overflows
  <2>2. row.balance + Posting(q, i) \in Int
    BY <1>3, <1>4
  <2> QED
    BY <2>1, <2>2, MaxBalanceAssumption
<1>7. Written(q, i, session[r][i]) = [row EXCEPT !.balance = row.balance + Posting(q, i)]
  BY <1>5, WrittenByKind
<1> QED
  BY <1>2, <1>3, <1>4, <1>6, <1>7
-----------------------------------------------------------------------------
(* A commit from copies that still are the rows.                           *)
LEMMA FreshCommitIsAtomic ==
    ASSUME Inv, CentsInv, WholeCentBank, NEW r \in Requests, Commit(r), ~Stale(r)
    PROVE  pc[r] = "flush" /\ (Asked(req[r]) \/ UNCHANGED tables)
<1> DEFINE q == req[r]
<1>1. /\ pc[r] = "flush" /\ Pending(r) = {}
      /\ StepsServe(r) /\ DecidedOnCopies(r) /\ FlushWritesRequest(r)
      /\ q \in RowRequest \cup PasswordRequest \cup DeleteUserRequest
  BY DEF Commit, Pending, Range, Inv, StepsServe
<1> SUFFICES Asked(q) \/ UNCHANGED tables
  BY <1>1
<1>2. \A i \in Ibans : lock[i] = r =>
         /\ Live(accounts, i) /\ accounts[i] = session[r][i] /\ accounts[i] \in Row
         /\ accounts'[i] = Written(q, i, session[r][i])
  <2> SUFFICES ASSUME NEW i \in Ibans, lock[i] = r
               PROVE  /\ Live(accounts, i) /\ accounts[i] = session[r][i] /\ accounts[i] \in Row
                      /\ accounts'[i] = Written(q, i, session[r][i])
    OBVIOUS
  <2>1. Live(accounts, i)
    BY DEF Inv, LockedRowsStay
  <2>2. accounts[i] \in Row
    BY <2>1 DEF Inv, TypeOK, AccountTable, Live
  <2>3. accounts[i] = session[r][i]
    BY DEF Stale, Writes
  <2>4. accounts'[i] = Written(q, i, session[r][i])
    BY DEF Commit, Writes
  <2> QED
    BY <2>1, <2>2, <2>3, <2>4
<1>3. /\ \A i \in Ibans : lock[i] # r => accounts'[i] = accounts[i]
      /\ accounts \in [Ibans -> Row \cup {Unused, Deleted}]
      /\ DOMAIN accounts' = Ibans
      /\ accounts' = [i \in Ibans |-> accounts'[i]]
  BY DEF Commit, Writes, Inv, TypeOK, AccountTable
<1>4. q.kind # "DELETE_USER" => users' = users
  BY DEF Commit
<1>5. CASE q \in RowRequest
  <2>1. /\ \A i \in Ibans : lock[i] = r <=> i \in Wants(q)
        /\ q.iban \in Ibans /\ lock[q.iban] = r
        /\ q.kind = "TRANSFER" => q.to \in Ibans /\ lock[q.to] = r
        /\ Wants(q) = IF q.kind = "TRANSFER" THEN {q.iban, q.to} ELSE {q.iban}
        /\ Allowed(q, session[r])
        /\ q.kind \in Transactions \cup {"CLOSE", "OPEN", "DELETE"}
    <3>1. Wants(q) = Writes(r) /\ Allowed(q, session[r])
      BY <1>1, <1>5 DEF FlushWritesRequest, DecidedOnCopies
    <3>2. q.kind \in Transactions \cup {"CLOSE", "OPEN", "DELETE"}
      BY <1>5 DEF RowRequest, TransactionRequest, SingleAccountTransaction, TransferTransaction,
                  AccountRequest, Transactions
    <3> QED
      BY <1>5, <3>1, <3>2, LookupsOfRequest DEF Writes
  <2>2. UNCHANGED users
    BY <1>4, <2>1 DEF Transactions
  <2>3. CASE q.kind \in {"DEPOSIT", "WITHDRAWAL"}
    <3> DEFINE i == q.iban
               row == accounts[i]
    <3>1. /\ row \in Row /\ row.balance \in Nat /\ q.amount \in Amounts /\ q.amount \in Nat
          /\ row.balance + Posting(q, i) <= MaxBalance
          /\ accounts'[i] = [row EXCEPT !.balance = row.balance + Posting(q, i)]
      BY <1>2, <2>1, <2>3, FreshPosting DEF Transactions
    <3>2. accounts' = [accounts EXCEPT ![i] = [row EXCEPT !.balance = row.balance + Posting(q, i)]]
      BY <1>3, <2>1, <2>3, <3>1
    <3>3. /\ row.status = "ACTIVE" /\ row.currency = q.currency /\ Live(accounts, i)
          /\ q.kind # "DEPOSIT" => row.balance >= q.amount
      <4>1. /\ row.status # "CLOSED" /\ row.currency = q.currency
            /\ q.kind # "DEPOSIT" => row.balance >= q.amount
        BY <1>2, <2>1, <2>3, AllowedTransaction DEF Transactions
      <4> QED
        BY <1>2, <2>1, <3>1, <4>1 DEF Row, Statuses
    <3>4. CASE q.kind = "DEPOSIT"
      <4>1. Posting(q, i) = q.amount
        BY <3>4, Postings
      <4>2. Atomic!Deposit(i, q.amount, q.currency)
        BY <2>2, <3>1, <3>2, <3>3, <4>1 DEF Atomic!Deposit, Atomic!Active, Atomic!Live, Live
      <4> QED
        BY <3>4, <4>2 DEF Asked
    <3>5. CASE q.kind = "WITHDRAWAL"
      <4>1. row.balance + Posting(q, i) = row.balance - q.amount
        BY <3>1, <3>5, Postings
      <4>2. Atomic!Withdraw(i, q.amount, q.currency)
        BY <2>2, <3>1, <3>2, <3>3, <3>5, <4>1
           DEF Atomic!Withdraw, Atomic!Active, Atomic!Live, Live
      <4> QED
        BY <3>5, <4>2 DEF Asked
    <3> QED
      BY <2>3, <3>4, <3>5
  <2>4. CASE q.kind = "TRANSFER"
    <3> DEFINE from == q.iban
               to == q.to
    <3>1. /\ from # to /\ from \in Ibans /\ to \in Ibans
          /\ accounts[from].status # "CLOSED" /\ accounts[to].status # "CLOSED"
          /\ accounts[from].currency = q.currency /\ accounts[to].currency = q.currency
          /\ accounts[from].balance >= q.amount
      BY <1>2, <2>1, <2>4, AllowedTransaction DEF Transactions
    <3>2. /\ accounts[from] \in Row /\ accounts[from].balance \in Nat
          /\ q.amount \in Amounts /\ q.amount \in Nat
          /\ accounts'[from] = [accounts[from] EXCEPT !.balance =
                                   accounts[from].balance + Posting(q, from)]
      BY <1>2, <2>1, <2>4, FreshPosting DEF Transactions
    <3>3. /\ accounts[to] \in Row
          /\ accounts[to].balance + Posting(q, to) <= MaxBalance
          /\ accounts'[to] = [accounts[to] EXCEPT !.balance =
                                 accounts[to].balance + Posting(q, to)]
      BY <1>2, <2>1, <2>4, FreshPosting DEF Transactions
    <3>4. /\ accounts[from].balance + Posting(q, from) = accounts[from].balance - q.amount
          /\ Posting(q, to) = q.amount
      BY <2>4, <3>1, <3>2, Postings
    <3>5. accounts' = [accounts EXCEPT
             ![from] = [accounts[from] EXCEPT !.balance = accounts[from].balance - q.amount],
             ![to] = [accounts[to] EXCEPT !.balance = accounts[to].balance + q.amount]]
      BY <1>3, <2>1, <2>4, <3>1, <3>2, <3>3, <3>4
    <3>6. /\ accounts[from].status = "ACTIVE" /\ accounts[to].status = "ACTIVE"
          /\ Live(accounts, from) /\ Live(accounts, to)
      BY <1>2, <2>1, <2>4, <3>1, <3>2, <3>3 DEF Row, Statuses
    <3>7. Atomic!Transfer(from, to, q.amount, q.currency)
      BY <2>2, <3>1, <3>3, <3>4, <3>5, <3>6
         DEF Atomic!Transfer, Atomic!Active, Atomic!Live, Live
    <3> QED
      BY <2>4, <3>7 DEF Asked
  <2>5. CASE q.kind \in {"CLOSE", "OPEN", "DELETE"}
    <3> DEFINE i == q.iban
               row == accounts[i]
    <3>1. Live(accounts, i) /\ row \in Row /\ accounts'[i] = Written(q, i, row)
      BY <1>2, <2>1
    <3>2. /\ q.kind = "CLOSE" => row.status # "CLOSED" /\ ~(row.balance > 0)
          /\ q.kind \in {"OPEN", "DELETE"} => row.status = "CLOSED"
      <4>1. session[r][i] = row
        BY <1>2, <2>1
      <4>2. CASE q.kind = "CLOSE"
        BY <2>1, <4>1, <4>2 DEF Allowed, NotClosed, Empty
      <4>3. CASE q.kind = "OPEN"
        BY <2>1, <4>1, <4>3 DEF Allowed, NotClosed, Empty
      <4>4. CASE q.kind = "DELETE"
        BY <2>1, <4>1, <4>4 DEF Allowed, NotClosed, Empty
      <4> QED
        BY <2>5, <4>2, <4>3, <4>4
    <3>3. accounts' = [accounts EXCEPT ![i] = Written(q, i, row)]
      BY <1>3, <2>1, <2>5, <3>1
    <3>4. CASE q.kind = "CLOSE"
      <4>1. row.status = "ACTIVE" /\ row.balance = 0
        BY <3>1, <3>2, <3>4, MaxBalanceAssumption DEF Row, Statuses
      <4>2. Written(q, i, row) = [row EXCEPT !.status = "CLOSED"]
        BY <3>4, WrittenByKind
      <4>3. Atomic!Close(i)
        BY <2>2, <3>1, <3>3, <4>1, <4>2 DEF Atomic!Close, Atomic!Active, Atomic!Live, Live
      <4> QED
        BY <3>4, <4>3 DEF Asked
    <3>5. CASE q.kind = "OPEN"
      <4>1. Written(q, i, row) = [row EXCEPT !.status = "ACTIVE"]
        BY <3>5, WrittenByKind
      <4>2. Atomic!Open(i)
        BY <2>2, <3>1, <3>2, <3>3, <3>5, <4>1 DEF Atomic!Open, Atomic!Live, Live
      <4> QED
        BY <3>5, <4>2 DEF Asked
    <3>6. CASE q.kind = "DELETE"
      <4>1. Written(q, i, row) = Deleted
        BY <3>6, WrittenByKind
      <4>2. Atomic!Delete(i)
        BY <2>2, <3>1, <3>2, <3>3, <3>6, <4>1 DEF Atomic!Delete, Atomic!Live, Live
      <4> QED
        BY <3>6, <4>2 DEF Asked
    <3> QED
      BY <2>5, <3>4, <3>5, <3>6
  <2> QED
    BY <2>1, <2>3, <2>4, <2>5 DEF Transactions
<1>6. CASE q \in PasswordRequest
  <2>1. q.kind = "CHANGE_PASSWORD"
    BY <1>6 DEF PasswordRequest
  <2>2. \A i \in Ibans : accounts'[i] = accounts[i]
    BY <1>2, <1>3, <2>1, WrittenByKind DEF Transactions
  <2> QED
    BY <1>3, <1>4, <2>1, <2>2 DEF tables
<1>7. CASE q \in DeleteUserRequest
  <2>1. q.kind = "DELETE_USER" /\ q.user \in Users
    BY <1>7 DEF DeleteUserRequest
  <2>2. lock[q.user] = r /\ q.user \in users /\ users' = users \ {q.user}
    BY <1>1, <2>1 DEF FlushWritesRequest, Inv, LockedUsersStay, Commit
  <2>3. OwnedBy(q.user) \subseteq Writes(r)
    BY <1>1, <2>1, <2>2 DEF Inv, DeletedUsersKeepNothing
  <2>4. \A i \in Ibans : lock[i] = r => accounts[i].owner = q.user
    <3> SUFFICES ASSUME NEW i \in Ibans, lock[i] = r PROVE accounts[i].owner = q.user
      OBVIOUS
    <3>1. Loaded(session[r], i) /\ accounts[i] = session[r][i]
      BY <1>2 DEF Inv, LockedRowsStay
    <3> QED
      BY <1>1, <2>1, <3>1 DEF DecidedOnCopies, InContext
  <2>5. \A i \in Ibans : lock[i] = r <=> Live(accounts, i) /\ accounts[i].owner = q.user
    BY <1>2, <2>3, <2>4 DEF OwnedBy, Writes
  <2>6. \A i \in Ibans : accounts'[i] = IF Live(accounts, i) /\ accounts[i].owner = q.user
                                         THEN Deleted ELSE accounts[i]
    BY <1>2, <1>3, <2>1, <2>5, WrittenByKind
  <2>7. accounts' = [i \in Ibans |-> IF Live(accounts, i) /\ accounts[i].owner = q.user
                                      THEN Deleted ELSE accounts[i]]
    BY <1>3, <2>6
  <2>8. Atomic!DeleteUser(q.user)
    BY <2>2, <2>7 DEF Atomic!DeleteUser, Atomic!Live, Live
  <2> QED
    BY <2>1, <2>8 DEF Asked
<1> QED
  BY <1>1, <1>5, <1>6, <1>7

(* Any step at all. *)
LEMMA StepIsAtomicOrStale ==
    ASSUME Inv, CentsInv, WholeCentBank, [Next]_vars
    PROVE  \/ StaleCommit
           \/ \E r \in Requests : pc[r] \in {"flush", "insert"} /\ Asked(req[r])
           \/ UNCHANGED tables
<1>1. ASSUME NEW r \in Requests, Commit(r)
      PROVE  StaleCommit \/ (pc[r] = "flush" /\ Asked(req[r])) \/ UNCHANGED tables
  BY <1>1, FreshCommitIsAtomic DEF StaleCommit
<1>2. ASSUME NEW r \in Requests, NEW i \in Ibans,
             req[r] \in CreateRequest, req[r].user \in users, accounts[i] = Unused,
             accounts' = [accounts EXCEPT ![i] = NewAccount(req[r].user, req[r].currency)],
             UNCHANGED users
      PROVE  Asked(req[r])
  <2>1. Atomic!Create(i, req[r].user, req[r].currency)
    BY <1>2 DEF Atomic!Create, Atomic!NewAccount, NewAccount
  <2>2. req[r].kind = "CREATE"
    BY <1>2 DEF CreateRequest
  <2> QED
    BY <2>1, <2>2 DEF Asked
<1>3. UNCHANGED <<accounts, users>> => UNCHANGED tables
  BY DEF tables
<1> QED
  BY <1>1, <1>2, <1>3, TablesChange

(* What a request in flight asks for is an operation of the bank.          *)
LEMMA AskedIsAtomic ==
    ASSUME Inv, NEW r \in Requests, pc[r] \in {"flush", "insert"}, Asked(req[r])
    PROVE  Atomic!Next
<1> DEFINE q == req[r]
<1>1. q \in RowRequest \cup CreateRequest \cup PasswordRequest \cup DeleteUserRequest
  BY DEF Inv, StepsServe
<1>2. CASE q \in SingleAccountTransaction
  <2>1. /\ q.kind \in {"DEPOSIT", "WITHDRAWAL"} /\ q.iban \in Ibans
        /\ q.amount \in Amounts /\ q.currency \in Currencies
    BY <1>2 DEF SingleAccountTransaction
  <2> QED
    BY <2>1 DEF Asked, Atomic!Next
<1>3. CASE q \in TransferTransaction
  <2>1. /\ q.kind = "TRANSFER" /\ q.iban \in Ibans /\ q.to \in Ibans
        /\ q.amount \in Amounts /\ q.currency \in Currencies
    BY <1>3 DEF TransferTransaction
  <2> QED
    BY <2>1 DEF Asked, Atomic!Next
<1>4. CASE q \in AccountRequest
  <2>1. q.kind \in {"CLOSE", "OPEN", "DELETE"} /\ q.iban \in Ibans
    BY <1>4 DEF AccountRequest
  <2> QED
    BY <2>1 DEF Asked, Atomic!Next
<1>5. CASE q \in CreateRequest
  <2>1. q.kind = "CREATE" /\ q.user \in Users /\ q.currency \in Currencies
    BY <1>5 DEF CreateRequest
  <2> QED
    BY <2>1 DEF Asked, Atomic!Next
<1>6. CASE q \in PasswordRequest
  BY <1>6 DEF Asked, PasswordRequest
<1>7. CASE q \in DeleteUserRequest
  <2>1. q.kind = "DELETE_USER" /\ q.user \in Users
    BY <1>7 DEF DeleteUserRequest
  <2> QED
    BY <2>1 DEF Asked, Atomic!Next
<1> QED
  BY <1>1, <1>2, <1>3, <1>4, <1>5, <1>6, <1>7 DEF RowRequest, TransactionRequest

(* Whatever amounts clients send, a bank that opens with whole cents keeps *)
(* whole cents: the column rounds every balance it stores.                 *)
THEOREM CentsStayWhole == ASSUME WholeCentOpening PROVE Spec => []CentsInv
<1>1. Init => CentsInv
  BY CentsInit
<1>2. Inv /\ CentsInv /\ [Next]_vars => CentsInv'
  BY CentsStep
<1> QED
  BY <1>1, <1>2, Invariance, PTL DEF Spec

(* In a bank that opens with whole cents and is asked for whole cents,     *)
(* every commit from present copies is the operation of AtomicBank that    *)
(* its request asks for: it is decided on the rows it changes, and changes *)
(* all of them or none.                                                    *)
THEOREM Atomicity == ASSUME WholeCentBank PROVE Spec => FreshCommitsAreAtomic
<1>1. Spec => []CentsInv
  BY CentsStayWhole DEF WholeCentBank
<1>2. Inv /\ CentsInv /\ [Next]_vars =>
         [StaleCommit \/ \E r \in Requests : pc[r] \in {"flush", "insert"} /\ Asked(req[r])]_tables
  BY StepIsAtomicOrStale
<1> QED
  BY <1>1, <1>2, Invariance, PTL DEF Spec, FreshCommitsAreAtomic
-----------------------------------------------------------------------------
(* One thread: nobody changes a row between its reading and its writing.   *)
OneThread == \A r, s \in Requests : r = s

(* So every copy still is the row, which makes no commit stale.            *)
CopiesAreRows ==
    \A r \in Requests, i \in Ibans : Loaded(session[r], i) => session[r][i] = accounts[i]

LEMMA OneThreadStep ==
    ASSUME OneThread, Inv, CopiesAreRows, [Next]_vars
    PROVE  CopiesAreRows' /\ ~StaleCommit
<1>1. ASSUME NEW r \in Requests, EndRequest(r) PROVE CopiesAreRows'
  <2>1. session'[r] = EmptySession /\ \A s \in Requests : s = r
    BY <1>1, EndRequestClears DEF OneThread, Inv
  <2> QED
    BY <2>1 DEF CopiesAreRows, Loaded, EmptySession
<1>2. ASSUME UNCHANGED accounts PROVE CopiesAreRows'
  BY <1>2, CopiesComeFromRows DEF CopiesAreRows, Loaded
<1>3. ASSUME NEW r \in Requests, Insert(r) PROVE CopiesAreRows'
  BY <1>1, <1>3 DEF Insert, Fail
<1>4. ASSUME NEW r \in Requests, Commit(r) PROVE CopiesAreRows'
  BY <1>1, <1>4 DEF Commit
<1>5. CopiesAreRows'
  <2>1. ASSUME NEW r \in Requests,
               Receive(r) \/ Authorize(r) \/ Load(r) \/ CheckAccess(r) \/ Execute(r)
                 \/ LoadUser(r) \/ Merge(r) \/ Flush(r) \/ AbortDeadlock(r)
        PROVE  UNCHANGED accounts
    BY <2>1 DEF Receive, Authorize, Load, CheckAccess, Execute, LoadUser, Merge, Flush,
                AbortDeadlock, Fail, tables
  <2>2. Crash \/ UNCHANGED vars => UNCHANGED accounts
    BY DEF Crash, tables, vars
  <2> QED
    BY <1>2, <1>3, <1>4, <2>1, <2>2 DEF Next, Handle
<1>6. \A r \in Requests : ~Stale(r)
  BY DEF Stale, Writes, CopiesAreRows, Inv, LockedRowsStay
<1> QED
  BY <1>5, <1>6 DEF StaleCommit

(* With one worker thread the bank is AtomicBank.                          *)
THEOREM SerialRefinement == ASSUME WholeCentBank, OneThread PROVE Spec => ImplementsAtomicBank
<1>1. Init => CentsInv /\ CopiesAreRows /\ Atomic!Init
  <2>1. Init => CentsInv
    BY CentsInit DEF WholeCentBank
  <2>2. Init => CopiesAreRows
    BY DEF Init, CopiesAreRows, Loaded, EmptySession
  <2>3. Init => Atomic!Init
    BY DEF Init, Atomic!Init
  <2> QED
    BY <2>1, <2>2, <2>3
<1>2. Inv /\ CentsInv /\ CopiesAreRows /\ [Next]_vars => CentsInv' /\ CopiesAreRows'
  BY CentsStep, OneThreadStep
<1>3. Inv /\ CentsInv /\ CopiesAreRows /\ [Next]_vars => [Atomic!Next]_Atomic!vars
  BY StepIsAtomicOrStale, AskedIsAtomic, OneThreadStep DEF Atomic!vars, tables
<1> QED
  BY <1>1, <1>2, <1>3, Invariance, PTL DEF Spec, ImplementsAtomicBank, Atomic!Spec
-----------------------------------------------------------------------------
(* So what the code does not keep takes two requests that overlap.         *)
LEMMA FreshAmountsArrive ==
    ASSUME Inv, CentsInv, WholeCentBank, NEW r \in Requests, Commit(r), ~Stale(r),
           req[r].kind \in Transactions, NEW i \in Wants(req[r])
    PROVE  accounts'[i].balance = accounts[i].balance + Posting(req[r], i)
<1>1. /\ pc[r] = "flush" /\ Pending(r) = {}
      /\ req[r] \in RowRequest \cup PasswordRequest \cup DeleteUserRequest
      /\ FlushWritesRequest(r)
  BY DEF Commit, Pending, Range, Inv, StepsServe
<1>2. req[r] \in RowRequest
  BY <1>1 DEF PasswordRequest, DeleteUserRequest, Transactions
<1>3. i \in Ibans /\ lock[i] = r
  BY <1>1, <1>2 DEF FlushWritesRequest, Writes
<1>4. accounts[i] = session[r][i] /\ accounts'[i] = Written(req[r], i, session[r][i])
  BY <1>3 DEF Commit, Stale, Writes
<1>5. accounts'[i] = [accounts[i] EXCEPT !.balance = accounts[i].balance + Posting(req[r], i)]
      /\ accounts[i] \in Row
  BY <1>3, <1>4, FreshPosting
<1> QED
  BY <1>5 DEF Row

(* With one worker thread every acknowledged amount arrives: the postings  *)
(* that are lost are lost between a reading and a writing that overlap.    *)
THEOREM SerialAmountsArrive ==
    ASSUME WholeCentBank, OneThread PROVE Spec => AcknowledgedAmountsArrive
<1>1. Init => CentsInv /\ CopiesAreRows
  BY CentsInit DEF WholeCentBank, Init, CopiesAreRows, Loaded, EmptySession
<1>2. Inv /\ CentsInv /\ CopiesAreRows /\ [Next]_vars => CentsInv' /\ CopiesAreRows'
  BY CentsStep, OneThreadStep
<1>3. Inv /\ CentsInv /\ CopiesAreRows /\ [Next]_vars =>
         [\A r \in Requests : Commit(r) /\ req[r].kind \in Transactions =>
             \A i \in Wants(req[r]) :
                accounts'[i].balance = accounts[i].balance + Posting(req[r], i)]_vars
  BY OneThreadStep, FreshAmountsArrive DEF StaleCommit
<1> QED
  BY <1>1, <1>2, <1>3, Invariance, PTL DEF Spec, AcknowledgedAmountsArrive

(* And a new password changes no account: what the authentication filter   *)
(* read is there still when changePassword merges it.                      *)
THEOREM SerialPasswordsLeaveAccounts ==
    ASSUME OneThread PROVE Spec => PasswordLeavesAccountsAlone
<1>1. Init => CopiesAreRows
  BY DEF Init, CopiesAreRows, Loaded, EmptySession
<1>2. Inv /\ CopiesAreRows /\ [Next]_vars => CopiesAreRows'
  BY OneThreadStep
<1>3. ASSUME Inv, NEW r \in Requests, Commit(r), ~Stale(r), req[r].kind = "CHANGE_PASSWORD"
      PROVE  UNCHANGED accounts
  <2>1. \A i \in Writes(r) : accounts'[i] = accounts[i]
    BY <1>3 DEF Commit, Stale, Writes, Written, Transactions
  <2>2. \A i \in Ibans \ Writes(r) : accounts'[i] = accounts[i]
    BY <1>3 DEF Commit
  <2>3. accounts' = [i \in Ibans |-> accounts'[i]] /\ accounts = [i \in Ibans |-> accounts[i]]
    BY <1>3 DEF Commit, Inv, TypeOK, AccountTable
  <2> QED
    BY <2>1, <2>2, <2>3
<1>4. Inv /\ CopiesAreRows /\ [Next]_vars =>
         [\A r \in Requests : Commit(r) /\ req[r].kind = "CHANGE_PASSWORD"
                                 => UNCHANGED accounts]_vars
  BY <1>3, OneThreadStep DEF StaleCommit
<1> QED
  BY <1>1, <1>2, <1>4, Invariance, PTL DEF Spec, PasswordLeavesAccountsAlone
=============================================================================

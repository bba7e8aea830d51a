---------------------------- MODULE BankingProofs ----------------------------
(***************************************************************************)
(* Banking keeps its invariants, and its fresh commits are operations of   *)
(* AtomicBank, for every set of accounts, users, threads and amounts.      *)
(*                                                                         *)
(* Inv is preserved because a request that fails only lets go of what it   *)
(* has (FailKeepsInv), a step before the flush changes nothing that        *)
(* another thread or the tables can see (LocalStepKeepsInv), and the four  *)
(* steps left (Insert, Flush, Commit, Crash) are looked at one by one.     *)
(***************************************************************************)
EXTENDS BankingInvariants, FiniteSetTheorems, TLAPS

(* An order in which Hibernate walks a set of accounts is a sequence of    *)
(* members of it.                                                          *)
LEMMA OrdersAreSequences ==
    ASSUME NEW S \in SUBSET Ibans, NEW order \in SetToSeqs(S)
    PROVE  order \in Seq(S)
<1>1. IsFiniteSet(S)
  BY KeyAssumption, FS_Subset
<1>2. Cardinality(S) \in Nat
  BY <1>1, FS_CardinalityType
<1>3. order \in [1..Cardinality(S) -> S]
  BY DEF SetToSeqs
<1> QED
  BY <1>2, <1>3

(* A transfer looks up its two accounts, every other request its one.      *)
LEMMA LookupsOfRequest ==
    ASSUME NEW q \in RowRequest
    PROVE  /\ q.iban \in Ibans
           /\ q.kind = "TRANSFER" => q.to \in Ibans
           /\ Wants(q) = IF q.kind = "TRANSFER" THEN {q.iban, q.to} ELSE {q.iban}
           /\ Lookups(q) \in Seq(Ibans \cup Users)
<1>1. q.iban \in Ibans /\ (q.kind = "TRANSFER" => q.to \in Ibans)
  BY DEF RowRequest, TransactionRequest, SingleAccountTransaction, TransferTransaction,
         AccountRequest
<1>2. Lookups(q) \in Seq(Ibans \cup Users)
  <2> DEFINE Keys == Ibans \cup Users
  <2>1. \A a, b \in Keys : <<a>> \in Seq(Keys) /\ <<a, b>> \in Seq(Keys)
    OBVIOUS
  <2>2. q.iban \in Keys /\ (q.kind = "TRANSFER" => q.to \in Keys)
    BY <1>1
  <2> HIDE DEF Keys
  <2>3. Lookups(q) \in Seq(Keys)
    BY <2>1, <2>2 DEF Lookups
  <2> QED
    BY <2>3 DEF Keys
<1>3. Wants(q) = IF q.kind = "TRANSFER" THEN {q.iban, q.to} ELSE {q.iban}
  <2>1. CASE q.kind = "TRANSFER"
    <3>1. DOMAIN <<q.iban, q.to>> = {1, 2} /\ Lookups(q) = <<q.iban, q.to>>
      BY <2>1 DEF Lookups
    <3> QED
      BY <2>1, <3>1 DEF Wants, Range
  <2>2. CASE q.kind # "TRANSFER"
    <3>1. DOMAIN <<q.iban>> = {1} /\ Lookups(q) = <<q.iban>>
      BY <2>2 DEF Lookups
    <3> QED
      BY <2>2, <3>1 DEF Wants, Range
  <2> QED
    BY <2>1, <2>2
<1> QED
  BY <1>1, <1>2, <1>3
(* What the guards of a money transaction say of the copies.               *)
LEMMA AllowedTransaction ==
    ASSUME NEW q, NEW s, q.kind \in Transactions, Allowed(q, s)
    PROVE  /\ s[q.iban].status # "CLOSED" /\ s[q.iban].currency = q.currency
           /\ q.kind # "DEPOSIT" => s[q.iban].balance >= q.amount
           /\ q.kind = "TRANSFER" => /\ q.iban # q.to
                                     /\ s[q.to].status # "CLOSED"
                                     /\ s[q.iban].currency = s[q.to].currency
<1>1. CASE q.kind = "DEPOSIT"
  BY <1>1 DEF Allowed, NotClosed, InCurrency, Funded
<1>2. CASE q.kind = "WITHDRAWAL"
  BY <1>2 DEF Allowed, NotClosed, InCurrency, Funded
<1>3. CASE q.kind = "TRANSFER"
  BY <1>3 DEF Allowed, NotClosed, InCurrency, Funded
<1> QED
  BY <1>1, <1>2, <1>3 DEF Transactions

(* What each kind posts to which account.                                  *)
LEMMA Postings ==
    ASSUME NEW q, NEW i
    PROVE  /\ q.kind = "DEPOSIT" /\ i = q.iban => Posting(q, i) = q.amount
           /\ q.kind \in {"WITHDRAWAL", "TRANSFER"} /\ i = q.iban => Posting(q, i) = -q.amount
           /\ q.kind = "TRANSFER" /\ i = q.to /\ i # q.iban => Posting(q, i) = q.amount
<1>1. CASE q.kind = "DEPOSIT" /\ i = q.iban
  BY <1>1 DEF Posting
<1>2. CASE q.kind = "WITHDRAWAL" /\ i = q.iban
  BY <1>2 DEF Posting
<1>3. CASE q.kind = "TRANSFER" /\ i = q.iban
  BY <1>3 DEF Posting
<1>4. CASE q.kind = "TRANSFER" /\ i = q.to /\ i # q.iban
  BY <1>4 DEF Posting
<1> QED
  BY <1>1, <1>2, <1>3, <1>4

(* What each kind writes.                                                  *)
LEMMA WrittenByKind ==
    ASSUME NEW q, NEW i, NEW copy
    PROVE  /\ q.kind \in {"DELETE", "DELETE_USER"} => Written(q, i, copy) = Deleted
           /\ q.kind = "CLOSE" => Written(q, i, copy) = [copy EXCEPT !.status = "CLOSED"]
           /\ q.kind = "OPEN" => Written(q, i, copy) = [copy EXCEPT !.status = "ACTIVE"]
           /\ q.kind \in Transactions => Written(q, i, copy) =
                 [copy EXCEPT !.balance = Column(copy.balance + Posting(q, i))]
           /\ q.kind \notin {"DELETE", "DELETE_USER", "CLOSE", "OPEN"} \cup Transactions =>
                 Written(q, i, copy) = copy
<1>1. CASE q.kind \in {"DELETE", "DELETE_USER"}
  BY <1>1 DEF Written, Transactions
<1>2. CASE q.kind = "CLOSE"
  BY <1>2 DEF Written, Columns, Transactions
<1>3. CASE q.kind = "OPEN"
  BY <1>3 DEF Written, Columns, Transactions
<1>4. CASE q.kind \in Transactions
  BY <1>4 DEF Written, Columns, Transactions
<1>5. CASE q.kind \notin {"DELETE", "DELETE_USER", "CLOSE", "OPEN"} \cup Transactions
  BY <1>5 DEF Written
<1> QED
  BY <1>1, <1>2, <1>3, <1>4, <1>5
-----------------------------------------------------------------------------
(* The start of the application.                                           *)
LEMMA InitInv == Init => Inv
<1> SUFFICES ASSUME Init PROVE Inv
  OBVIOUS
<1>1. TypeOK
  BY OpeningAssumption DEF Init, TypeOK, Steps, EmptySession
<1>2. \A r \in Requests : StepsServe(r) /\ DecidedOnCopies(r) /\ FlushWritesRequest(r)
  BY DEF Init, StepsServe, DecidedOnCopies, FlushWritesRequest
<1>3. LockedRowsStay /\ LockedUsersStay /\ DeletedUsersKeepNothing
  BY NullAssumption DEF Init, LockedRowsStay, LockedUsersStay, DeletedUsersKeepNothing
<1>4. CopiesWereRows
  BY DEF Init, CopiesWereRows, Loaded, EmptySession
<1>5. ClosedAccountsAreEmpty /\ AccountsHaveOwners
  BY OpeningAssumption DEF Init, ClosedAccountsAreEmpty, AccountsHaveOwners
<1> QED
  BY <1>1, <1>2, <1>3, <1>4, <1>5 DEF Inv

(* A user that a request of the flush wants to delete is a user.           *)
LEMMA FlushedUserIsUser ==
    ASSUME NEW s \in Requests, StepsServe(s), pc[s] = "flush", req[s].kind = "DELETE_USER"
    PROVE  req[s] \in DeleteUserRequest /\ req[s].user \in Users
  BY DEF StepsServe, RowRequest, TransactionRequest, SingleAccountTransaction,
         TransferTransaction, AccountRequest, PasswordRequest, DeleteUserRequest

(* The end of a request clears what the thread has, and nothing else.      *)
LEMMA EndRequestClears ==
    ASSUME TypeOK, NEW r \in Requests, EndRequest(r)
    PROVE  /\ pc'[r] = "idle" /\ todo'[r] = <<>> /\ session'[r] = EmptySession
           /\ \A k \in Ibans \cup Users : lock'[k] # r
           /\ \A s \in Requests \ {r} :
                 /\ pc'[s] = pc[s] /\ req'[s] = req[s] /\ session'[s] = session[s]
                 /\ todo'[s] = todo[s]
                 /\ \A k \in Ibans \cup Users : lock'[k] = s <=> lock[k] = s
           /\ pc' \in [Requests -> Steps]
           /\ req' \in [Requests -> Request \cup {NoRequest}]
           /\ session' \in [Requests -> [Ibans -> Row \cup {NotLoaded}]]
           /\ todo' \in [Requests -> Seq(Ibans \cup Users)]
           /\ lock' \in [Ibans \cup Users -> Requests \cup {Free}]
<1> USE DEF EndRequest, Goto, TypeOK
<1>1. pc'[r] = "idle" /\ todo'[r] = <<>> /\ session'[r] = EmptySession
  OBVIOUS
<1>2. \A k \in Ibans \cup Users : lock'[k] # r
  BY NullAssumption
<1>3. \A s \in Requests \ {r} :
         /\ pc'[s] = pc[s] /\ req'[s] = req[s] /\ session'[s] = session[s]
         /\ todo'[s] = todo[s]
         /\ \A k \in Ibans \cup Users : lock'[k] = s <=> lock[k] = s
  BY NullAssumption
<1>4. /\ pc' \in [Requests -> Steps]
      /\ req' \in [Requests -> Request \cup {NoRequest}]
      /\ session' \in [Requests -> [Ibans -> Row \cup {NotLoaded}]]
      /\ todo' \in [Requests -> Seq(Ibans \cup Users)]
      /\ lock' \in [Ibans \cup Users -> Requests \cup {Free}]
  BY DEF Steps, EmptySession
<1> QED
  BY <1>1, <1>2, <1>3, <1>4

(* What a thread owes itself survives the end of any request. *)
LEMMA EndRequestKeepsThreads ==
    ASSUME Inv, NEW r \in Requests, EndRequest(r)
    PROVE  \A s \in Requests : StepsServe(s)' /\ DecidedOnCopies(s)' /\ FlushWritesRequest(s)'
<1>1. TypeOK
  BY DEF Inv
<1> SUFFICES ASSUME NEW s \in Requests
             PROVE  StepsServe(s)' /\ DecidedOnCopies(s)' /\ FlushWritesRequest(s)'
  OBVIOUS
<1>2. CASE s = r
  BY <1>1, <1>2, EndRequestClears DEF StepsServe, DecidedOnCopies, FlushWritesRequest
<1>3. CASE s # r
  <2>1. /\ pc'[s] = pc[s] /\ req'[s] = req[s] /\ session'[s] = session[s]
        /\ todo'[s] = todo[s]
        /\ \A k \in Ibans \cup Users : lock'[k] = s <=> lock[k] = s
    BY <1>1, <1>3, EndRequestClears
  <2>2. StepsServe(s)'
    BY <2>1 DEF Inv, StepsServe
  <2>3. DecidedOnCopies(s)'
    BY <2>1 DEF Inv, DecidedOnCopies, InContext, Loaded
  <2>4. InContext(s)' = InContext(s) /\ Pending(s)' = Pending(s) /\ Writes(s)' = Writes(s)
    BY <2>1 DEF InContext, Loaded, Pending, Writes
  <2>5. pc[s] = "flush" /\ req[s].kind = "DELETE_USER" => req[s].user \in Users
    BY FlushedUserIsUser DEF Inv
  <2>6. FlushWritesRequest(s)'
    BY <2>1, <2>4, <2>5 DEF Inv, FlushWritesRequest
  <2> QED
    BY <2>2, <2>3, <2>6
<1> QED
  BY <1>2, <1>3

(* A request that ends without a commit: the tables stay, its locks go.    *)
LEMMA FailKeepsInv ==
    ASSUME Inv, NEW r \in Requests, Fail(r)
    PROVE  Inv'
<1>a. TypeOK /\ EndRequest(r) /\ UNCHANGED <<accounts, users>>
  BY DEF Inv, Fail, tables
<1>1. /\ pc'[r] = "idle" /\ session'[r] = EmptySession
      /\ \A k \in Ibans \cup Users : lock'[k] # r
  BY <1>a, EndRequestClears
<1>2. \A s \in Requests \ {r} :
         /\ pc'[s] = pc[s] /\ req'[s] = req[s] /\ session'[s] = session[s]
         /\ \A k \in Ibans \cup Users : lock'[k] = s <=> lock[k] = s
  BY <1>a, EndRequestClears
<1>t. TypeOK'
  BY <1>a, EndRequestClears DEF TypeOK
<1>3. \A s \in Requests : StepsServe(s)' /\ DecidedOnCopies(s)' /\ FlushWritesRequest(s)'
  BY <1>a, EndRequestKeepsThreads
<1>4. LockedRowsStay' /\ LockedUsersStay'
  BY <1>a, <1>1, <1>2 DEF Inv, LockedRowsStay, LockedUsersStay, Live, Loaded, Overflows
<1>5. DeletedUsersKeepNothing'
  <2> SUFFICES ASSUME NEW s \in Requests, pc'[s] = "flush", req'[s].kind = "DELETE_USER",
                      lock'[req'[s].user] = s
               PROVE  (OwnedBy(req[s].user) \subseteq Writes(s))'
    BY DEF DeletedUsersKeepNothing
  <2>1. s # r
    BY <1>1
  <2>2. req[s].user \in Users
    BY <2>1, <1>2, FlushedUserIsUser DEF Inv
  <2>3. OwnedBy(req[s].user) \subseteq Writes(s)
    BY <2>1, <2>2, <1>2 DEF Inv, DeletedUsersKeepNothing
  <2> QED
    BY <2>1, <2>3, <1>a, <1>2 DEF OwnedBy, Writes, Live
<1>6. CopiesWereRows'
  BY <1>a, <1>1, <1>2 DEF Inv, CopiesWereRows, Loaded, Live, EmptySession
<1>7. ClosedAccountsAreEmpty' /\ AccountsHaveOwners'
  BY <1>a DEF Inv, ClosedAccountsAreEmpty, AccountsHaveOwners, Live
<1> QED
  BY <1>t, <1>3, <1>4, <1>5, <1>6, <1>7 DEF Inv

(* A step of a thread that has written no row yet and changes nothing but  *)
(* its own place, request, copies and statements: what has to be shown of  *)
(* it is what it owes itself.                                              *)
LEMMA LocalStepKeepsInv ==
    ASSUME Inv, TypeOK', NEW r \in Requests,
           pc[r] # "flush",
           UNCHANGED <<accounts, users, lock>>,
           \A s \in Requests \ {r} : /\ pc'[s] = pc[s] /\ req'[s] = req[s]
                                     /\ session'[s] = session[s] /\ todo'[s] = todo[s],
           StepsServe(r)', DecidedOnCopies(r)',
           pc'[r] = "flush" =>
              /\ (Pending(r) \cap Ibans \subseteq InContext(r))'
              /\ req'[r] \in RowRequest => Wants(req[r])' = Pending(r)'
              /\ req'[r].kind = "DELETE_USER" => req'[r].user \in Pending(r)',
           \A i \in Ibans : session'[r][i] \in {session[r][i], accounts[i], NotLoaded},
           \A i \in Ibans : session'[r][i] = accounts[i] => Live(accounts, i) \/ session[r][i] = accounts[i]
    PROVE  Inv'
<1>1. \A k \in Ibans \cup Users : lock[k] # r
  BY DEF Inv, LockedRowsStay, LockedUsersStay
<1>2. \A s \in Requests : StepsServe(s)' /\ DecidedOnCopies(s)' /\ FlushWritesRequest(s)'
  <2> TAKE s \in Requests
  <2>1. CASE s = r
    <3>1. Writes(r)' = {}
      BY <1>1 DEF Writes
    <3> QED
      BY <2>1, <3>1 DEF FlushWritesRequest
  <2>2. CASE s # r
    <3>1. StepsServe(s)'
      BY <2>2 DEF Inv, StepsServe
    <3>2. DecidedOnCopies(s)'
      BY <2>2 DEF Inv, DecidedOnCopies, InContext, Loaded
    <3>3. FlushWritesRequest(s)'
      <4>1. InContext(s)' = InContext(s) /\ Pending(s)' = Pending(s) /\ Writes(s)' = Writes(s)
        BY <2>2 DEF InContext, Loaded, Pending, Writes
      <4> QED
        BY <2>2, <4>1 DEF Inv, FlushWritesRequest
    <3> QED
      BY <3>1, <3>2, <3>3
  <2> QED
    BY <2>1, <2>2
<1>3. LockedRowsStay' /\ LockedUsersStay'
  BY <1>1 DEF Inv, LockedRowsStay, LockedUsersStay, Live, Loaded, Overflows
<1>4. DeletedUsersKeepNothing'
  <2> SUFFICES ASSUME NEW s \in Requests, pc'[s] = "flush", req'[s].kind = "DELETE_USER",
                      lock'[req'[s].user] = s
               PROVE  (OwnedBy(req[s].user) \subseteq Writes(s))'
    BY DEF DeletedUsersKeepNothing
  <2>1. StepsServe(s)'
    BY <1>2
  <2>2. req'[s].user \in Users
    BY <2>1 DEF StepsServe, RowRequest, TransactionRequest, SingleAccountTransaction,
           TransferTransaction, AccountRequest, PasswordRequest, DeleteUserRequest
  <2>3. s # r
    BY <1>1, <2>2
  <2>4. OwnedBy(req[s].user) \subseteq Writes(s)
    BY <2>3 DEF Inv, DeletedUsersKeepNothing
  <2> QED
    BY <2>3, <2>4 DEF OwnedBy, Writes, Live
<1>5. CopiesWereRows'
  <2> SUFFICES ASSUME NEW s \in Requests, NEW i \in Ibans, Loaded(session[s], i)'
               PROVE  /\ Sound(session[s][i])' /\ accounts'[i] # Unused
                      /\ Live(accounts, i)' => session'[s][i].owner = accounts'[i].owner
    BY DEF CopiesWereRows
  <2>1. CASE s = r /\ session'[r][i] = accounts[i] /\ Live(accounts, i)
    BY <2>1 DEF Inv, ClosedAccountsAreEmpty, Live, Sound
  <2>2. CASE session'[s][i] = session[s][i]
    BY <2>2 DEF Inv, CopiesWereRows, Loaded, Live, Sound
  <2> QED
    BY <2>1, <2>2 DEF Loaded
<1>6. ClosedAccountsAreEmpty' /\ AccountsHaveOwners'
  BY DEF Inv, ClosedAccountsAreEmpty, AccountsHaveOwners, Live
<1> QED
  BY <1>2, <1>3, <1>4, <1>5, <1>6 DEF Inv
-----------------------------------------------------------------------------
(* One lemma for each step before the flush. *)

LEMMA ReceiveKeepsInv ==
    ASSUME Inv, NEW r \in Requests, Receive(r)
    PROVE  Inv'
<1>1. PICK q \in Request :
         /\ q.by \in users
         /\ req' = [req EXCEPT ![r] = q]
         /\ Goto(r, FirstStep(q.kind))
         /\ session' = [session EXCEPT ![r] =
               IF q.kind = "CHANGE_PASSWORD" THEN Snapshot(q.by) ELSE EmptySession]
  BY DEF Receive
<1>2. pc[r] = "idle" /\ UNCHANGED <<accounts, users, todo, lock>>
  BY DEF Receive, tables
<1>3. /\ pc'[r] = FirstStep(q.kind) /\ req'[r] = q
      /\ session'[r] = IF q.kind = "CHANGE_PASSWORD" THEN Snapshot(q.by) ELSE EmptySession
      /\ \A s \in Requests \ {r} : /\ pc'[s] = pc[s] /\ req'[s] = req[s]
                                   /\ session'[s] = session[s] /\ todo'[s] = todo[s]
  BY <1>1, <1>2 DEF Inv, TypeOK, Goto
<1>4. \A i \in Ibans : session'[r][i] \in {accounts[i], NotLoaded}
                        /\ (session'[r][i] = accounts[i] => Live(accounts, i))
  <2> TAKE i \in Ibans
  <2>1. accounts[i] = NotLoaded => FALSE
    BY NullAssumption DEF Inv, TypeOK, AccountTable
  <2> QED
    BY <1>3, <2>1 DEF Snapshot, EmptySession, OwnedBy
<1>5. TypeOK'
  <2>1. session'[r] \in [Ibans -> Row \cup {NotLoaded}]
    BY <1>3 DEF Inv, TypeOK, AccountTable, Snapshot, EmptySession, OwnedBy, Live
  <2>2. FirstStep(q.kind) \in Steps
    BY DEF FirstStep, Steps
  <2> QED
    BY <1>1, <1>2, <1>3, <2>1, <2>2 DEF Inv, TypeOK, Goto
<1>6. StepsServe(r)' /\ DecidedOnCopies(r)' /\ pc'[r] # "flush"
  BY <1>3 DEF StepsServe, DecidedOnCopies, FirstStep, Transactions, Request, RowRequest,
         TransactionRequest, SingleAccountTransaction, TransferTransaction, AccountRequest,
         CreateRequest, PasswordRequest, DeleteUserRequest
<1> QED
  BY <1>2, <1>3, <1>4, <1>5, <1>6, LocalStepKeepsInv

LEMMA AuthorizeKeepsInv ==
    ASSUME Inv, NEW r \in Requests, Authorize(r)
    PROVE  Inv'
<1> DEFINE q == req[r]
           mustOwn == q.by \notin Admins /\ q.kind # "DEPOSIT"
<1>1. CASE Fail(r)
  BY <1>1, FailKeepsInv
<1>2. CASE /\ mustOwn => OwnsSource(q)
           /\ session' = IF mustOwn THEN [session EXCEPT ![r][q.iban] = accounts[q.iban]]
                         ELSE session
           /\ Goto(r, "load")
           /\ UNCHANGED <<tables, req, todo, lock>>
  <2>1. pc[r] = "authorize" /\ q \in TransactionRequest /\ q.iban \in Ibans
    BY DEF Authorize, Inv, StepsServe, TransactionRequest, SingleAccountTransaction,
           TransferTransaction
  <2>2. /\ pc' = [pc EXCEPT ![r] = "load"]
        /\ UNCHANGED <<accounts, users, req, todo, lock>>
        /\ \A s \in Requests \ {r} : session'[s] = session[s]
        /\ \A i \in Ibans \ {q.iban} : session'[r][i] = session[r][i]
        /\ session'[r][q.iban] = IF mustOwn THEN accounts[q.iban] ELSE session[r][q.iban]
    BY <1>2, <2>1 DEF Goto, tables, Inv, TypeOK
  <2>3. mustOwn => Live(accounts, q.iban)
    BY <1>2 DEF OwnsSource
  <2>4. TypeOK'
    BY <1>2, <2>1, <2>2, <2>3 DEF Inv, TypeOK, Steps, AccountTable, Live
  <2>5. StepsServe(r)' /\ DecidedOnCopies(r)' /\ pc'[r] # "flush"
    BY <2>1, <2>2 DEF Inv, TypeOK, StepsServe, DecidedOnCopies, RowRequest
  <2>6. /\ \A i \in Ibans : session'[r][i] \in {session[r][i], accounts[i], NotLoaded}
        /\ \A i \in Ibans : session'[r][i] = accounts[i] =>
              Live(accounts, i) \/ session[r][i] = accounts[i]
    BY <2>1, <2>2, <2>3
  <2> HIDE DEF mustOwn, q
  <2>7. /\ pc[r] # "flush" /\ UNCHANGED <<accounts, users, lock>>
        /\ \A s \in Requests \ {r} : /\ pc'[s] = pc[s] /\ req'[s] = req[s]
                                     /\ session'[s] = session[s] /\ todo'[s] = todo[s]
    BY <2>1, <2>2 DEF Inv, TypeOK
  <2> QED
    BY <2>4, <2>5, <2>6, <2>7, LocalStepKeepsInv
<1> QED
  BY <1>1, <1>2 DEF Authorize

LEMMA LoadKeepsInv ==
    ASSUME Inv, NEW r \in Requests, Load(r)
    PROVE  Inv'
<1> DEFINE q == req[r]
           i == IF Loaded(session[r], q.iban) THEN q.to ELSE q.iban
<1>1. pc[r] = "load" /\ q \in RowRequest
  BY DEF Load, Inv, StepsServe
<1>2. CASE Fail(r)
  BY <1>2, FailKeepsInv
<1>3. CASE /\ Wants(q) \subseteq InContext(r)
           /\ Goto(r, IF q.kind \in {"CLOSE", "OPEN"} THEN "access" ELSE "execute")
           /\ UNCHANGED <<tables, req, session, todo, lock>>
  <2>1. /\ pc'[r] = IF q.kind \in {"CLOSE", "OPEN"} THEN "access" ELSE "execute"
        /\ \A s \in Requests \ {r} : pc'[s] = pc[s]
        /\ UNCHANGED <<accounts, users, req, session, todo, lock>>
    BY <1>3 DEF Goto, tables, Inv, TypeOK
  <2>2. TypeOK'
    BY <1>3, <2>1 DEF Goto, Inv, TypeOK, Steps
  <2>3. StepsServe(r)'
    BY <1>1, <2>1 DEF StepsServe, RowRequest, TransactionRequest, SingleAccountTransaction,
           TransferTransaction, AccountRequest
  <2>4. DecidedOnCopies(r)' /\ pc'[r] # "flush"
    BY <1>3, <2>1 DEF DecidedOnCopies, InContext, Loaded
  <2> QED
    BY <1>1, <2>1, <2>2, <2>3, <2>4, LocalStepKeepsInv
<1>4. CASE /\ ~(Wants(q) \subseteq InContext(r))
           /\ Live(accounts, i)
           /\ session' = [session EXCEPT ![r][i] = accounts[i]]
           /\ UNCHANGED <<tables, pc, req, todo, lock>>
  <2>1. i \in Ibans
    BY <1>1, <1>4, LookupsOfRequest DEF InContext
  <2>2. /\ \A s \in Requests \ {r} : session'[s] = session[s]
        /\ session'[r] = [session[r] EXCEPT ![i] = accounts[i]]
        /\ UNCHANGED <<accounts, users, pc, req, todo, lock>>
    BY <1>4, <2>1 DEF tables, Inv, TypeOK
  <2>3. TypeOK'
    BY <1>4, <2>1, <2>2 DEF Inv, TypeOK, AccountTable, Live
  <2>4. StepsServe(r)' /\ DecidedOnCopies(r)'
    BY <1>1, <2>2 DEF StepsServe, DecidedOnCopies
  <2>5. session[r] \in [Ibans -> Row \cup {NotLoaded}]
    BY DEF Inv, TypeOK
  <2>6. /\ \A j \in Ibans : session'[r][j] \in {session[r][j], accounts[j], NotLoaded}
        /\ \A j \in Ibans : session'[r][j] = accounts[j] =>
              Live(accounts, j) \/ session[r][j] = accounts[j]
    BY <1>4, <2>1, <2>2, <2>5
  <2> HIDE DEF i, q
  <2> QED
    BY <1>1, <2>2, <2>3, <2>4, <2>6, LocalStepKeepsInv
<1> QED
  BY <1>2, <1>3, <1>4 DEF Load

LEMMA CheckAccessKeepsInv ==
    ASSUME Inv, NEW r \in Requests, CheckAccess(r)
    PROVE  Inv'
<1>1. CASE Fail(r)
  BY <1>1, FailKeepsInv
<1>2. CASE Goto(r, "execute") /\ UNCHANGED <<tables, req, session, todo, lock>>
  <2>1. pc[r] = "access" /\ req[r] \in AccountRequest /\ Wants(req[r]) \subseteq InContext(r)
    BY DEF CheckAccess, Inv, StepsServe, DecidedOnCopies
  <2>2. /\ pc' = [pc EXCEPT ![r] = "execute"] /\ pc'[r] = "execute"
        /\ \A s \in Requests \ {r} : pc'[s] = pc[s]
        /\ UNCHANGED <<accounts, users, req, session, todo, lock>>
    BY <1>2 DEF Goto, tables, Inv, TypeOK
  <2>3. TypeOK'
    BY <2>2 DEF Inv, TypeOK, Steps
  <2>4. StepsServe(r)' /\ DecidedOnCopies(r)'
    BY <2>1, <2>2 DEF StepsServe, DecidedOnCopies, RowRequest, InContext, Loaded
  <2> QED
    BY <2>1, <2>2, <2>3, <2>4, LocalStepKeepsInv
<1> QED
  BY <1>1, <1>2 DEF CheckAccess

LEMMA ExecuteKeepsInv ==
    ASSUME Inv, NEW r \in Requests, Execute(r)
    PROVE  Inv'
<1> DEFINE q == req[r]
<1>1. CASE Fail(r)
  BY <1>1, FailKeepsInv
<1>2. CASE /\ Allowed(q, session[r])
           /\ todo' = [todo EXCEPT ![r] = Lookups(q)]
           /\ Goto(r, "flush")
           /\ UNCHANGED <<tables, req, session, lock>>
  <2>1. pc[r] = "execute" /\ q \in RowRequest /\ Wants(q) \subseteq InContext(r)
    BY DEF Execute, Inv, StepsServe, DecidedOnCopies
  <2>2. /\ pc' = [pc EXCEPT ![r] = "flush"] /\ pc'[r] = "flush" /\ todo'[r] = Lookups(q)
        /\ \A s \in Requests \ {r} : pc'[s] = pc[s] /\ todo'[s] = todo[s]
        /\ UNCHANGED <<accounts, users, req, session, lock>>
    BY <1>2 DEF Goto, tables, Inv, TypeOK
  <2>3. Lookups(q) \in Seq(Ibans \cup Users)
    BY <2>1, LookupsOfRequest
  <2>4. TypeOK'
    BY <1>2, <2>2, <2>3 DEF Inv, TypeOK, Steps
  <2>6. Pending(r)' = Wants(q) /\ q.kind # "DELETE_USER"
    BY <2>1, <2>2 DEF Pending, Wants, RowRequest, TransactionRequest, SingleAccountTransaction,
           TransferTransaction, AccountRequest
  <2>5. StepsServe(r)' /\ DecidedOnCopies(r)'
    BY <1>2, <2>1, <2>2, <2>6 DEF StepsServe, DecidedOnCopies, InContext, Loaded
  <2>7. /\ (Pending(r) \cap Ibans \subseteq InContext(r))'
        /\ req'[r] \in RowRequest => Wants(req[r])' = Pending(r)'
        /\ req'[r].kind = "DELETE_USER" => req'[r].user \in Pending(r)'
    BY <2>1, <2>2, <2>6 DEF InContext, Loaded
  <2> QED
    BY <2>1, <2>2, <2>4, <2>5, <2>7, LocalStepKeepsInv
<1> QED
  BY <1>1, <1>2 DEF Execute

(* The statements of a cascade: some accounts, and the user after or before *)
(* them.                                                                   *)
LEMMA AccountsAndUser ==
    ASSUME NEW S \in SUBSET Ibans, NEW order \in Seq(S), NEW u \in Users
    PROVE  /\ Append(order, u) \in Seq(Ibans \cup Users)
           /\ <<u>> \o order \in Seq(Ibans \cup Users)
           /\ u \in Range(Append(order, u))
           /\ Range(Append(order, u)) \cap Ibans \subseteq S
           /\ Range(<<u>> \o order) \cap Ibans \subseteq S
<1>1. /\ Len(order) \in Nat
      /\ DOMAIN Append(order, u) = 1..(Len(order) + 1)
      /\ \A k \in 1..Len(order) : order[k] \in S /\ Append(order, u)[k] = order[k]
      /\ Append(order, u)[Len(order) + 1] = u
  OBVIOUS
<1>2. /\ DOMAIN (<<u>> \o order) = 1..(Len(order) + 1)
      /\ (<<u>> \o order)[1] = u
      /\ \A k \in 2..(Len(order) + 1) : (<<u>> \o order)[k] = order[k - 1]
  OBVIOUS
<1>3. order \in Seq(Ibans \cup Users) /\ u \in Ibans \cup Users
  OBVIOUS
<1>4. Append(order, u) \in Seq(Ibans \cup Users) /\ <<u>> \o order \in Seq(Ibans \cup Users)
  <2> DEFINE Keys == Ibans \cup Users
  <2>1. order \in Seq(Keys) /\ u \in Keys
    BY <1>3
  <2> HIDE DEF Keys
  <2>2. Append(order, u) \in Seq(Keys) /\ <<u>> \o order \in Seq(Keys)
    BY <2>1
  <2> QED
    BY <2>2 DEF Keys
<1>5. u \in Range(Append(order, u)) /\ Range(Append(order, u)) \cap Ibans \subseteq S
  BY <1>1, KeyAssumption DEF Range
<1>6. Range(<<u>> \o order) \cap Ibans \subseteq S
  <2> SUFFICES ASSUME NEW k \in 1..(Len(order) + 1), (<<u>> \o order)[k] \in Ibans
               PROVE  (<<u>> \o order)[k] \in S
    BY <1>2 DEF Range
  <2>1. k # 1
    BY <1>2, KeyAssumption
  <2>2. k \in 2..(Len(order) + 1) /\ k - 1 \in 1..Len(order)
    BY <1>1, <2>1
  <2> QED
    BY <1>1, <1>2, <2>2
<1> QED
  BY <1>4, <1>5, <1>6

LEMMA LoadUserKeepsInv ==
    ASSUME Inv, NEW r \in Requests, LoadUser(r)
    PROVE  Inv'
<1> DEFINE q == req[r]
<1>1. pc[r] = "loadUser" /\ q \in CreateRequest \cup DeleteUserRequest /\ q.user \in Users
  BY DEF LoadUser, Inv, StepsServe, CreateRequest, DeleteUserRequest
<1>2. CASE Fail(r)
  BY <1>2, FailKeepsInv
<1>3. CASE /\ q.kind = "CREATE"
           /\ Goto(r, "insert")
           /\ UNCHANGED <<tables, req, session, todo, lock>>
  <2>1. /\ pc' = [pc EXCEPT ![r] = "insert"] /\ pc'[r] = "insert"
        /\ \A s \in Requests \ {r} : pc'[s] = pc[s]
        /\ UNCHANGED <<accounts, users, req, session, todo, lock>>
    BY <1>3 DEF Goto, tables, Inv, TypeOK
  <2>2. TypeOK'
    BY <2>1 DEF Inv, TypeOK, Steps
  <2>3. StepsServe(r)' /\ DecidedOnCopies(r)'
    BY <1>1, <1>3, <2>1 DEF StepsServe, DecidedOnCopies, DeleteUserRequest
  <2> QED
    BY <1>1, <2>1, <2>2, <2>3, LocalStepKeepsInv
<1>4. CASE /\ q.kind = "DELETE_USER"
           /\ session' = [session EXCEPT ![r] = Snapshot(q.user)]
           /\ \E order \in SetToSeqs(OwnedBy(q.user)) :
                 todo' = [todo EXCEPT ![r] = Append(order, q.user)]
           /\ Goto(r, "flush")
           /\ UNCHANGED <<tables, req, lock>>
  <2>1. PICK order \in SetToSeqs(OwnedBy(q.user)) :
               todo' = [todo EXCEPT ![r] = Append(order, q.user)]
    BY <1>4
  <2>2. order \in Seq(OwnedBy(q.user)) /\ OwnedBy(q.user) \in SUBSET Ibans
    BY OrdersAreSequences DEF OwnedBy
  <2>3. /\ Append(order, q.user) \in Seq(Ibans \cup Users)
        /\ q.user \in Range(Append(order, q.user))
        /\ Range(Append(order, q.user)) \cap Ibans \subseteq OwnedBy(q.user)
    <3> DEFINE S == OwnedBy(q.user)
               u == q.user
    <3>1. S \in SUBSET Ibans /\ order \in Seq(S) /\ u \in Users
      BY <1>1, <2>2
    <3> HIDE DEF S, u
    <3>2. /\ Append(order, u) \in Seq(Ibans \cup Users)
          /\ u \in Range(Append(order, u))
          /\ Range(Append(order, u)) \cap Ibans \subseteq S
      BY <3>1, AccountsAndUser
    <3> QED
      BY <3>2 DEF S, u
  <2>4. /\ pc' = [pc EXCEPT ![r] = "flush"] /\ pc'[r] = "flush"
        /\ session'[r] = Snapshot(q.user) /\ todo'[r] = Append(order, q.user)
        /\ \A s \in Requests \ {r} : /\ pc'[s] = pc[s] /\ session'[s] = session[s]
                                     /\ todo'[s] = todo[s]
        /\ UNCHANGED <<accounts, users, req, lock>>
    BY <1>4, <2>1 DEF Goto, tables, Inv, TypeOK
  <2>5. Snapshot(q.user) \in [Ibans -> Row \cup {NotLoaded}]
    BY DEF Inv, TypeOK, AccountTable, Snapshot, OwnedBy, Live
  <2>6. TypeOK'
    BY <1>4, <2>1, <2>3, <2>4, <2>5 DEF Inv, TypeOK, Steps
  <2>7. q \in DeleteUserRequest /\ q \notin RowRequest
    BY <1>1, <1>4 DEF CreateRequest, RowRequest, TransactionRequest, SingleAccountTransaction,
           TransferTransaction, AccountRequest
  <2>9. \A i \in Ibans : session'[r][i] \in {accounts[i], NotLoaded}
                          /\ (session'[r][i] = accounts[i] => Live(accounts, i))
    <3> TAKE i \in Ibans
    <3>1. accounts[i] # NotLoaded
      BY NullAssumption DEF Inv, TypeOK, AccountTable
    <3> QED
      BY <2>4, <3>1 DEF Snapshot, OwnedBy
  <2>10. InContext(r)' = OwnedBy(q.user)
    <3>1. \A i \in Ibans : accounts[i] # NotLoaded
      BY NullAssumption DEF Inv, TypeOK, AccountTable
    <3> QED
      BY <2>4, <3>1 DEF InContext, Loaded, Snapshot, OwnedBy
  <2>8. StepsServe(r)' /\ DecidedOnCopies(r)'
    <3>1. \A i \in InContext(r)' : session'[r][i].owner = q.user
      BY <2>4, <2>10 DEF Snapshot, OwnedBy
    <3> QED
      BY <2>4, <2>7, <3>1 DEF StepsServe, DecidedOnCopies
  <2>11. /\ (Pending(r) \cap Ibans \subseteq InContext(r))'
         /\ req'[r].user \in Pending(r)' /\ req'[r] \notin RowRequest
    BY <2>3, <2>4, <2>7, <2>10 DEF Pending
  <2> HIDE DEF q
  <2> QED
    BY <1>1, <2>4, <2>6, <2>8, <2>9, <2>11, LocalStepKeepsInv
<1> QED
  BY <1>2, <1>3, <1>4 DEF LoadUser

LEMMA MergeKeepsInv ==
    ASSUME Inv, NEW r \in Requests, Merge(r)
    PROVE  Inv'
<1> DEFINE user == req[r].by
           dirty == {i \in InContext(r) : accounts[i] # session[r][i]}
<1>1. pc[r] = "merge" /\ req[r] \in PasswordRequest /\ user \in Users
  BY DEF Merge, Inv, StepsServe, PasswordRequest
<1>2. CASE Fail(r)
  BY <1>2, FailKeepsInv
<1>3. CASE /\ \E order \in SetToSeqs(dirty) : todo' = [todo EXCEPT ![r] = <<user>> \o order]
           /\ Goto(r, "flush")
           /\ UNCHANGED <<tables, req, session, lock>>
  <2>1. PICK order \in SetToSeqs(dirty) : todo' = [todo EXCEPT ![r] = <<user>> \o order]
    BY <1>3
  <2>2. dirty \in SUBSET Ibans /\ dirty \subseteq InContext(r)
    BY DEF InContext
  <2> HIDE DEF dirty, user
  <2>3. order \in Seq(dirty)
    BY <2>2, OrdersAreSequences
  <2>4. /\ <<user>> \o order \in Seq(Ibans \cup Users)
        /\ Range(<<user>> \o order) \cap Ibans \subseteq dirty
    BY <1>1, <2>2, <2>3, AccountsAndUser
  <2>5. /\ pc' = [pc EXCEPT ![r] = "flush"] /\ pc'[r] = "flush"
        /\ todo'[r] = <<user>> \o order
        /\ \A s \in Requests \ {r} : pc'[s] = pc[s] /\ todo'[s] = todo[s]
        /\ UNCHANGED <<accounts, users, req, session, lock>>
    BY <1>3, <2>1 DEF Goto, tables, Inv, TypeOK
  <2>6. TypeOK'
    BY <1>3, <2>1, <2>4, <2>5 DEF Inv, TypeOK, Steps
  <2>7. req[r] \notin RowRequest /\ req[r].kind # "DELETE_USER"
    BY <1>1 DEF PasswordRequest, RowRequest, TransactionRequest, SingleAccountTransaction,
           TransferTransaction, AccountRequest
  <2>8. StepsServe(r)' /\ DecidedOnCopies(r)'
    BY <1>1, <2>5, <2>7 DEF StepsServe, DecidedOnCopies
  <2>9. (Pending(r) \cap Ibans \subseteq InContext(r))'
    BY <2>2, <2>4, <2>5 DEF Pending, InContext, Loaded
  <2> QED
    BY <1>1, <2>5, <2>6, <2>7, <2>8, <2>9, LocalStepKeepsInv
<1> QED
  BY <1>2, <1>3 DEF Merge
-----------------------------------------------------------------------------
(* The steps that take locks or change the tables. *)

LEMMA InsertKeepsInv ==
    ASSUME Inv, NEW r \in Requests, Insert(r)
    PROVE  Inv'
<1> DEFINE q == req[r]
<1>1. CASE Fail(r)
  BY <1>1, FailKeepsInv
<1>2. ASSUME NEW i \in Ibans,
             q.user \in users, accounts[i] = Unused,
             accounts' = [accounts EXCEPT ![i] = NewAccount(q.user, q.currency)],
             EndRequest(r), UNCHANGED users
      PROVE  Inv'
  <2>1. q \in CreateRequest /\ q.user \in Users /\ q.currency \in Currencies
    BY DEF Insert, Inv, StepsServe, CreateRequest
  <2>2. NewAccount(q.user, q.currency) \in Row
    BY <2>1, MaxBalanceAssumption DEF NewAccount, Row, Statuses
  <2>3. /\ accounts'[i] = NewAccount(q.user, q.currency) /\ Live(accounts, i)'
        /\ accounts'[i].owner = q.user /\ Sound(accounts'[i])
        /\ \A j \in Ibans \ {i} : accounts'[j] = accounts[j]
    BY <1>2, <2>2, AbsentAssumption DEF Live, Inv, TypeOK, AccountTable, NewAccount, Sound
  <2>4. TypeOK /\ ~Live(accounts, i)
    BY <1>2 DEF Inv, Live
  <2>5. /\ pc'[r] = "idle" /\ session'[r] = EmptySession
        /\ \A k \in Ibans \cup Users : lock'[k] # r
        /\ \A s \in Requests \ {r} :
             /\ pc'[s] = pc[s] /\ req'[s] = req[s] /\ session'[s] = session[s]
             /\ \A k \in Ibans \cup Users : lock'[k] = s <=> lock[k] = s
    BY <1>2, <2>4, EndRequestClears
  <2>6. TypeOK'
    BY <1>2, <2>2, <2>4, EndRequestClears DEF TypeOK, AccountTable
  <2>7. \A s \in Requests : StepsServe(s)' /\ DecidedOnCopies(s)' /\ FlushWritesRequest(s)'
    BY <1>2, EndRequestKeepsThreads
  <2>8. LockedRowsStay'
    BY <2>3, <2>4, <2>5 DEF Inv, LockedRowsStay, Live, Loaded, Overflows
  <2>9. LockedUsersStay'
    BY <1>2, <2>5 DEF Inv, LockedUsersStay
  <2>10. DeletedUsersKeepNothing'
    <3> SUFFICES ASSUME NEW s \in Requests, pc'[s] = "flush", req'[s].kind = "DELETE_USER",
                        lock'[req'[s].user] = s
                 PROVE  (OwnedBy(req[s].user) \subseteq Writes(s))'
      BY DEF DeletedUsersKeepNothing
    <3>1. s # r /\ req[s].user \in Users
      BY <2>5, FlushedUserIsUser DEF Inv
    <3>2. lock[req[s].user] = s /\ OwnedBy(req[s].user) \subseteq Writes(s)
      BY <2>5, <3>1 DEF Inv, DeletedUsersKeepNothing
    <3>3. req[s].user # q.user
      BY <2>5, <3>1, <3>2 DEF Insert
    <3> QED
      BY <2>3, <2>5, <3>1, <3>2, <3>3 DEF OwnedBy, Writes, Live
  <2>11. CopiesWereRows'
    <3> SUFFICES ASSUME NEW s \in Requests, NEW j \in Ibans, Loaded(session[s], j)'
                 PROVE  /\ Sound(session[s][j])' /\ accounts'[j] # Unused
                        /\ Live(accounts, j)' => session'[s][j].owner = accounts'[j].owner
      BY DEF CopiesWereRows
    <3>1. s # r
      BY <2>5 DEF Loaded, EmptySession
    <3>2. j # i
      BY <1>2, <2>5, <3>1 DEF Inv, CopiesWereRows, Loaded
    <3> QED
      BY <2>3, <2>5, <3>1, <3>2 DEF Inv, CopiesWereRows, Loaded, Live, Sound
  <2>12. ClosedAccountsAreEmpty' /\ AccountsHaveOwners'
    BY <1>2, <2>3 DEF Inv, ClosedAccountsAreEmpty, AccountsHaveOwners, Live
  <2> QED
    BY <2>6, <2>7, <2>8, <2>9, <2>10, <2>11, <2>12 DEF Inv
<1> QED
  BY <1>1, <1>2 DEF Insert, ForeignKeyHolds

(* A statement that runs: its row is locked, the ones after it remain.     *)
LEMMA FlushKeepsInv ==
    ASSUME Inv, NEW r \in Requests, Flush(r)
    PROVE  Inv'
<1> DEFINE q == req[r]
           k == Head(todo[r])
<1>1. CASE Fail(r)
  BY <1>1, FailKeepsInv
<1>2. CASE /\ ~StatementFails(r)
           /\ lock' = [lock EXCEPT ![k] = r]
           /\ todo' = [todo EXCEPT ![r] = Tail(@)]
           /\ UNCHANGED <<tables, pc, req, session>>
  <2>1. /\ pc[r] = "flush" /\ todo[r] # <<>> /\ lock[k] \in {Free, r}
        /\ todo[r] \in Seq(Ibans \cup Users)
    BY DEF Flush, Grantable, Inv, TypeOK
  <2>2. k \in Ibans \cup Users /\ Tail(todo[r]) \in Seq(Ibans \cup Users)
    BY <2>1
  <2>3. Pending(r) = {k} \cup Range(Tail(todo[r]))
    <3> DEFINE Keys == Ibans \cup Users
               sq == todo[r]
    <3>1. sq \in Seq(Keys) /\ sq # <<>>
      BY <2>1
    <3> HIDE DEF Keys, sq
    <3>2. /\ Len(sq) \in Nat \ {0} /\ DOMAIN sq = 1..Len(sq)
          /\ DOMAIN Tail(sq) = 1..(Len(sq) - 1)
          /\ Head(sq) = sq[1]
          /\ \A n \in 1..(Len(sq) - 1) : Tail(sq)[n] = sq[n + 1]
      BY <3>1
    <3>3. Range(sq) \subseteq {Head(sq)} \cup Range(Tail(sq))
      <4> SUFFICES ASSUME NEW n \in 1..Len(sq), n # 1 PROVE sq[n] \in Range(Tail(sq))
        BY <3>2 DEF Range
      <4>1. n - 1 \in 1..(Len(sq) - 1) /\ Tail(sq)[n - 1] = sq[n]
        BY <3>2
      <4> QED
        BY <3>2, <4>1 DEF Range
    <3>4. {Head(sq)} \cup Range(Tail(sq)) \subseteq Range(sq)
      BY <3>2 DEF Range
    <3> QED
      BY <3>3, <3>4 DEF Pending, sq
  <2>4. /\ lock'[k] = r
        /\ \A j \in (Ibans \cup Users) \ {k} : lock'[j] = lock[j]
        /\ \A s \in Requests \ {r} : \A j \in Ibans \cup Users : lock'[j] = s <=> lock[j] = s
        /\ todo'[r] = Tail(todo[r])
        /\ \A s \in Requests \ {r} : todo'[s] = todo[s]
        /\ UNCHANGED <<accounts, users, pc, req, session>>
    BY <1>2, <2>1, <2>2, NullAssumption DEF Inv, TypeOK, tables
  <2>5. TypeOK'
    BY <1>2, <2>2, <2>4 DEF Inv, TypeOK
  <2>6. Pending(r) = {k} \cup Pending(r)' /\ Writes(r)' = Writes(r) \cup ({k} \cap Ibans)
    BY <2>2, <2>3, <2>4, NullAssumption DEF Pending, Writes
  <2>7. StepsServe(r) /\ FlushWritesRequest(r) /\ StepsServe(r)'
    BY <2>4 DEF Inv, StepsServe
  <2>8. FlushWritesRequest(r)'
    <3>1. InContext(r)' = InContext(r)
      BY <2>4 DEF InContext, Loaded
    <3>2. (Pending(r) \cap Ibans \subseteq InContext(r))'
      BY <2>1, <2>6, <2>7, <3>1 DEF FlushWritesRequest
    <3>3. req[r] \in RowRequest => Wants(req[r]) = (Pending(r) \cup Writes(r))'
      <4> SUFFICES ASSUME req[r] \in RowRequest
                   PROVE  Wants(req[r]) = (Pending(r) \cup Writes(r))'
        OBVIOUS
      <4>1. Wants(req[r]) = Pending(r) \cup Writes(r) /\ Wants(req[r]) \subseteq Ibans
        BY <2>1, <2>7, LookupsOfRequest DEF FlushWritesRequest
      <4> QED
        BY <2>6, <4>1
    <3>4. req[r].kind = "DELETE_USER" => (req[r].user \in Pending(r) \/ lock[req[r].user] = r)'
      <4> SUFFICES ASSUME req[r].kind = "DELETE_USER"
                   PROVE  (req[r].user \in Pending(r) \/ lock[req[r].user] = r)'
        OBVIOUS
      <4>1. req[r].user \in Users /\ (req[r].user \in Pending(r) \/ lock[req[r].user] = r)
        BY <2>1, <2>7, FlushedUserIsUser DEF FlushWritesRequest
      <4> QED
        BY <2>4, <2>6, <4>1
    <3> QED
      BY <2>4, <3>2, <3>3, <3>4 DEF FlushWritesRequest
  <2>9. \A s \in Requests : StepsServe(s)' /\ DecidedOnCopies(s)' /\ FlushWritesRequest(s)'
    <3> TAKE s \in Requests
    <3>1. StepsServe(s)' /\ DecidedOnCopies(s)'
      BY <2>4 DEF Inv, StepsServe, DecidedOnCopies, InContext, Loaded
    <3>2. CASE s = r
      BY <2>8, <3>1, <3>2
    <3>3. CASE s # r
      <4>1. InContext(s)' = InContext(s) /\ Pending(s)' = Pending(s) /\ Writes(s)' = Writes(s)
        BY <2>4, <3>3 DEF InContext, Loaded, Pending, Writes
      <4>2. pc[s] = "flush" /\ req[s].kind = "DELETE_USER" => req[s].user \in Users
        BY FlushedUserIsUser DEF Inv
      <4> QED
        BY <2>4, <3>1, <3>3, <4>1, <4>2 DEF Inv, FlushWritesRequest
    <3> QED
      BY <3>2, <3>3
  <2>10. LockedRowsStay'
    <3> SUFFICES ASSUME NEW s \in Requests, NEW i \in Ibans, lock'[i] = s
                 PROVE  /\ pc[s] = "flush" /\ Live(accounts, i) /\ Loaded(session[s], i)
                        /\ ~Overflows(req[s], i, session[s][i])
      BY <2>4 DEF LockedRowsStay, Live, Loaded, Overflows
    <3>1. CASE i = k
      <4>1. s = r /\ k \notin Users
        BY <2>4, <3>1, KeyAssumption
      <4>2. Live(accounts, k) /\ ~Overflows(q, k, session[r][k])
        BY <1>2, <4>1 DEF StatementFails
      <4>3. Loaded(session[r], k)
        BY <2>1, <2>6, <2>7, <3>1 DEF FlushWritesRequest, InContext
      <4> QED
        BY <2>1, <3>1, <4>1, <4>2, <4>3
    <3>2. CASE i # k
      BY <2>4, <3>2 DEF Inv, LockedRowsStay
    <3> QED
      BY <3>1, <3>2
  <2>11. LockedUsersStay'
    <3>1. k \in Users => k \in users
      BY <1>2 DEF StatementFails
    <3> QED
      BY <2>1, <2>4, <3>1 DEF Inv, LockedUsersStay
  <2>12. DeletedUsersKeepNothing'
    <3> SUFFICES ASSUME NEW s \in Requests, pc[s] = "flush", req[s].kind = "DELETE_USER",
                        lock'[req[s].user] = s
                 PROVE  OwnedBy(req[s].user) \subseteq Writes(s)'
      BY <2>4 DEF DeletedUsersKeepNothing, OwnedBy, Live
    <3>1. req[s].user \in Users /\ Writes(s) \subseteq Writes(s)'
      BY <2>4, FlushedUserIsUser DEF Inv, Writes
    <3>2. CASE lock[req[s].user] = s
      BY <3>1, <3>2 DEF Inv, DeletedUsersKeepNothing
    <3>3. CASE lock[req[s].user] # s
      <4>1. s = r /\ req[r].user = k /\ k \in Users
        BY <2>4, <3>1, <3>3
      <4>2. OwnedBy(k) \subseteq Writes(r)
        BY <1>2, <4>1 DEF StatementFails, StillReferred, Writes, OwnedBy
      <4> QED
        BY <3>1, <4>1, <4>2
    <3> QED
      BY <3>2, <3>3
  <2>13. CopiesWereRows' /\ ClosedAccountsAreEmpty' /\ AccountsHaveOwners'
    BY <2>4 DEF Inv, CopiesWereRows, ClosedAccountsAreEmpty, AccountsHaveOwners, Live, Loaded
  <2> QED
    BY <2>5, <2>9, <2>10, <2>11, <2>12, <2>13 DEF Inv
<1> QED
  BY <1>1, <1>2 DEF Flush

(* What a commit leaves of a row it wrote: nothing, for a DELETE; else a   *)
(* sound row of the same owner, whose balance the guards and the column    *)
(* keep in range.                                                          *)
LEMMA WrittenRow ==
    ASSUME Inv, NEW r \in Requests, NEW i \in Ibans, lock[i] = r
    PROVE  LET row == Written(req[r], i, session[r][i]) IN
           \/ row = Deleted
           \/ row \in Row /\ Sound(row) /\ row.owner = accounts[i].owner
<1> DEFINE q == req[r]
           copy == session[r][i]
           row == Written(q, i, copy)
<1>1. /\ pc[r] = "flush" /\ Live(accounts, i) /\ Loaded(session[r], i)
      /\ ~Overflows(q, i, copy)
  BY DEF Inv, LockedRowsStay
<1>2. copy \in Row /\ Sound(copy) /\ copy.owner = accounts[i].owner
  BY <1>1 DEF Inv, TypeOK, Loaded, CopiesWereRows
<1>3. q \in RowRequest \cup PasswordRequest \cup DeleteUserRequest
  BY <1>1 DEF Inv, StepsServe
<1>4. CASE q.kind \in {"DELETE", "DELETE_USER"}
  BY <1>4, WrittenByKind
<1>5. CASE q.kind \in {"CLOSE", "OPEN"}
  <2>1. q \in RowRequest /\ q.kind \notin Transactions
    BY <1>3, <1>5 DEF PasswordRequest, DeleteUserRequest, Transactions
  <2>2. i = q.iban
    <3>1. Wants(q) = {q.iban}
      BY <1>5, <2>1, LookupsOfRequest
    <3>2. i \in Wants(q)
      BY <1>1, <2>1 DEF Inv, FlushWritesRequest, Writes
    <3> QED
      BY <3>1, <3>2
  <2>3. Allowed(q, session[r])
    BY <1>1, <2>1 DEF Inv, DecidedOnCopies
  <2>4. q.kind = "CLOSE" => copy.balance = 0
    BY <1>2, <2>2, <2>3, MaxBalanceAssumption DEF Allowed, Empty, Row
  <2> QED
    BY <1>2, <1>5, <2>4, MaxBalanceAssumption, WrittenByKind DEF Row, Statuses, Sound
<1>6. CASE q.kind \in Transactions
  <2>1. q \in TransactionRequest
    BY <1>3, <1>6 DEF RowRequest, AccountRequest, PasswordRequest, DeleteUserRequest, Transactions
  <2>2. q.amount \in Nat
    BY <2>1, AmountAssumption DEF TransactionRequest, SingleAccountTransaction,
       TransferTransaction
  <2>3. Allowed(q, session[r])
    BY <1>1, <2>1 DEF Inv, DecidedOnCopies, RowRequest
  <2>4. Wants(q) = IF q.kind = "TRANSFER" THEN {q.iban, q.to} ELSE {q.iban}
    BY <2>1, LookupsOfRequest DEF RowRequest
  <2>5. i \in Wants(q)
    BY <1>1, <2>1 DEF Inv, FlushWritesRequest, Writes, RowRequest
  <2>6. copy.balance \in Nat
    BY <1>2, MaxBalanceAssumption DEF Row
  <2>7. copy.status # "CLOSED" /\ Posting(q, i) \in Int /\ copy.balance + Posting(q, i) >= 0
    <3>1. CASE i = q.iban
      <4>1. copy.status # "CLOSED" /\ (q.kind # "DEPOSIT" => copy.balance >= q.amount)
        BY <1>6, <2>3, <3>1, AllowedTransaction
      <4>2. Posting(q, i) = IF q.kind = "DEPOSIT" THEN q.amount ELSE -q.amount
        BY <1>6, <3>1, Postings DEF Transactions
      <4> HIDE DEF q, copy
      <4> QED
        BY <2>2, <2>6, <4>1, <4>2
    <3>2. CASE i # q.iban
      <4>1. q.kind = "TRANSFER" /\ i = q.to
        BY <2>4, <2>5, <3>2
      <4>2. copy.status # "CLOSED" /\ Posting(q, i) = q.amount
        BY <1>6, <2>3, <3>2, <4>1, AllowedTransaction, Postings
      <4> HIDE DEF q, copy
      <4> QED
        BY <2>2, <2>6, <4>2
    <3> QED
      BY <3>1, <3>2
  <2>8. Column(copy.balance + Posting(q, i)) \in 0..MaxBalance
    <3>1. ~(Column(copy.balance + Posting(q, i)) > MaxBalance)
      BY <1>1, <1>6 DEF Overflows
    <3>2. Column(copy.balance + Posting(q, i)) \in Nat
      BY <2>6, <2>7 DEF Column
    <3> QED
      BY <3>1, <3>2, MaxBalanceAssumption
  <2>9. row = [copy EXCEPT !.balance = Column(copy.balance + Posting(q, i))]
    BY <1>6, WrittenByKind
  <2>10. row \in Row /\ row.status = copy.status /\ row.owner = copy.owner
    <3> HIDE DEF row, q, copy
    <3> QED
      BY <1>2, <2>8, <2>9 DEF Row
  <2> QED
    BY <1>2, <2>7, <2>10 DEF Sound
<1>7. CASE q.kind \notin {"DELETE", "DELETE_USER", "CLOSE", "OPEN"} \cup Transactions
  BY <1>2, <1>7, WrittenByKind
<1> QED
  BY <1>4, <1>5, <1>6, <1>7

LEMMA CommitKeepsInv ==
    ASSUME Inv, NEW r \in Requests, Commit(r)
    PROVE  Inv'
<1> DEFINE q == req[r]
<1>1. /\ pc[r] = "flush" /\ Pending(r) = {} /\ EndRequest(r) /\ TypeOK
      /\ FlushWritesRequest(r)
  BY DEF Commit, Pending, Range, Inv
<1>2. /\ pc'[r] = "idle" /\ session'[r] = EmptySession
      /\ \A k \in Ibans \cup Users : lock'[k] # r
      /\ \A s \in Requests \ {r} :
           /\ pc'[s] = pc[s] /\ req'[s] = req[s] /\ session'[s] = session[s]
           /\ \A k \in Ibans \cup Users : lock'[k] = s <=> lock[k] = s
  BY <1>1, EndRequestClears
<1>3. /\ \A i \in Ibans : lock[i] # r => accounts'[i] = accounts[i]
      /\ \A i \in Ibans : lock[i] = r =>
            /\ Live(accounts, i)
            /\ accounts'[i] = Written(q, i, session[r][i])
            /\ \/ accounts'[i] = Deleted
               \/ /\ accounts'[i] \in Row /\ Sound(accounts'[i])
                  /\ accounts'[i].owner = accounts[i].owner
      /\ accounts' \in AccountTable
  <2>1. accounts' = [i \in Ibans |-> IF i \in Writes(r)
                         THEN Written(q, i, session[r][i]) ELSE accounts[i]]
    BY DEF Commit
  <2>2. \A i \in Ibans : lock[i] # r => accounts'[i] = accounts[i]
    BY <2>1 DEF Writes
  <2>3. \A i \in Ibans : lock[i] = r =>
            /\ Live(accounts, i)
            /\ accounts'[i] = Written(q, i, session[r][i])
            /\ \/ accounts'[i] = Deleted
               \/ /\ accounts'[i] \in Row /\ Sound(accounts'[i])
                  /\ accounts'[i].owner = accounts[i].owner
    <3> SUFFICES ASSUME NEW i \in Ibans, lock[i] = r
                 PROVE  /\ Live(accounts, i)
                        /\ accounts'[i] = Written(q, i, session[r][i])
                        /\ \/ accounts'[i] = Deleted
                           \/ /\ accounts'[i] \in Row /\ Sound(accounts'[i])
                              /\ accounts'[i].owner = accounts[i].owner
      OBVIOUS
    <3>1. Live(accounts, i)
      BY DEF Inv, LockedRowsStay
    <3>2. accounts'[i] = Written(q, i, session[r][i])
      BY <2>1 DEF Writes
    <3> QED
      BY <3>1, <3>2, WrittenRow
  <2>4. accounts' \in AccountTable
    BY <1>1, <2>1, <2>2, <2>3 DEF TypeOK, AccountTable
  <2> QED
    BY <2>2, <2>3, <2>4
<1>4. \A i \in Ibans : Live(accounts, i)' => Live(accounts, i) /\ accounts'[i].owner = accounts[i].owner
  BY <1>3 DEF Live
<1>5. users' \subseteq users /\ \A u \in users \ users' : q.kind = "DELETE_USER" /\ u = q.user
  BY DEF Commit
<1>6. TypeOK'
  BY <1>1, <1>3, <1>5, EndRequestClears DEF TypeOK
<1>7. \A s \in Requests : StepsServe(s)' /\ DecidedOnCopies(s)' /\ FlushWritesRequest(s)'
  BY <1>1, EndRequestKeepsThreads
<1>8. LockedRowsStay' /\ LockedUsersStay'
  <2>1. LockedRowsStay'
    BY <1>2, <1>3 DEF Inv, LockedRowsStay, Live, Loaded, Overflows
  <2>2. \A u \in users \ users' : lock[u] = r
    BY <1>1, <1>5 DEF FlushWritesRequest
  <2>3. LockedUsersStay'
    BY <1>2, <2>2 DEF Inv, LockedUsersStay
  <2> QED
    BY <2>1, <2>3
<1>9. DeletedUsersKeepNothing'
  <2> SUFFICES ASSUME NEW s \in Requests, pc'[s] = "flush", req'[s].kind = "DELETE_USER",
                      lock'[req'[s].user] = s
               PROVE  (OwnedBy(req[s].user) \subseteq Writes(s))'
    BY DEF DeletedUsersKeepNothing
  <2>1. s # r /\ req[s].user \in Users
    BY <1>2, FlushedUserIsUser DEF Inv
  <2>2. OwnedBy(req[s].user) \subseteq Writes(s)
    BY <1>2, <2>1 DEF Inv, DeletedUsersKeepNothing
  <2> QED
    BY <1>2, <1>4, <2>1, <2>2 DEF OwnedBy, Writes
<1>10. CopiesWereRows'
  <2> SUFFICES ASSUME NEW s \in Requests, NEW i \in Ibans, Loaded(session[s], i)'
               PROVE  /\ Sound(session[s][i])' /\ accounts'[i] # Unused
                      /\ Live(accounts, i)' => session'[s][i].owner = accounts'[i].owner
    BY DEF CopiesWereRows
  <2>1. s # r
    BY <1>2 DEF Loaded, EmptySession
  <2>2. Loaded(session[s], i) /\ session'[s][i] = session[s][i]
    BY <1>2, <2>1 DEF Loaded
  <2>3. /\ Sound(session[s][i]) /\ accounts[i] # Unused
        /\ Live(accounts, i) => session[s][i].owner = accounts[i].owner
    BY <2>2 DEF Inv, CopiesWereRows
  <2>4. accounts'[i] # Unused
    BY <1>3, <2>3, AbsentAssumption
  <2> QED
    BY <1>4, <2>2, <2>3, <2>4 DEF Sound
<1>11. ClosedAccountsAreEmpty'
  BY <1>3 DEF Inv, ClosedAccountsAreEmpty, Live
<1>12. AccountsHaveOwners'
  <2> SUFFICES ASSUME NEW i \in Ibans, Live(accounts, i)' PROVE accounts'[i].owner \in users'
    BY DEF AccountsHaveOwners
  <2>1. Live(accounts, i) /\ accounts'[i].owner = accounts[i].owner
    BY <1>4
  <2>2. accounts[i].owner \in users
    BY <2>1 DEF Inv, AccountsHaveOwners
  <2>3. ASSUME q.kind = "DELETE_USER", accounts[i].owner = q.user PROVE FALSE
    <3>1. lock[q.user] = r
      BY <1>1, <2>3 DEF FlushWritesRequest
    <3>2. lock[i] = r
      BY <1>1, <2>1, <2>3, <3>1 DEF Inv, DeletedUsersKeepNothing, OwnedBy, Writes
    <3>3. accounts'[i] = Deleted
      BY <1>3, <2>3, <3>2, WrittenByKind
    <3> QED
      BY <3>3 DEF Live
  <2> QED
    BY <1>5, <2>1, <2>2, <2>3
<1> QED
  BY <1>6, <1>7, <1>8, <1>9, <1>10, <1>11, <1>12 DEF Inv

LEMMA CrashKeepsInv == Inv /\ Crash => Inv'
<1> SUFFICES ASSUME Inv, Crash PROVE Inv'
  OBVIOUS
<1>1. TypeOK' /\ UNCHANGED <<accounts, users>>
  BY DEF Inv, TypeOK, Crash, tables, Steps, EmptySession
<1>2. \A r \in Requests : StepsServe(r)' /\ DecidedOnCopies(r)' /\ FlushWritesRequest(r)'
  BY DEF Crash, StepsServe, DecidedOnCopies, FlushWritesRequest
<1>3. LockedRowsStay' /\ LockedUsersStay' /\ DeletedUsersKeepNothing'
  BY NullAssumption DEF Crash, LockedRowsStay, LockedUsersStay, DeletedUsersKeepNothing
<1>4. CopiesWereRows'
  BY DEF Crash, CopiesWereRows, Loaded, EmptySession
<1>5. ClosedAccountsAreEmpty' /\ AccountsHaveOwners'
  BY <1>1 DEF Inv, ClosedAccountsAreEmpty, AccountsHaveOwners, Live
<1> QED
  BY <1>1, <1>2, <1>3, <1>4, <1>5 DEF Inv

LEMMA StutterKeepsInv == Inv /\ UNCHANGED vars => Inv'
  BY DEF vars, Inv, TypeOK, StepsServe, DecidedOnCopies, FlushWritesRequest, LockedRowsStay,
         LockedUsersStay, DeletedUsersKeepNothing, CopiesWereRows, ClosedAccountsAreEmpty,
         AccountsHaveOwners, Live, Loaded, InContext, Pending, Writes, OwnedBy, Overflows

LEMMA StepKeepsInv == Inv /\ [Next]_vars => Inv'
<1> SUFFICES ASSUME Inv, [Next]_vars PROVE Inv'
  OBVIOUS
<1>1. ASSUME NEW r \in Requests, Receive(r) PROVE Inv'
  BY <1>1, ReceiveKeepsInv
<1>2. ASSUME NEW r \in Requests, Handle(r) PROVE Inv'
  BY <1>2, AuthorizeKeepsInv, LoadKeepsInv, CheckAccessKeepsInv, ExecuteKeepsInv,
     LoadUserKeepsInv, MergeKeepsInv, InsertKeepsInv, FlushKeepsInv, CommitKeepsInv DEF Handle
<1>3. ASSUME NEW r \in Requests, AbortDeadlock(r) PROVE Inv'
  BY <1>3, FailKeepsInv DEF AbortDeadlock
<1>4. CASE Crash
  BY <1>4, CrashKeepsInv
<1>5. CASE UNCHANGED vars
  BY <1>5, StutterKeepsInv
<1> QED
  BY <1>1, <1>2, <1>3, <1>4, <1>5 DEF Next

(* The inductive invariant holds of every reachable state.                 *)
THEOREM Invariance == Spec => []Inv
<1> QED
  BY InitInv, StepKeepsInv, PTL DEF Spec

(* No variable leaves its type: in particular no balance becomes negative  *)
(* or too large for the column, whichever copies it was computed from.     *)
THEOREM TypeCorrectness == Spec => []TypeOK
<1>1. Inv => TypeOK
  BY DEF Inv
<1> QED
  BY <1>1, Invariance, PTL

(* closeAccount, openAccount, deposits and changePassword may overlap as   *)
(* they like: a closed account holds no money.                             *)
THEOREM ClosedStayEmpty == Spec => []ClosedAccountsAreEmpty
<1>1. Inv => ClosedAccountsAreEmpty
  BY DEF Inv
<1> QED
  BY <1>1, Invariance, PTL

(* createAccount and deleteUser may overlap as they like: every account    *)
(* has a user.                                                             *)
THEOREM NoOrphanAccounts == Spec => []AccountsHaveOwners
<1>1. Inv => AccountsHaveOwners
  BY DEF Inv
<1> QED
  BY <1>1, Invariance, PTL
=============================================================================

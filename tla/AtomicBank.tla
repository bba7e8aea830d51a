----------------------------- MODULE AtomicBank -----------------------------
(***************************************************************************)
(* What the bank promises: every operation of TransactionService,          *)
(* AccountService and UserService.deleteUser takes effect at one instant,  *)
(* on the rows as they are at that instant, and moves exactly the amount   *)
(* it was asked to move.  No persistence context, no lock, no request.     *)
(***************************************************************************)
EXTENDS AccountData

CONSTANT Opening    \* the tables when the application starts

VARIABLES accounts, \* the table of accounts
          users     \* the users that have a row

vars == <<accounts, users>>

Init == /\ accounts = Opening.accounts
        /\ users = Opening.users

Active(i) == Live(accounts, i) /\ accounts[i].status = "ACTIVE"

(* TransactionService.deposit behind TransactionValidator. *)
Deposit(i, amount, currency) ==
    /\ Active(i) /\ accounts[i].currency = currency
    /\ accounts[i].balance + amount <= MaxBalance
    /\ accounts' = [accounts EXCEPT ![i].balance = @ + amount]
    /\ UNCHANGED users

Withdraw(i, amount, currency) ==
    /\ Active(i) /\ accounts[i].currency = currency
    /\ accounts[i].balance >= amount
    /\ accounts' = [accounts EXCEPT ![i].balance = @ - amount]
    /\ UNCHANGED users

(* Both accounts are ACTIVE, of one currency, and both change or neither. *)
Transfer(from, to, amount, currency) ==
    /\ from # to
    /\ Active(from) /\ accounts[from].currency = currency
    /\ Active(to) /\ accounts[to].currency = currency
    /\ accounts[from].balance >= amount
    /\ accounts[to].balance + amount <= MaxBalance
    /\ accounts' = [accounts EXCEPT ![from].balance = @ - amount,
                                    ![to].balance = @ + amount]
    /\ UNCHANGED users

Close(i) ==
    /\ Active(i)
    /\ accounts[i].balance = 0
    /\ accounts' = [accounts EXCEPT ![i].status = "CLOSED"]
    /\ UNCHANGED users

Open(i) ==
    /\ Live(accounts, i) /\ accounts[i].status = "CLOSED"
    /\ accounts' = [accounts EXCEPT ![i].status = "ACTIVE"]
    /\ UNCHANGED users

Delete(i) ==
    /\ Live(accounts, i) /\ accounts[i].status = "CLOSED"
    /\ accounts' = [accounts EXCEPT ![i] = Deleted]
    /\ UNCHANGED users

Create(i, user, currency) ==
    /\ accounts[i] = Unused
    /\ user \in users
    /\ accounts' = [accounts EXCEPT ![i] = NewAccount(user, currency)]
    /\ UNCHANGED users

(* The user goes with every account of theirs, whatever is on it. *)
DeleteUser(user) ==
    /\ user \in users
    /\ users' = users \ {user}
    /\ accounts' = [i \in Ibans |-> IF Live(accounts, i) /\ accounts[i].owner = user
                                    THEN Deleted ELSE accounts[i]]

Next ==
    \/ \E i \in Ibans, amount \in Amounts, currency \in Currencies :
          Deposit(i, amount, currency) \/ Withdraw(i, amount, currency)
    \/ \E from, to \in Ibans, amount \in Amounts, currency \in Currencies :
          Transfer(from, to, amount, currency)
    \/ \E i \in Ibans : Close(i) \/ Open(i) \/ Delete(i)
    \/ \E i \in Ibans, user \in Users, currency \in Currencies : Create(i, user, currency)
    \/ \E user \in Users : DeleteUser(user)

Spec == Init /\ [][Next]_vars
=============================================================================

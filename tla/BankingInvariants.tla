-------------------------- MODULE BankingInvariants --------------------------
(***************************************************************************)
(* Why the properties of Banking hold: the inductive invariant, in named   *)
(* parts.  MCBanking checks it on small instances, BankingProofs proves it *)
(* for every value of the constants.                                       *)
(***************************************************************************)
EXTENDS Banking

TransactionRequest == SingleAccountTransaction \cup TransferTransaction
RowRequest == TransactionRequest \cup AccountRequest

(* What a thread does at a step is a request of the kind the step serves.  *)
StepsServe(r) ==
    /\ pc[r] = "authorize" => req[r] \in TransactionRequest
    /\ pc[r] \in {"load", "execute"} => req[r] \in RowRequest
    /\ pc[r] = "access" => req[r] \in AccountRequest
    /\ pc[r] = "loadUser" => req[r] \in CreateRequest \cup DeleteUserRequest
    /\ pc[r] = "insert" => req[r] \in CreateRequest
    /\ pc[r] = "merge" => req[r] \in PasswordRequest
    /\ pc[r] = "flush" => req[r] \in RowRequest \cup PasswordRequest \cup DeleteUserRequest

(* From the load to the commit the copies a handler needs stay where they  *)
(* are, and the guards it has passed stay true of them.                    *)
DecidedOnCopies(r) ==
    /\ pc[r] \in {"access", "execute"} => Wants(req[r]) \subseteq InContext(r)
    /\ pc[r] = "flush" /\ req[r] \in RowRequest =>
          Wants(req[r]) \subseteq InContext(r) /\ Allowed(req[r], session[r])
    /\ pc[r] = "flush" /\ req[r].kind = "DELETE_USER" =>
          \A i \in InContext(r) : session[r][i].owner = req[r].user

Pending(r) == Range(todo[r])

(* What the flush still has to write and what it has written: the rows of  *)
(* the request, all of them, each once loaded.                             *)
FlushWritesRequest(r) ==
    pc[r] = "flush" =>
      /\ Pending(r) \cap Ibans \subseteq InContext(r)
      /\ req[r] \in RowRequest => Wants(req[r]) = Pending(r) \cup Writes(r)
      /\ req[r].kind = "DELETE_USER" => req[r].user \in Pending(r) \/ lock[req[r].user] = r

(* A row that a transaction has written is there until it ends, was loaded *)
(* by it, and the value it will have fits the column.                      *)
LockedRowsStay ==
    \A r \in Requests, i \in Ibans : lock[i] = r =>
       /\ pc[r] = "flush"
       /\ Live(accounts, i) /\ Loaded(session[r], i)
       /\ ~Overflows(req[r], i, session[r][i])

LockedUsersStay ==
    \A r \in Requests, u \in Users : lock[u] = r => pc[r] = "flush" /\ u \in users

(* A transaction that is past the DELETE of a user has deleted all of the  *)
(* user's accounts, and nobody can add one.                                *)
DeletedUsersKeepNothing ==
    \A r \in Requests : pc[r] = "flush" /\ req[r].kind = "DELETE_USER" /\ lock[req[r].user] = r
        => OwnedBy(req[r].user) \subseteq Writes(r)

(* A copy was a row once: sound, and of the owner and currency that the    *)
(* row keeps for life.                                                     *)
CopiesWereRows ==
    \A r \in Requests, i \in Ibans : Loaded(session[r], i) =>
       /\ Sound(session[r][i])
       /\ accounts[i] # Unused
       /\ Live(accounts, i) => session[r][i].owner = accounts[i].owner

Inv ==
    /\ TypeOK
    /\ \A r \in Requests : StepsServe(r) /\ DecidedOnCopies(r) /\ FlushWritesRequest(r)
    /\ LockedRowsStay
    /\ LockedUsersStay
    /\ DeletedUsersKeepNothing
    /\ CopiesWereRows
    /\ ClosedAccountsAreEmpty
    /\ AccountsHaveOwners

(* A bank that opens with whole cents, and one that is asked for nothing   *)
(* else.                                                                   *)
WholeCentOpening ==
    \A i \in Ibans : Live(Opening.accounts, i) => WholeCents(Opening.accounts[i].balance)

WholeCentBank == WholeCentOpening /\ \A a \in Amounts : WholeCents(a)

(* No balance, and no copy of one, has a fraction of a cent, whatever the  *)
(* amounts of the requests have.                                           *)
CentsInv ==
    /\ \A i \in Ibans : Live(accounts, i) => WholeCents(accounts[i].balance)
    /\ \A r \in Requests, i \in Ibans :
          Loaded(session[r], i) => WholeCents(session[r][i].balance)
=============================================================================

----------------------------- MODULE MCBanking -----------------------------
(***************************************************************************)
(* Instances of Banking for TLC: two or three accounts, one or two owners, *)
(* and the rows they start from.  Whole-cent amounts are multiples of 10.  *)
(***************************************************************************)
EXTENDS BankingInvariants, TLC

CONSTANTS a1, a2, a3, alice, root

Account(owner, balance, status) ==
    [owner |-> owner, currency |-> "BYN", balance |-> balance, status |-> status]

(* Alice and the administrator have an account each. *)
TwoActive == [accounts |-> (a1 :> Account(alice, 10, "ACTIVE") @@ a2 :> Account(root, 10, "ACTIVE")),
              users |-> {alice, root}]

(* One account, open and empty, and one iban nobody has drawn. *)
OneEmpty == [accounts |-> (a1 :> Account(alice, 0, "ACTIVE") @@ a2 :> Unused),
             users |-> {alice, root}]

(* Two accounts of two owners, and an iban to draw.                        *)
TwoAndOne == [accounts |-> (a1 :> Account(alice, 10, "ACTIVE") @@ a2 :> Account(root, 0, "CLOSED")
                              @@ a3 :> Unused),
              users |-> {alice, root}]

(* Two cents that transfers move to and fro between two accounts.          *)
TwoCents == [accounts |-> (a1 :> Account(alice, 20, "ACTIVE") @@ a2 :> Account(root, 0, "ACTIVE")),
             users |-> {alice, root}]

OneCent == {10}
OneAndTwoCents == {10, 20}
CentAndAHalf == {15}

Threads == Permutations(Requests)
=============================================================================

---------------------------- MODULE AccountData ----------------------------
(***************************************************************************)
(* The rows of the table "accounts" as every module of the bank sees them. *)
(*                                                                         *)
(* Money is an integer number of tenths of a cent: BigDecimal amounts of a *)
(* request may be finer than the two decimals of the column, so one digit  *)
(* below the cent is kept in order to see what the column does with it.    *)
(*                                                                         *)
(* An iban stands for the row that carries it (column iban is unique):     *)
(* Unused before an INSERT draws it, Deleted for ever after the DELETE,    *)
(* because the identity column never gives the same id twice.              *)
(***************************************************************************)
EXTENDS Integers, FiniteSets

CONSTANTS Ibans,       \* the rows there may ever be
          Users,       \* the users there may ever be
          Currencies,
          Amounts,     \* what a request may ask to move, in tenths of a cent
          MaxBalance,  \* the largest value of a numeric(38,2) column
          Unused,      \* no row has this iban yet
          Deleted      \* the row that had this iban is gone

ASSUME AmountAssumption == Amounts \subseteq Nat
ASSUME MaxBalanceAssumption == MaxBalance \in Nat

Statuses == {"ACTIVE", "CLOSED"}

Row == [owner: Users, currency: Currencies, balance: 0..MaxBalance,
        status: Statuses]

ASSUME AbsentAssumption == Unused # Deleted /\ Unused \notin Row /\ Deleted \notin Row

AccountTable == [Ibans -> Row \cup {Unused, Deleted}]

(* What numeric(38,2) stores of a value: whole cents, half away from zero. *)
Column_Exact(value) == value
Column(value) == 10 * ((value + 5) \div 10)

WholeCents(value) == value % 10 = 0

Live(table, i) == table[i] \notin {Unused, Deleted}

(* A row without a debt, and without money once it is closed. *)
Sound(row) == row.status = "CLOSED" => row.balance = 0

NewAccount(user, currency) ==
    [owner |-> user, currency |-> currency, balance |-> 0, status |-> "ACTIVE"]
=============================================================================

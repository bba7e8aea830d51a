-------------------------- MODULE MCUserDirectory --------------------------
(***************************************************************************)
(* Instances of UserDirectory for TLC: two or three users and roles.       *)
(***************************************************************************)
EXTENDS UserDirectoryInvariants, TLC

CONSTANTS u1, u2, u3, k1, k2, k3, root, ann, bob

User(email) == [email |-> email, active |-> TRUE]

(* A database on which the application has never started. *)
Empty == [users |-> [u \in Users |-> Unused], roles |-> [k \in Roles |-> Unused],
          assigned |-> [u \in Users |-> {}], step |-> "down"]

(* The administrator, and Ann, who is a user; a third row to insert. *)
TwoUsers ==
    [users |-> [u \in Users |-> CASE u = u1 -> User(root) [] u = u2 -> User(ann) [] OTHER -> Unused],
     roles |-> [k \in Roles |-> CASE k = k1 -> UserRole [] k = k2 -> AdminRole [] OTHER -> Unused],
     assigned |-> [u \in Users |-> CASE u = u1 -> {k2} [] u = u2 -> {k1} [] OTHER -> {}],
     step |-> "up"]

(* Ann alone, the administrator. *)
AnnAlone ==
    [users |-> [u \in Users |-> IF u = u1 THEN User(ann) ELSE Unused],
     roles |-> [k \in Roles |-> CASE k = k1 -> UserRole [] k = k2 -> AdminRole [] OTHER -> Unused],
     assigned |-> [u \in Users |-> IF u = u1 THEN {k1} ELSE {}], step |-> "up"]

JustUser == {{UserRole}}
JustAdmin == {{AdminRole}}
NoneOrOne == {{}, {UserRole}, {AdminRole}}
AnyNames == SUBSET {UserRole, AdminRole}

Threads == Permutations(Requests)
=============================================================================

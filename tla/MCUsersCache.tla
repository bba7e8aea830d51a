---------------------------- MODULE MCUsersCache ----------------------------
(***************************************************************************)
(* Instances of UsersCache for TLC.                                        *)
(***************************************************************************)
EXTENDS UsersCacheInvariants, TLC

CONSTANTS u1, u2, k1, k2, k3, root, ann

(* Ann, and two roles of which she has one. *)
AnnAlone ==
    [users |-> [u \in Users |-> IF u = u1 THEN [email |-> ann, active |-> TRUE] ELSE Unused],
     roles |-> [k \in Roles |-> CASE k = k1 -> UserRole [] k = k2 -> AdminRole [] OTHER -> Unused],
     assigned |-> [u \in Users |-> IF u = u1 THEN {k1} ELSE {}], step |-> "up"]

=============================================================================

-------------------------- MODULE DirectoryHistory --------------------------
(***************************************************************************)
(* What the old copies of UserDirectory can do.  Most changes of a user    *)
(* are read, decided and written at three moments, and two that overlap    *)
(* may undo each other.  The history variable was collects, for each       *)
(* request that changes a user, what was so of the user at some moment     *)
(* from the first read to the flush: nothing older may come back.          *)
(***************************************************************************)
EXTENDS UserDirectory

VARIABLE was

hvars == <<vars, was>>

Follows(r) == /\ pc[r] \notin {"idle", "find", "commit"}
              /\ req[r].kind \in ChangeKinds \cup {"PASSWORD"}

(* What has been so and is: the columns of the user, the roles the user    *)
(* has not, and for a merge, which cascades, those the user has and their  *)
(* names.                                                                  *)
Seen(r) ==
    LET u == req[r].user
        merges == req[r].kind = "PASSWORD" IN
    IF ~Follows(r) THEN was[r]
    ELSE [rows |-> was[r].rows \cup ({users[u]} \cap UserRow),
          absent |-> was[r].absent
                       \cup (IF merges \/ req[r].names # {} THEN Roles \ assigned[u] ELSE {}),
          names |-> was[r].names
                      \cup (IF merges THEN {<<k, roles[k]>> : k \in assigned[u]} ELSE {})]

Nothing == [rows |-> {}, absent |-> {}, names |-> {}]

Remember == was' = [r \in Requests |-> IF pc'[r] = "idle" THEN Nothing ELSE Seen(r)]

HInit == Init /\ was = [r \in Requests |-> Nothing]

(* The actions of UserDirectory, each of them watched.                     *)
HNext ==
    \/ \E r \in Requests : \/ Receive(r) /\ Remember
                           \/ Find(r) /\ Remember
                           \/ CheckEmail(r) /\ Remember
                           \/ FindRoles(r) /\ Remember
                           \/ CheckName(r) /\ Remember
                           \/ CheckUnused(r) /\ Remember
                           \/ Merge(r) /\ Remember
                           \/ Flush(r) /\ Remember
                           \/ Save(r) /\ Remember
                           \/ Refused(r) /\ Remember
    \/ StartInit /\ Remember
    \/ InitRoles /\ Remember
    \/ InitAdmin /\ Remember
    \/ EndInit /\ Remember
    \/ Crash /\ Remember

HSpec == HInit /\ [][HNext]_hvars

-----------------------------------------------------------------------------
(* The columns a PUT or PATCH of this row is to leave.                     *)
Due(q, row) == [email |-> IF q.email = Null THEN row.email ELSE q.email,
                active |-> IF q.active = Null THEN row.active ELSE q.active]

(* A PUT or PATCH leaves the columns it gives, and of the others what they *)
(* were at one moment; a PATCH that changed nothing then writes nothing.   *)
ColumnsAreRecent(r) ==
    LET q == req[r] IN
    \E row \in Seen(r).rows :
       \/ users'[q.user] = Due(q, row)
       \/ Due(q, row) = row /\ users'[q.user] = users[q.user]

(* It leaves the roles it has found for the names it gives, and else only  *)
(* roles that another request has given the user meanwhile.                *)
RolesAreRecent(r) ==
    LET q == req[r]
        left == assigned'[q.user] IN
    IF q.names = {} THEN left = assigned[q.user]
    ELSE /\ work[r].on \subseteq left
         /\ left \ work[r].on \subseteq assigned[q.user] \cap Seen(r).absent

(* A change of password writes columns as they were, gives back only roles *)
(* that the user had, takes away only roles that the user had not, and     *)
(* gives a role only a name that it had while the user had the role.       *)
MergeIsRecent(r) ==
    LET u == req[r].user IN
    /\ users'[u] \in Seen(r).rows
    /\ \A k \in assigned'[u] \ assigned[u] : \E name \in Names : <<k, name>> \in Seen(r).names
    /\ assigned[u] \ assigned'[u] \subseteq Seen(r).absent
    /\ \A k \in Roles : roles'[k] # roles[k] => <<k, roles'[k]>> \in Seen(r).names

(* Whatever overlaps, a request that changes a user writes what it is      *)
(* asked for over what was so while it was served: UserService and the     *)
(* authentication filter keep no copy for longer, and of a set of roles    *)
(* that is replaced only those stay that somebody gave meanwhile.          *)
NothingOlderComesBack ==
    [][\A r \in Requests : Save(r) =>
          /\ req[r].kind \in ChangeKinds => ColumnsAreRecent(r) /\ RolesAreRecent(r)
          /\ req[r].kind = "PASSWORD" => MergeIsRecent(r)]_hvars
-----------------------------------------------------------------------------
(* Why it holds: inductive together with the invariants of UserDirectory.  *)

(* What a thread has read of its user was so at some moment ...            *)
CopyWasSo(r) ==
    /\ pc[r] \notin {"idle", "find"} /\ req[r].kind \in ChangeKinds \cup {"PASSWORD"} =>
          copy[r].row \in Seen(r).rows
    /\ pc[r] # "idle" /\ req[r].kind = "PASSWORD" =>
          /\ Roles \ copy[r].on \subseteq Seen(r).absent
          /\ \A k \in copy[r].on : <<k, copy[r].names[k]>> \in Seen(r).names

(* ... and what its DELETE FROM user_roles has not found was absent then.  *)
RestWasAbsent(r) ==
    pc[r] = "commit" /\ ReplacesRoles(req[r]) => Roles \ work[r].off \subseteq Seen(r).absent

HistoryInv == \A r \in Requests : CopyWasSo(r) /\ RestWasAbsent(r)
=============================================================================

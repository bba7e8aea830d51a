----------------------- MODULE UserDirectoryInvariants -----------------------
(***************************************************************************)
(* Why the properties of UserDirectory hold: inductive invariants, in      *)
(* named parts.  The runs check Inv, RolesInv and LastingInv on small      *)
(* instances; UserDirectoryProofs (Inv, RolesInv) and DirectoryRefinement  *)
(* (WorkInv, SerialInv, LastingInv) prove them for every value of the      *)
(* constants.                                                              *)
(***************************************************************************)
EXTENDS UserDirectory

(* What a thread does at a step is a request of the kind the step serves.  *)
StepsServe(r) ==
    /\ pc[r] # "idle" => req[r] \in Request
    /\ pc[r] = "merge" => req[r].kind = "PASSWORD"
    /\ pc[r] = "find" => req[r].kind \in ChangeKinds \cup {"DELETE", "RENAME_ROLE", "DELETE_ROLE"}
    /\ pc[r] = "name" => req[r].kind \in {"ADD_ROLE", "RENAME_ROLE"}
    /\ pc[r] = "unused" => req[r].kind = "DELETE_ROLE"
    /\ pc[r] \in {"email", "roles"} => req[r].kind \in AddKinds \cup ChangeKinds

(* What was read of a user once is a row of the table still, though not of *)
(* this user, and its roles had names.                                     *)
CopiesWereRows(r) ==
    /\ pc[r] # "idle" /\ req[r].kind = "PASSWORD" =>
          /\ copy[r].row \in UserRow
          /\ copy[r].on \subseteq Roles
          /\ copy[r].names \in [copy[r].on -> Names]
    /\ pc[r] \notin {"idle", "find"} /\ req[r].kind \in ChangeKinds => copy[r].row \in UserRow

(* Only a password change writes names, those it has read.                 *)
RenamesItsCopies(r) ==
    work[r].renamed # {} => /\ pc[r] # "idle" /\ req[r].kind = "PASSWORD"
                            /\ work[r].renamed \subseteq copy[r].on

(* Inductive: a commit relies on no check but its own, and on the copies   *)
(* being of the types of the columns they are written to.                  *)
Inv ==
    /\ TypeOK
    /\ \A r \in Requests : StepsServe(r) /\ CopiesWereRows(r) /\ RenamesItsCopies(r)
    /\ UniqueEmails
    /\ UniqueRoleNames
    /\ AssignedRolesExist

(* A request that names roles comes to its flush with at least one found.  *)
FindsItsRoles(r) ==
    /\ pc[r] \in {"find", "email", "roles"} /\ req[r].kind \in AddKinds \cup ChangeKinds =>
          work[r].left = req[r].names \/ work[r].on # {}
    /\ pc[r] \in {"flush", "commit"} /\ req[r].kind \in AddKinds \cup ChangeKinds =>
          req[r].names = {} \/ work[r].on # {}

(* And one that names none deletes none.                                   *)
KeepsUnnamedRoles(r) ==
    /\ pc[r] # "commit" => work[r].off = {}
    /\ pc[r] = "commit" /\ req[r].kind \in ChangeKinds => ReplacesRoles(req[r]) \/ work[r].off = {}

ServesNoPassword(r) == pc[r] # "idle" => req[r].kind # "PASSWORD"

(* The administrator's role has been found or will be new.                 *)
AdminHasRole == boot.step = "saveAdmin" => AdminRole \in boot.new \/ boot.admin # {}

(* Inductive together with Inv as long as nobody changes a password.       *)
RolesInv ==
    /\ UsersHaveRoles
    /\ \A r \in Requests : FindsItsRoles(r) /\ KeepsUnnamedRoles(r) /\ ServesNoPassword(r)
    /\ AdminHasRole

(* A thread begins with nothing to write: Receive only adds the names.     *)
StartsAfresh(r) == pc[r] = "idle" => work[r] = NoWork

(* A PUT writes all the columns, a PATCH those that differ from its copy.  *)
WritesItsColumns(r) ==
    pc[r] = "commit" /\ req[r].kind \in ChangeKinds =>
        \/ work[r].row = Columns(req[r], copy[r].row)
        \/ work[r].row = NoCopy /\ Columns(req[r], copy[r].row) = copy[r].row

(* It comes without roles to insert or delete if it names none.            *)
LeavesUnnamedRoles(r) ==
    pc[r] # "idle" /\ req[r].kind \in ChangeKinds /\ req[r].names = {} =>
        work[r].on = {} /\ work[r].off = {} /\ work[r].left = {}

(* A change of password writes nothing its copy did not have.              *)
MergesItsCopy(r) ==
    pc[r] \in {"flush", "commit"} /\ req[r].kind = "PASSWORD" =>
        /\ work[r].row = copy[r].row
        /\ work[r].on \subseteq copy[r].on
        /\ work[r].off \cap copy[r].on = {}
        /\ work[r].renamed \subseteq copy[r].on

PlansItsRequest(r) == /\ StartsAfresh(r) /\ WritesItsColumns(r)
                      /\ LeavesUnnamedRoles(r) /\ MergesItsCopy(r)

(* Inductive together with Inv: what a thread is about to write is what    *)
(* its request asks for, applied to what it has read.                      *)
WorkInv == AdminHasRole /\ \A r \in Requests : PlansItsRequest(r)

(* What the thread has read is so: the user it changes, the roles that     *)
(* have the names, the roles a replacement deletes.                        *)
ReadsAreSo(r) ==
    /\ pc[r] \notin {"idle", "find"} /\ req[r].kind \in ChangeKinds =>
          copy[r].row = users[req[r].user]
    /\ pc[r] # "idle" /\ req[r].kind = "PASSWORD" => copy[r] = Read(req[r].user)
    /\ pc[r] # "idle" /\ req[r].kind \in AddKinds \cup ChangeKinds =>
          /\ work[r].left \subseteq req[r].names
          /\ {roles[k] : k \in work[r].on} = req[r].names \ work[r].left
          /\ pc[r] \in {"flush", "commit"} => work[r].left = {}
    /\ pc[r] = "commit" /\ ReplacesRoles(req[r]) => work[r].off = assigned[req[r].user]

(* Inductive together with Inv and WorkInv for one thread, once the        *)
(* application is up.                                                      *)
SerialInv == boot.step = "up" /\ \A r \in Requests : ReadsAreSo(r)

(* What a thread has found stays so while nobody renames a role: a role    *)
(* that it found has the name still, or is gone and fails the INSERT.      *)
FindsLast(r) ==
    pc[r] # "idle" =>
        /\ req[r].kind \in Kinds
        /\ req[r].kind \in AddKinds =>
              /\ work[r].left \subseteq req[r].names
              /\ \A k \in work[r].on : roles[k] # Unused
              /\ work[r].on \subseteq Rows(roles) =>
                    {roles[k] : k \in work[r].on} = req[r].names \ work[r].left
              /\ pc[r] \in {"flush", "commit"} => work[r].left = {}

(* And what the start has found, while nobody deletes.                     *)
StartFindsLast ==
    /\ boot.new \subseteq {UserRole, AdminRole}
    /\ boot.step = "adminRole" => UserRole \in boot.new \/ HasName(roles, UserRole) # {}
    /\ boot.step \in {"admin", "saveRoles", "saveAdmin"} =>
          \A name \in {UserRole, AdminRole} : name \in boot.new \/ HasName(roles, name) # {}
    /\ boot.step = "saveRoles" => HasEmail(users, AdminEmail) # {}
    /\ \A k \in boot.admin : boot.step = "saveAdmin" /\ roles[k] = AdminRole

Deletes == {"DELETE", "DELETE_ROLE"}

(* Inductive together with Inv and WorkInv while requests add and delete,  *)
(* and none is deleted during a start.                                     *)
LastingInv ==
    /\ \A r \in Requests : FindsLast(r)
    /\ StartFindsLast
    /\ Kinds \cap Deletes # {} => boot.step = "up"
=============================================================================

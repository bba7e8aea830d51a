--------------------------- MODULE UserDirectory ---------------------------
(***************************************************************************)
(* Concurrent requests on users and roles: UserService, RoleService and    *)
(* RolesValidator behind their controllers, and DataInitializer, which     *)
(* runs when the server already answers.  Every check of the services is   *)
(* a query of its own, before the statements that rely on it; what the     *)
(* database refuses (unique columns, foreign keys, a row that is gone) is  *)
(* found by the statements and rolls the transaction back.                 *)
(*                                                                         *)
(* Statements take effect at the commit here, but for the one whose result *)
(* depends on when it starts: the DELETE FROM user_roles that comes before *)
(* the INSERTs of a replaced set of roles deletes the rows of its start.   *)
(***************************************************************************)
EXTENDS DirectoryData

CONSTANTS Requests,  \* the worker threads
          Kinds,     \* the kinds of request the clients send
          Opening,   \* the tables and the application as they are at first
          Restarts,  \* whether the application ever stops
          AskedEmails, \* what a request may give for the email,
          AskedFlags,  \* for the flag active
          AskedNames,  \* and for the names of the roles
          Null,      \* a field that a request leaves out
          NoRequest, \* a thread that waits for a request
          NoCopy     \* nothing read, nothing to write

ASSUME AskedAssumption ==
    /\ AskedEmails \subseteq Emails \cup {Null} /\ AskedFlags \subseteq BOOLEAN \cup {Null}
    /\ AskedNames \subseteq SUBSET Names
ASSUME NullAssumption == Null \notin Emails \cup BOOLEAN /\ NoCopy \notin UserRow
ASSUME OpeningAssumption ==
    /\ Opening.step \in {"down", "up"}
    /\ Opening.users \in UserTable /\ Opening.roles \in RoleTable
    /\ Opening.assigned \in [Users -> SUBSET Rows(Opening.roles)]
    /\ \A u \in Users : Opening.assigned[u] # {} <=> u \in Rows(Opening.users)
    /\ \A u, v \in Rows(Opening.users) : Opening.users[u].email = Opening.users[v].email => u = v
    /\ \A k, l \in Rows(Opening.roles) : Opening.roles[k] = Opening.roles[l] => k = l

VARIABLES users,    \* the committed rows of "users"
          roles,    \* the committed rows of "roles": their names
          assigned, \* the committed rows of "user_roles"
          pc,       \* where the thread is in its handler
          req,      \* the request the thread serves
          copy,     \* what it has read of the user or role it changes
          work,     \* what its flush will write
          boot      \* where DataInitializer is, and what it has found

tables == <<users, roles, assigned>>
vars == <<users, roles, assigned, pc, req, copy, work, boot>>

-----------------------------------------------------------------------------
(* Requests.  A RoleDto names its role.                                    *)

GivenEmails == AskedEmails \ {Null}
GivenNames == AskedNames \ {{}}

AddRequest ==
    [kind: {"REGISTER"}, emails: {<<e>> : e \in GivenEmails}, active: {TRUE}, names: {{UserRole}}]
      \cup [kind: {"CREATE"}, emails: {<<e>> : e \in GivenEmails}, active: AskedFlags,
            names: GivenNames]
      \cup [kind: {"BULK"}, emails: GivenEmails \X GivenEmails, active: {TRUE}, names: GivenNames]

ChangeRequest ==
    [kind: {"PUT"}, user: Users, email: GivenEmails, active: AskedFlags \ {Null},
     names: GivenNames]
      \cup [kind: {"PATCH"}, user: Users, email: AskedEmails, active: AskedFlags,
            names: AskedNames]

UserRequest == [kind: {"PASSWORD", "DELETE"}, user: Users]

RoleRequest == [kind: {"ADD_ROLE"}, name: Names]
                 \cup [kind: {"RENAME_ROLE"}, role: Roles, name: Names]
                 \cup [kind: {"DELETE_ROLE"}, role: Roles]

Request == AddRequest \cup ChangeRequest \cup UserRequest \cup RoleRequest

AddKinds == {"REGISTER", "CREATE", "BULK"}
ChangeKinds == {"PUT", "PATCH"}

EmailsOf(q) == {q.emails[n] : n \in DOMAIN q.emails}

(* The copies the services look at: of a user with the roles, of a user's  *)
(* columns, of a role.                                                     *)
Read(u) == [row |-> users[u], on |-> assigned[u],
            names |-> [k \in assigned[u] |-> roles[k]]]
ReadRow(u) == [row |-> users[u]]
ReadRole(k) == [name |-> roles[k]]

(* What a flush writes: the columns of the user, the rows of user_roles it *)
(* deletes and inserts, and role names that a cascade writes.              *)
Work == [row: UserRow \cup {NoCopy}, off: SUBSET Roles, on: SUBSET Roles,
         renamed: SUBSET Roles, left: SUBSET Names]

NoWork == [row |-> NoCopy, off |-> {}, on |-> {}, renamed |-> {}, left |-> {}]
-----------------------------------------------------------------------------
Init ==
    /\ users = Opening.users
    /\ roles = Opening.roles
    /\ assigned = Opening.assigned
    /\ pc = [r \in Requests |-> "idle"]
    /\ req = [r \in Requests |-> NoRequest]
    /\ copy = [r \in Requests |-> NoCopy]
    /\ work = [r \in Requests |-> NoWork]
    /\ boot = [step |-> Opening.step, new |-> {}, admin |-> {}]

Goto(r, step) == pc' = [pc EXCEPT ![r] = step]

EndRequest(r) ==
    /\ Goto(r, "idle")
    /\ req' = [req EXCEPT ![r] = NoRequest]
    /\ copy' = [copy EXCEPT ![r] = NoCopy]
    /\ work' = [work EXCEPT ![r] = NoWork]
    /\ UNCHANGED boot

Fail(r) == EndRequest(r) /\ UNCHANGED tables

FirstStep(kind) ==
    CASE kind \in AddKinds -> "email"
      [] kind = "PASSWORD" -> "merge"
      [] kind = "ADD_ROLE" -> "name"
      [] OTHER -> "find"

(* The password is changed on the user that the authentication filter read *)
(* before: the copy, with its roles, is that old.                          *)
Receive(r) ==
    /\ pc[r] = "idle" /\ boot.step # "down"
    /\ \E q \in Request :
          /\ q.kind \in Kinds
          /\ q.kind = "PASSWORD" => q.user \in Rows(users)
          /\ req' = [req EXCEPT ![r] = q]
          /\ copy' = [copy EXCEPT ![r] = IF q.kind = "PASSWORD" THEN Read(q.user) ELSE NoCopy]
          /\ work' = [work EXCEPT ![r].left =
                IF q.kind \in AddKinds \cup ChangeKinds THEN q.names ELSE {}]
          /\ Goto(r, FirstStep(q.kind))
    /\ UNCHANGED <<tables, boot>>

(* findById of the user or of the role. *)
Find(r) ==
    LET q == req[r]
        ofUser == q.kind \in ChangeKinds \cup {"DELETE"} IN
    /\ pc[r] = "find"
    /\ \/ /\ IF ofUser THEN q.user \in Rows(users) ELSE q.role \in Rows(roles)
          /\ copy' = [copy EXCEPT ![r] = IF ofUser THEN ReadRow(q.user) ELSE ReadRole(q.role)]
          /\ Goto(r, CASE q.kind \in ChangeKinds -> "email"
                       [] q.kind = "RENAME_ROLE" -> "name"
                       [] q.kind = "DELETE_ROLE" -> "unused"
                       [] q.kind = "DELETE" -> "flush")
          /\ UNCHANGED <<tables, req, work, boot>>
       \/ /\ IF ofUser THEN q.user \notin Rows(users) ELSE q.role \notin Rows(roles)
          /\ Fail(r)

(* checkEmail, checkEmailUniqueness, and in bulk findDuplicates first. *)
EmailsFree(q) ==
    IF q.kind \in AddKinds
    THEN /\ \A m, n \in DOMAIN q.emails : q.emails[m] = q.emails[n] => m = n
         /\ \A e \in EmailsOf(q) : HasEmail(users, e) = {}
    ELSE q.email = Null \/ HasEmail(users, q.email) \subseteq {q.user}

CheckEmail(r) ==
    /\ pc[r] = "email"
    /\ \/ EmailsFree(req[r]) /\ Goto(r, "roles") /\ UNCHANGED <<tables, req, copy, work, boot>>
       \/ ~EmailsFree(req[r]) /\ Fail(r)

(* RolesValidator asks for one role after the other. *)
FindRoles(r) ==
    /\ pc[r] = "roles"
    /\ \/ /\ work[r].left = {}
          /\ Goto(r, "flush")
          /\ UNCHANGED <<tables, req, copy, work, boot>>
       \/ \E name \in work[r].left :
             \/ \E k \in HasName(roles, name) :
                   /\ work' = [work EXCEPT ![r].left = @ \ {name}, ![r].on = @ \cup {k}]
                   /\ UNCHANGED <<tables, pc, req, copy, boot>>
             \/ HasName(roles, name) = {} /\ Fail(r)

(* existsByName, existsByNameAndIdNot. *)
CheckName(r) ==
    LET q == req[r]
        mine == IF q.kind = "RENAME_ROLE" THEN {q.role} ELSE {}
        free == HasName(roles, q.name) \subseteq mine IN
    /\ pc[r] = "name"
    /\ \/ free /\ Goto(r, "flush") /\ UNCHANGED <<tables, req, copy, work, boot>>
       \/ ~free /\ Fail(r)

Unassigned(k) == \A u \in Users : k \notin assigned[u]

CheckUnused(r) ==
    /\ pc[r] = "unused"
    /\ \/ Unassigned(req[r].role) /\ Goto(r, "flush")
          /\ UNCHANGED <<tables, req, copy, work, boot>>
       \/ ~Unassigned(req[r].role) /\ Fail(r)

(* save(user) in changePassword merges the copy over the rows as they are  *)
(* now: the columns, the set of roles row by row, and by the cascade the   *)
(* names of the roles.  A role that is gone fails it.  (A wrong password,  *)
(* which is no data of the model, fails it too.)                           *)
Merge(r) ==
    LET u == req[r].user
        old == copy[r] IN
    /\ pc[r] = "merge"
    /\ \/ /\ u \in Rows(users) /\ old.on \subseteq Rows(roles)
          /\ work' = [work EXCEPT ![r] =
                [NoWork EXCEPT !.row = old.row,
                               !.off = assigned[u] \ old.on,
                               !.on = old.on \ assigned[u],
                               !.renamed = {k \in old.on : roles[k] # old.names[k]}]]
          /\ Goto(r, "flush")
          /\ UNCHANGED <<tables, req, copy, boot>>
       \/ Fail(r)

(* The columns a PUT or PATCH leaves; the UPDATE writes all of them.       *)
Columns_NullsToo(q, read) == [email |-> q.email, active |-> q.active]
Columns_KeepsActive(q, read) == [email |-> IF q.email = Null THEN read.email ELSE q.email,
                                 active |-> read.active]
Columns(q, read) == [email |-> IF q.email = Null THEN read.email ELSE q.email,
                     active |-> IF q.active = Null THEN read.active ELSE q.active]

(* PATCH leaves the roles alone when it names none. *)
ReplacesRoles_Always(q) == q.kind \in ChangeKinds
ReplacesRoles(q) == q.kind \in ChangeKinds /\ q.names # {}

(* What the DELETE FROM user_roles finds when it starts. *)
Replaced_Nothing(q) == {}
Replaced(q) == assigned[q.user]

HoldsRow(s, u) == /\ pc[s] = "commit" /\ req[s].kind \in ChangeKinds \cup {"PASSWORD"}
                  /\ req[s].user = u /\ work[s].row # NoCopy

(* The flush: an UPDATE of the user waits for the row; then the DELETE of  *)
(* the roles sees what is committed.  A PUT without a password has failed. *)
Flush(r) ==
    LET q == req[r]
        row == CASE q.kind = "PUT" -> Columns(q, copy[r].row)
                 [] q.kind = "PATCH" -> IF Columns(q, copy[r].row) = copy[r].row
                                        THEN NoCopy ELSE Columns(q, copy[r].row)
                 [] OTHER -> work[r].row IN
    /\ pc[r] = "flush"
    /\ \/ /\ row # NoCopy => \A s \in Requests : ~HoldsRow(s, q.user)
          /\ work' = [work EXCEPT ![r].row = row,
                                  ![r].off = IF ReplacesRoles(q) \/ q.kind = "DELETE"
                                             THEN Replaced(q) ELSE @]
          /\ Goto(r, "commit")
          /\ UNCHANGED <<tables, req, copy, boot>>
       \/ q.kind = "PUT" /\ Fail(r)
-----------------------------------------------------------------------------
(* What the tables let a transaction write. *)

UniqueEmail_NoConstraint(except, email) == TRUE
UniqueEmail(except, email) == HasEmail(users, email) \subseteq except

UniqueName_NoConstraint(except, name) == TRUE
UniqueName(except, name) == HasName(roles, name) \subseteq except

(* user_roles.role_id refers to "roles", user_roles.user_id to "users". *)
Deletable_NoConstraint(k) == TRUE
Deletable(k) == Unassigned(k)

(* One transaction inserts all the users of a request. *)
Inserted_WhatItCan(q) == {e \in EmailsOf(q) : HasEmail(users, e) = {}}
Inserted(q) == EmailsOf(q)

InsertAccepted(q, w) ==
    /\ q.active # Null
    /\ \A e \in Inserted(q) : UniqueEmail({}, e)
    /\ w.on \subseteq Rows(roles)

ChangeAccepted(u, w) ==
    /\ w.row # NoCopy \/ w.on # {} => u \in Rows(users)
    /\ w.row # NoCopy => UniqueEmail({u}, w.row.email)
    /\ w.on \subseteq Rows(roles)
    /\ w.on \cap (assigned[u] \ w.off) = {}
    /\ w.renamed \subseteq Rows(roles)

(* The names of the roles once the cascade of a merge has written its own. *)
Renamed(r) == [k \in Roles |-> IF k \in work[r].renamed THEN copy[r].names[k] ELSE roles[k]]

(* One UPDATE after the other, in no particular order: a name that is free *)
(* in the end may not be so at its turn.                                   *)
FreeAtLast(r) ==
    \A k \in work[r].renamed, l \in Rows(Renamed(r)) : Renamed(r)[k] = Renamed(r)[l] => k = l

Clashes(r, left, k) == \E l \in left \ {k} : roles[l] = copy[r].names[k]

NamesAccepted(r) ==
    /\ FreeAtLast(r)
    /\ \A left \in SUBSET work[r].renamed :
          left # {} => \E k \in left : ~Clashes(r, left, k)

NamesRefused(r) ==
    ~FreeAtLast(r) \/ \E k \in work[r].renamed : Clashes(r, work[r].renamed, k)

(* New users: one id for each email, of rows no one had. *)
SaveNew(r) ==
    LET q == req[r]
        w == work[r] IN
    /\ q.kind \in AddKinds /\ InsertAccepted(q, w)
    /\ \E id \in [Inserted(q) -> Users] :
          LET new == {id[e] : e \in Inserted(q)} IN
          /\ \A e, f \in Inserted(q) : id[e] = id[f] => e = f
          /\ \A u \in new : users[u] = Unused
          /\ users' = [u \in Users |->
                IF u \in new THEN [email |-> CHOOSE e \in Inserted(q) : id[e] = u,
                                   active |-> q.active]
                ELSE users[u]]
          /\ assigned' = [u \in Users |-> IF u \in new THEN w.on ELSE assigned[u]]
    /\ UNCHANGED roles

SaveChanged(r) ==
    LET q == req[r]
        w == work[r] IN
    /\ q.kind \in ChangeKinds \cup {"PASSWORD"}
    /\ ChangeAccepted(q.user, w) /\ NamesAccepted(r)
    /\ users' = IF w.row = NoCopy THEN users ELSE [users EXCEPT ![q.user] = w.row]
    /\ assigned' = [assigned EXCEPT ![q.user] = (@ \ w.off) \cup w.on]
    /\ roles' = Renamed(r)

(* The accounts of the user, which go too, are in module Banking. *)
SaveDeleted(r) ==
    LET q == req[r] IN
    /\ q.kind = "DELETE" /\ q.user \in Rows(users)
    /\ assigned[q.user] \subseteq work[r].off
    /\ users' = [users EXCEPT ![q.user] = Deleted]
    /\ assigned' = [assigned EXCEPT ![q.user] = {}]
    /\ UNCHANGED roles

(* A renaming to the name the copy has writes nothing. *)
SaveRole(r) ==
    LET q == req[r] IN
    /\ \/ /\ q.kind = "ADD_ROLE" /\ UniqueName({}, q.name)
          /\ \E k \in Roles : roles[k] = Unused /\ roles' = [roles EXCEPT ![k] = q.name]
       \/ /\ q.kind = "RENAME_ROLE" /\ copy[r].name = q.name
          /\ UNCHANGED roles
       \/ /\ q.kind = "RENAME_ROLE" /\ copy[r].name # q.name
          /\ q.role \in Rows(roles) /\ UniqueName({q.role}, q.name)
          /\ roles' = [roles EXCEPT ![q.role] = q.name]
       \/ /\ q.kind = "DELETE_ROLE" /\ q.role \in Rows(roles) /\ Deletable(q.role)
          /\ roles' = [roles EXCEPT ![q.role] = Deleted]
    /\ UNCHANGED <<users, assigned>>

Save(r) ==
    /\ pc[r] = "commit"
    /\ SaveNew(r) \/ SaveChanged(r) \/ SaveDeleted(r) \/ SaveRole(r)
    /\ EndRequest(r)

(* One of the statements fails. *)
Refused(r) ==
    LET q == req[r]
        w == work[r] IN
    /\ pc[r] = "commit"
    /\ CASE q.kind \in AddKinds -> ~InsertAccepted(q, w)
         [] q.kind \in ChangeKinds \cup {"PASSWORD"} ->
               ~ChangeAccepted(q.user, w) \/ NamesRefused(r)
         [] q.kind = "DELETE" ->
               q.user \notin Rows(users) \/ ~(assigned[q.user] \subseteq w.off)
         [] q.kind = "ADD_ROLE" -> ~UniqueName({}, q.name)
         [] q.kind = "RENAME_ROLE" ->
               copy[r].name # q.name /\ (q.role \notin Rows(roles) \/ ~UniqueName({q.role}, q.name))
         [] q.kind = "DELETE_ROLE" -> q.role \notin Rows(roles) \/ ~Deletable(q.role)
    /\ Fail(r)
-----------------------------------------------------------------------------
(* The start of the application: DataInitializer.run, one transaction.     *)

StartInit ==
    /\ boot.step = "down"
    /\ boot' = [step |-> "userRole", new |-> {}, admin |-> {}]
    /\ UNCHANGED <<tables, pc, req, copy, work>>

(* initRoles looks for the one role, then for the other. *)
RoleMissing_OnlyOne(name) == HasName(roles, name) = {} /\ boot.new = {}
RoleMissing(name) == HasName(roles, name) = {}

InitRoles ==
    LET name == IF boot.step = "userRole" THEN UserRole ELSE AdminRole IN
    /\ boot.step \in {"userRole", "adminRole"}
    /\ boot' = [boot EXCEPT
          !.step = IF @ = "userRole" THEN "adminRole" ELSE "admin",
          !.new = IF RoleMissing(name) THEN @ \cup {name} ELSE @]
    /\ UNCHANGED <<tables, pc, req, copy, work>>

(* initAdmin looks for the email, and for the role unless it is new. *)
InitAdmin ==
    /\ boot.step = "admin"
    /\ \/ /\ HasEmail(users, AdminEmail) # {}
          /\ boot' = [boot EXCEPT !.step = "saveRoles"]
       \/ /\ HasEmail(users, AdminEmail) = {}
          /\ AdminRole \in boot.new \/ HasName(roles, AdminRole) # {}
          /\ boot' = [boot EXCEPT !.step = "saveAdmin",
                                  !.admin = HasName(roles, AdminRole)]
    /\ UNCHANGED <<tables, pc, req, copy, work>>

(* The role of the administrator: a new one, or the one that was found. *)
RolesOfAdmin == IF AdminRole \in boot.new THEN HasName(roles', AdminRole) ELSE boot.admin

(* Its commit, when the tables take the new rows. *)
EndInit ==
    /\ boot.step \in {"saveRoles", "saveAdmin"}
    /\ \A name \in boot.new : UniqueName({}, name)
    /\ \E id \in [boot.new -> Roles] :
          /\ \A m, n \in boot.new : id[m] = id[n] => m = n
          /\ \A n \in boot.new : roles[id[n]] = Unused
          /\ roles' = [k \in Roles |-> IF \E n \in boot.new : id[n] = k
                                       THEN CHOOSE n \in boot.new : id[n] = k ELSE roles[k]]
    /\ \/ boot.step = "saveRoles" /\ UNCHANGED <<users, assigned>>
       \/ /\ boot.step = "saveAdmin"
          /\ UniqueEmail({}, AdminEmail) /\ boot.admin \subseteq Rows(roles)
          /\ \E u \in Users :
                /\ users[u] = Unused
                /\ users' = [users EXCEPT ![u] = [email |-> AdminEmail, active |-> TRUE]]
                /\ assigned' = [assigned EXCEPT ![u] = RolesOfAdmin]
    /\ boot' = [step |-> "up", new |-> {}, admin |-> {}]
    /\ UNCHANGED <<pc, req, copy, work>>

(* The application stops: it is killed, or DataInitializer has thrown. *)
Crash ==
    /\ Restarts /\ boot.step # "down"
    /\ boot' = [step |-> "down", new |-> {}, admin |-> {}]
    /\ pc' = [r \in Requests |-> "idle"]
    /\ req' = [r \in Requests |-> NoRequest]
    /\ copy' = [r \in Requests |-> NoCopy]
    /\ work' = [r \in Requests |-> NoWork]
    /\ UNCHANGED tables

Handle(r) == \/ Find(r) \/ CheckEmail(r) \/ FindRoles(r) \/ CheckName(r) \/ CheckUnused(r)
             \/ Merge(r) \/ Flush(r) \/ Save(r) \/ Refused(r)

Next == \/ \E r \in Requests : Receive(r) \/ Handle(r)
        \/ StartInit \/ InitRoles \/ InitAdmin \/ EndInit \/ Crash

Spec == Init /\ [][Next]_vars
-----------------------------------------------------------------------------
(* Properties *)

Steps == {"idle", "email", "merge", "name", "find", "roles", "unused", "flush", "commit"}
BootSteps == {"down", "userRole", "adminRole", "admin", "saveRoles", "saveAdmin", "up"}

(* Every variable holds what its place in the program can hold.            *)
TypeOK ==
    /\ users \in UserTable
    /\ roles \in RoleTable
    /\ assigned \in [Users -> SUBSET Roles]
    /\ pc \in [Requests -> Steps]
    /\ req \in [Requests -> Request \cup {NoRequest}]
    /\ copy = [r \in Requests |-> copy[r]]
    /\ work \in [Requests -> Work]
    /\ boot \in [step: BootSteps, new: SUBSET Names, admin: SUBSET Roles]

(* No two users have one email, although every service looks for the email *)
(* long before it writes it, and two of them may look at once.             *)
UniqueEmails ==
    \A u, v \in Rows(users) : users[u].email = users[v].email => u = v

(* Nor two roles one name, whoever creates, renames or merges them.        *)
UniqueRoleNames == \A k, l \in Rows(roles) : roles[k] = roles[l] => k = l

(* A role somebody has is there, and nobody has one who is not: a deletion *)
(* that found the role unused overlaps with an assignment that found it.   *)
AssignedRolesExist ==
    \A u \in Users : /\ assigned[u] \subseteq Rows(roles)
                     /\ u \notin Rows(users) => assigned[u] = {}

(* Every user has a role: however PUTs and PATCHes that replace the roles  *)
(* of one user and deletions of roles overlap, none takes the last away.   *)
UsersHaveRoles == \A u \in Rows(users) : assigned[u] # {}

Atomic == INSTANCE AtomicDirectory WITH users <- users, roles <- roles, assigned <- assigned

(* What the request promises to do to the tables. *)
Asked(q) ==
    \/ q.kind \in AddKinds /\ Atomic!Add(EmailsOf(q), q.active, q.names)
    \/ /\ q.kind \in ChangeKinds /\ q.user \in Rows(users)
       /\ \E row \in UserRow :
             /\ row.email = IF q.email # Null THEN q.email ELSE users[q.user].email
             /\ row.active = IF q.active # Null THEN q.active ELSE users[q.user].active
             /\ Atomic!Change(q.user, row, q.names)
    \/ q.kind = "DELETE" /\ Atomic!Remove(q.user)
    \/ q.kind = "ADD_ROLE" /\ Atomic!AddRole(q.name)
    \/ q.kind = "RENAME_ROLE" /\ Atomic!RenameRole(q.role, q.name)
    \/ q.kind = "DELETE_ROLE" /\ Atomic!RemoveRole(q.role)

(* What the transaction has read is no longer so. *)
Stale(r) ==
    LET q == req[r]
        foundOther == {roles[k] : k \in work[r].on} # q.names IN
    CASE q.kind \in AddKinds -> foundOther
      [] q.kind \in ChangeKinds ->
            \/ copy[r].row # users[q.user]
            \/ q.names # {} /\ (work[r].off # assigned[q.user] \/ foundOther)
      [] q.kind = "PASSWORD" -> copy[r] # Read(q.user)
      [] OTHER -> FALSE

StaleInit ==
    LET missing == {name \in {UserRole, AdminRole} : HasName(roles, name) = {}} IN
    \/ boot.new # missing
    \/ (boot.step = "saveAdmin") # (HasEmail(users, AdminEmail) = {})
    \/ \E k \in boot.admin : roles[k] # AdminRole

(* The tables change by what a request, or the start, promises, on the     *)
(* tables as they are, or by a commit of what is no longer so.  In         *)
(* particular a bulk creation adds all its users or none, a PATCH changes  *)
(* what it names, and a new password changes neither user nor role.        *)
FreshChangesAreAtomic ==
    [][\/ \E r \in Requests : pc[r] = "commit" /\ (Asked(req[r]) \/ (Stale(r) /\ Save(r)))
       \/ Atomic!Start \/ (StaleInit /\ EndInit)]_tables

(* Requests that only add users and roles, and starts and stops of the     *)
(* application among them, never act on what is no longer so: however they *)
(* overlap, every change is what a request, or the start, promises on the  *)
(* tables as they are ...                                                  *)
Promised == \/ \E r \in Requests : pc[r] = "commit" /\ Asked(req[r])
            \/ Atomic!Start

ChangesArePromised == [][Promised]_tables

(* ... and the tables go through a behaviour of AtomicDirectory.           *)
ImplementsAtomicDirectory == Atomic!Spec
-----------------------------------------------------------------------------
(* What the tests and messages of the repository say, and the code does    *)
(* not keep.                                                               *)

(* "At least one role is required", of every user.                         *)
AtLeastOneRole == UsersHaveRoles
=============================================================================

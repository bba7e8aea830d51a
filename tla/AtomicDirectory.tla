-------------------------- MODULE AtomicDirectory --------------------------
(***************************************************************************)
(* What UserService and RoleService promise: every request finds and       *)
(* changes users and roles at one instant.  A role is given by its name.   *)
(***************************************************************************)
EXTENDS DirectoryData

CONSTANT Opening   \* the tables when the application is first started

VARIABLES users,    \* the table of users
          roles,    \* the names of the roles
          assigned  \* user_roles: the roles of every user

vars == <<users, roles, assigned>>

Init == /\ users = Opening.users
        /\ roles = Opening.roles
        /\ assigned = Opening.assigned

Named(names) == {k \in Rows(roles) : roles[k] \in names}

Known(names) == \A name \in names : HasName(roles, name) # {}

(* New users, with the same roles, at least one: registration, POST and    *)
(* POST /bulk.                                                             *)
Add(emails, active, names) ==
    /\ names # {} /\ Known(names)
    /\ \A e \in emails : HasEmail(users, e) = {}
    /\ \E id \in [emails -> Users] :
          /\ \A e, f \in emails : id[e] = id[f] => e = f
          /\ \A e \in emails : users[id[e]] = Unused
          /\ LET new == {id[e] : e \in emails} IN
             /\ users' = [u \in Users |->
                   IF u \in new THEN [email |-> CHOOSE e \in emails : id[e] = u,
                                      active |-> active]
                   ELSE users[u]]
             /\ assigned' = [u \in Users |-> IF u \in new THEN Named(names) ELSE assigned[u]]
    /\ UNCHANGED roles

(* PUT and PATCH: a row and, unless names is empty, the roles. *)
Change(u, row, names) ==
    /\ u \in Rows(users)
    /\ Known(names)
    /\ HasEmail(users, row.email) \subseteq {u}
    /\ users' = [users EXCEPT ![u] = row]
    /\ assigned' = [assigned EXCEPT ![u] = IF names = {} THEN @ ELSE Named(names)]
    /\ UNCHANGED roles

Remove(u) ==
    /\ u \in Rows(users)
    /\ users' = [users EXCEPT ![u] = Deleted]
    /\ assigned' = [assigned EXCEPT ![u] = {}]
    /\ UNCHANGED roles

AddRole(name) ==
    /\ HasName(roles, name) = {}
    /\ \E k \in Roles : roles[k] = Unused /\ roles' = [roles EXCEPT ![k] = name]
    /\ UNCHANGED <<users, assigned>>

RenameRole(k, name) ==
    /\ k \in Rows(roles)
    /\ HasName(roles, name) \subseteq {k}
    /\ roles' = [roles EXCEPT ![k] = name]
    /\ UNCHANGED <<users, assigned>>

RemoveRole(k) ==
    /\ k \in Rows(roles)
    /\ \A u \in Users : k \notin assigned[u]
    /\ roles' = [roles EXCEPT ![k] = Deleted]
    /\ UNCHANGED <<users, assigned>>

(* The start of the application adds what it misses: the two roles and,    *)
(* when nobody has the administrator's email, the administrator.           *)
Start ==
    \E k, l \in Roles, u \in Users :
       LET newRole(id, name) == IF HasName(roles, name) = {}
                                THEN roles[id] = Unused ELSE HasName(roles, name) = {id} IN
       /\ k # l /\ newRole(k, UserRole) /\ newRole(l, AdminRole)
       /\ roles' = [roles EXCEPT ![k] = UserRole, ![l] = AdminRole]
       /\ \/ /\ HasEmail(users, AdminEmail) = {} /\ users[u] = Unused
             /\ users' = [users EXCEPT ![u] = [email |-> AdminEmail, active |-> TRUE]]
             /\ assigned' = [assigned EXCEPT ![u] = {l}]
          \/ /\ HasEmail(users, AdminEmail) # {}
             /\ UNCHANGED <<users, assigned>>

Next ==
    \/ Start
    \/ \E emails \in SUBSET Emails, active \in BOOLEAN, names \in SUBSET Names :
          Add(emails, active, names)
    \/ \E u \in Users, row \in UserRow, names \in SUBSET Names : Change(u, row, names)
    \/ \E u \in Users : Remove(u)
    \/ \E name \in Names : AddRole(name)
    \/ \E k \in Roles, name \in Names : RenameRole(k, name)
    \/ \E k \in Roles : RemoveRole(k)

Spec == Init /\ [][Next]_vars
=============================================================================

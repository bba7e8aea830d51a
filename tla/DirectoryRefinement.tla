------------------------- MODULE DirectoryRefinement -------------------------
(***************************************************************************)
(* Every step of UserDirectory is a step of AtomicDirectory, a step that   *)
(* leaves the tables alone, or a commit of what was read and is no longer  *)
(* so: for every set of users, roles, emails, names and threads.  With one *)
(* thread nothing is ever stale, and UserDirectory is AtomicDirectory.     *)
(* What is stale is bounded by the history: nothing older comes back.      *)
(*                                                                         *)
(* A commit that is not stale writes what AtomicDirectory writes: its work *)
(* was made of its request and its copy (WorkInv), the copy is the row,    *)
(* the roles it found are the ones that have the names now, and what else  *)
(* AtomicDirectory asks for is asked by the constraints of the tables.     *)
(***************************************************************************)
EXTENDS UserDirectoryProofs, DirectoryHistory

LEMMA InitWorkInv == Init => WorkInv
<1> SUFFICES ASSUME Init PROVE WorkInv
  OBVIOUS
<1>1. AdminHasRole
  BY OpeningAssumption DEF Init, AdminHasRole
<1>2. \A r \in Requests : pc[r] = "idle" /\ work[r] = NoWork
  BY DEF Init
<1> QED
  BY <1>1, <1>2
     DEF WorkInv, PlansItsRequest, StartsAfresh, WritesItsColumns, LeavesUnnamedRoles, MergesItsCopy

(* What a step makes of the thread that takes it.                          *)
LEMMA StepsKeepPlans ==
    ASSUME Inv, NEW r \in Requests, PlansItsRequest(r), Receive(r) \/ Handle(r)
    PROVE  PlansItsRequest(r)'
<1>1. /\ pc \in [Requests -> Steps] /\ req \in [Requests -> Request \cup {NoRequest}]
      /\ copy = [s \in Requests |-> copy[s]] /\ work \in [Requests -> Work]
      /\ StepsServe(r)
  BY DEF Inv, TypeOK
<1>2. MergesItsCopy(r)'
  BY MergesKeepTheirCopies DEF PlansItsRequest
<1>3. StartsAfresh(r) /\ WritesItsColumns(r) /\ LeavesUnnamedRoles(r)
  BY DEF PlansItsRequest
<1> SUFFICES StartsAfresh(r)' /\ WritesItsColumns(r)' /\ LeavesUnnamedRoles(r)'
  BY <1>2 DEF PlansItsRequest
<1>4. CASE EndRequest(r)
  <2>1. pc'[r] = "idle" /\ work'[r] = NoWork
    BY <1>1, <1>4 DEF EndRequest, Goto
  <2> QED
    BY <2>1 DEF StartsAfresh, WritesItsColumns, LeavesUnnamedRoles
<1>5. CASE Receive(r)
  <2>1. PICK q \in Request :
            /\ pc[r] = "idle"
            /\ req' = [req EXCEPT ![r] = q]
            /\ work' = [work EXCEPT ![r].left =
                  IF q.kind \in AddKinds \cup ChangeKinds THEN q.names ELSE {}]
            /\ pc' = [pc EXCEPT ![r] = FirstStep(q.kind)]
    BY <1>5 DEF Receive, Goto
  <2>2. /\ pc'[r] = FirstStep(q.kind) /\ req'[r] = q
        /\ work'[r] = [NoWork EXCEPT !.left =
              IF q.kind \in AddKinds \cup ChangeKinds THEN q.names ELSE {}]
    BY <1>1, <1>3, <2>1 DEF StartsAfresh
  <2>3. pc'[r] \notin {"idle", "commit"}
    BY <2>2 DEF FirstStep
  <2>4. q.kind \in ChangeKinds => work'[r].on = {} /\ work'[r].off = {} /\ work'[r].left = q.names
    BY <2>2 DEF NoWork
  <2> QED
    BY <2>2, <2>3, <2>4 DEF StartsAfresh, WritesItsColumns, LeavesUnnamedRoles
<1>6. CASE ~EndRequest(r) /\ (Find(r) \/ CheckEmail(r) \/ CheckName(r) \/ CheckUnused(r))
  <2>1. /\ pc[r] # "idle" /\ pc'[r] \notin {"idle", "commit"}
        /\ UNCHANGED <<req, work>>
    <3>1. CASE Find(r)
      <4>1. req[r].kind \in ChangeKinds \cup {"DELETE", "RENAME_ROLE", "DELETE_ROLE"}
        BY <1>1, <3>1 DEF Find, StepsServe
      <4> QED
        BY <1>1, <1>6, <3>1, <4>1 DEF Find, Fail, Goto, ChangeKinds
    <3>2. CASE CheckEmail(r) \/ CheckName(r) \/ CheckUnused(r)
      BY <1>1, <1>6, <3>2 DEF CheckEmail, CheckName, CheckUnused, Fail, Goto
    <3> QED
      BY <1>6, <3>1, <3>2
  <2> QED
    BY <1>3, <2>1 DEF StartsAfresh, WritesItsColumns, LeavesUnnamedRoles
<1>7. CASE ~EndRequest(r) /\ FindRoles(r)
  <2>1. CASE Goto(r, "flush") /\ UNCHANGED <<req, work>>
    <3>1. pc[r] # "idle" /\ pc'[r] = "flush"
      BY <1>1, <1>7, <2>1 DEF FindRoles, Goto
    <3> QED
      BY <1>3, <2>1, <3>1 DEF StartsAfresh, WritesItsColumns, LeavesUnnamedRoles
  <2>2. ASSUME NEW name \in work[r].left, UNCHANGED <<pc, req>>
        PROVE  StartsAfresh(r)' /\ WritesItsColumns(r)' /\ LeavesUnnamedRoles(r)'
    <3>1. pc[r] = "roles"
      BY <1>7 DEF FindRoles
    <3> QED
      BY <1>3, <2>2, <3>1 DEF StartsAfresh, WritesItsColumns, LeavesUnnamedRoles
  <2> QED
    BY <1>7, <2>1, <2>2 DEF FindRoles, Fail
<1>8. CASE ~EndRequest(r) /\ Merge(r)
  <2>1. pc[r] = "merge" /\ pc'[r] = "flush" /\ req' = req
    BY <1>1, <1>8 DEF Merge, Fail, Goto
  <2>2. req[r].kind \notin ChangeKinds
    BY <1>1, <2>1 DEF StepsServe, ChangeKinds
  <2> QED
    BY <2>1, <2>2 DEF StartsAfresh, WritesItsColumns, LeavesUnnamedRoles
<1>9. CASE ~EndRequest(r) /\ Flush(r)
  <2> DEFINE q == req[r]
             columns == Columns(q, copy[r].row)
             row == CASE q.kind = "PUT" -> columns
                      [] q.kind = "PATCH" -> IF columns = copy[r].row THEN NoCopy ELSE columns
                      [] OTHER -> work[r].row
             off == IF ReplacesRoles(q) \/ q.kind = "DELETE" THEN assigned[q.user]
                    ELSE work[r].off
  <2>1. /\ pc[r] = "flush" /\ Goto(r, "commit") /\ UNCHANGED <<req, copy>>
        /\ work' = [work EXCEPT ![r].row = row, ![r].off = off]
    BY <1>9 DEF Flush, Replaced, Fail
  <2>2. q.kind \in ChangeKinds => row = columns \/ (row = NoCopy /\ columns = copy[r].row)
    BY DEF ChangeKinds
  <2>3. q.kind \in ChangeKinds /\ q.names = {} => off = work[r].off
    BY DEF ReplacesRoles, ChangeKinds
  <2> HIDE DEF row, off
  <2>4. /\ work'[r] = [work[r] EXCEPT !.row = row, !.off = off]
        /\ pc'[r] = "commit" /\ req'[r] = q /\ copy'[r] = copy[r]
    BY <1>1, <2>1 DEF Goto
  <2>5. /\ work'[r].row = row /\ work'[r].off = off
        /\ work'[r].on = work[r].on /\ work'[r].left = work[r].left
    BY <1>1, <2>4 DEF Work
  <2>6. WritesItsColumns(r)'
    BY <2>2, <2>4, <2>5 DEF WritesItsColumns, Columns
  <2>7. LeavesUnnamedRoles(r)'
    BY <1>3, <2>1, <2>3, <2>4, <2>5 DEF LeavesUnnamedRoles
  <2> QED
    BY <2>4, <2>6, <2>7 DEF StartsAfresh
<1>10. Save(r) \/ Refused(r) => EndRequest(r)
  BY DEF Save, Refused, Fail
<1> QED
  BY <1>4, <1>5, <1>6, <1>7, <1>8, <1>9, <1>10 DEF Handle

LEMMA UnchangedPlans ==
    ASSUME NEW r \in Requests, PlansItsRequest(r),
           pc'[r] = pc[r], req'[r] = req[r], copy'[r] = copy[r], work'[r] = work[r]
    PROVE  PlansItsRequest(r)'
BY DEF PlansItsRequest, StartsAfresh, WritesItsColumns, LeavesUnnamedRoles, MergesItsCopy

LEMMA NextKeepsWorkInv ==
    ASSUME Inv, WorkInv, [Next]_vars
    PROVE  WorkInv'
<1>1. AdminHasRole /\ \A r \in Requests : PlansItsRequest(r)
  BY DEF WorkInv
<1>2. AdminHasRole'
  BY <1>1, AdminKeepsRole
<1> SUFFICES ASSUME NEW s \in Requests PROVE PlansItsRequest(s)'
  BY <1>2 DEF WorkInv
<1>3. CASE UNCHANGED <<pc, req, copy, work>>
  BY <1>1, <1>3, UnchangedPlans
<1>4. ASSUME NEW r \in Requests, Receive(r) \/ Handle(r) PROVE PlansItsRequest(s)'
  <2>1. CASE s = r
    BY <1>1, <1>4, <2>1, StepsKeepPlans
  <2>2. CASE s # r
    <3>1. pc'[s] = pc[s] /\ req'[s] = req[s] /\ copy'[s] = copy[s] /\ work'[s] = work[s]
      BY <1>4, <2>2, OthersStay
    <3> QED
      BY <1>1, <3>1, UnchangedPlans
  <2> QED
    BY <2>1, <2>2
<1>5. CASE Crash
  <2>1. pc'[s] = "idle" /\ work'[s] = NoWork
    BY <1>5 DEF Crash
  <2> QED
    BY <2>1
       DEF PlansItsRequest, StartsAfresh, WritesItsColumns, LeavesUnnamedRoles, MergesItsCopy
<1> QED
  BY <1>3, <1>4, <1>5 DEF Next, vars, StartInit, InitRoles, InitAdmin, EndInit

(* What a thread is about to write is what its request asks for, applied   *)
(* to what it has read: in every reachable state.                          *)
THEOREM WorkInvariance == Spec => []WorkInv
<1>1. Inv /\ WorkInv /\ [Next]_vars => WorkInv'
  BY NextKeepsWorkInv
<1> QED
  BY <1>1, InitWorkInv, DirectoryInvariance, PTL DEF Spec
-----------------------------------------------------------------------------
(* The commits of the requests.                                            *)

(* A row that is in its column is the row of the one user with its email.  *)
LEMMA PresentRows ==
    ASSUME Inv, NEW u \in Users, users[u] \in UserRow
    PROVE  u \in Rows(users) /\ HasEmail(users, users[u].email) = {u}
<1>1. u \in Rows(users)
  BY NeverAbsent DEF Inv, TypeOK, UserTable, Rows
<1> QED
  BY <1>1 DEF Inv, UniqueEmails, HasEmail

(* Roles that have the names are the roles that have the names: a name has *)
(* one role.                                                               *)
LEMMA FoundRolesAreNamed ==
    ASSUME Inv, NEW on \in SUBSET Rows(roles), NEW names, {roles[k] : k \in on} = names
    PROVE  Atomic!Named(names) = on /\ Atomic!Known(names)
<1>1. \A k \in Rows(roles), l \in on : roles[k] = roles[l] => k \in on
  BY DEF Inv, UniqueRoleNames
<1>2. Atomic!Named(names) = on
  BY <1>1 DEF Atomic!Named, Atomic!Rows, Rows
<1>3. Atomic!Known(names)
  BY DEF Atomic!Known, Atomic!HasName, Atomic!Rows, Rows
<1> QED
  BY <1>2, <1>3

LEMMA FreshAddIsAtomic ==
    ASSUME Inv, NEW r \in Requests, req[r] \in Request, SaveNew(r), ~Stale(r)
    PROVE  Asked(req[r])
<1> DEFINE q == req[r]
           on == work[r].on
           given == EmailsOf(q)
<1>1. /\ q.kind \in AddKinds
      /\ \A e \in given : HasEmail(users, e) = {}
      /\ on \in SUBSET Rows(roles)
      /\ roles' = roles
  BY DEF SaveNew, InsertAccepted, Inserted, UniqueEmail
<1>0. q.names # {}
  BY <1>1, RequestFields
<1>2. {roles[k] : k \in on} = q.names
  BY <1>1 DEF Stale, AddKinds, ChangeKinds
<1>3. Atomic!Named(q.names) = on /\ Atomic!Known(q.names)
  BY <1>1, <1>2, FoundRolesAreNamed
<1>4. \A e \in given : Atomic!HasEmail(users, e) = {}
  BY <1>1 DEF Atomic!HasEmail, HasEmail, Atomic!Rows, Rows
<1>5. PICK id \in [given -> Users] :
          /\ \A e, f \in given : id[e] = id[f] => e = f
          /\ \A u \in {id[e] : e \in given} : users[u] = Unused
          /\ users' = [u \in Users |->
                IF u \in {id[e] : e \in given}
                THEN [email |-> CHOOSE e \in given : id[e] = u, active |-> q.active]
                ELSE users[u]]
          /\ assigned' = [u \in Users |-> IF u \in {id[e] : e \in given} THEN on ELSE assigned[u]]
  BY DEF SaveNew, Inserted
<1> HIDE DEF given, on
<1>6. Atomic!Add(given, q.active, q.names)
  BY <1>0, <1>1, <1>3, <1>4, <1>5 DEF Atomic!Add
<1> QED
  BY <1>1, <1>6 DEF Asked, given

LEMMA FreshChangeIsAtomic ==
    ASSUME Inv, NEW r \in Requests, req[r] \in Request, pc[r] = "commit", PlansItsRequest(r),
           req[r].kind \in ChangeKinds, SaveChanged(r), ~Stale(r)
    PROVE  Asked(req[r])
<1> DEFINE q == req[r]
           u == q.user
           w == work[r]
           row == Columns(q, users[u])
<1>1. /\ users \in UserTable /\ roles \in RoleTable /\ assigned \in [Users -> SUBSET Roles]
      /\ u \in Users
  BY RequestFields DEF Inv, TypeOK
<1>2. copy[r].row = users[u] /\ users[u] \in UserRow
  BY DEF Stale, Inv, CopiesWereRows, AddKinds, ChangeKinds
<1>3. u \in Rows(users) /\ HasEmail(users, users[u].email) = {u} /\ row \in UserRow
  BY <1>1, <1>2, PresentRows, ColumnsAreRow
<1>4. w.row = row \/ (w.row = NoCopy /\ row = users[u])
  BY <1>2 DEF PlansItsRequest, WritesItsColumns
<1>5. users' = [users EXCEPT ![u] = row] /\ HasEmail(users, row.email) \subseteq {u}
  <2>1. CASE w.row = NoCopy
    <3>1. row = users[u] /\ users' = users
      BY <1>3, <1>4, <2>1, NullAssumption DEF SaveChanged
    <3> QED
      BY <1>1, <1>3, <3>1 DEF UserTable
  <2>2. CASE w.row # NoCopy
    BY <1>4, <2>2 DEF SaveChanged, ChangeAccepted, UniqueEmail
  <2> QED
    BY <2>1, <2>2
<1>6. roles' = roles
  BY <1>1 DEF SaveChanged, Renamed, Inv, RenamesItsCopies, ChangeKinds, RoleTable
<1>7. /\ Atomic!Known(q.names)
      /\ assigned' = [assigned EXCEPT ![u] = IF q.names = {} THEN @ ELSE Atomic!Named(q.names)]
  <2>1. assigned' = [assigned EXCEPT ![u] = (@ \ w.off) \cup w.on] /\ w.on \in SUBSET Rows(roles)
    BY DEF SaveChanged, ChangeAccepted
  <2>2. CASE q.names = {}
    <3>1. w.off = {} /\ w.on = {}
      BY <2>2 DEF PlansItsRequest, LeavesUnnamedRoles
    <3>2. (assigned[u] \ w.off) \cup w.on = assigned[u]
      BY <3>1
    <3> QED
      BY <2>1, <2>2, <3>2 DEF Atomic!Known
  <2>3. CASE q.names # {}
    <3>1. w.off = assigned[u] /\ {roles[k] : k \in w.on} = q.names
      BY <2>3 DEF Stale, AddKinds, ChangeKinds
    <3>2. Atomic!Named(q.names) = w.on /\ Atomic!Known(q.names)
      BY <2>1, <3>1, FoundRolesAreNamed
    <3>3. (assigned[u] \ w.off) \cup w.on = w.on
      BY <3>1
    <3> QED
      BY <2>1, <2>3, <3>2, <3>3
  <2> QED
    BY <2>2, <2>3
<1>8. /\ row.email = IF q.email # Null THEN q.email ELSE users[u].email
      /\ row.active = IF q.active # Null THEN q.active ELSE users[u].active
  BY DEF Columns
<1> HIDE DEF row
<1>9. Atomic!Change(u, row, q.names)
  BY <1>3, <1>5, <1>6, <1>7
     DEF Atomic!Change, Atomic!HasEmail, HasEmail, Atomic!Rows, Rows
<1> QED
  BY <1>3, <1>8, <1>9 DEF Asked

LEMMA DeleteIsAtomic ==
    ASSUME NEW r \in Requests, SaveDeleted(r)
    PROVE  Asked(req[r])
BY DEF SaveDeleted, Asked, Atomic!Remove, Atomic!Rows, Rows

LEMMA RoleChangeIsAtomic ==
    ASSUME Inv, NEW r \in Requests, SaveRole(r)
    PROVE  Asked(req[r]) \/ UNCHANGED tables
<1> DEFINE q == req[r]
<1>1. users' = users /\ assigned' = assigned
  BY DEF SaveRole
<1>2. CASE q.kind = "ADD_ROLE"
  BY <1>1, <1>2
     DEF SaveRole, UniqueName, Asked, Atomic!AddRole, Atomic!HasName, HasName, Atomic!Rows, Rows
<1>3. CASE q.kind = "RENAME_ROLE"
  <2>1. CASE roles' = roles
    BY <1>1, <2>1 DEF tables
  <2>2. CASE roles' # roles
    BY <1>1, <1>3, <2>2
       DEF SaveRole, UniqueName, Asked, Atomic!RenameRole, Atomic!HasName, HasName,
           Atomic!Rows, Rows
  <2> QED
    BY <2>1, <2>2
<1>4. CASE q.kind = "DELETE_ROLE"
  BY <1>1, <1>4
     DEF SaveRole, Deletable, Unassigned, Asked, Atomic!RemoveRole, Atomic!Rows, Rows
<1> QED
  BY <1>2, <1>3, <1>4 DEF SaveRole

(* A commit of what is still so does what the request asks for, at once.   *)
LEMMA FreshSaveIsAtomic ==
    ASSUME Inv, NEW r \in Requests, PlansItsRequest(r), Save(r), ~Stale(r)
    PROVE  Asked(req[r]) \/ UNCHANGED tables
<1>1. pc[r] = "commit" /\ req[r] \in Request
  BY DEF Save, Inv, StepsServe
<1>2. CASE SaveNew(r)
  BY <1>1, <1>2, FreshAddIsAtomic
<1>3. CASE SaveChanged(r) /\ req[r].kind \in ChangeKinds
  BY <1>1, <1>3, FreshChangeIsAtomic
<1>4. CASE SaveChanged(r) /\ req[r].kind = "PASSWORD"
  BY <1>1, <1>4, FreshMergesWriteNothing DEF PlansItsRequest
<1>5. CASE SaveDeleted(r)
  BY <1>5, DeleteIsAtomic
<1>6. CASE SaveRole(r)
  BY <1>6, RoleChangeIsAtomic
<1> QED
  BY <1>2, <1>3, <1>4, <1>5, <1>6 DEF Save, SaveChanged
-----------------------------------------------------------------------------
(* The start.  Of the two roles, each has a row after it: a new one, or    *)
(* the one it had.                                                         *)
LEMMA StartFindsOrAdds ==
    ASSUME Inv, NEW name \in Names, NEW new \in SUBSET Names, NEW id \in [new -> Roles],
           \A n \in new : roles[id[n]] = Unused, name \in new <=> HasName(roles, name) = {}
    PROVE  \E k \in Roles : /\ name \in new => k = id[name]
                            /\ name \notin new => roles[k] = name
                            /\ IF HasName(roles, name) = {}
                               THEN roles[k] = Unused ELSE HasName(roles, name) = {k}
<1>1. CASE name \in new
  BY <1>1
<1>2. CASE name \notin new
  <2>1. PICK k \in Rows(roles) : roles[k] = name
    BY <1>2 DEF HasName
  <2>2. k \in Roles /\ HasName(roles, name) = {k}
    BY <2>1 DEF HasName, Rows, Inv, TypeOK, RoleTable, UniqueRoleNames
  <2> QED
    BY <1>2, <2>1, <2>2
<1> QED
  BY <1>1, <1>2

LEMMA FreshStartIsAtomic ==
    ASSUME Inv, AdminHasRole, EndInit, ~StaleInit
    PROVE  Atomic!Start
<1> DEFINE newRole(k, name) == IF HasName(roles, name) = {}
                               THEN roles[k] = Unused ELSE HasName(roles, name) = {k}
           admin == [email |-> AdminEmail, active |-> TRUE]
<1>1. /\ roles \in RoleTable /\ \A u \in Rows(users) : u \in Users
      /\ boot.new \in SUBSET Names
  BY DEF Inv, TypeOK, Rows, UserTable
<1>2. /\ boot.new = {name \in {UserRole, AdminRole} : HasName(roles, name) = {}}
      /\ boot.step = "saveAdmin" <=> HasEmail(users, AdminEmail) = {}
      /\ \A k \in boot.admin : roles[k] = AdminRole
  BY DEF StaleInit
<1>3. PICK id \in [boot.new -> Roles] :
          /\ \A n \in boot.new : roles[id[n]] = Unused
          /\ \A m, n \in boot.new : id[m] = id[n] => m = n
          /\ roles' = [k \in Roles |-> IF \E n \in boot.new : id[n] = k
                                       THEN CHOOSE n \in boot.new : id[n] = k ELSE roles[k]]
  BY DEF EndInit
<1>4. /\ UserRole \in Names /\ AdminRole \in Names /\ UserRole # AdminRole
      /\ \A n \in Names : n \notin {Unused, Deleted}
  BY NameAssumption, NeverAbsent
<1>5. PICK k \in Roles : /\ UserRole \in boot.new => k = id[UserRole]
                         /\ UserRole \notin boot.new => roles[k] = UserRole
                         /\ newRole(k, UserRole)
  BY <1>1, <1>2, <1>3, <1>4, StartFindsOrAdds
<1>6. PICK l \in Roles : /\ AdminRole \in boot.new => l = id[AdminRole]
                         /\ AdminRole \notin boot.new => roles[l] = AdminRole
                         /\ newRole(l, AdminRole)
  BY <1>1, <1>2, <1>3, <1>4, StartFindsOrAdds
<1>7. \A n \in boot.new : roles'[id[n]] = n
  BY <1>3
<1>8. \A x \in Roles : (\A n \in boot.new : id[n] # x) => roles'[x] = roles[x]
  BY <1>3
<1>9. roles'[k] = UserRole /\ roles'[l] = AdminRole
  <2>1. UserRole \notin boot.new => \A n \in boot.new : id[n] # k
    BY <1>3, <1>4, <1>5
  <2>2. AdminRole \notin boot.new => \A n \in boot.new : id[n] # l
    BY <1>3, <1>4, <1>6
  <2> QED
    BY <1>5, <1>6, <1>7, <1>8, <2>1, <2>2
<1>10. k # l
  BY <1>4, <1>9
<1>11. \A x \in Roles \ {k, l} : roles'[x] = roles[x]
  BY <1>2, <1>5, <1>6, <1>8
<1>12. roles' = [roles EXCEPT ![k] = UserRole, ![l] = AdminRole]
  <2>1. roles' \in [Roles -> Names \cup {Unused, Deleted}]
    <3>1. \A x \in Roles : roles'[x] \in Names \cup {Unused, Deleted}
      BY <1>1, <1>4, <1>9, <1>11 DEF RoleTable
    <3> QED
      BY <1>3, <3>1
  <2> QED
    BY <1>1, <1>9, <1>10, <1>11, <2>1 DEF RoleTable
<1>13. /\ Atomic!HasName(roles, UserRole) = HasName(roles, UserRole)
       /\ Atomic!HasName(roles, AdminRole) = HasName(roles, AdminRole)
       /\ Atomic!HasEmail(users, AdminEmail) = HasEmail(users, AdminEmail)
  BY DEF Atomic!HasName, HasName, Atomic!HasEmail, HasEmail, Atomic!Rows, Rows
<1>14. CASE boot.step = "saveRoles"
  <2>1. PICK u \in Users : u \in HasEmail(users, AdminEmail)
    BY <1>1, <1>2, <1>14 DEF HasEmail
  <2>2. UNCHANGED <<users, assigned>>
    BY <1>14 DEF EndInit
  <2> QED
    BY <1>5, <1>6, <1>10, <1>12, <1>13, <2>1, <2>2 DEF Atomic!Start
<1>15. CASE boot.step = "saveAdmin"
  <2>1. PICK u \in Users : /\ users[u] = Unused
                           /\ users' = [users EXCEPT ![u] = admin]
                           /\ assigned' = [assigned EXCEPT ![u] = RolesOfAdmin]
    BY <1>15 DEF EndInit
  <2>2. RolesOfAdmin = {l}
    <3>1. CASE AdminRole \in boot.new
      <4>1. DOMAIN roles' = Roles
        BY <1>3
      <4>2. \A x \in Roles : roles'[x] = AdminRole => x = l
        <5>1. \A x \in Roles : roles[x] # AdminRole
          BY <1>1, <1>2, <1>4, <3>1 DEF HasName, Rows, RoleTable
        <5> QED
          BY <1>4, <1>9, <1>11, <5>1
      <4> QED
        BY <1>4, <1>9, <3>1, <4>1, <4>2 DEF RolesOfAdmin, HasName, Rows
    <3>2. CASE AdminRole \notin boot.new
      <4>1. HasName(roles, AdminRole) = {l}
        BY <1>2, <1>6, <3>2
      <4>2. boot.admin # {} /\ boot.admin \subseteq Rows(roles)
        BY <1>15, <3>2 DEF AdminHasRole, EndInit
      <4> QED
        BY <1>2, <3>2, <4>1, <4>2 DEF RolesOfAdmin, HasName
    <3> QED
      BY <3>1, <3>2
  <2> QED
    BY <1>2, <1>5, <1>6, <1>10, <1>12, <1>13, <1>15, <2>1, <2>2 DEF Atomic!Start
<1> QED
  BY <1>14, <1>15 DEF EndInit

(* Only the commits change the tables.                                     *)
LEMMA TablesChange ==
    ASSUME [Next]_vars
    PROVE  \/ UNCHANGED tables
           \/ \E r \in Requests : Save(r)
           \/ EndInit
<1>1. ASSUME NEW r \in Requests, Receive(r) \/ (Handle(r) /\ ~Save(r)) PROVE UNCHANGED tables
  BY <1>1 DEF Receive, Handle, Find, CheckEmail, FindRoles, CheckName, CheckUnused, Merge, Flush,
              Refused, Fail
<1> QED
  BY <1>1 DEF Next, vars, tables, StartInit, InitRoles, InitAdmin, Crash

LEMMA NextIsAtomicOrStale ==
    ASSUME Inv, WorkInv, [Next]_vars
    PROVE  [\/ \E r \in Requests : pc[r] = "commit" /\ (Asked(req[r]) \/ (Stale(r) /\ Save(r)))
            \/ Atomic!Start \/ (StaleInit /\ EndInit)]_tables
<1>1. ASSUME NEW r \in Requests, Save(r)
      PROVE  Asked(req[r]) \/ UNCHANGED tables \/ Stale(r)
  BY <1>1, FreshSaveIsAtomic DEF WorkInv
<1>2. ASSUME NEW r \in Requests, Save(r) PROVE pc[r] = "commit"
  BY <1>2 DEF Save
<1>3. CASE EndInit
  BY <1>3, FreshStartIsAtomic DEF WorkInv
<1> QED
  BY <1>1, <1>2, <1>3, TablesChange

(* Whatever the interleaving, the tables change by what a request, or the  *)
(* start, promises, or by a commit of what is no longer so: no partial     *)
(* bulk, no column or role that was not asked for, no half of a start.     *)
THEOREM DirectoryAtomicity == Spec => FreshChangesAreAtomic
<1>1. Inv /\ WorkInv /\ [Next]_vars =>
         [\/ \E r \in Requests : pc[r] = "commit" /\ (Asked(req[r]) \/ (Stale(r) /\ Save(r)))
          \/ Atomic!Start \/ (StaleInit /\ EndInit)]_tables
  BY NextIsAtomicOrStale
<1> QED
  BY <1>1, DirectoryInvariance, WorkInvariance, PTL DEF Spec, FreshChangesAreAtomic
-----------------------------------------------------------------------------
(* One thread.  What it has read stays so until its own commit.            *)
LEMMA ReadsOfOneAreSo ==
    ASSUME Inv, WorkInv, NEW r \in Requests, ReadsAreSo(r), Receive(r) \/ Handle(r)
    PROVE  ReadsAreSo(r)'
<1>1. /\ pc \in [Requests -> Steps] /\ req \in [Requests -> Request \cup {NoRequest}]
      /\ copy = [s \in Requests |-> copy[s]] /\ work \in [Requests -> Work]
      /\ StepsServe(r) /\ StartsAfresh(r)
  BY DEF Inv, TypeOK, WorkInv, PlansItsRequest
<1>2. CASE EndRequest(r)
  <2>1. pc'[r] = "idle"
    BY <1>1, <1>2 DEF EndRequest, Goto
  <2> QED
    BY <2>1 DEF ReadsAreSo
<1>3. CASE Receive(r)
  <2>1. PICK q \in Request :
            /\ pc[r] = "idle"
            /\ req' = [req EXCEPT ![r] = q]
            /\ copy' = [copy EXCEPT ![r] = IF q.kind = "PASSWORD" THEN Read(q.user) ELSE NoCopy]
            /\ work' = [work EXCEPT ![r].left =
                  IF q.kind \in AddKinds \cup ChangeKinds THEN q.names ELSE {}]
            /\ pc' = [pc EXCEPT ![r] = FirstStep(q.kind)]
            /\ UNCHANGED tables
    BY <1>3 DEF Receive, Goto
  <2>2. /\ pc'[r] = FirstStep(q.kind) /\ req'[r] = q
        /\ q.kind = "PASSWORD" => copy'[r] = Read(q.user)
        /\ work'[r] = [NoWork EXCEPT !.left =
              IF q.kind \in AddKinds \cup ChangeKinds THEN q.names ELSE {}]
    BY <1>1, <2>1 DEF StartsAfresh
  <2>3. pc'[r] \notin {"idle", "flush", "commit"} /\ (q.kind \in ChangeKinds => pc'[r] = "find")
    BY <2>2 DEF FirstStep, AddKinds, ChangeKinds
  <2>4. q.kind \in AddKinds \cup ChangeKinds => work'[r].on = {} /\ work'[r].left = q.names
    BY <2>2 DEF NoWork
  <2>5. q.kind = "PASSWORD" => copy'[r] = Read(q.user)'
    BY <2>1, <2>2 DEF Read, tables
  <2>6. q.kind = "PASSWORD" => q.kind \notin ChangeKinds
    BY DEF ChangeKinds
  <2> QED
    BY <2>2, <2>3, <2>4, <2>5, <2>6 DEF ReadsAreSo
<1>4. CASE Find(r) /\ ~EndRequest(r)
  <2>1. req[r].kind \in ChangeKinds \cup {"DELETE", "RENAME_ROLE", "DELETE_ROLE"}
    BY <1>1, <1>4 DEF Find, StepsServe
  <2>2. /\ pc[r] = "find" /\ UNCHANGED <<tables, req, work>>
        /\ copy' = [copy EXCEPT ![r] = IF req[r].kind \in ChangeKinds \cup {"DELETE"}
                                       THEN ReadRow(req[r].user) ELSE ReadRole(req[r].role)]
        /\ \E step \in Steps : Goto(r, step) /\ (req[r].kind \in ChangeKinds => step = "email")
    BY <1>4, <2>1 DEF Find, Fail, ChangeKinds, Steps
  <2>3. /\ req[r].kind \in ChangeKinds => copy'[r].row = users'[req[r].user] /\ pc'[r] = "email"
        /\ req'[r] = req[r] /\ work'[r] = work[r]
    BY <1>1, <2>2 DEF ReadRow, Goto, tables
  <2>4. req[r].kind \notin AddKinds \cup {"PASSWORD"}
    BY <2>1 DEF AddKinds, ChangeKinds
  <2> QED
    BY <2>2, <2>3, <2>4 DEF ReadsAreSo, ReplacesRoles, tables
<1>5. CASE (CheckEmail(r) \/ CheckName(r) \/ CheckUnused(r)) /\ ~EndRequest(r)
  <2>1. /\ pc[r] \in {"email", "name", "unused"} /\ UNCHANGED <<tables, req, copy, work>>
        /\ Goto(r, IF pc[r] = "email" THEN "roles" ELSE "flush")
    BY <1>5 DEF CheckEmail, CheckName, CheckUnused, Fail
  <2>2. pc[r] # "email" => req[r].kind \notin AddKinds \cup ChangeKinds
    BY <1>1, <2>1 DEF StepsServe, AddKinds, ChangeKinds
  <2>3. pc'[r] = IF pc[r] = "email" THEN "roles" ELSE "flush"
    BY <1>1, <2>1 DEF Goto
  <2> QED
    BY <2>1, <2>2, <2>3 DEF ReadsAreSo, Read, tables
<1>6. CASE FindRoles(r) /\ ~EndRequest(r)
  <2>1. pc[r] = "roles" /\ UNCHANGED <<tables, req, copy>>
        /\ req[r].kind \in AddKinds \cup ChangeKinds
    BY <1>1, <1>6 DEF FindRoles, Fail, StepsServe
  <2>2. CASE work[r].left = {}
    <3>1. pc'[r] = "flush" /\ work' = work
      BY <1>1, <1>6, <2>2 DEF FindRoles, Fail, Goto
    <3> QED
      BY <2>1, <2>2, <3>1 DEF ReadsAreSo, Read, tables
  <2>3. CASE work[r].left # {}
    <3>1. PICK name \in work[r].left : \E k \in HasName(roles, name) :
             /\ work' = [work EXCEPT ![r].left = @ \ {name}, ![r].on = @ \cup {k}]
             /\ pc' = pc
      BY <1>6, <2>3 DEF FindRoles, Fail
    <3>2. PICK k \in HasName(roles, name) :
             /\ work' = [work EXCEPT ![r].left = @ \ {name}, ![r].on = @ \cup {k}]
             /\ pc' = pc
      BY <3>1
    <3>3. work'[r] = [work[r] EXCEPT !.left = @ \ {name}, !.on = @ \cup {k}]
      BY <1>1, <3>2
    <3>4. work'[r].left = work[r].left \ {name} /\ work'[r].on = work[r].on \cup {k}
      BY <1>1, <3>3 DEF Work
    <3>5. roles[k] = name
      BY DEF HasName
    <3>6. /\ work[r].left \subseteq req[r].names
          /\ {roles[x] : x \in work[r].on} = req[r].names \ work[r].left
      BY <2>1 DEF ReadsAreSo
    <3>7. /\ work'[r].left \subseteq req[r].names
          /\ {roles[x] : x \in work'[r].on} = req[r].names \ work'[r].left
      BY <3>4, <3>5, <3>6
    <3> QED
      BY <2>1, <3>2, <3>7 DEF ReadsAreSo, Read, tables
  <2> QED
    BY <2>2, <2>3
<1>7. CASE Merge(r) /\ ~EndRequest(r)
  <2>1. pc[r] = "merge" /\ pc'[r] = "flush" /\ UNCHANGED <<tables, req, copy>>
    BY <1>1, <1>7 DEF Merge, Fail, Goto
  <2>2. req[r].kind = "PASSWORD" /\ req[r].kind \notin AddKinds \cup ChangeKinds
    BY <1>1, <2>1 DEF StepsServe, AddKinds, ChangeKinds
  <2> QED
    BY <2>1, <2>2 DEF ReadsAreSo, Read, tables
<1>8. CASE Flush(r) /\ ~EndRequest(r)
  <2> DEFINE q == req[r]
             off == IF ReplacesRoles(q) \/ q.kind = "DELETE" THEN assigned[q.user]
                    ELSE work[r].off
  <2>1. PICK row : work' = [work EXCEPT ![r].row = row, ![r].off = off]
    BY <1>8 DEF Flush, Replaced, Fail
  <2>2. pc[r] = "flush" /\ pc'[r] = "commit" /\ UNCHANGED <<tables, req, copy>>
    BY <1>1, <1>8 DEF Flush, Fail, Goto
  <2>3. work'[r] = [work[r] EXCEPT !.row = row, !.off = off]
    BY <1>1, <2>1
  <2>4. work'[r].off = off /\ work'[r].on = work[r].on /\ work'[r].left = work[r].left
    BY <1>1, <2>3 DEF Work
  <2>5. ReplacesRoles(q) => off = assigned[q.user]
    OBVIOUS
  <2> HIDE DEF off
  <2> QED
    BY <2>2, <2>4, <2>5 DEF ReadsAreSo, Read, tables
<1>9. Save(r) \/ Refused(r) => EndRequest(r)
  BY DEF Save, Refused, Fail
<1> QED
  BY <1>2, <1>3, <1>4, <1>5, <1>6, <1>7, <1>8, <1>9 DEF Handle

LEMMA ReadsAreFresh ==
    ASSUME NEW r \in Requests, ReadsAreSo(r), pc[r] = "commit"
    PROVE  ~Stale(r)
<1> DEFINE q == req[r]
<1>1. CASE q.kind \in AddKinds
  BY <1>1 DEF ReadsAreSo, Stale, AddKinds, ChangeKinds
<1>2. CASE q.kind \in ChangeKinds
  BY <1>2 DEF ReadsAreSo, Stale, ReplacesRoles, AddKinds, ChangeKinds
<1>3. CASE q.kind \notin AddKinds \cup ChangeKinds
  BY <1>3 DEF ReadsAreSo, Stale, AddKinds, ChangeKinds
<1> QED
  BY <1>1, <1>2, <1>3

(* What a request asks for is an operation of the abstract directory.      *)
LEMMA AskedIsOperation ==
    ASSUME Inv, NEW r \in Requests, Save(r), Asked(req[r])
    PROVE  Atomic!Next
<1> DEFINE q == req[r]
<1>1. q \in Request
  BY DEF Save, Inv, StepsServe
<1>2. CASE q.kind \in AddKinds
  <2>1. EmailsOf(q) \in SUBSET Emails /\ q.names \in SUBSET Names /\ q.active \in BOOLEAN \cup {Null}
    BY <1>1, <1>2, RequestFields
  <2>2. q.active # Null
    BY <1>2 DEF Save, SaveNew, SaveChanged, SaveDeleted, SaveRole, InsertAccepted, AddKinds,
                ChangeKinds
  <2>3. Atomic!Add(EmailsOf(q), q.active, q.names)
    BY <1>2 DEF Asked, AddKinds, ChangeKinds
  <2> QED
    BY <2>1, <2>2, <2>3 DEF Atomic!Next
<1>3. CASE q.kind \in ChangeKinds
  <2>1. q.user \in Users /\ q.names \in SUBSET Names
    BY <1>1, <1>3, RequestFields
  <2>2. \E row \in UserRow : Atomic!Change(q.user, row, q.names)
    BY <1>3 DEF Asked, AddKinds, ChangeKinds
  <2> QED
    BY <2>1, <2>2 DEF Atomic!Next, Atomic!UserRow, UserRow
<1>4. CASE q.kind \notin AddKinds \cup ChangeKinds
  BY <1>1, <1>4, RequestFields DEF Asked, Atomic!Next
<1> QED
  BY <1>2, <1>3, <1>4

LEMMA NextKeepsSerialInv ==
    ASSUME NEW t, Requests = {t}, ~Restarts, Inv, WorkInv, SerialInv, [Next]_vars
    PROVE  SerialInv' /\ [Atomic!Next]_(Atomic!vars)
<1>1. boot.step = "up" /\ ReadsAreSo(t)
  BY DEF SerialInv
<1>2. CASE UNCHANGED vars
  BY <1>1, <1>2 DEF vars, SerialInv, ReadsAreSo, Read, Atomic!vars
<1>3. CASE Receive(t) \/ Handle(t)
  <2>1. ReadsAreSo(t)'
    BY <1>1, <1>3, ReadsOfOneAreSo
  <2>2. UNCHANGED boot
    BY <1>3 DEF Receive, Handle, Find, CheckEmail, FindRoles, CheckName, CheckUnused, Merge,
                Flush, Save, Refused, Fail, EndRequest
  <2>3. ASSUME Save(t) PROVE Atomic!Next \/ UNCHANGED tables
    <3>1. ~Stale(t)
      BY <1>1, <2>3, ReadsAreFresh DEF Save
    <3> QED
      BY <2>3, <3>1, FreshSaveIsAtomic, AskedIsOperation DEF WorkInv
  <2>4. ~EndInit
    BY <1>1, <2>2 DEF EndInit
  <2> QED
    BY <1>1, <2>1, <2>2, <2>3, <2>4, TablesChange DEF SerialInv, Atomic!vars, tables
<1>4. ~(StartInit \/ InitRoles \/ InitAdmin \/ EndInit \/ Crash)
  BY <1>1 DEF StartInit, InitRoles, InitAdmin, EndInit, Crash
<1> QED
  BY <1>2, <1>3, <1>4 DEF Next

(* With one thread, and the application up, the directory does what it     *)
(* promises: every behaviour of its tables is one of AtomicDirectory.  So  *)
(* all that goes wrong in it takes two requests that overlap, or a start.  *)
THEOREM SerialDirectory ==
    ASSUME NEW t, Requests = {t}, Opening.step = "up", ~Restarts
    PROVE  Spec => ImplementsAtomicDirectory
<1>1. Init => Atomic!Init /\ SerialInv
  BY DEF Init, Atomic!Init, SerialInv, ReadsAreSo
<1>2. Inv /\ WorkInv /\ SerialInv /\ [Next]_vars => SerialInv' /\ [Atomic!Next]_(Atomic!vars)
  BY NextKeepsSerialInv
<1> QED
  BY <1>1, <1>2, DirectoryInvariance, WorkInvariance, PTL
     DEF Spec, ImplementsAtomicDirectory, Atomic!Spec
-----------------------------------------------------------------------------
(* Many threads, when no request changes users or renames roles.           *)
Changes == ChangeKinds \cup {"PASSWORD", "RENAME_ROLE"}

(* Roles keep their names until they are deleted. *)
RolesLast == \A k \in Roles : roles[k] # Unused => roles'[k] \in {roles[k], Deleted}

(* And when nobody deletes, every row of the tables lasts. *)
RowsLast == /\ \A k \in Rows(roles) : k \in Rows(roles)' /\ roles'[k] = roles[k]
            /\ \A u \in Rows(users) : u \in Rows(users)' /\ users'[u] = users[u]

LEMMA SavesLast ==
    ASSUME Inv, NEW r \in Requests, Save(r), FindsLast(r), Kinds \cap Changes = {}
    PROVE  RolesLast /\ (Kinds \cap Deletes = {} => RowsLast)
<1> DEFINE q == req[r]
<1>1. /\ users \in UserTable /\ roles \in RoleTable /\ q \in Request
      /\ q.kind \in Kinds /\ q.kind \notin Changes
  BY DEF Save, Inv, TypeOK, StepsServe, FindsLast
<1>2. CASE SaveNew(r)
  <2>1. PICK id \in [Inserted(q) -> Users] :
           /\ \A u \in {id[e] : e \in Inserted(q)} : users[u] = Unused
           /\ users' = [u \in Users |->
                 IF u \in {id[e] : e \in Inserted(q)}
                 THEN [email |-> CHOOSE e \in Inserted(q) : id[e] = u, active |-> q.active]
                 ELSE users[u]]
    BY <1>2 DEF SaveNew
  <2> DEFINE new == {id[e] : e \in Inserted(q)}
  <2>2. \A u \in Users \ new : users'[u] = users[u]
    BY <2>1
  <2>3. \A u \in new : u \notin Rows(users)
    BY <2>1 DEF Rows
  <2>4. DOMAIN users' = Users
    BY <2>1
  <2> HIDE DEF new
  <2>5. \A u \in Rows(users) : u \in Rows(users)' /\ users'[u] = users[u]
    BY <1>1, <2>2, <2>3, <2>4 DEF Rows, UserTable
  <2> QED
    BY <1>2, <2>5 DEF SaveNew, RolesLast, RowsLast, Rows
<1>3. ~SaveChanged(r)
  BY <1>1 DEF SaveChanged, Changes
<1>4. CASE SaveDeleted(r)
  BY <1>1, <1>4 DEF SaveDeleted, RolesLast, Deletes
<1>5. CASE SaveRole(r) /\ q.kind = "ADD_ROLE"
  <2>1. PICK k \in Roles : roles[k] = Unused /\ roles' = [roles EXCEPT ![k] = q.name]
    BY <1>5 DEF SaveRole
  <2>2. q.name \notin {Unused, Deleted}
    BY <1>1, <1>5, RequestFields, NeverAbsent
  <2> QED
    BY <1>1, <1>5, <2>1, <2>2 DEF SaveRole, RolesLast, RowsLast, Rows, RoleTable
<1>6. CASE SaveRole(r) /\ q.kind = "DELETE_ROLE"
  BY <1>1, <1>6 DEF SaveRole, RolesLast, RoleTable, Deletes
<1> QED
  BY <1>1, <1>2, <1>3, <1>4, <1>5, <1>6 DEF Save, SaveRole, Changes

LEMMA StartsLast ==
    ASSUME Inv, EndInit
    PROVE  RolesLast /\ RowsLast
<1>1. /\ users \in UserTable /\ roles \in RoleTable
  BY DEF Inv, TypeOK
<1>2. /\ \A k \in Roles : roles[k] # Unused => roles'[k] = roles[k]
      /\ DOMAIN roles' = Roles
  BY DEF EndInit
<1>3. /\ \A u \in Users : users[u] # Unused => users'[u] = users[u]
      /\ DOMAIN users' = Users
  BY <1>1 DEF EndInit, UserTable
<1> QED
  BY <1>1, <1>2, <1>3 DEF RolesLast, RowsLast, Rows, UserTable, RoleTable

(* A role with the name a thread asked for keeps it, or fails the thread.  *)
LEMMA FoundRolesLast ==
    ASSUME Inv, RolesLast, NEW s \in Requests, FindsLast(s),
           pc'[s] = pc[s], req'[s] = req[s], work'[s] = work[s]
    PROVE  FindsLast(s)'
<1>1. work[s].on \subseteq Roles /\ DOMAIN roles = Roles
  BY DEF Inv, TypeOK, Work, RoleTable
<1>2. CASE pc[s] # "idle" /\ req[s].kind \in AddKinds
  <2> DEFINE on == work[s].on
  <2>1. /\ \A k \in on : roles[k] # Unused
        /\ on \subseteq Rows(roles) => {roles[k] : k \in on} = req[s].names \ work[s].left
    BY <1>2 DEF FindsLast
  <2>2. \A k \in on : roles'[k] # Unused
    BY <1>1, <2>1, AbsentAssumption DEF RolesLast
  <2>3. ASSUME on \subseteq Rows(roles)'
        PROVE  {roles'[k] : k \in on} = req[s].names \ work[s].left
    <3>1. \A k \in on : roles'[k] = roles[k]
      BY <1>1, <2>1, <2>3 DEF RolesLast, Rows
    <3>2. on \subseteq Rows(roles)
      BY <1>1, <2>3, <3>1 DEF Rows
    <3> QED
      BY <2>1, <3>1, <3>2
  <2> QED
    BY <1>2, <2>2, <2>3 DEF FindsLast
<1>3. CASE ~(pc[s] # "idle" /\ req[s].kind \in AddKinds)
  BY <1>3 DEF FindsLast
<1> QED
  BY <1>2, <1>3

LEMMA StepsFindLasting ==
    ASSUME Inv, WorkInv, NEW r \in Requests, FindsLast(r), Receive(r) \/ Handle(r)
    PROVE  FindsLast(r)'
<1>1. /\ pc \in [Requests -> Steps] /\ req \in [Requests -> Request \cup {NoRequest}]
      /\ work \in [Requests -> Work] /\ StepsServe(r) /\ StartsAfresh(r)
  BY DEF Inv, TypeOK, WorkInv, PlansItsRequest
<1>2. CASE EndRequest(r)
  <2>1. pc'[r] = "idle"
    BY <1>1, <1>2 DEF EndRequest, Goto
  <2> QED
    BY <2>1 DEF FindsLast
<1>3. CASE Receive(r)
  <2>1. PICK q \in Request :
            /\ q.kind \in Kinds /\ pc[r] = "idle"
            /\ req' = [req EXCEPT ![r] = q]
            /\ work' = [work EXCEPT ![r].left =
                  IF q.kind \in AddKinds \cup ChangeKinds THEN q.names ELSE {}]
            /\ pc' = [pc EXCEPT ![r] = FirstStep(q.kind)]
    BY <1>3 DEF Receive, Goto
  <2>2. /\ pc'[r] = FirstStep(q.kind) /\ req'[r] = q
        /\ work'[r] = [NoWork EXCEPT !.left =
              IF q.kind \in AddKinds \cup ChangeKinds THEN q.names ELSE {}]
    BY <1>1, <2>1 DEF StartsAfresh
  <2>3. pc'[r] \notin {"flush", "commit"}
    BY <2>2 DEF FirstStep
  <2>4. q.kind \in AddKinds => work'[r].on = {} /\ work'[r].left = q.names
    BY <2>2 DEF NoWork
  <2> QED
    BY <2>1, <2>2, <2>3, <2>4 DEF FindsLast
<1>4. CASE ~EndRequest(r) /\ ~Receive(r) /\ (req[r].kind \notin AddKinds \/ pc[r] \in {"email", "flush"})
  <2>1. pc[r] # "idle" /\ req' = req
    BY <1>4 DEF Handle, Find, CheckEmail, FindRoles, CheckName, CheckUnused, Merge, Flush, Save,
                Refused, Fail
  <2>2. CASE req[r].kind \notin AddKinds
    BY <2>1, <2>2 DEF FindsLast
  <2>3. CASE pc[r] = "email"
    <3>1. pc'[r] = "roles" /\ work' = work /\ UNCHANGED tables
      BY <1>1, <1>4, <2>3 DEF Handle, Find, CheckEmail, FindRoles, CheckName, CheckUnused, Merge,
                              Flush, Save, Refused, Fail, Goto
    <3> QED
      BY <2>1, <2>3, <3>1 DEF FindsLast, tables, Rows
  <2>4. CASE pc[r] = "flush"
    <3>1. PICK row, off : work' = [work EXCEPT ![r].row = row, ![r].off = off]
      BY <1>4, <2>4 DEF Handle, Find, CheckEmail, FindRoles, CheckName, CheckUnused, Merge,
                        Flush, Save, Refused, Fail
    <3>2. pc'[r] = "commit" /\ UNCHANGED tables
      BY <1>1, <1>4, <2>4 DEF Handle, Find, CheckEmail, FindRoles, CheckName, CheckUnused, Merge,
                              Flush, Save, Refused, Fail, Goto
    <3>3. work'[r] = [work[r] EXCEPT !.row = row, !.off = off]
      BY <1>1, <3>1
    <3>4. work'[r].on = work[r].on /\ work'[r].left = work[r].left
      BY <1>1, <3>3 DEF Work
    <3> QED
      BY <2>1, <2>4, <3>2, <3>4 DEF FindsLast, tables, Rows
  <2> QED
    BY <1>4, <2>2, <2>3, <2>4
<1>5. CASE FindRoles(r) /\ ~EndRequest(r) /\ req[r].kind \in AddKinds
  <2>1. pc[r] = "roles" /\ UNCHANGED <<tables, req>>
    BY <1>5 DEF FindRoles, Fail
  <2>2. CASE work[r].left = {}
    <3>1. pc'[r] = "flush" /\ work' = work
      BY <1>1, <1>5, <2>2 DEF FindRoles, Fail, Goto
    <3> QED
      BY <2>1, <2>2, <3>1 DEF FindsLast, tables, Rows
  <2>3. CASE work[r].left # {}
    <3>1. PICK name \in work[r].left : \E k \in HasName(roles, name) :
             /\ work' = [work EXCEPT ![r].left = @ \ {name}, ![r].on = @ \cup {k}]
             /\ pc' = pc
      BY <1>5, <2>3 DEF FindRoles, Fail
    <3>2. PICK k \in HasName(roles, name) :
             /\ work' = [work EXCEPT ![r].left = @ \ {name}, ![r].on = @ \cup {k}]
             /\ pc' = pc
      BY <3>1
    <3>3. work'[r] = [work[r] EXCEPT !.left = @ \ {name}, !.on = @ \cup {k}]
      BY <1>1, <3>2
    <3>4. work'[r].left = work[r].left \ {name} /\ work'[r].on = work[r].on \cup {k}
      BY <1>1, <3>3 DEF Work
    <3>5. roles[k] = name /\ k \in Rows(roles) /\ roles[k] # Unused
      BY DEF HasName, Rows
    <3>6. /\ req[r].kind \in Kinds /\ work[r].left \subseteq req[r].names
          /\ \A x \in work[r].on : roles[x] # Unused
          /\ work[r].on \subseteq Rows(roles) =>
                {roles[x] : x \in work[r].on} = req[r].names \ work[r].left
      BY <1>5, <2>1 DEF FindsLast
    <3>7. work'[r].on \subseteq Rows(roles) =>
             {roles[x] : x \in work'[r].on} = req[r].names \ work'[r].left
      BY <3>4, <3>5, <3>6
    <3>8. /\ work'[r].left \subseteq req[r].names
          /\ \A x \in work'[r].on : roles[x] # Unused
      BY <3>4, <3>5, <3>6
    <3>9. pc'[r] = "roles" /\ req' = req /\ roles' = roles /\ Rows(roles)' = Rows(roles)
      BY <2>1, <3>2 DEF tables, Rows
    <3> QED
      BY <3>6, <3>7, <3>8, <3>9 DEF FindsLast
  <2> QED
    BY <2>2, <2>3
<1>6. CASE Find(r) \/ CheckName(r) \/ CheckUnused(r) \/ Merge(r)
  BY <1>1, <1>3, <1>4, <1>2, <1>6
     DEF Find, CheckName, CheckUnused, Merge, StepsServe, AddKinds, ChangeKinds
<1>7. /\ CheckEmail(r) => pc[r] = "email"
      /\ Flush(r) => pc[r] = "flush"
      /\ Save(r) \/ Refused(r) => EndRequest(r)
  BY DEF CheckEmail, Flush, Save, Refused, Fail
<1> QED
  BY <1>2, <1>3, <1>4, <1>5, <1>6, <1>7 DEF Handle

LEMMA StepsOfStartLast ==
    ASSUME Inv, StartFindsLast, [Next]_vars,
           Kinds \cap Deletes # {} => boot.step = "up" /\ ~Restarts,
           Kinds \cap Changes = {}, \A r \in Requests : FindsLast(r)
    PROVE  /\ StartFindsLast'
           /\ Kinds \cap Deletes # {} => boot'.step = "up"
<1>1. /\ boot \in [step: BootSteps, new: SUBSET Names, admin: SUBSET Roles]
      /\ users \in UserTable /\ roles \in RoleTable
  BY DEF Inv, TypeOK
<1>2. CASE UNCHANGED boot
  <2>1. CASE boot.step = "up"
    BY <1>2, <2>1 DEF StartFindsLast
  <2>2. CASE boot.step # "up"
    <3>1. UNCHANGED tables \/ RowsLast
      BY <2>2, TablesChange, SavesLast, StartsLast
    <3>2. /\ \A name : HasName(roles, name) # {} => HasName(roles, name)' # {}
          /\ HasEmail(users, AdminEmail) # {} => HasEmail(users, AdminEmail)' # {}
      BY <3>1 DEF RowsLast, HasName, HasEmail, tables, Rows
    <3>3. \A k \in Roles : roles[k] = AdminRole => roles'[k] = AdminRole
      BY <1>1, <3>1, NameAssumption, NeverAbsent DEF RowsLast, tables, Rows, RoleTable
    <3>4. boot.admin \subseteq Roles
      BY <1>1
    <3> QED
      BY <1>2, <2>2, <3>2, <3>3, <3>4 DEF StartFindsLast
  <2> QED
    BY <2>1, <2>2
<1>3. CASE ~UNCHANGED boot
  <2>1. \A r \in Requests : ~Receive(r) /\ ~Handle(r)
    BY <1>3 DEF Receive, Handle, Find, CheckEmail, FindRoles, CheckName, CheckUnused, Merge,
                Flush, Save, Refused, Fail, EndRequest
  <2>2. CASE StartInit \/ EndInit \/ Crash
    <3>1. boot'.step \in {"userRole", "up", "down"} /\ boot'.new = {} /\ boot'.admin = {}
      BY <2>2 DEF StartInit, EndInit, Crash
    <3>2. Kinds \cap Deletes # {} => ~StartInit /\ ~Crash
      BY DEF StartInit, Crash
    <3>3. EndInit => boot'.step = "up"
      BY DEF EndInit
    <3> QED
      BY <2>2, <3>1, <3>2, <3>3 DEF StartFindsLast
  <2>3. CASE InitRoles
    <3>1. CASE boot.step = "userRole"
      <4>1. /\ boot'.step = "adminRole" /\ boot'.admin = boot.admin /\ UNCHANGED tables
            /\ boot'.new = IF HasName(roles, UserRole) = {} THEN boot.new \cup {UserRole} ELSE boot.new
        BY <1>1, <2>3, <3>1 DEF InitRoles, RoleMissing
      <4>2. HasName(roles, UserRole)' = HasName(roles, UserRole)
        BY <4>1 DEF HasName, Rows, tables
      <4> QED
        BY <3>1, <4>1, <4>2 DEF StartFindsLast
    <3>2. CASE boot.step = "adminRole"
      <4>1. /\ boot'.step = "admin" /\ boot'.admin = boot.admin /\ UNCHANGED tables
            /\ boot'.new = IF HasName(roles, AdminRole) = {} THEN boot.new \cup {AdminRole} ELSE boot.new
        BY <1>1, <2>3, <3>2 DEF InitRoles, RoleMissing
      <4>2. \A name : HasName(roles, name)' = HasName(roles, name)
        BY <4>1 DEF HasName, Rows, tables
      <4> QED
        BY <3>2, <4>1, <4>2 DEF StartFindsLast
    <3> QED
      BY <2>3, <3>1, <3>2 DEF InitRoles, RoleMissing
  <2>4. CASE InitAdmin
    <3>1. boot.step = "admin" /\ UNCHANGED tables
      BY <2>4 DEF InitAdmin
    <3>2. /\ boot'.new = boot.new
          /\ \/ /\ boot'.step = "saveRoles" /\ HasEmail(users, AdminEmail) # {}
                /\ boot'.admin = boot.admin
             \/ boot'.step = "saveAdmin" /\ boot'.admin = HasName(roles, AdminRole)
      BY <1>1, <2>4 DEF InitAdmin
    <3>3. /\ \A name : HasName(roles, name)' = HasName(roles, name)
          /\ HasEmail(users, AdminEmail)' = HasEmail(users, AdminEmail)
          /\ \A k \in HasName(roles, AdminRole) : roles'[k] = AdminRole
      BY <3>1 DEF HasName, HasEmail, Rows, tables
    <3> QED
      BY <3>1, <3>2, <3>3 DEF StartFindsLast
  <2> QED
    BY <1>3, <2>1, <2>2, <2>3, <2>4 DEF Next, vars
<1> QED
  BY <1>2, <1>3

LEMMA LastingIsFresh ==
    ASSUME Inv, LastingInv, Kinds \cap Changes = {}
    PROVE  /\ \A r \in Requests : Save(r) => ~Stale(r)
           /\ EndInit => ~StaleInit
<1>1. ASSUME NEW r \in Requests, Save(r) PROVE ~Stale(r)
  <2>1. pc[r] = "commit" /\ FindsLast(r)
    BY <1>1 DEF Save, LastingInv
  <2>2. req[r].kind \notin Changes
    BY <2>1 DEF FindsLast
  <2>3. CASE req[r].kind \in AddKinds
    <3>1. work[r].on \subseteq Rows(roles)
      BY <1>1, <2>3 DEF Save, SaveNew, SaveChanged, SaveDeleted, SaveRole, InsertAccepted,
                        AddKinds, ChangeKinds
    <3>2. {roles[k] : k \in work[r].on} = req[r].names
      BY <2>1, <2>3, <3>1 DEF FindsLast
    <3> QED
      BY <2>3, <3>2 DEF Stale, AddKinds, ChangeKinds
  <2>4. CASE req[r].kind \notin AddKinds
    BY <2>2, <2>4 DEF Stale, Changes
  <2> QED
    BY <2>3, <2>4
<1>2. ASSUME EndInit PROVE ~StaleInit
  <2>1. boot.step \in {"saveRoles", "saveAdmin"} /\ \A name \in boot.new : HasName(roles, name) = {}
    BY <1>2 DEF EndInit, UniqueName
  <2>2. boot.new = {name \in {UserRole, AdminRole} : HasName(roles, name) = {}}
    BY <2>1 DEF LastingInv, StartFindsLast
  <2>3. boot.step = "saveAdmin" => HasEmail(users, AdminEmail) = {}
    BY <1>2 DEF EndInit, UniqueEmail
  <2>4. boot.step = "saveRoles" => HasEmail(users, AdminEmail) # {} /\ boot.admin = {}
    BY DEF LastingInv, StartFindsLast
  <2>5. \A k \in boot.admin : roles[k] = AdminRole
    BY <2>1, <2>4 DEF LastingInv, StartFindsLast
  <2> QED
    BY <2>1, <2>2, <2>3, <2>4, <2>5 DEF StaleInit
<1> QED
  BY <1>1, <1>2

LEMMA NextKeepsLastingInv ==
    ASSUME Inv, WorkInv, LastingInv, [Next]_vars, Kinds \cap Changes = {},
           Kinds \cap Deletes # {} => ~Restarts
    PROVE  LastingInv' /\ [Promised]_tables /\ [Atomic!Next]_(Atomic!vars)
<1>1. StartFindsLast' /\ (Kinds \cap Deletes # {} => boot'.step = "up")
  BY StepsOfStartLast DEF LastingInv
<1>2. ASSUME NEW s \in Requests PROVE FindsLast(s)'
  <2>1. FindsLast(s)
    BY DEF LastingInv
  <2>2. CASE Receive(s) \/ Handle(s)
    BY <2>1, <2>2, StepsFindLasting
  <2>3. CASE pc'[s] = pc[s] /\ req'[s] = req[s] /\ work'[s] = work[s]
    <3>1. RolesLast \/ UNCHANGED tables
      BY TablesChange, SavesLast, StartsLast DEF LastingInv
    <3>2. CASE UNCHANGED tables
      BY <2>1, <2>3, <3>2 DEF FindsLast, tables, Rows
    <3> QED
      BY <2>1, <2>3, <3>1, <3>2, FoundRolesLast
  <2>4. CASE Crash
    <3>1. pc'[s] = "idle"
      BY <2>4 DEF Crash
    <3> QED
      BY <3>1 DEF FindsLast
  <2> QED
    BY <2>2, <2>3, <2>4, OthersStay DEF Next, vars, StartInit, InitRoles, InitAdmin, EndInit
<1>3. [Promised]_tables /\ [Atomic!Next]_(Atomic!vars)
  <2>1. ASSUME NEW r \in Requests, Save(r)
        PROVE  UNCHANGED tables \/ (Asked(req[r]) /\ Atomic!Next /\ pc[r] = "commit")
    BY <2>1, LastingIsFresh, FreshSaveIsAtomic, AskedIsOperation DEF WorkInv, Save
  <2>2. ASSUME EndInit PROVE Atomic!Start /\ Atomic!Next
    BY <2>2, LastingIsFresh, FreshStartIsAtomic DEF WorkInv, Atomic!Next
  <2> QED
    BY <2>1, <2>2, TablesChange DEF Promised, Atomic!vars, tables
<1> QED
  BY <1>1, <1>2, <1>3 DEF LastingInv

LEMMA InitLastingInv ==
    ASSUME Init, Kinds \cap Deletes # {} => Opening.step = "up"
    PROVE  LastingInv
<1>1. \A r \in Requests : FindsLast(r)
  BY DEF Init, FindsLast
<1>2. boot.step \in {"down", "up"} /\ boot.new = {} /\ boot.admin = {}
      /\ (Kinds \cap Deletes # {} => boot.step = "up")
  BY OpeningAssumption DEF Init
<1> QED
  BY <1>1, <1>2 DEF LastingInv, StartFindsLast

(* What a thread, or the start, has found stays so as long as requests     *)
(* only add, or add and delete while nothing starts.                       *)
THEOREM LastingInvariance ==
    ASSUME Kinds \cap Changes = {},
           Kinds \cap Deletes # {} => Opening.step = "up" /\ ~Restarts
    PROVE  Spec => []LastingInv
<1>1. Init => LastingInv
  BY InitLastingInv
<1>2. Inv /\ WorkInv /\ LastingInv /\ [Next]_vars => LastingInv'
  BY NextKeepsLastingInv
<1> QED
  BY <1>1, <1>2, DirectoryInvariance, WorkInvariance, PTL DEF Spec

(* Requests that add, of any number and in any interleaving, with starts   *)
(* and stops of the application anywhere among them, do what they promise; *)
(* so do deletions, if they do not overlap with a start.  For the roles a  *)
(* creation has found keep their names, or are gone and fail its INSERT,   *)
(* and its emails are looked for again by the unique column.  So whatever  *)
(* is out of date at a commit is so because of a PUT, a PATCH, a change of *)
(* password or of a role's name, or a deletion while DataInitializer runs. *)
THEOREM CreationsKeepPromises ==
    ASSUME Kinds \cap Changes = {},
           Kinds \cap Deletes # {} => Opening.step = "up" /\ ~Restarts
    PROVE  Spec => ChangesArePromised
<1>1. Inv /\ WorkInv /\ LastingInv /\ [Next]_vars => [Promised]_tables
  BY NextKeepsLastingInv
<1> QED
  BY <1>1, DirectoryInvariance, WorkInvariance, LastingInvariance, PTL DEF Spec, ChangesArePromised

(* So the directory implements the abstract one, in which every request    *)
(* takes a single step.                                                    *)
THEOREM CreationsAreAtomic ==
    ASSUME Kinds \cap Changes = {},
           Kinds \cap Deletes # {} => Opening.step = "up" /\ ~Restarts
    PROVE  Spec => ImplementsAtomicDirectory
<1>1. Init => Atomic!Init
  BY DEF Init, Atomic!Init
<1>2. Inv /\ WorkInv /\ LastingInv /\ [Next]_vars => [Atomic!Next]_(Atomic!vars)
  BY NextKeepsLastingInv
<1> QED
  BY <1>1, <1>2, DirectoryInvariance, WorkInvariance, LastingInvariance, PTL
     DEF Spec, ImplementsAtomicDirectory, Atomic!Spec
-----------------------------------------------------------------------------
(* What AtomicDirectory keeps: what its requests, a single step each, do   *)
(* to tables in order.                                                     *)
OrderlyTables == TablesOK /\ UsersHaveRoles

LEMMA NewUsersAreOrderly ==
    ASSUME OrderlyTables, NEW new \in SUBSET Users, NEW on \in SUBSET Rows(roles), on # {},
           roles' = roles,
           users' \in UserTable,
           \A u \in new : users'[u] \in UserRow,
           \A u \in Users \ new : users'[u] = users[u],
           assigned' = [u \in Users |-> IF u \in new THEN on ELSE assigned[u]],
           \A u \in new, v \in Rows(users)' : users'[u].email = users'[v].email => u = v
    PROVE  OrderlyTables'
<1>1. DOMAIN users = Users /\ DOMAIN users' = Users /\ DOMAIN roles = Roles
  BY DEF OrderlyTables, TablesOK, UserTable, RoleTable
<1>2. Rows(users)' = (Rows(users) \ new) \cup new
  BY <1>1, NeverAbsent DEF Rows
<1>3. Rows(roles)' = Rows(roles) /\ Rows(roles) \subseteq Roles
  BY <1>1 DEF Rows
<1>4. UniqueEmails'
  BY <1>1, <1>2 DEF OrderlyTables, TablesOK, UniqueEmails, Rows
<1>5. AssignedRolesExist' /\ UsersHaveRoles'
  BY <1>1, <1>2, <1>3 DEF OrderlyTables, TablesOK, AssignedRolesExist, UsersHaveRoles, Rows
<1>6. assigned' \in [Users -> SUBSET Roles]
  BY <1>3 DEF OrderlyTables, TablesOK
<1>7. roles' \in RoleTable /\ UniqueRoleNames'
  BY <1>3 DEF OrderlyTables, TablesOK, UniqueRoleNames
<1> QED
  BY <1>4, <1>5, <1>6, <1>7 DEF OrderlyTables, TablesOK

LEMMA AddIsOrderly ==
    ASSUME OrderlyTables, NEW emails \in SUBSET Emails, NEW active \in BOOLEAN,
           NEW names \in SUBSET Names, Atomic!Add(emails, active, names)
    PROVE  OrderlyTables'
<1>1. PICK id \in [emails -> Users] :
         /\ \A e, f \in emails : id[e] = id[f] => e = f
         /\ \A e \in emails : users[id[e]] = Unused
         /\ users' = [u \in Users |->
               IF u \in {id[e] : e \in emails}
               THEN [email |-> CHOOSE e \in emails : id[e] = u, active |-> active] ELSE users[u]]
         /\ assigned' = [u \in Users |-> IF u \in {id[e] : e \in emails}
                                         THEN Atomic!Named(names) ELSE assigned[u]]
  BY Zenon DEF Atomic!Add
<1> DEFINE new == {id[e] : e \in emails}
<1>2. /\ names # {} /\ roles' = roles
      /\ \A n \in names : HasName(roles, n) # {}
      /\ \A e \in emails : HasEmail(users, e) = {}
  BY DEF Atomic!Add, Atomic!Known, Atomic!HasName, HasName, Atomic!HasEmail, HasEmail,
         Atomic!Rows, Rows
<1>3. Atomic!Named(names) \in SUBSET Rows(roles) /\ Atomic!Named(names) # {}
  BY <1>2 DEF Atomic!Named, Atomic!Rows, Rows, HasName
<1>4. new \in SUBSET Users
  OBVIOUS
<1>5. \A u \in new : /\ users'[u] = [email |-> CHOOSE e \in emails : id[e] = u, active |-> active]
                     /\ users'[u] \in UserRow
                     /\ users'[u].email \in emails /\ id[users'[u].email] = u
  <2> TAKE u \in new
  <2>1. PICK e \in emails : id[e] = u
    OBVIOUS
  <2>2. (CHOOSE f \in emails : id[f] = u) \in emails /\ id[CHOOSE f \in emails : id[f] = u] = u
    BY <2>1
  <2>3. users'[u] = [email |-> CHOOSE e_1 \in emails : id[e_1] = u, active |-> active]
    BY <1>1, <1>4
  <2> QED
    BY <2>2, <2>3 DEF UserRow
<1>6. users \in UserTable /\ \A u \in Users \ new : users'[u] = users[u]
  BY <1>1 DEF OrderlyTables, TablesOK
<1>7. users' \in UserTable
  BY <1>1, <1>5, <1>6 DEF UserTable
<1>8. \A u \in new, v \in Rows(users)' : users'[u].email = users'[v].email => u = v
  <2> TAKE u \in new, v \in Rows(users)'
  <2>1. CASE v \in new
    BY <1>5, <2>1
  <2>2. CASE v \notin new
    <3>1. v \in Users /\ users'[v] = users[v] /\ v \in Rows(users)
      BY <1>6, <1>7, <2>2 DEF Rows, UserTable
    <3> QED
      BY <1>2, <1>5, <3>1 DEF HasEmail
  <2> QED
    BY <2>1, <2>2
<1> HIDE DEF new
<1>9. assigned' = [u \in Users |-> IF u \in new THEN Atomic!Named(names) ELSE assigned[u]]
  BY <1>1 DEF new
<1> QED
  BY <1>2, <1>3, <1>4, <1>5, <1>6, <1>7, <1>8, <1>9, NewUsersAreOrderly

LEMMA ChangeIsOrderly ==
    ASSUME OrderlyTables, NEW u \in Users, NEW row \in UserRow, NEW names \in SUBSET Names,
           Atomic!Change(u, row, names)
    PROVE  OrderlyTables'
<1>1. /\ u \in Rows(users) /\ roles' = roles /\ HasEmail(users, row.email) \subseteq {u}
      /\ \A n \in names : HasName(roles, n) # {}
      /\ users' = [users EXCEPT ![u] = row]
      /\ assigned' = [assigned EXCEPT ![u] = IF names = {} THEN @ ELSE Atomic!Named(names)]
  BY DEF Atomic!Change, Atomic!Known, Atomic!HasName, HasName, Atomic!HasEmail, HasEmail,
         Atomic!Rows, Rows
<1>2. /\ users \in UserTable /\ DOMAIN users = Users /\ users' \in UserTable /\ DOMAIN users' = Users
      /\ roles \in RoleTable /\ DOMAIN roles = Roles /\ assigned \in [Users -> SUBSET Roles]
  BY <1>1 DEF OrderlyTables, TablesOK, UserTable, RoleTable
<1>3. Rows(users)' = Rows(users)
  BY <1>1, <1>2, NeverAbsent DEF Rows
<1>4. Atomic!Named(names) \subseteq Rows(roles) /\ (names # {} => Atomic!Named(names) # {})
  BY <1>1 DEF Atomic!Named, Atomic!Rows, Rows, HasName
<1>5. Rows(roles)' = Rows(roles) /\ Rows(roles) \subseteq Roles
  BY <1>1, <1>2 DEF Rows
<1>6. assigned' \in [Users -> SUBSET Roles]
  BY <1>1, <1>2, <1>4, <1>5
<1>7. AssignedRolesExist' /\ UsersHaveRoles'
  <2>1. \A v \in Users \ {u} : assigned'[v] = assigned[v]
    BY <1>1, <1>2
  <2>2. assigned'[u] = assigned[u] \/ (names # {} /\ assigned'[u] = Atomic!Named(names))
    BY <1>1, <1>2
  <2>3. AssignedRolesExist /\ UsersHaveRoles
    BY DEF OrderlyTables, TablesOK
  <2>4. AssignedRolesExist'
    BY <1>1, <1>3, <1>4, <1>5, <2>1, <2>2, <2>3 DEF AssignedRolesExist
  <2>5. UsersHaveRoles'
    BY <1>1, <1>3, <1>4, <2>1, <2>2, <2>3 DEF UsersHaveRoles
  <2> QED
    BY <2>4, <2>5
<1>8. UniqueEmails'
  BY <1>1, <1>2, <1>3 DEF OrderlyTables, TablesOK, UniqueEmails, HasEmail, Rows
<1>9. roles' \in RoleTable /\ UniqueRoleNames'
  BY <1>1, <1>2, <1>5 DEF OrderlyTables, TablesOK, UniqueRoleNames
<1> QED
  BY <1>2, <1>6, <1>7, <1>8, <1>9 DEF OrderlyTables, TablesOK

LEMMA RemoveIsOrderly ==
    ASSUME OrderlyTables, NEW u \in Users, Atomic!Remove(u)
    PROVE  OrderlyTables'
<1>1. /\ roles' = roles
      /\ users' = [users EXCEPT ![u] = Deleted]
      /\ assigned' = [assigned EXCEPT ![u] = {}]
  BY DEF Atomic!Remove
<1>2. /\ users \in UserTable /\ DOMAIN users = Users /\ users' \in UserTable /\ DOMAIN users' = Users
      /\ assigned \in [Users -> SUBSET Roles] /\ assigned' \in [Users -> SUBSET Roles]
  BY <1>1 DEF OrderlyTables, TablesOK, UserTable
<1>3. Rows(users)' = Rows(users) \ {u} /\ Rows(roles)' = Rows(roles)
  BY <1>1, <1>2 DEF Rows
<1> QED
  BY <1>1, <1>2, <1>3 DEF OrderlyTables, TablesOK, UniqueEmails, UniqueRoleNames,
                          AssignedRolesExist, UsersHaveRoles, Rows

LEMMA RoleChangeIsOrderly ==
    ASSUME OrderlyTables,
           \/ \E n \in Names : Atomic!AddRole(n)
           \/ \E k \in Roles, n \in Names : Atomic!RenameRole(k, n)
           \/ \E k \in Roles : Atomic!RemoveRole(k)
    PROVE  OrderlyTables'
<1>1. users' = users /\ assigned' = assigned
  BY DEF Atomic!AddRole, Atomic!RenameRole, Atomic!RemoveRole
<1>2. roles \in RoleTable /\ DOMAIN roles = Roles
  BY DEF OrderlyTables, TablesOK, RoleTable
<1>3. CASE \/ \E n \in Names : Atomic!AddRole(n)
           \/ \E k \in Roles, n \in Names : Atomic!RenameRole(k, n)
  <2>1. PICK k \in Roles, n \in Names :
           /\ roles' = [roles EXCEPT ![k] = n] /\ HasName(roles, n) \subseteq {k}
    BY <1>3 DEF Atomic!AddRole, Atomic!RenameRole, Atomic!HasName, HasName, Atomic!Rows, Rows
  <2>2. roles' \in RoleTable /\ Rows(roles)' = Rows(roles) \cup {k}
    BY <1>2, <2>1, NeverAbsent DEF RoleTable, Rows
  <2>3. UniqueRoleNames'
    BY <1>2, <2>1, <2>2 DEF OrderlyTables, TablesOK, UniqueRoleNames, HasName, Rows, RoleTable
  <2> QED
    BY <1>1, <2>2, <2>3 DEF OrderlyTables, TablesOK, UniqueEmails, AssignedRolesExist,
                            UsersHaveRoles, Rows
<1>4. CASE \E k \in Roles : Atomic!RemoveRole(k)
  <2>1. PICK k \in Roles : /\ roles' = [roles EXCEPT ![k] = Deleted]
                           /\ \A u \in Users : k \notin assigned[u]
    BY <1>4 DEF Atomic!RemoveRole
  <2>2. roles' \in RoleTable /\ Rows(roles)' = Rows(roles) \ {k}
    BY <1>2, <2>1 DEF RoleTable, Rows
  <2>3. UniqueRoleNames'
    BY <1>2, <2>1, <2>2 DEF OrderlyTables, TablesOK, UniqueRoleNames, Rows, RoleTable
  <2> QED
    BY <1>1, <2>1, <2>2, <2>3 DEF OrderlyTables, TablesOK, UniqueEmails, AssignedRolesExist,
                            UsersHaveRoles, Rows
<1> QED
  BY <1>3, <1>4

LEMMA StartIsOrderly ==
    ASSUME OrderlyTables, Atomic!Start
    PROVE  OrderlyTables'
<1>1. PICK k \in Roles, l \in Roles, u \in Users :
         /\ k # l
         /\ IF HasName(roles, UserRole) = {} THEN roles[k] = Unused
            ELSE HasName(roles, UserRole) = {k}
         /\ IF HasName(roles, AdminRole) = {} THEN roles[l] = Unused
            ELSE HasName(roles, AdminRole) = {l}
         /\ roles' = [roles EXCEPT ![k] = UserRole, ![l] = AdminRole]
         /\ \/ /\ HasEmail(users, AdminEmail) = {} /\ users[u] = Unused
               /\ users' = [users EXCEPT ![u] = [email |-> AdminEmail, active |-> TRUE]]
               /\ assigned' = [assigned EXCEPT ![u] = {l}]
            \/ users' = users /\ assigned' = assigned
  BY DEF Atomic!Start, Atomic!HasName, HasName, Atomic!HasEmail, HasEmail, Atomic!Rows, Rows
<1>2. /\ users \in UserTable /\ DOMAIN users = Users
      /\ roles \in RoleTable /\ DOMAIN roles = Roles /\ assigned \in [Users -> SUBSET Roles]
  BY DEF OrderlyTables, TablesOK, UserTable, RoleTable
<1>3. roles' \in RoleTable /\ Rows(roles)' = Rows(roles) \cup {k, l}
  BY <1>1, <1>2, NameAssumption, NeverAbsent DEF RoleTable, Rows
<1>4. UniqueRoleNames'
  BY <1>1, <1>2, <1>3, NameAssumption DEF OrderlyTables, TablesOK, UniqueRoleNames, HasName, Rows, RoleTable
<1>5. CASE users' = users /\ assigned' = assigned
  BY <1>3, <1>4, <1>5 DEF OrderlyTables, TablesOK, UniqueEmails, AssignedRolesExist,
                          UsersHaveRoles, Rows
<1>6. CASE /\ HasEmail(users, AdminEmail) = {} /\ users[u] = Unused
           /\ users' = [users EXCEPT ![u] = [email |-> AdminEmail, active |-> TRUE]]
           /\ assigned' = [assigned EXCEPT ![u] = {l}]
  <2>1. users' \in UserTable /\ DOMAIN users' = Users /\ Rows(users)' = Rows(users) \cup {u}
    BY <1>2, <1>6, EmailAssumption, NeverAbsent DEF UserTable, UserRow, Rows
  <2>2. UniqueEmails'
    BY <1>2, <1>6, <2>1 DEF OrderlyTables, TablesOK, UniqueEmails, HasEmail, Rows
  <2>3. assigned' \in [Users -> SUBSET Roles] /\ l \in Rows(roles)'
    BY <1>2, <1>3, <1>6
  <2>4. AssignedRolesExist'
    BY <1>2, <1>3, <1>6, <2>1, <2>3 DEF OrderlyTables, TablesOK, AssignedRolesExist
  <2>5. UsersHaveRoles'
    <3>1. assigned'[u] = {l} /\ \A v \in Users \ {u} : assigned'[v] = assigned[v]
      BY <1>2, <1>6
    <3>2. \A v \in Rows(users)' : v = u \/ (v \in Rows(users) /\ v \in Users)
      BY <1>2, <2>1 DEF Rows
    <3> QED
      BY <3>1, <3>2 DEF OrderlyTables, UsersHaveRoles
  <2> QED
    BY <1>3, <1>4, <2>1, <2>2, <2>3, <2>4, <2>5 DEF OrderlyTables, TablesOK
<1> QED
  BY <1>1, <1>5, <1>6

(* The promise is worth having: with every request at one instant, emails  *)
(* and role names are unique, memberships lead somewhere, and no user is   *)
(* ever without a role.                                                    *)
THEOREM AtomicDirectoryKeepsOrder ==
    ImplementsAtomicDirectory
       => [](UniqueEmails /\ UniqueRoleNames /\ AssignedRolesExist /\ UsersHaveRoles)
<1>1. Atomic!Init => OrderlyTables
  <2> SUFFICES ASSUME users = Opening.users, roles = Opening.roles, assigned = Opening.assigned
               PROVE  OrderlyTables
    BY DEF Atomic!Init
  <2>1. /\ users \in UserTable /\ roles \in RoleTable
        /\ assigned \in [Users -> SUBSET Rows(roles)]
        /\ \A u \in Users : assigned[u] # {} <=> u \in Rows(users)
        /\ UniqueEmails /\ UniqueRoleNames
    BY OpeningAssumption DEF UniqueEmails, UniqueRoleNames
  <2>2. Rows(users) \subseteq Users /\ Rows(roles) \subseteq Roles
    BY <2>1 DEF Rows, UserTable, RoleTable
  <2> QED
    BY <2>1, <2>2 DEF OrderlyTables, TablesOK, AssignedRolesExist, UsersHaveRoles
<1>2. OrderlyTables /\ [Atomic!Next]_(Atomic!vars) => OrderlyTables'
  <2> SUFFICES ASSUME OrderlyTables, [Atomic!Next]_(Atomic!vars) PROVE OrderlyTables'
    OBVIOUS
  <2>1. CASE UNCHANGED Atomic!vars
    BY <2>1 DEF Atomic!vars, OrderlyTables, TablesOK, UniqueEmails, UniqueRoleNames,
                AssignedRolesExist, UsersHaveRoles, Rows
  <2> QED
    BY <2>1, AddIsOrderly, ChangeIsOrderly, RemoveIsOrderly, RoleChangeIsOrderly, StartIsOrderly,
       Zenon DEF Atomic!Next, Atomic!UserRow, UserRow
<1>3. OrderlyTables
         => UniqueEmails /\ UniqueRoleNames /\ AssignedRolesExist /\ UsersHaveRoles
  BY DEF OrderlyTables, TablesOK
<1> QED
  BY <1>1, <1>2, <1>3, PTL DEF ImplementsAtomicDirectory, Atomic!Spec

(* So with one thread no user loses the last role, changes of password     *)
(* included: AtLeastOneRole is lost between requests that overlap.         *)
THEOREM SerialUsersKeepARole ==
    ASSUME NEW t, Requests = {t}, Opening.step = "up", ~Restarts
    PROVE  Spec => []AtLeastOneRole
BY SerialDirectory, AtomicDirectoryKeepsOrder, PTL DEF AtLeastOneRole
-----------------------------------------------------------------------------
(* What old copies can do.  What a request has seen it has seen for good,  *)
(* and it sees the rows as they are until its flush.                       *)
LEMMA SeenForGood ==
    ASSUME NEW r \in Requests, Remember, pc'[r] # "idle"
    PROVE  /\ Seen(r).rows \subseteq Seen(r)'.rows
           /\ Seen(r).absent \subseteq Seen(r)'.absent
           /\ Seen(r).names \subseteq Seen(r)'.names
<1>1. was'[r] = Seen(r)
  BY DEF Remember
<1>2. CASE Follows(r)'
  BY <1>1, <1>2 DEF Seen
<1>3. CASE ~Follows(r)'
  BY <1>1, <1>3 DEF Seen
<1> QED
  BY <1>2, <1>3

LEMMA SeesTheRows ==
    ASSUME NEW r \in Requests, Follows(r)
    PROVE  /\ users[req[r].user] \in UserRow => users[req[r].user] \in Seen(r).rows
           /\ req[r].kind = "PASSWORD" \/ req[r].names # {} =>
                 Roles \ assigned[req[r].user] \subseteq Seen(r).absent
           /\ req[r].kind = "PASSWORD" =>
                 \A k \in assigned[req[r].user] : <<k, roles[k]>> \in Seen(r).names
BY DEF Seen

(* A copy that is kept is as recent as it was. *)
LEMMA KeptCopiesWereSo ==
    ASSUME NEW r \in Requests, Remember, CopyWasSo(r),
           req'[r] = req[r], copy'[r] = copy[r], pc[r] # "idle",
           pc'[r] \in {"idle", "find"} \/ pc[r] # "find"
    PROVE  CopyWasSo(r)'
<1>1. CASE pc'[r] = "idle"
  BY <1>1 DEF CopyWasSo
<1>2. CASE pc'[r] # "idle"
  BY <1>2, SeenForGood DEF CopyWasSo
<1> QED
  BY <1>1, <1>2

LEMMA UnchangedWasSo ==
    ASSUME NEW r \in Requests, Remember, CopyWasSo(r), RestWasAbsent(r),
           pc'[r] = pc[r], req'[r] = req[r], copy'[r] = copy[r], work'[r] = work[r]
    PROVE  CopyWasSo(r)' /\ RestWasAbsent(r)'
<1>1. CASE pc[r] = "idle"
  BY <1>1 DEF CopyWasSo, RestWasAbsent
<1>2. CASE pc[r] # "idle"
  BY <1>2, KeptCopiesWereSo, SeenForGood DEF RestWasAbsent, ReplacesRoles
<1> QED
  BY <1>1, <1>2

(* What a step makes of the thread that takes it.                          *)
LEMMA StepsReadWhatIsSo ==
    ASSUME Inv, NEW r \in Requests, Remember, CopyWasSo(r), Receive(r) \/ Handle(r)
    PROVE  CopyWasSo(r)' /\ RestWasAbsent(r)'
<1> DEFINE u == req'[r].user
<1>1. /\ pc \in [Requests -> Steps] /\ req \in [Requests -> Request \cup {NoRequest}]
      /\ copy = [s \in Requests |-> copy[s]] /\ work \in [Requests -> Work]
      /\ StepsServe(r)
      /\ users \in UserTable /\ roles \in RoleTable
  BY DEF Inv, TypeOK
<1>2. \A v \in Rows(users) : users[v] \in UserRow
  BY <1>1 DEF UserTable, Rows
<1>3. CASE EndRequest(r)
  BY <1>3, EndIsIdle DEF CopyWasSo, RestWasAbsent
<1>4. CASE Receive(r)
  <2>1. PICK q \in Request :
            /\ pc[r] = "idle"
            /\ q.kind = "PASSWORD" => q.user \in Rows(users)
            /\ req' = [req EXCEPT ![r] = q]
            /\ copy' = [copy EXCEPT ![r] = IF q.kind = "PASSWORD" THEN Read(q.user) ELSE NoCopy]
            /\ pc' = [pc EXCEPT ![r] = FirstStep(q.kind)]
            /\ UNCHANGED tables
    BY <1>4 DEF Receive, Goto
  <2>2. /\ pc'[r] = FirstStep(q.kind) /\ req'[r] = q
        /\ q.kind = "PASSWORD" => copy'[r] = Read(q.user)
    BY <1>1, <2>1
  <2>3. RestWasAbsent(r)'
    BY <2>2 DEF RestWasAbsent, FirstStep
  <2>4. CASE q.kind = "PASSWORD"
    <3>1. Follows(r)' /\ pc'[r] = "merge"
      BY <2>2, <2>4 DEF Follows, FirstStep, AddKinds
    <3>2. /\ copy'[r].row = users'[u] /\ copy'[r].on = assigned'[u]
          /\ \A k \in copy'[r].on : copy'[r].names[k] = roles'[k]
          /\ users'[u] \in UserRow
      BY <1>2, <2>1, <2>2, <2>4 DEF Read, tables
    <3>3. /\ users'[u] \in Seen(r)'.rows
          /\ Roles \ assigned'[u] \subseteq Seen(r)'.absent
          /\ \A k \in assigned'[u] : <<k, roles'[k]>> \in Seen(r)'.names
      BY <2>2, <2>4, <3>1, <3>2 DEF Seen
    <3>4. CopyWasSo(r)'
      BY <3>2, <3>3 DEF CopyWasSo
    <3> QED
      BY <2>3, <3>4
  <2>5. CASE q.kind # "PASSWORD"
    BY <2>2, <2>3, <2>5 DEF CopyWasSo, FirstStep, AddKinds, ChangeKinds
  <2> QED
    BY <2>4, <2>5
<1>5. CASE ~EndRequest(r) /\ Find(r)
  <2>1. /\ pc[r] = "find" /\ req' = req /\ UNCHANGED tables
        /\ req[r].kind \in ChangeKinds =>
              req[r].user \in Rows(users) /\ copy'[r] = ReadRow(req[r].user) /\ pc'[r] = "email"
        /\ pc'[r] \in {"email", "name", "unused", "flush"}
    <3>1. pc[r] = "find" /\ req[r].kind \in ChangeKinds \cup {"DELETE", "RENAME_ROLE", "DELETE_ROLE"}
      BY <1>1, <1>5 DEF Find, StepsServe
    <3> QED
      BY <1>1, <1>5, <3>1 DEF Find, Fail, Goto, ChangeKinds
  <2>2. req[r].kind # "PASSWORD"
    BY <1>1, <2>1 DEF StepsServe, ChangeKinds
  <2>3. CASE req[r].kind \in ChangeKinds
    <3>1. Follows(r)'
      BY <2>1, <2>3 DEF Follows
    <3>2. copy'[r].row = users'[u] /\ users'[u] \in UserRow
      BY <1>2, <2>1, <2>3 DEF ReadRow, tables
    <3>3. users'[u] \in Seen(r)'.rows
      BY <3>1, <3>2 DEF Seen
    <3> QED
      BY <2>1, <2>2, <3>2, <3>3 DEF CopyWasSo, RestWasAbsent
  <2>4. CASE req[r].kind \notin ChangeKinds
    BY <2>1, <2>2, <2>4 DEF CopyWasSo, RestWasAbsent
  <2> QED
    BY <2>3, <2>4
<1>6. CASE ~EndRequest(r) /\ (CheckEmail(r) \/ FindRoles(r) \/ CheckName(r) \/ CheckUnused(r)
                                \/ Merge(r))
  <2>1. /\ pc[r] \notin {"idle", "find", "commit"} /\ pc'[r] # "commit"
        /\ req' = req /\ copy' = copy
    BY <1>1, <1>6
       DEF CheckEmail, FindRoles, CheckName, CheckUnused, Merge, Fail, Goto
  <2> QED
    BY <2>1, KeptCopiesWereSo DEF RestWasAbsent
<1>7. CASE ~EndRequest(r) /\ Flush(r)
  <2>1. /\ pc[r] = "flush" /\ pc'[r] = "commit" /\ req' = req /\ copy' = copy
        /\ ReplacesRoles(req[r]) => work'[r].off = assigned[req[r].user]
    <3>1. /\ pc[r] = "flush" /\ Goto(r, "commit") /\ req' = req /\ copy' = copy
          /\ \E row : work' = [work EXCEPT ![r].row = row,
                ![r].off = IF ReplacesRoles(req[r]) \/ req[r].kind = "DELETE"
                           THEN assigned[req[r].user] ELSE @]
      BY <1>7 DEF Flush, Fail, Replaced
    <3> QED
      BY <1>1, <3>1 DEF Goto, Work
  <2>2. ReplacesRoles(req[r]) => Roles \ assigned[req[r].user] \subseteq Seen(r).absent
    BY <2>1, SeesTheRows DEF Follows, ReplacesRoles
  <2>3. RestWasAbsent(r)'
    BY <2>1, <2>2, SeenForGood DEF RestWasAbsent, ReplacesRoles
  <2> QED
    BY <2>1, <2>3, KeptCopiesWereSo
<1>8. Save(r) \/ Refused(r) => EndRequest(r)
  BY DEF Save, Refused, Fail
<1> QED
  BY <1>3, <1>4, <1>5, <1>6, <1>7, <1>8 DEF Handle

(* The watched steps are those of UserDirectory, each with Remember.       *)
LEMMA WatchedSteps == HNext => Next /\ Remember
  BY DEF HNext, Next, Handle

LEMMA NextKeepsHistory ==
    ASSUME Inv, HistoryInv, [HNext]_hvars
    PROVE  HistoryInv'
<1> SUFFICES ASSUME NEW s \in Requests PROVE CopyWasSo(s)' /\ RestWasAbsent(s)'
  BY DEF HistoryInv
<1>1. CopyWasSo(s) /\ RestWasAbsent(s)
  BY DEF HistoryInv
<1>2. CASE UNCHANGED hvars
  BY <1>1, <1>2
     DEF hvars, vars, CopyWasSo, RestWasAbsent, ReplacesRoles, Seen, Follows
<1>3. CASE Remember /\ UNCHANGED <<pc, req, copy, work>>
  BY <1>1, <1>3, UnchangedWasSo
<1>4. ASSUME Remember, NEW r \in Requests, Receive(r) \/ Handle(r)
      PROVE  CopyWasSo(s)' /\ RestWasAbsent(s)'
  <2>1. CASE s = r
    BY <1>1, <1>4, <2>1, StepsReadWhatIsSo
  <2>2. CASE s # r
    <3>1. pc'[s] = pc[s] /\ req'[s] = req[s] /\ copy'[s] = copy[s] /\ work'[s] = work[s]
      BY <1>4, <2>2, OthersStay
    <3> QED
      BY <1>1, <1>4, <3>1, UnchangedWasSo
  <2> QED
    BY <2>1, <2>2
<1>5. CASE Crash
  BY <1>5 DEF Crash, CopyWasSo, RestWasAbsent
<1> QED
  BY <1>2, <1>3, <1>4, <1>5, WatchedSteps DEF Next, StartInit, InitRoles, InitAdmin, EndInit

(* What a commit writes.                                                   *)
LEMMA ChangesAreRecent ==
    ASSUME Inv, WorkInv, HistoryInv, NEW r \in Requests, Save(r), req[r].kind \in ChangeKinds
    PROVE  ColumnsAreRecent(r) /\ RolesAreRecent(r)
<1> DEFINE q == req[r]
           w == work[r]
<1>1. /\ pc[r] = "commit" /\ q \in Request /\ q.kind \in ChangeKinds
      /\ users \in UserTable /\ assigned \in [Users -> SUBSET Roles]
  BY DEF Save, Inv, TypeOK, StepsServe
<1>2. SaveChanged(r) /\ q.user \in Users
  BY <1>1, RequestFields DEF Save, SaveNew, SaveDeleted, SaveRole, AddKinds, ChangeKinds
<1>3. PlansItsRequest(r) /\ CopyWasSo(r) /\ RestWasAbsent(r)
  BY DEF WorkInv, HistoryInv
<1>4. ColumnsAreRecent(r)
  <2>1. copy[r].row \in Seen(r).rows
    BY <1>1, <1>3 DEF CopyWasSo
  <2>2. Columns(q, copy[r].row) = Due(q, copy[r].row)
    BY DEF Columns, Due
  <2>3. CASE w.row = NoCopy
    <3>1. users' = users
      BY <1>2, <2>3 DEF SaveChanged
    <3>2. Due(q, copy[r].row) = copy[r].row \/ w.row = Due(q, copy[r].row)
      BY <1>1, <1>3, <2>2 DEF PlansItsRequest, WritesItsColumns
    <3>3. Due(q, copy[r].row) # NoCopy
      BY <1>1, <2>2, ColumnsAreRow, NullAssumption DEF Inv, CopiesWereRows
    <3> QED
      BY <2>1, <2>3, <3>1, <3>2, <3>3 DEF ColumnsAreRecent
  <2>4. CASE w.row # NoCopy
    <3>1. w.row = Due(q, copy[r].row)
      BY <1>1, <1>3, <2>2, <2>4 DEF PlansItsRequest, WritesItsColumns
    <3>2. users'[q.user] = w.row
      BY <1>1, <1>2, <2>4 DEF SaveChanged, UserTable
    <3> QED
      BY <2>1, <3>1, <3>2 DEF ColumnsAreRecent
  <2> QED
    BY <2>3, <2>4
<1>5. RolesAreRecent(r)
  <2>1. assigned'[q.user] = (assigned[q.user] \ w.off) \cup w.on
    BY <1>1, <1>2 DEF SaveChanged
  <2>2. CASE q.names = {}
    <3>1. w.on = {} /\ w.off = {}
      BY <1>1, <1>3, <2>2 DEF PlansItsRequest, LeavesUnnamedRoles
    <3> QED
      BY <2>1, <2>2, <3>1 DEF RolesAreRecent
  <2>3. CASE q.names # {}
    <3>1. Roles \ w.off \subseteq Seen(r).absent
      BY <1>1, <1>3, <2>3 DEF RestWasAbsent, ReplacesRoles
    <3>2. assigned[q.user] \subseteq Roles
      BY <1>1, <1>2
    <3> QED
      BY <2>1, <2>3, <3>1, <3>2 DEF RolesAreRecent
  <2> QED
    BY <2>2, <2>3
<1> QED
  BY <1>4, <1>5

LEMMA MergesAreRecent ==
    ASSUME Inv, WorkInv, HistoryInv, NEW r \in Requests, Save(r), req[r].kind = "PASSWORD"
    PROVE  MergeIsRecent(r)
<1> DEFINE u == req[r].user
           w == work[r]
<1>1. /\ pc[r] = "commit" /\ req[r] \in Request
      /\ users \in UserTable /\ roles \in RoleTable /\ assigned \in [Users -> SUBSET Roles]
  BY DEF Save, Inv, TypeOK, StepsServe
<1>2. SaveChanged(r) /\ u \in Users
  BY <1>1, RequestFields DEF Save, SaveNew, SaveDeleted, SaveRole, AddKinds, ChangeKinds
<1>3. MergesItsCopy(r) /\ CopyWasSo(r) /\ CopiesWereRows(r)
  BY DEF WorkInv, PlansItsRequest, HistoryInv, Inv
<1>4. /\ copy[r].row \in Seen(r).rows /\ Roles \ copy[r].on \subseteq Seen(r).absent
      /\ \A k \in copy[r].on : <<k, copy[r].names[k]>> \in Seen(r).names
  BY <1>1, <1>3 DEF CopyWasSo
<1>5. /\ w.row = copy[r].row /\ w.on \subseteq copy[r].on /\ w.off \cap copy[r].on = {}
      /\ w.renamed \subseteq copy[r].on
  BY <1>1, <1>3 DEF MergesItsCopy
<1>6. /\ copy[r].row \in UserRow
      /\ copy[r].on \subseteq Roles /\ copy[r].names \in [copy[r].on -> Names]
  BY <1>1, <1>3 DEF CopiesWereRows
<1>7. users'[u] = copy[r].row
  BY <1>1, <1>2, <1>5, <1>6, NullAssumption DEF SaveChanged, UserTable
<1>8. assigned'[u] = (assigned[u] \ w.off) \cup w.on
  BY <1>1, <1>2 DEF SaveChanged
<1>9. \A k \in Roles : roles'[k] # roles[k] => k \in w.renamed /\ roles'[k] = copy[r].names[k]
  BY <1>2 DEF SaveChanged, Renamed
<1>10. assigned[u] \ assigned'[u] \subseteq Seen(r).absent
  BY <1>1, <1>2, <1>4, <1>5, <1>8
<1>11. \A k \in assigned'[u] \ assigned[u] : \E name \in Names : <<k, name>> \in Seen(r).names
  BY <1>4, <1>5, <1>6, <1>8
<1>12. \A k \in Roles : roles'[k] # roles[k] => <<k, roles'[k]>> \in Seen(r).names
  BY <1>4, <1>5, <1>9
<1> QED
  BY <1>4, <1>7, <1>10, <1>11, <1>12 DEF MergeIsRecent

(* The history only watches: UserDirectory goes on as without it.          *)
LEMMA HistoryWatches == HSpec => Spec
<1>1. HInit => Init
  BY DEF HInit
<1>2. [HNext]_hvars => [Next]_vars
  BY WatchedSteps DEF hvars
<1> QED
  BY <1>1, <1>2, PTL DEF HSpec, Spec

(* What a thread has read of a user, and what its DELETE found, was so at  *)
(* some moment of its request: in every reachable state.                   *)
THEOREM HistoryInvariance == HSpec => []HistoryInv
<1>1. HInit => HistoryInv
  BY DEF HInit, Init, HistoryInv, CopyWasSo, RestWasAbsent
<1>2. Inv /\ HistoryInv /\ [HNext]_hvars => HistoryInv'
  BY NextKeepsHistory
<1> QED
  BY <1>1, <1>2, HistoryWatches, DirectoryInvariance, PTL DEF HSpec

(* However requests overlap, PUTs, PATCHes and password changes that write *)
(* from old copies bring nothing back that is older than the request.      *)
THEOREM OldCopiesAreRecent == HSpec => NothingOlderComesBack
<1>1. Inv /\ WorkInv /\ HistoryInv /\ [HNext]_hvars =>
         [\A r \in Requests : Save(r) =>
             /\ req[r].kind \in ChangeKinds => ColumnsAreRecent(r) /\ RolesAreRecent(r)
             /\ req[r].kind = "PASSWORD" => MergeIsRecent(r)]_hvars
  BY ChangesAreRecent, MergesAreRecent
<1> QED
  BY <1>1, HistoryWatches, HistoryInvariance, DirectoryInvariance, WorkInvariance, PTL
     DEF HSpec, NothingOlderComesBack
=============================================================================

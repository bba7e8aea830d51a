------------------------- MODULE UserDirectoryProofs -------------------------
(***************************************************************************)
(* UserDirectory keeps its invariants for every set of users, roles,       *)
(* emails, names and threads.                                              *)
(*                                                                         *)
(* Inv is preserved because the steps before a commit leave the tables     *)
(* alone (ReadsKeepInv), a request that fails leaves nothing behind        *)
(* (EndKeepsControl), and each commit checks the constraints of the tables *)
(* it writes on the tables as they are.                                    *)
(***************************************************************************)
EXTENDS UserDirectoryInvariants, TLAPS

(* The tables, apart from who is writing them.                             *)
TablesOK ==
    /\ users \in UserTable
    /\ roles \in RoleTable
    /\ assigned \in [Users -> SUBSET Roles]
    /\ UniqueEmails
    /\ UniqueRoleNames
    /\ AssignedRolesExist

(* The threads, apart from the tables.                                     *)
ControlOK(r) == StepsServe(r) /\ CopiesWereRows(r) /\ RenamesItsCopies(r)

ThreadsOK ==
    /\ pc \in [Requests -> Steps]
    /\ req \in [Requests -> Request \cup {NoRequest}]
    /\ work \in [Requests -> Work]
    /\ copy = [r \in Requests |-> copy[r]]
    /\ \A r \in Requests : ControlOK(r)

BootOK == boot \in [step: BootSteps, new: SUBSET Names, admin: SUBSET Roles]

(* What the fields of a request are.                                       *)
LEMMA RequestFields ==
    ASSUME NEW q \in Request
    PROVE  /\ q.kind \in AddKinds =>
                 /\ EmailsOf(q) \subseteq Emails
                 /\ q.active \in BOOLEAN \cup {Null}
                 /\ q.names \in SUBSET Names /\ q.names # {}
           /\ q.kind \in ChangeKinds =>
                 /\ q.user \in Users
                 /\ q.email \in Emails \cup {Null}
                 /\ q.active \in BOOLEAN \cup {Null}
                 /\ q.names \in SUBSET Names
           /\ q.kind \in {"PASSWORD", "DELETE"} => q.user \in Users
           /\ q.kind \in {"ADD_ROLE", "RENAME_ROLE"} => q.name \in Names
           /\ q.kind \in {"RENAME_ROLE", "DELETE_ROLE"} => q.role \in Roles
<1>1. GivenEmails \subseteq Emails /\ GivenNames \subseteq SUBSET Names /\ {} \notin GivenNames
  BY AskedAssumption DEF GivenEmails, GivenNames
<1>2. {UserRole} \in SUBSET Names
  BY NameAssumption
<1>3. CASE q \in AddRequest
  <2>1. CASE q.kind \in {"REGISTER", "CREATE"}
    <3>1. PICK e \in GivenEmails : q.emails = <<e>>
      BY <1>3, <2>1 DEF AddRequest
    <3>2. DOMAIN q.emails = {1} /\ q.emails[1] = e
      BY <3>1
    <3>3. EmailsOf(q) \subseteq Emails
      BY <1>1, <3>2 DEF EmailsOf
    <3> QED
      BY <1>1, <1>2, <1>3, <2>1, <3>3, AskedAssumption DEF AddRequest, AddKinds, ChangeKinds
  <2>2. CASE q.kind = "BULK"
    <3>0. q.emails \in GivenEmails \X GivenEmails
      BY <1>3, <2>2 DEF AddRequest
    <3>1. PICK e \in GivenEmails, f \in GivenEmails : q.emails = <<e, f>>
      BY <3>0
    <3>2. DOMAIN q.emails = {1, 2} /\ q.emails[1] = e /\ q.emails[2] = f
      BY <3>1
    <3>3. EmailsOf(q) \subseteq Emails
      BY <1>1, <3>2 DEF EmailsOf
    <3> QED
      BY <1>1, <1>3, <2>2, <3>3 DEF AddRequest, AddKinds, ChangeKinds
  <2> QED
    BY <1>3, <2>1, <2>2 DEF AddRequest
<1>4. CASE q \in ChangeRequest
  BY <1>1, <1>4, AskedAssumption DEF ChangeRequest, AddKinds, ChangeKinds
<1>5. CASE q \in UserRequest
  BY <1>5 DEF UserRequest, AddKinds, ChangeKinds
<1>6. CASE q \in RoleRequest
  BY <1>6 DEF RoleRequest, AddKinds, ChangeKinds
<1> QED
  BY <1>3, <1>4, <1>5, <1>6 DEF Request

(* The columns that a PUT or PATCH writes are a row.                       *)
LEMMA ColumnsAreRow ==
    ASSUME NEW q \in Request, q.kind \in ChangeKinds, NEW read \in UserRow
    PROVE  Columns(q, read) \in UserRow
<1>1. q.email \in Emails \cup {Null} /\ q.active \in BOOLEAN \cup {Null}
  BY RequestFields
<1> QED
  BY <1>1 DEF Columns, UserRow

LEMMA NoWorkIsWork == NoWork \in Work
BY DEF NoWork, Work
-----------------------------------------------------------------------------
LEMMA InitInv == Init => Inv
<1> SUFFICES ASSUME Init PROVE Inv
  OBVIOUS
<1>1. TypeOK
  <2>1. assigned \in [Users -> SUBSET Roles]
    BY OpeningAssumption DEF Init, Rows, RoleTable
  <2>2. boot \in [step: BootSteps, new: SUBSET Names, admin: SUBSET Roles]
    BY OpeningAssumption DEF Init, BootSteps
  <2> QED
    BY <2>1, <2>2, OpeningAssumption, NoWorkIsWork DEF Init, TypeOK, Steps
<1>2. \A r \in Requests : StepsServe(r) /\ CopiesWereRows(r) /\ RenamesItsCopies(r)
  BY DEF Init, StepsServe, CopiesWereRows, RenamesItsCopies, NoWork
<1>3. UniqueEmails /\ UniqueRoleNames
  BY OpeningAssumption DEF Init, UniqueEmails, UniqueRoleNames
<1>4. AssignedRolesExist
  BY OpeningAssumption DEF Init, AssignedRolesExist
<1> QED
  BY <1>1, <1>2, <1>3, <1>4 DEF Inv
-----------------------------------------------------------------------------
(* A request that ends, well or not, leaves the other threads alone.       *)
LEMMA EndKeepsControl ==
    ASSUME ThreadsOK, BootOK, NEW r \in Requests, EndRequest(r)
    PROVE  ThreadsOK' /\ BootOK'
<1>1. BootOK'
  BY DEF EndRequest, BootOK
<1>2. /\ pc' = [pc EXCEPT ![r] = "idle"]
      /\ req' = [req EXCEPT ![r] = NoRequest]
      /\ copy' = [copy EXCEPT ![r] = NoCopy]
      /\ work' = [work EXCEPT ![r] = NoWork]
  BY DEF EndRequest, Goto
<1>3. /\ pc' \in [Requests -> Steps] /\ work' \in [Requests -> Work]
      /\ copy' = [s \in Requests |-> copy'[s]]
      /\ req' \in [Requests -> Request \cup {NoRequest}]
  BY <1>2, NoWorkIsWork DEF ThreadsOK, Steps
<1>4. ControlOK(r)'
  BY <1>2 DEF ThreadsOK, ControlOK, StepsServe, CopiesWereRows, RenamesItsCopies, NoWork
<1>5. ASSUME NEW s \in Requests, s # r PROVE ControlOK(s)'
  <2>1. pc'[s] = pc[s] /\ req'[s] = req[s] /\ copy'[s] = copy[s] /\ work'[s] = work[s]
    BY <1>2, <1>5 DEF ThreadsOK
  <2> QED
    BY <2>1 DEF ThreadsOK, ControlOK, StepsServe, CopiesWereRows, RenamesItsCopies
<1> QED
  BY <1>1, <1>3, <1>4, <1>5 DEF ThreadsOK

(* A step of one thread that is none of its ends: what it does to the      *)
(* thread is all there is to look at.                                      *)
LEMMA StepKeepsControl ==
    ASSUME ThreadsOK, NEW r \in Requests,
           NEW step \in Steps, NEW q \in Request \cup {NoRequest}, NEW c, NEW w \in Work,
           pc' = [pc EXCEPT ![r] = step], req' = [req EXCEPT ![r] = q],
           copy' = [copy EXCEPT ![r] = c], work' = [work EXCEPT ![r] = w],
           ControlOK(r)'
    PROVE  ThreadsOK'
<1>1. ASSUME NEW s \in Requests, s # r PROVE ControlOK(s)'
  <2>1. pc'[s] = pc[s] /\ req'[s] = req[s] /\ copy'[s] = copy[s] /\ work'[s] = work[s]
    BY <1>1 DEF ThreadsOK
  <2> QED
    BY <2>1 DEF ThreadsOK, ControlOK, StepsServe, CopiesWereRows, RenamesItsCopies
<1> QED
  BY <1>1 DEF ThreadsOK

(* What the columns of the tables hold, row by row.                        *)
LEMMA RowsAreTyped ==
    ASSUME TablesOK
    PROVE  /\ \A u \in Rows(users) : u \in Users /\ users[u] \in UserRow
           /\ \A k \in Rows(roles) : k \in Roles /\ roles[k] \in Names
           /\ \A u \in Users : assigned[u] \subseteq Rows(roles) /\ assigned[u] \subseteq Roles
BY DEF TablesOK, Rows, UserTable, RoleTable, AssignedRolesExist

LEMMA ReceiveKeeps ==
    ASSUME TablesOK, ThreadsOK, NEW r \in Requests, Receive(r)
    PROVE  ThreadsOK'
<1>1. PICK q \in Request :
          /\ q.kind = "PASSWORD" => q.user \in Rows(users)
          /\ req' = [req EXCEPT ![r] = q]
          /\ copy' = [copy EXCEPT ![r] = IF q.kind = "PASSWORD" THEN Read(q.user) ELSE NoCopy]
          /\ work' = [work EXCEPT ![r].left =
                IF q.kind \in AddKinds \cup ChangeKinds THEN q.names ELSE {}]
          /\ pc' = [pc EXCEPT ![r] = FirstStep(q.kind)]
  BY DEF Receive, Goto
<1> DEFINE left == IF q.kind \in AddKinds \cup ChangeKinds THEN q.names ELSE {}
           w == [work[r] EXCEPT !.left = left]
           c == IF q.kind = "PASSWORD" THEN Read(q.user) ELSE NoCopy
<1>2. left \in SUBSET Names
  BY RequestFields
<1>3. work[r] \in Work /\ pc[r] = "idle"
  BY DEF ThreadsOK, Receive
<1>4. w \in Work /\ w.renamed = work[r].renamed
  BY <1>2, <1>3 DEF Work
<1>5. work' = [work EXCEPT ![r] = w]
  BY <1>1
<1>6. FirstStep(q.kind) \in Steps
  BY DEF FirstStep, Steps
<1>7. work[r].renamed = {}
  BY <1>3 DEF ThreadsOK, ControlOK, RenamesItsCopies
<1>8. pc'[r] = FirstStep(q.kind) /\ req'[r] = q /\ copy'[r] = c /\ work'[r] = w
  BY <1>1, <1>5 DEF ThreadsOK
<1>9. StepsServe(r)'
  <2>1. CASE q \in AddRequest
    BY <2>1, <1>8 DEF StepsServe, FirstStep, AddRequest, AddKinds, ChangeKinds
  <2>2. CASE q \in ChangeRequest
    BY <2>2, <1>8 DEF StepsServe, FirstStep, ChangeRequest, AddKinds, ChangeKinds
  <2>3. CASE q \in UserRequest
    BY <2>3, <1>8 DEF StepsServe, FirstStep, UserRequest, AddKinds, ChangeKinds
  <2>4. CASE q \in RoleRequest
    BY <2>4, <1>8 DEF StepsServe, FirstStep, RoleRequest, AddKinds, ChangeKinds
  <2> QED
    BY <2>1, <2>2, <2>3, <2>4 DEF Request
<1>10. CopiesWereRows(r)'
  <2>1. CASE q.kind = "PASSWORD"
    <3>1. q.user \in Users /\ users[q.user] \in UserRow
          /\ assigned[q.user] \subseteq Rows(roles) /\ assigned[q.user] \subseteq Roles
      BY <1>1, <2>1, RowsAreTyped
    <3>2. c = [row |-> users[q.user], on |-> assigned[q.user],
               names |-> [k \in assigned[q.user] |-> roles[k]]]
      BY <2>1 DEF Read
    <3>3. c.names \in [c.on -> Names]
      BY <3>1, <3>2, RowsAreTyped
    <3> QED
      BY <1>8, <2>1, <3>1, <3>2, <3>3 DEF CopiesWereRows, ChangeKinds
  <2>2. CASE q.kind # "PASSWORD"
    BY <1>8, <2>2 DEF CopiesWereRows, FirstStep, ChangeKinds, AddKinds
  <2> QED
    BY <2>1, <2>2
<1>11. RenamesItsCopies(r)'
  BY <1>4, <1>7, <1>8 DEF RenamesItsCopies
<1> HIDE DEF w, c
<1> QED
  BY <1>1, <1>4, <1>5, <1>6, <1>9, <1>10, <1>11, StepKeepsControl DEF ControlOK, c

LEMMA FindKeeps ==
    ASSUME TablesOK, ThreadsOK, BootOK, NEW r \in Requests, Find(r)
    PROVE  ThreadsOK' /\ BootOK' /\ UNCHANGED tables
<1> DEFINE q == req[r]
           ofUser == q.kind \in ChangeKinds \cup {"DELETE"}
           c == IF ofUser THEN ReadRow(q.user) ELSE ReadRole(q.role)
           step == CASE q.kind \in ChangeKinds -> "email"
                     [] q.kind = "RENAME_ROLE" -> "name"
                     [] q.kind = "DELETE_ROLE" -> "unused"
                     [] q.kind = "DELETE" -> "flush"
<1>1. /\ pc[r] = "find" /\ q \in Request
      /\ q.kind \in ChangeKinds \cup {"DELETE", "RENAME_ROLE", "DELETE_ROLE"}
  BY DEF Find, ThreadsOK, ControlOK, StepsServe
<1>2. CASE Fail(r)
  BY <1>2, EndKeepsControl DEF Fail
<1>3. CASE /\ IF ofUser THEN q.user \in Rows(users) ELSE q.role \in Rows(roles)
           /\ copy' = [copy EXCEPT ![r] = c]
           /\ Goto(r, step)
           /\ UNCHANGED <<tables, req, work, boot>>
  <2>1. step \in Steps /\ step # "find" /\ step # "merge" /\ step # "roles" /\ step # "idle"
        /\ (step = "email" => q.kind \in ChangeKinds)
        /\ (step = "name" => q.kind = "RENAME_ROLE") /\ (step = "unused" => q.kind = "DELETE_ROLE")
    BY <1>1 DEF Steps, ChangeKinds
  <2>2. q.kind \in ChangeKinds => c.row \in UserRow
    BY <1>3, RowsAreTyped DEF ReadRow
  <2>3. work[r] \in Work /\ work[r].renamed = {}
    BY <1>1 DEF ThreadsOK, ControlOK, RenamesItsCopies, ChangeKinds
  <2>4. pc' = [pc EXCEPT ![r] = step] /\ req' = [req EXCEPT ![r] = q]
        /\ work' = [work EXCEPT ![r] = work[r]] /\ copy' = [copy EXCEPT ![r] = c]
    BY <1>3 DEF ThreadsOK, Goto
  <2>5. pc'[r] = step /\ req'[r] = q /\ copy'[r] = c /\ work'[r] = work[r]
    BY <2>4 DEF ThreadsOK
  <2> HIDE DEF c, step
  <2>6. ControlOK(r)'
    BY <1>1, <2>1, <2>2, <2>3, <2>5
       DEF ControlOK, StepsServe, CopiesWereRows, RenamesItsCopies, ChangeKinds, AddKinds
  <2>7. ThreadsOK'
    BY <1>1, <2>1, <2>3, <2>4, <2>6, StepKeepsControl
  <2> QED
    BY <1>3, <2>7 DEF BootOK
<1> QED
  BY <1>2, <1>3 DEF Find

(* A check that passes only moves the thread on.                           *)
LEMMA PassingKeeps ==
    ASSUME ThreadsOK, NEW r \in Requests, NEW step \in {"roles", "flush"},
           pc[r] \notin {"idle", "find"},
           step = "roles" => req[r].kind \in AddKinds \cup ChangeKinds,
           Goto(r, step), UNCHANGED <<req, copy, work>>
    PROVE  ThreadsOK'
<1>1. step \in Steps /\ work[r] \in Work /\ req[r] \in Request \cup {NoRequest}
  BY DEF Steps, ThreadsOK
<1>2. /\ pc' = [pc EXCEPT ![r] = step] /\ req' = [req EXCEPT ![r] = req[r]]
      /\ copy' = [copy EXCEPT ![r] = copy[r]] /\ work' = [work EXCEPT ![r] = work[r]]
  BY DEF Goto, ThreadsOK
<1>3. pc'[r] = step /\ req'[r] = req[r] /\ copy'[r] = copy[r] /\ work'[r] = work[r]
  BY <1>2 DEF ThreadsOK
<1>4. ControlOK(r)'
  BY <1>3 DEF ThreadsOK, ControlOK, StepsServe, CopiesWereRows, RenamesItsCopies
<1> QED
  BY <1>1, <1>2, <1>4, StepKeepsControl

LEMMA ChecksKeep ==
    ASSUME ThreadsOK, BootOK, NEW r \in Requests,
           CheckEmail(r) \/ CheckName(r) \/ CheckUnused(r)
    PROVE  ThreadsOK' /\ BootOK' /\ UNCHANGED tables
<1>1. CASE Fail(r)
  BY <1>1, EndKeepsControl DEF Fail
<1>2. CASE CheckEmail(r) /\ ~Fail(r)
  <2>1. pc[r] = "email" /\ Goto(r, "roles") /\ UNCHANGED <<tables, req, copy, work, boot>>
    BY <1>2 DEF CheckEmail
  <2>2. req[r].kind \in AddKinds \cup ChangeKinds
    BY <2>1 DEF ThreadsOK, ControlOK, StepsServe
  <2> QED
    BY <2>1, <2>2, PassingKeeps DEF BootOK
<1>3. CASE (CheckName(r) \/ CheckUnused(r)) /\ ~Fail(r)
  <2>1. /\ pc[r] \in {"name", "unused"} /\ Goto(r, "flush")
        /\ UNCHANGED <<tables, req, copy, work, boot>>
    BY <1>3 DEF CheckName, CheckUnused
  <2> QED
    BY <2>1, PassingKeeps DEF BootOK
<1> QED
  BY <1>1, <1>2, <1>3

LEMMA FindRolesKeeps ==
    ASSUME TablesOK, ThreadsOK, BootOK, NEW r \in Requests, FindRoles(r)
    PROVE  ThreadsOK' /\ BootOK' /\ UNCHANGED tables
<1>1. pc[r] = "roles" /\ work[r] \in Work
  BY DEF FindRoles, ThreadsOK
<1>2. CASE Fail(r)
  BY <1>2, EndKeepsControl DEF Fail
<1>3. CASE Goto(r, "flush") /\ UNCHANGED <<tables, req, copy, work, boot>>
  BY <1>1, <1>3, PassingKeeps DEF BootOK
<1>4. ASSUME NEW name \in work[r].left, NEW k \in HasName(roles, name),
             work' = [work EXCEPT ![r].left = @ \ {name}, ![r].on = @ \cup {k}],
             UNCHANGED <<tables, pc, req, copy, boot>>
      PROVE  ThreadsOK' /\ BootOK' /\ UNCHANGED tables
  <2> DEFINE w == [work[r] EXCEPT !.left = @ \ {name}, !.on = @ \cup {k}]
  <2>1. k \in Roles
    BY RowsAreTyped DEF HasName
  <2>2. w \in Work /\ w.renamed = work[r].renamed
    BY <1>1, <2>1 DEF Work
  <2>3. work' = [work EXCEPT ![r] = w]
    BY <1>4 DEF ThreadsOK
  <2> HIDE DEF w
  <2>4. /\ pc' = [pc EXCEPT ![r] = pc[r]] /\ req' = [req EXCEPT ![r] = req[r]]
        /\ copy' = [copy EXCEPT ![r] = copy[r]] /\ pc[r] \in Steps
        /\ req[r] \in Request \cup {NoRequest}
    BY <1>4 DEF ThreadsOK
  <2>5. pc'[r] = pc[r] /\ req'[r] = req[r] /\ copy'[r] = copy[r] /\ work'[r] = w
    BY <1>4, <2>3 DEF ThreadsOK
  <2>6. ControlOK(r)'
    BY <2>2, <2>5 DEF ThreadsOK, ControlOK, StepsServe, CopiesWereRows, RenamesItsCopies
  <2>7. ThreadsOK'
    BY <2>2, <2>3, <2>4, <2>6, StepKeepsControl
  <2> QED
    BY <1>4, <2>7 DEF BootOK
<1> QED
  BY <1>2, <1>3, <1>4 DEF FindRoles

LEMMA MergeKeeps ==
    ASSUME TablesOK, ThreadsOK, BootOK, NEW r \in Requests, Merge(r)
    PROVE  ThreadsOK' /\ BootOK' /\ UNCHANGED tables
<1> DEFINE u == req[r].user
           old == copy[r]
           w == [NoWork EXCEPT !.row = old.row,
                               !.off = assigned[u] \ old.on,
                               !.on = old.on \ assigned[u],
                               !.renamed = {k \in old.on : roles[k] # old.names[k]}]
<1>1. /\ pc[r] = "merge" /\ req[r] \in Request /\ req[r].kind = "PASSWORD"
      /\ old.row \in UserRow /\ old.on \subseteq Roles /\ old.names \in [old.on -> Names]
  BY DEF Merge, ThreadsOK, ControlOK, StepsServe, CopiesWereRows
<1>2. u \in Users
  BY <1>1, RequestFields
<1>3. CASE Fail(r)
  BY <1>3, EndKeepsControl DEF Fail
<1>4. CASE /\ work' = [work EXCEPT ![r] = w]
           /\ Goto(r, "flush")
           /\ UNCHANGED <<tables, req, copy, boot>>
  <2>1. w \in Work /\ w.renamed \subseteq old.on
    BY <1>1, <1>2, RowsAreTyped DEF NoWork, Work
  <2> HIDE DEF w
  <2>2. /\ pc' = [pc EXCEPT ![r] = "flush"] /\ req' = [req EXCEPT ![r] = req[r]]
        /\ copy' = [copy EXCEPT ![r] = old] /\ "flush" \in Steps
    BY <1>4 DEF ThreadsOK, Goto, Steps
  <2>3. pc'[r] = "flush" /\ req'[r] = req[r] /\ copy'[r] = old /\ work'[r] = w
    BY <1>4, <2>2 DEF ThreadsOK
  <2>4. ControlOK(r)'
    BY <1>1, <2>1, <2>3 DEF ControlOK, StepsServe, CopiesWereRows, RenamesItsCopies, ChangeKinds
  <2>5. ThreadsOK'
    BY <1>1, <1>4, <2>1, <2>2, <2>4, StepKeepsControl
  <2> QED
    BY <1>4, <2>5 DEF BootOK
<1> QED
  BY <1>3, <1>4 DEF Merge

LEMMA FlushKeeps ==
    ASSUME TablesOK, ThreadsOK, BootOK, NEW r \in Requests, Flush(r)
    PROVE  ThreadsOK' /\ BootOK' /\ UNCHANGED tables
<1> DEFINE q == req[r]
           row == CASE q.kind = "PUT" -> Columns(q, copy[r].row)
                    [] q.kind = "PATCH" -> IF Columns(q, copy[r].row) = copy[r].row
                                           THEN NoCopy ELSE Columns(q, copy[r].row)
                    [] OTHER -> work[r].row
           off == IF ReplacesRoles(q) \/ q.kind = "DELETE" THEN assigned[q.user] ELSE work[r].off
           w == [work[r] EXCEPT !.row = row, !.off = off]
<1>1. pc[r] = "flush" /\ q \in Request /\ work[r] \in Work
  BY DEF Flush, ThreadsOK, ControlOK, StepsServe
<1>2. row \in UserRow \cup {NoCopy}
  <2>1. CASE q.kind \in ChangeKinds
    <3>1. copy[r].row \in UserRow
      BY <1>1, <2>1 DEF ThreadsOK, ControlOK, CopiesWereRows
    <3>2. Columns(q, copy[r].row) \in UserRow
      BY <1>1, <2>1, <3>1, ColumnsAreRow
    <3> QED
      BY <2>1, <3>2 DEF ChangeKinds
  <2>2. CASE q.kind \notin ChangeKinds
    BY <1>1, <2>2 DEF ChangeKinds, Work
  <2> QED
    BY <2>1, <2>2
<1>3. off \in SUBSET Roles
  <2>1. CASE ReplacesRoles(q) \/ q.kind = "DELETE"
    BY <1>1, <2>1, RequestFields, RowsAreTyped DEF ReplacesRoles
  <2>2. CASE ~(ReplacesRoles(q) \/ q.kind = "DELETE")
    BY <1>1, <2>2 DEF Work
  <2> QED
    BY <2>1, <2>2
<1>4. CASE Fail(r)
  BY <1>4, EndKeepsControl DEF Fail
<1> HIDE DEF row, off
<1>5. CASE /\ work' = [work EXCEPT ![r].row = row, ![r].off = off]
           /\ Goto(r, "commit")
           /\ UNCHANGED <<tables, req, copy, boot>>
  <2>1. w \in Work /\ w.renamed = work[r].renamed
    BY <1>1, <1>2, <1>3 DEF Work
  <2>2. work' = [work EXCEPT ![r] = w]
    BY <1>5 DEF ThreadsOK
  <2> HIDE DEF w
  <2>3. /\ pc' = [pc EXCEPT ![r] = "commit"] /\ req' = [req EXCEPT ![r] = q]
        /\ copy' = [copy EXCEPT ![r] = copy[r]] /\ "commit" \in Steps
    BY <1>5 DEF ThreadsOK, Goto, Steps
  <2>4. pc'[r] = "commit" /\ req'[r] = q /\ copy'[r] = copy[r] /\ work'[r] = w
    BY <1>5, <2>2, <2>3 DEF ThreadsOK
  <2>5. ControlOK(r)'
    BY <1>1, <2>1, <2>4 DEF ThreadsOK, ControlOK, StepsServe, CopiesWereRows, RenamesItsCopies
  <2>6. ThreadsOK'
    BY <1>1, <2>1, <2>2, <2>3, <2>5, StepKeepsControl
  <2> QED
    BY <1>5, <2>6 DEF BootOK
<1> QED
  BY <1>4, <1>5 DEF Flush, Replaced, off, row
-----------------------------------------------------------------------------
(* The commits.  Names and columns are no marks of an absent row.          *)
LEMMA NeverAbsent ==
    /\ \A n \in Names : n \notin {Unused, Deleted}
    /\ \A row \in UserRow : row \notin {Unused, Deleted}
BY AbsentAssumption

LEMMA SaveNewKeeps ==
    ASSUME TablesOK, NEW r \in Requests, req[r] \in Request, work[r] \in Work, SaveNew(r)
    PROVE  TablesOK'
<1> DEFINE q == req[r]
           w == work[r]
           given == EmailsOf(q)
<1>1. /\ q.kind \in AddKinds /\ q.active # Null
      /\ \A e \in given : HasEmail(users, e) = {}
      /\ w.on \subseteq Rows(roles)
  BY DEF SaveNew, InsertAccepted, Inserted, UniqueEmail
<1>2. PICK id \in [given -> Users] :
          /\ \A e, f \in given : id[e] = id[f] => e = f
          /\ \A e \in given : users[id[e]] = Unused
          /\ users' = [u \in Users |->
                IF u \in {id[e] : e \in given}
                THEN [email |-> CHOOSE e \in given : id[e] = u, active |-> q.active]
                ELSE users[u]]
          /\ assigned' = [u \in Users |-> IF u \in {id[e] : e \in given} THEN w.on ELSE assigned[u]]
  BY DEF SaveNew, Inserted
<1>3. roles' = roles
  BY DEF SaveNew
<1> DEFINE new == {id[e] : e \in given}
<1>4. given \subseteq Emails /\ q.active \in BOOLEAN
  BY <1>1, RequestFields
<1> HIDE DEF given, w, q
<1>5. ASSUME NEW e \in given
      PROVE  users'[id[e]] = [email |-> e, active |-> q.active] /\ assigned'[id[e]] = w.on
             /\ id[e] \in Users
  <2>1. (CHOOSE f \in given : id[f] = id[e]) = e
    BY <1>2
  <2> QED
    BY <1>2, <2>1
<1>5a. ASSUME NEW e \in given PROVE users'[id[e]] \in UserRow /\ users'[id[e]].email = e
  <2>1. users'[id[e]] = [email |-> e, active |-> q.active] /\ e \in Emails
    BY <1>4, <1>5
  <2> QED
    BY <1>4, <2>1 DEF UserRow
<1>6. \A u \in Users \ new : users'[u] = users[u] /\ assigned'[u] = assigned[u]
  BY <1>2
<1>7. users' \in UserTable
  <2>1. \A u \in Users : users'[u] \in UserRow \cup {Unused, Deleted}
    BY <1>5a, <1>6 DEF TablesOK, UserTable
  <2> QED
    BY <1>2, <2>1 DEF UserTable
<1>8. assigned' \in [Users -> SUBSET Roles]
  BY <1>1, <1>2, RowsAreTyped DEF TablesOK, Rows, RoleTable
<1>9. Rows(users)' = Rows(users) \cup new
  <2>1. \A e \in given : users'[id[e]] \in UserRow
    BY <1>5a
  <2> QED
    BY <1>5, <1>6, <1>7, <2>1, NeverAbsent DEF Rows, UserTable, TablesOK
<1>10. UniqueEmails'
  <2> SUFFICES ASSUME NEW u \in Rows(users)', NEW v \in Rows(users)',
                      users'[u].email = users'[v].email
               PROVE  u = v
    BY DEF UniqueEmails
  <2>1. \A e \in given : users'[id[e]].email = e
    BY <1>5a
  <2>2. \A x \in Rows(users) \ new : users'[x] = users[x] /\ users[x].email \notin given
    BY <1>1, <1>6 DEF HasEmail, Rows, UserTable, TablesOK
  <2>3. CASE u \in new /\ v \in new
    BY <2>1, <2>3
  <2>4. CASE u \notin new /\ v \notin new
    BY <1>9, <2>2, <2>4 DEF TablesOK, UniqueEmails
  <2>5. CASE u \in new /\ v \notin new
    BY <1>9, <2>1, <2>2, <2>5
  <2>6. CASE u \notin new /\ v \in new
    BY <1>9, <2>1, <2>2, <2>6
  <2> QED
    BY <2>3, <2>4, <2>5, <2>6
<1>11. UniqueRoleNames' /\ Rows(roles)' = Rows(roles) /\ (roles \in RoleTable)'
  BY <1>3 DEF TablesOK, UniqueRoleNames, Rows
<1>12. AssignedRolesExist'
  <2> SUFFICES ASSUME NEW u \in Users
               PROVE  /\ assigned'[u] \subseteq Rows(roles)
                      /\ u \notin Rows(users)' => assigned'[u] = {}
    BY <1>11 DEF AssignedRolesExist
  <2>1. CASE u \in new
    BY <1>1, <1>5, <1>9, <2>1 DEF w
  <2>2. CASE u \notin new
    BY <1>6, <1>9, <2>2 DEF TablesOK, AssignedRolesExist
  <2> QED
    BY <2>1, <2>2
<1> QED
  BY <1>7, <1>8, <1>10, <1>11, <1>12 DEF TablesOK

LEMMA SaveChangedKeeps ==
    ASSUME TablesOK, NEW r \in Requests, req[r] \in Request, work[r] \in Work,
           CopiesWereRows(r), RenamesItsCopies(r), SaveChanged(r)
    PROVE  TablesOK'
<1> DEFINE q == req[r]
           w == work[r]
           u == q.user
<1>1. /\ q.kind \in ChangeKinds \cup {"PASSWORD"}
      /\ w.row # NoCopy \/ w.on # {} => u \in Rows(users)
      /\ w.row # NoCopy => HasEmail(users, w.row.email) \subseteq {u}
      /\ w.on \subseteq Rows(roles) /\ w.renamed \subseteq Rows(roles)
      /\ NamesAccepted(r)
      /\ users' = IF w.row = NoCopy THEN users ELSE [users EXCEPT ![u] = w.row]
      /\ assigned' = [assigned EXCEPT ![u] = (@ \ w.off) \cup w.on]
      /\ roles' = Renamed(r)
  BY DEF SaveChanged, ChangeAccepted, UniqueEmail
<1>2. u \in Users
  BY <1>1, RequestFields
<1>3. w.row \in UserRow \cup {NoCopy} /\ w.on \subseteq Roles
  BY DEF Work
<1>4. \A k \in w.renamed : copy[r].names[k] \in Names
  BY DEF CopiesWereRows, RenamesItsCopies
<1>5. roles' = [k \in Roles |-> IF k \in w.renamed THEN copy[r].names[k] ELSE roles[k]]
  BY <1>1 DEF Renamed
<1>6. roles' \in RoleTable
  BY <1>4, <1>5 DEF RoleTable, TablesOK
<1>7. Rows(roles)' = Rows(roles)
  BY <1>1, <1>4, <1>5, NeverAbsent DEF Rows, RoleTable, TablesOK
<1>8. UniqueRoleNames'
  <2> SUFFICES ASSUME NEW k \in Rows(roles), NEW l \in Rows(roles), roles'[k] = roles'[l]
               PROVE  k = l
    BY <1>7 DEF UniqueRoleNames
  <2>1. \A x \in w.renamed, y \in Rows(roles) : roles'[x] = roles'[y] => x = y
    BY <1>1, <1>7 DEF NamesAccepted, FreeAtLast, Rows
  <2>2. CASE k \in w.renamed \/ l \in w.renamed
    BY <2>1, <2>2
  <2>3. CASE k \notin w.renamed /\ l \notin w.renamed
    BY <1>5, <2>3, RowsAreTyped DEF TablesOK, UniqueRoleNames
  <2> QED
    BY <2>2, <2>3
<1>9. users' \in UserTable /\ Rows(users)' = Rows(users)
  <2>1. CASE w.row = NoCopy
    BY <1>1, <2>1 DEF TablesOK, Rows
  <2>2. CASE w.row # NoCopy
    BY <1>1, <1>2, <1>3, <2>2, NeverAbsent DEF TablesOK, Rows, UserTable
  <2> QED
    BY <2>1, <2>2
<1>10. UniqueEmails'
  <2>1. CASE w.row = NoCopy
    BY <1>1, <2>1 DEF TablesOK, UniqueEmails, Rows
  <2>2. CASE w.row # NoCopy
    <3>1. u \in Rows(users) /\ users'[u] = w.row
      BY <1>1, <1>2, <2>2 DEF TablesOK, UserTable
    <3>2. \A v \in Rows(users) \ {u} : users'[v] = users[v] /\ users[v].email # w.row.email
      BY <1>1, <2>2 DEF HasEmail, TablesOK, UserTable, Rows
    <3> QED
      BY <1>9, <3>1, <3>2 DEF TablesOK, UniqueEmails
  <2> QED
    BY <2>1, <2>2
<1>11. assigned' \in [Users -> SUBSET Roles]
  BY <1>1, <1>2, <1>3 DEF TablesOK
<1>12. AssignedRolesExist'
  <2> SUFFICES ASSUME NEW v \in Users
               PROVE  /\ assigned'[v] \subseteq Rows(roles)
                      /\ v \notin Rows(users) => assigned'[v] = {}
    BY <1>7, <1>9 DEF AssignedRolesExist
  <2>1. assigned'[v] = IF v = u THEN (assigned[u] \ w.off) \cup w.on ELSE assigned[v]
    BY <1>1, <1>2 DEF TablesOK
  <2> QED
    BY <1>1, <2>1 DEF TablesOK, AssignedRolesExist
<1> QED
  BY <1>6, <1>8, <1>9, <1>10, <1>11, <1>12 DEF TablesOK

LEMMA SaveDeletedKeeps ==
    ASSUME TablesOK, NEW r \in Requests, SaveDeleted(r)
    PROVE  TablesOK'
<1> DEFINE u == req[r].user
<1>1. /\ u \in Rows(users)
      /\ users' = [users EXCEPT ![u] = Deleted]
      /\ assigned' = [assigned EXCEPT ![u] = {}]
      /\ roles' = roles
  BY DEF SaveDeleted
<1>2. users' \in UserTable /\ Rows(users)' = Rows(users) \ {u}
  BY <1>1 DEF TablesOK, UserTable, Rows
<1>3. \A v \in Rows(users)' : users'[v] = users[v]
  BY <1>1, <1>2 DEF Rows, TablesOK, UserTable
<1>4. UniqueEmails'
  BY <1>2, <1>3 DEF TablesOK, UniqueEmails
<1>5. assigned' \in [Users -> SUBSET Roles]
  BY <1>1 DEF TablesOK
<1>6. Rows(roles)' = Rows(roles) /\ UniqueRoleNames' /\ (roles \in RoleTable)'
  BY <1>1 DEF TablesOK, UniqueRoleNames, Rows
<1>7. AssignedRolesExist'
  BY <1>1, <1>2, <1>6 DEF TablesOK, AssignedRolesExist
<1> QED
  BY <1>2, <1>4, <1>5, <1>6, <1>7 DEF TablesOK

LEMMA SaveRoleKeeps ==
    ASSUME TablesOK, NEW r \in Requests, req[r] \in Request, SaveRole(r)
    PROVE  TablesOK'
<1> DEFINE q == req[r]
<1>1. users' = users /\ assigned' = assigned
  BY DEF SaveRole
<1>2. Rows(users)' = Rows(users) /\ UniqueEmails' /\ (users \in UserTable)'
      /\ (assigned \in [Users -> SUBSET Roles])'
  BY <1>1 DEF TablesOK, UniqueEmails, Rows
<1>3. SUFFICES /\ roles' \in RoleTable /\ UniqueRoleNames'
               /\ \A u \in Users : assigned[u] \subseteq Rows(roles)'
  BY <1>1, <1>2, <1>3 DEF TablesOK, AssignedRolesExist
<1>4. CASE roles' = roles
  BY <1>4 DEF TablesOK, UniqueRoleNames, Rows, AssignedRolesExist
<1>5. ASSUME NEW k \in Roles, q.name \in Names, roles' = [roles EXCEPT ![k] = q.name],
             HasName(roles, q.name) \subseteq {k}
      PROVE  /\ roles' \in RoleTable /\ UniqueRoleNames'
             /\ \A u \in Users : assigned[u] \subseteq Rows(roles)'
  <2>1. roles' \in RoleTable /\ Rows(roles)' = Rows(roles) \cup {k}
    BY <1>5, NeverAbsent DEF TablesOK, RoleTable, Rows
  <2>2. roles'[k] = q.name
    BY <1>5 DEF TablesOK, RoleTable
  <2>3. \A l \in Rows(roles) \ {k} : roles'[l] = roles[l] /\ roles[l] # q.name
    BY <1>5 DEF TablesOK, RoleTable, HasName, Rows
  <2>4. UniqueRoleNames'
    BY <2>1, <2>2, <2>3 DEF TablesOK, UniqueRoleNames
  <2> QED
    BY <2>1, <2>4 DEF TablesOK, AssignedRolesExist
<1>6. CASE q.kind = "ADD_ROLE" /\ roles' # roles
  <2>1. HasName(roles, q.name) = {} /\ \E k \in Roles : roles' = [roles EXCEPT ![k] = q.name]
    BY <1>6 DEF SaveRole, UniqueName
  <2>2. PICK k \in Roles : roles' = [roles EXCEPT ![k] = q.name]
    BY <2>1
  <2>3. q.name \in Names /\ HasName(roles, q.name) \subseteq {k}
    BY <1>6, <2>1, RequestFields
  <2> QED
    BY <1>5, <2>2, <2>3
<1>7. CASE q.kind = "RENAME_ROLE" /\ roles' # roles
  <2>1. /\ HasName(roles, q.name) \subseteq {q.role}
        /\ roles' = [roles EXCEPT ![q.role] = q.name]
    BY <1>7 DEF SaveRole, UniqueName
  <2> QED
    BY <1>5, <1>7, <2>1, RequestFields
<1>8. CASE q.kind = "DELETE_ROLE" /\ roles' # roles
  <2>1. /\ q.role \in Rows(roles) /\ \A u \in Users : q.role \notin assigned[u]
        /\ roles' = [roles EXCEPT ![q.role] = Deleted]
    BY <1>8 DEF SaveRole, Deletable, Unassigned
  <2>2. roles' \in RoleTable /\ Rows(roles)' = Rows(roles) \ {q.role}
    BY <2>1 DEF TablesOK, RoleTable, Rows
  <2>3. \A l \in Rows(roles)' : roles'[l] = roles[l]
    BY <2>1, <2>2 DEF Rows, TablesOK, RoleTable
  <2>4. UniqueRoleNames'
    BY <2>2, <2>3 DEF TablesOK, UniqueRoleNames
  <2>5. \A u \in Users : assigned[u] \subseteq Rows(roles)'
    BY <2>1, <2>2 DEF TablesOK, AssignedRolesExist
  <2> QED
    BY <2>2, <2>4, <2>5
<1> QED
  BY <1>4, <1>6, <1>7, <1>8 DEF SaveRole

LEMMA EndInitKeeps ==
    ASSUME TablesOK, BootOK, EndInit
    PROVE  TablesOK' /\ BootOK'
<1>1. PICK id \in [boot.new -> Roles] :
          /\ \A m, n \in boot.new : id[m] = id[n] => m = n
          /\ \A n \in boot.new : roles[id[n]] = Unused
          /\ roles' = [k \in Roles |-> IF \E n \in boot.new : id[n] = k
                                       THEN CHOOSE n \in boot.new : id[n] = k ELSE roles[k]]
  BY DEF EndInit
<1>2. \A n \in boot.new : HasName(roles, n) = {}
  BY DEF EndInit, UniqueName
<1>3. boot.new \subseteq Names /\ boot.admin \subseteq Roles
  BY DEF BootOK
<1> DEFINE new == {id[n] : n \in boot.new}
<1>4. \A n \in boot.new : id[n] \in Roles /\ roles'[id[n]] = n
  BY <1>1
<1>5. \A k \in Roles \ new : roles'[k] = roles[k]
  BY <1>1
<1>6. roles' \in RoleTable
  BY <1>1, <1>3, <1>4, <1>5 DEF TablesOK, RoleTable
<1>7. Rows(roles)' = Rows(roles) \cup new
  BY <1>3, <1>4, <1>5, <1>6, NeverAbsent DEF Rows, RoleTable, TablesOK
<1>8. UniqueRoleNames'
  <2> SUFFICES ASSUME NEW k \in Rows(roles)', NEW l \in Rows(roles)', roles'[k] = roles'[l]
               PROVE  k = l
    BY DEF UniqueRoleNames
  <2>1. \A x \in Rows(roles) \ new : roles'[x] = roles[x] /\ roles[x] \notin boot.new
    BY <1>2, <1>5 DEF HasName, Rows, RoleTable, TablesOK
  <2>2. \A x \in new : x = id[roles'[x]] /\ roles'[x] \in boot.new
    BY <1>4
  <2> QED
    BY <1>7, <2>1, <2>2 DEF TablesOK, UniqueRoleNames
<1>9. BootOK'
  BY DEF EndInit, BootOK, BootSteps
<1>10. CASE UNCHANGED <<users, assigned>>
  <2>1. Rows(users)' = Rows(users) /\ UniqueEmails'
    BY <1>10 DEF TablesOK, UniqueEmails, Rows
  <2> QED
    BY <1>6, <1>7, <1>8, <1>9, <1>10, <2>1 DEF TablesOK, AssignedRolesExist
<1>11. CASE ~UNCHANGED <<users, assigned>>
  <2> DEFINE admin == [email |-> AdminEmail, active |-> TRUE]
  <2>1. /\ HasEmail(users, AdminEmail) = {} /\ boot.admin \subseteq Rows(roles)
        /\ \E u \in Users : /\ users[u] = Unused
                            /\ users' = [users EXCEPT ![u] = admin]
                            /\ assigned' = [assigned EXCEPT ![u] = RolesOfAdmin]
    BY <1>11 DEF EndInit, UniqueEmail
  <2>2. PICK u \in Users : /\ users[u] = Unused
                           /\ users' = [users EXCEPT ![u] = admin]
                           /\ assigned' = [assigned EXCEPT ![u] = RolesOfAdmin]
    BY <2>1
  <2>3. admin \in UserRow /\ admin.email = AdminEmail
    BY EmailAssumption DEF UserRow
  <2> HIDE DEF admin
  <2>4. users' \in UserTable /\ Rows(users)' = Rows(users) \cup {u}
    BY <2>2, <2>3, NeverAbsent DEF TablesOK, UserTable, Rows
  <2>5. UniqueEmails'
    <3>1. users'[u] = admin
      BY <2>2 DEF TablesOK, UserTable
    <3>2. \A v \in Rows(users) \ {u} : users'[v] = users[v] /\ users[v].email # AdminEmail
      BY <2>1, <2>2 DEF HasEmail, Rows, TablesOK, UserTable
    <3> QED
      BY <2>3, <2>4, <3>1, <3>2 DEF TablesOK, UniqueEmails
  <2>6. RolesOfAdmin \subseteq Rows(roles)' /\ RolesOfAdmin \subseteq Roles
    <3>1. HasName(roles', AdminRole) \subseteq Rows(roles)' /\ Rows(roles)' \subseteq Roles
      BY <1>6 DEF HasName, Rows, RoleTable
    <3> QED
      BY <1>3, <1>7, <2>1, <3>1 DEF RolesOfAdmin
  <2> HIDE DEF new
  <2>7. assigned' \in [Users -> SUBSET Roles]
    BY <2>2, <2>6 DEF TablesOK
  <2>8. AssignedRolesExist'
    <3>1. \A v \in Users \ {u} : assigned'[v] = assigned[v]
      BY <2>2 DEF TablesOK
    <3>2. assigned'[u] \subseteq Rows(roles)'
      BY <2>2, <2>6 DEF TablesOK
    <3> QED
      BY <1>7, <2>4, <3>1, <3>2 DEF TablesOK, AssignedRolesExist
  <2> QED
    BY <1>6, <1>8, <1>9, <2>4, <2>5, <2>7, <2>8 DEF TablesOK
<1> QED
  BY <1>10, <1>11
-----------------------------------------------------------------------------
(* The parts the lemmas look at, together, are Inv. *)
LEMMA InvParts == Inv <=> TablesOK /\ ThreadsOK /\ BootOK
BY DEF Inv, TypeOK, TablesOK, ThreadsOK, ControlOK, BootOK

LEMMA UnchangedTables ==
    ASSUME TablesOK, UNCHANGED tables
    PROVE  TablesOK'
BY DEF TablesOK, tables, UniqueEmails, UniqueRoleNames, AssignedRolesExist, Rows

LEMMA UnchangedThreads ==
    ASSUME ThreadsOK, UNCHANGED <<pc, req, copy, work>>
    PROVE  ThreadsOK'
BY DEF ThreadsOK, ControlOK, StepsServe, CopiesWereRows, RenamesItsCopies

LEMMA SaveKeeps ==
    ASSUME TablesOK, ThreadsOK, BootOK, NEW r \in Requests, Save(r)
    PROVE  TablesOK' /\ ThreadsOK' /\ BootOK'
<1>1. /\ req[r] \in Request /\ work[r] \in Work
      /\ CopiesWereRows(r) /\ RenamesItsCopies(r)
  BY DEF Save, ThreadsOK, ControlOK, StepsServe
<1>2. TablesOK'
  BY <1>1, SaveNewKeeps, SaveChangedKeeps, SaveDeletedKeeps, SaveRoleKeeps DEF Save
<1> QED
  BY <1>2, EndKeepsControl DEF Save

LEMMA NextKeepsInv ==
    ASSUME Inv, [Next]_vars
    PROVE  Inv'
<1>1. TablesOK /\ ThreadsOK /\ BootOK
  BY InvParts
<1> SUFFICES TablesOK' /\ ThreadsOK' /\ BootOK'
  BY InvParts, PTL
<1>2. CASE UNCHANGED vars
  BY <1>1, <1>2, UnchangedTables, UnchangedThreads DEF vars, tables, BootOK
<1>3. ASSUME NEW r \in Requests, Receive(r) PROVE TablesOK' /\ ThreadsOK' /\ BootOK'
  BY <1>1, <1>3, ReceiveKeeps, UnchangedTables DEF Receive, BootOK
<1>4. ASSUME NEW r \in Requests, Handle(r) PROVE TablesOK' /\ ThreadsOK' /\ BootOK'
  <2>1. CASE Find(r)
    BY <1>1, <2>1, FindKeeps, UnchangedTables
  <2>2. CASE CheckEmail(r) \/ CheckName(r) \/ CheckUnused(r)
    BY <1>1, <2>2, ChecksKeep, UnchangedTables
  <2>3. CASE FindRoles(r)
    BY <1>1, <2>3, FindRolesKeeps, UnchangedTables
  <2>4. CASE Merge(r)
    BY <1>1, <2>4, MergeKeeps, UnchangedTables
  <2>5. CASE Flush(r)
    BY <1>1, <2>5, FlushKeeps, UnchangedTables
  <2>6. CASE Save(r)
    BY <1>1, <2>6, SaveKeeps
  <2>7. CASE Refused(r)
    BY <1>1, <2>7, EndKeepsControl, UnchangedTables DEF Refused, Fail
  <2> QED
    BY <1>4, <2>1, <2>2, <2>3, <2>4, <2>5, <2>6, <2>7 DEF Handle
<1>5. CASE StartInit \/ InitRoles \/ InitAdmin
  <2>1. UNCHANGED <<tables, pc, req, copy, work>>
    BY <1>5 DEF StartInit, InitRoles, InitAdmin
  <2>2. BootOK'
    <3>1. HasName(roles, AdminRole) \subseteq Roles
      BY <1>1, RowsAreTyped DEF HasName
    <3>2. CASE StartInit
      BY <3>2 DEF StartInit, BootOK, BootSteps
    <3>3. CASE InitRoles
      BY <1>1, <3>3, NameAssumption DEF InitRoles, RoleMissing, BootOK, BootSteps
    <3>4. CASE InitAdmin
      BY <1>1, <3>1, <3>4 DEF InitAdmin, BootOK, BootSteps
    <3> QED
      BY <1>5, <3>2, <3>3, <3>4
  <2> QED
    BY <1>1, <2>1, <2>2, UnchangedTables, UnchangedThreads
<1>6. CASE EndInit
  BY <1>1, <1>6, EndInitKeeps, UnchangedThreads DEF EndInit
<1>7. CASE Crash
  <2>1. ThreadsOK'
    BY <1>7, NoWorkIsWork
       DEF Crash, ThreadsOK, ControlOK, StepsServe, CopiesWereRows, RenamesItsCopies, NoWork, Steps
  <2>2. BootOK'
    BY <1>7 DEF Crash, BootOK, BootSteps
  <2> QED
    BY <1>1, <1>7, <2>1, <2>2, UnchangedTables DEF Crash
<1> QED
  BY <1>2, <1>3, <1>4, <1>5, <1>6, <1>7 DEF Next

(* Inv holds in every reachable state: whatever the interleaving of        *)
(* requests, merges of old copies, starts and stops.                       *)
THEOREM DirectoryInvariance == Spec => []Inv
BY InitInv, NextKeepsInv, PTL DEF Spec

(* Every variable holds what its place in the program can hold; for the    *)
(* tables that includes that no commit writes a null into a column.        *)
THEOREM DirectoryTypes == Spec => []TypeOK
<1>1. Inv => TypeOK
  BY DEF Inv
<1> QED
  BY <1>1, DirectoryInvariance, PTL

(* No two users ever have one email: the unique column makes up for checks *)
(* of existsByEmail that are stale at the commit.                          *)
THEOREM EmailsStayUnique == Spec => []UniqueEmails
<1>1. Inv => UniqueEmails
  BY DEF Inv
<1> QED
  BY <1>1, DirectoryInvariance, PTL

(* No two roles ever have one name, not even when a password change writes *)
(* old names back.                                                         *)
THEOREM RoleNamesStayUnique == Spec => []UniqueRoleNames
<1>1. Inv => UniqueRoleNames
  BY DEF Inv
<1> QED
  BY <1>1, DirectoryInvariance, PTL

(* Every membership leads from a user that exists to a role that exists.   *)
THEOREM MembershipsLead == Spec => []AssignedRolesExist
<1>1. Inv => AssignedRolesExist
  BY DEF Inv
<1> QED
  BY <1>1, DirectoryInvariance, PTL
-----------------------------------------------------------------------------
(* What a thread does to itself and to the others.                         *)
LEMMA EndIsIdle ==
    ASSUME Inv, NEW r \in Requests, EndRequest(r)
    PROVE  /\ pc'[r] = "idle"
           /\ \A s \in Requests \ {r} : /\ pc'[s] = pc[s] /\ req'[s] = req[s]
                                        /\ copy'[s] = copy[s] /\ work'[s] = work[s]
BY DEF EndRequest, Goto, Inv, TypeOK

(* A thread works for itself. *)
LEMMA OthersStay ==
    ASSUME Inv, NEW r \in Requests, Receive(r) \/ Handle(r)
    PROVE  \A s \in Requests \ {r} : /\ pc'[s] = pc[s] /\ req'[s] = req[s]
                                     /\ copy'[s] = copy[s] /\ work'[s] = work[s]
<1>1. CASE EndRequest(r)
  BY <1>1, EndIsIdle
<1>2. CASE ~EndRequest(r)
  <2>1. ~Fail(r)
    BY <1>2 DEF Fail
  <2>2. /\ pc \in [Requests -> Steps] /\ req \in [Requests -> Request \cup {NoRequest}]
        /\ copy = [s \in Requests |-> copy[s]] /\ work \in [Requests -> Work]
    BY DEF Inv, TypeOK
  <2>3. CASE Receive(r)
    BY <2>2, <2>3 DEF Receive, Goto
  <2>4. CASE Find(r) \/ CheckEmail(r) \/ FindRoles(r)
    BY <2>1, <2>2, <2>4 DEF Find, CheckEmail, FindRoles, Goto
  <2>5. CASE CheckName(r) \/ CheckUnused(r)
    BY <2>1, <2>2, <2>5 DEF CheckName, CheckUnused, Goto
  <2>6. CASE Merge(r) \/ Flush(r)
    BY <2>1, <2>2, <2>6 DEF Merge, Flush, Goto
  <2> QED
    BY <1>2, <2>1, <2>3, <2>4, <2>5, <2>6 DEF Handle, Save, Refused
<1> QED
  BY <1>1, <1>2

(* The work of a password change is made of its copy, in Merge.           *)
LEMMA MergesKeepTheirCopies ==
    ASSUME Inv, NEW r \in Requests, MergesItsCopy(r), Receive(r) \/ Handle(r)
    PROVE  MergesItsCopy(r)'
<1>1. CASE EndRequest(r)
  BY <1>1, EndIsIdle DEF MergesItsCopy
<1>2. CASE ~EndRequest(r)
  <2>1. ~Fail(r)
    BY <1>2 DEF Fail
  <2>2. /\ pc \in [Requests -> Steps] /\ req \in [Requests -> Request \cup {NoRequest}]
        /\ copy = [s \in Requests |-> copy[s]] /\ work \in [Requests -> Work]
        /\ StepsServe(r)
    BY DEF Inv, TypeOK
  <2>3. CASE Receive(r)
    <3>1. pc'[r] \in {"email", "merge", "name", "find"}
      BY <2>2, <2>3 DEF Receive, Goto, FirstStep
    <3> QED
      BY <3>1 DEF MergesItsCopy
  <2>4. CASE Find(r) \/ CheckEmail(r) \/ FindRoles(r) \/ CheckName(r) \/ CheckUnused(r)
    <3>1. pc[r] \in {"find", "email", "roles", "name", "unused"} /\ req'[r] = req[r]
      BY <2>1, <2>4 DEF Find, CheckEmail, FindRoles, CheckName, CheckUnused
    <3>2. req'[r].kind # "PASSWORD"
      BY <2>2, <3>1 DEF StepsServe, AddKinds, ChangeKinds
    <3> QED
      BY <3>2 DEF MergesItsCopy
  <2>5. CASE Merge(r)
    <3>1. req' = req /\ copy' = copy
      BY <2>1, <2>5 DEF Merge
    <3>2. /\ work'[r].row = copy[r].row
          /\ work'[r].off = assigned[req[r].user] \ copy[r].on
          /\ work'[r].on = copy[r].on \ assigned[req[r].user]
          /\ work'[r].renamed = {k \in copy[r].on : roles[k] # copy[r].names[k]}
      BY <2>1, <2>2, <2>5 DEF Merge, NoWork
    <3> QED
      BY <3>1, <3>2 DEF MergesItsCopy
  <2>6. CASE Flush(r)
    <3>1. pc[r] = "flush" /\ req' = req /\ copy' = copy
      BY <2>1, <2>6 DEF Flush
    <3>2. req[r].kind = "PASSWORD" => work'[r] = [work[r] EXCEPT !.row = work[r].row, !.off = work[r].off]
      BY <2>1, <2>2, <2>6 DEF Flush, ReplacesRoles, ChangeKinds
    <3>3. work[r] \in Work
      BY <2>2
    <3>4. req[r].kind = "PASSWORD" => work'[r] = work[r]
      BY <3>2, <3>3 DEF Work
    <3> QED
      BY <3>1, <3>4 DEF MergesItsCopy
  <2> QED
    BY <1>2, <2>1, <2>3, <2>4, <2>5, <2>6 DEF Handle, Save, Refused
<1> QED
  BY <1>1, <1>2
(* What a fresh merge writes is there already. *)
LEMMA FreshMergesWriteNothing ==
    ASSUME Inv, NEW r \in Requests, MergesItsCopy(r), pc[r] = "commit",
           req[r].kind = "PASSWORD", ~Stale(r), SaveChanged(r)
    PROVE  UNCHANGED tables
<1> DEFINE u == req[r].user
           w == work[r]
<1>1. copy[r] = Read(u)
  BY DEF Stale, AddKinds, ChangeKinds
<1>2. copy[r].row = users[u] /\ copy[r].on = assigned[u]
      /\ copy[r].names = [k \in assigned[u] |-> roles[k]]
  BY <1>1 DEF Read
<1>3. req[r] \in Request /\ u \in Users
  BY RequestFields DEF Inv, StepsServe
<1>4. users \in UserTable /\ roles \in RoleTable /\ assigned \in [Users -> SUBSET Roles]
  BY DEF Inv, TypeOK
<1>5. users' = users
  BY <1>2, <1>3, <1>4 DEF SaveChanged, MergesItsCopy, UserTable
<1>6. assigned' = assigned
  <2>1. (assigned[u] \ w.off) \cup w.on = assigned[u]
    BY <1>2 DEF MergesItsCopy
  <2> QED
    BY <1>3, <1>4, <2>1 DEF SaveChanged
<1>7. roles' = roles
  BY <1>2, <1>4 DEF SaveChanged, MergesItsCopy, Renamed, RoleTable
<1> QED
  BY <1>5, <1>6, <1>7 DEF tables
-----------------------------------------------------------------------------
(* Roles of users, when nobody changes a password.                         *)
KeepsRoles(r) == FindsItsRoles(r) /\ KeepsUnnamedRoles(r) /\ ServesNoPassword(r)

LEMMA OthersKeepRoles ==
    ASSUME ThreadsOK, NEW r \in Requests,
           \A s \in Requests \ {r} : /\ pc'[s] = pc[s] /\ req'[s] = req[s]
                                     /\ work'[s] = work[s],
           \A s \in Requests : KeepsRoles(s),
           KeepsRoles(r)'
    PROVE  \A s \in Requests : KeepsRoles(s)'
<1> TAKE s \in Requests
<1>1. CASE s = r
  BY <1>1
<1>2. CASE s # r
  <2>1. pc'[s] = pc[s] /\ req'[s] = req[s] /\ work'[s] = work[s]
    BY <1>2
  <2> QED
    BY <2>1 DEF KeepsRoles, FindsItsRoles, KeepsUnnamedRoles, ServesNoPassword
<1> QED
  BY <1>1, <1>2

LEMMA EndKeepsRoles ==
    ASSUME ThreadsOK, NEW r \in Requests, EndRequest(r), \A s \in Requests : KeepsRoles(s)
    PROVE  \A s \in Requests : KeepsRoles(s)'
<1>1. pc' = [pc EXCEPT ![r] = "idle"] /\ req' = [req EXCEPT ![r] = NoRequest]
      /\ work' = [work EXCEPT ![r] = NoWork]
  BY DEF EndRequest, Goto
<1>2. pc'[r] = "idle" /\ work'[r] = NoWork
  BY <1>1 DEF ThreadsOK
<1>3. KeepsRoles(r)'
  BY <1>2 DEF KeepsRoles, FindsItsRoles, KeepsUnnamedRoles, ServesNoPassword, NoWork
<1> QED
  BY <1>1, <1>3, OthersKeepRoles DEF ThreadsOK

LEMMA StepsKeepRoles ==
    ASSUME Inv, "PASSWORD" \notin Kinds, NEW r \in Requests, Receive(r) \/ Handle(r),
           \A s \in Requests : KeepsRoles(s)
    PROVE  \A s \in Requests : KeepsRoles(s)'
<1>1. TablesOK /\ ThreadsOK
  BY InvParts
<1>2. work[r] \in Work /\ pc[r] \in Steps
  BY <1>1 DEF ThreadsOK
<1>3. CASE EndRequest(r)
  BY <1>1, <1>3, EndKeepsRoles
<1>4. CASE Receive(r)
  <2>1. PICK q \in Request :
            /\ q.kind \in Kinds
            /\ pc[r] = "idle"
            /\ req' = [req EXCEPT ![r] = q]
            /\ work' = [work EXCEPT ![r].left =
                  IF q.kind \in AddKinds \cup ChangeKinds THEN q.names ELSE {}]
            /\ pc' = [pc EXCEPT ![r] = FirstStep(q.kind)]
    BY <1>4 DEF Receive, Goto
  <2>2. /\ pc'[r] = FirstStep(q.kind) /\ req'[r] = q
        /\ work'[r] = [work[r] EXCEPT !.left =
              IF q.kind \in AddKinds \cup ChangeKinds THEN q.names ELSE {}]
    BY <1>1, <2>1 DEF ThreadsOK
  <2>3. work'[r].off = {} /\ (q.kind \in AddKinds \cup ChangeKinds => work'[r].left = q.names)
    BY <1>2, <2>1, <2>2 DEF KeepsRoles, KeepsUnnamedRoles, Work
  <2>4. FirstStep(q.kind) \notin {"flush", "commit", "idle"} /\ q.kind # "PASSWORD"
    BY <2>1 DEF FirstStep
  <2>5. KeepsRoles(r)'
    BY <2>2, <2>3, <2>4 DEF KeepsRoles, FindsItsRoles, KeepsUnnamedRoles, ServesNoPassword
  <2> QED
    BY <1>1, <2>1, <2>5, OthersKeepRoles DEF ThreadsOK
<1>5. CASE Find(r) /\ ~EndRequest(r)
  <2>1. req[r].kind \in ChangeKinds \cup {"DELETE", "RENAME_ROLE", "DELETE_ROLE"} /\ pc[r] = "find"
    BY <1>1, <1>5 DEF Find, ThreadsOK, ControlOK, StepsServe
  <2>2. PICK step \in {"email", "name", "unused", "flush"} :
           /\ Goto(r, step) /\ UNCHANGED <<req, work>>
           /\ step = "email" <=> req[r].kind \in ChangeKinds
    BY <1>5, <2>1 DEF Find, Fail, ChangeKinds
  <2>3. pc'[r] = step /\ req'[r] = req[r] /\ work'[r] = work[r]
    BY <1>1, <2>2 DEF Goto, ThreadsOK
  <2>4. req[r].kind \notin AddKinds
    BY <2>1 DEF AddKinds, ChangeKinds
  <2>5. KeepsRoles(r)'
    BY <2>1, <2>2, <2>3, <2>4
       DEF KeepsRoles, FindsItsRoles, KeepsUnnamedRoles, ServesNoPassword
  <2> QED
    BY <1>1, <2>2, <2>5, OthersKeepRoles DEF ThreadsOK, Goto
<1>6. CASE CheckEmail(r) /\ ~EndRequest(r)
  <2>1. pc[r] = "email" /\ Goto(r, "roles") /\ UNCHANGED <<req, work>>
    BY <1>6 DEF CheckEmail, Fail
  <2>2. pc'[r] = "roles" /\ req'[r] = req[r] /\ work'[r] = work[r]
    BY <1>1, <2>1 DEF Goto, ThreadsOK
  <2>3. KeepsRoles(r)'
    BY <2>1, <2>2 DEF KeepsRoles, FindsItsRoles, KeepsUnnamedRoles, ServesNoPassword
  <2> QED
    BY <1>1, <2>1, <2>3, OthersKeepRoles DEF ThreadsOK, Goto
<1>7. CASE (CheckName(r) \/ CheckUnused(r)) /\ ~EndRequest(r)
  <2>1. pc[r] \in {"name", "unused"} /\ Goto(r, "flush") /\ UNCHANGED <<req, work>>
    BY <1>7 DEF CheckName, CheckUnused, Fail
  <2>2. req[r].kind \notin AddKinds \cup ChangeKinds
    BY <1>1, <2>1 DEF ThreadsOK, ControlOK, StepsServe, AddKinds, ChangeKinds
  <2>3. pc'[r] = "flush" /\ req'[r] = req[r] /\ work'[r] = work[r]
    BY <1>1, <2>1 DEF Goto, ThreadsOK
  <2>4. KeepsRoles(r)'
    BY <2>1, <2>2, <2>3 DEF KeepsRoles, FindsItsRoles, KeepsUnnamedRoles, ServesNoPassword
  <2> QED
    BY <1>1, <2>1, <2>4, OthersKeepRoles DEF ThreadsOK, Goto
<1>8. CASE FindRoles(r) /\ work[r].left = {} /\ ~EndRequest(r)
  <2>1. pc[r] = "roles" /\ Goto(r, "flush") /\ UNCHANGED <<req, work>>
    BY <1>8 DEF FindRoles, Fail
  <2>2. pc'[r] = "flush" /\ req'[r] = req[r] /\ work'[r] = work[r]
    BY <1>1, <2>1 DEF Goto, ThreadsOK
  <2>3. KeepsRoles(r)'
    BY <1>8, <2>1, <2>2 DEF KeepsRoles, FindsItsRoles, KeepsUnnamedRoles, ServesNoPassword
  <2> QED
    BY <1>1, <2>1, <2>3, OthersKeepRoles DEF ThreadsOK, Goto
<1>9. CASE FindRoles(r) /\ work[r].left # {} /\ ~EndRequest(r)
  <2>1. PICK name \in work[r].left : \E k \in HasName(roles, name) :
           /\ work' = [work EXCEPT ![r].left = @ \ {name}, ![r].on = @ \cup {k}]
           /\ UNCHANGED <<tables, pc, req, copy, boot>>
    BY <1>9 DEF FindRoles, Fail
  <2>2. PICK k \in HasName(roles, name) :
           /\ work' = [work EXCEPT ![r].left = @ \ {name}, ![r].on = @ \cup {k}]
           /\ UNCHANGED <<tables, pc, req, copy, boot>>
    BY <2>1
  <2>3. pc[r] = "roles" /\ work'[r] = [work[r] EXCEPT !.left = @ \ {name}, !.on = @ \cup {k}]
    BY <1>1, <1>9, <2>2 DEF FindRoles, ThreadsOK
  <2>4. work'[r].on # {} /\ work'[r].off = work[r].off
    BY <1>2, <2>3 DEF Work
  <2>5. KeepsRoles(r)'
    BY <2>2, <2>3, <2>4 DEF KeepsRoles, FindsItsRoles, KeepsUnnamedRoles, ServesNoPassword
  <2> QED
    BY <1>1, <2>2, <2>5, OthersKeepRoles DEF ThreadsOK
<1>10. ~Merge(r)
  BY <1>1 DEF Merge, ThreadsOK, ControlOK, StepsServe, KeepsRoles, ServesNoPassword
<1>11. CASE Flush(r) /\ ~EndRequest(r)
  <2> DEFINE q == req[r]
             off == IF ReplacesRoles(q) \/ q.kind = "DELETE" THEN assigned[q.user]
                    ELSE work[r].off
  <2>1. PICK row : /\ work' = [work EXCEPT ![r].row = row, ![r].off = off]
                   /\ pc[r] = "flush" /\ Goto(r, "commit") /\ UNCHANGED req
    BY <1>11 DEF Flush, Replaced, Fail
  <2>2. /\ pc'[r] = "commit" /\ req'[r] = q
        /\ work'[r] = [work[r] EXCEPT !.row = row, !.off = off]
    BY <1>1, <2>1 DEF Goto, ThreadsOK
  <2>3. work'[r].on = work[r].on /\ work'[r].off = off
    BY <1>2, <2>2 DEF Work
  <2>4. q.kind \in ChangeKinds => ReplacesRoles(q) \/ off = {}
    BY <2>1 DEF KeepsRoles, KeepsUnnamedRoles, ChangeKinds
  <2>5. KeepsRoles(r)'
    BY <2>1, <2>2, <2>3, <2>4
       DEF KeepsRoles, FindsItsRoles, KeepsUnnamedRoles, ServesNoPassword, ReplacesRoles
  <2> QED
    BY <1>1, <2>1, <2>5, OthersKeepRoles DEF ThreadsOK, Goto
<1>12. Save(r) \/ Refused(r) => EndRequest(r)
  BY DEF Save, Refused, Fail
<1> QED
  BY <1>3, <1>4, <1>5, <1>6, <1>7, <1>8, <1>9, <1>10, <1>11, <1>12 DEF Handle

(* A commit leaves every user with a role.                                 *)
LEMMA SaveKeepsRoles ==
    ASSUME Inv, NEW r \in Requests, Save(r), UsersHaveRoles, KeepsRoles(r)
    PROVE  UsersHaveRoles'
<1> DEFINE q == req[r]
           w == work[r]
<1>1. TablesOK /\ ThreadsOK /\ BootOK /\ pc[r] = "commit" /\ q \in Request
  BY InvParts DEF Save, ThreadsOK, ControlOK, StepsServe
<1>2. TablesOK'
  BY <1>1, SaveKeeps
<1>3. CASE SaveNew(r)
  <2>1. q.kind \in AddKinds /\ w.on # {}
    BY <1>1, <1>3, RequestFields DEF SaveNew, KeepsRoles, FindsItsRoles
  <2>2. PICK id \in [Inserted(q) -> Users] :
           /\ users' = [u \in Users |->
                 IF u \in {id[e] : e \in Inserted(q)}
                 THEN [email |-> CHOOSE e \in Inserted(q) : id[e] = u, active |-> q.active]
                 ELSE users[u]]
           /\ assigned' = [u \in Users |->
                 IF u \in {id[e] : e \in Inserted(q)} THEN w.on ELSE assigned[u]]
    BY <1>3 DEF SaveNew
  <2> DEFINE new == {id[e] : e \in Inserted(q)}
  <2>3. \A u \in Users \ new : users'[u] = users[u] /\ assigned'[u] = assigned[u]
    BY <2>2
  <2>4. \A u \in new \cap Users : assigned'[u] = w.on
    BY <2>2
  <2> HIDE DEF new
  <2> SUFFICES ASSUME NEW u \in Rows(users)' PROVE assigned'[u] # {}
    BY DEF UsersHaveRoles
  <2>5. u \in Users
    BY <1>2 DEF Rows, TablesOK, UserTable
  <2>6. CASE u \in new
    BY <2>1, <2>4, <2>5, <2>6
  <2>7. CASE u \notin new
    BY <1>1, <2>3, <2>5, <2>7 DEF UsersHaveRoles, Rows, TablesOK, UserTable
  <2> QED
    BY <2>6, <2>7
<1>4. CASE SaveChanged(r)
  <2>1. /\ q.kind \in ChangeKinds
        /\ w.row # NoCopy => q.user \in Rows(users)
        /\ users' = IF w.row = NoCopy THEN users ELSE [users EXCEPT ![q.user] = w.row]
        /\ assigned' = [assigned EXCEPT ![q.user] = (@ \ w.off) \cup w.on]
    BY <1>1, <1>4 DEF SaveChanged, ChangeAccepted, KeepsRoles, ServesNoPassword
  <2>2. w.off = {} \/ w.on # {}
    BY <1>1, <2>1 DEF KeepsRoles, KeepsUnnamedRoles, FindsItsRoles, ReplacesRoles
  <2>3. Rows(users)' \subseteq Rows(users)
    BY <1>1, <2>1 DEF Rows, TablesOK, UserTable
  <2>4. \A u \in Users : assigned[u] # {} => assigned'[u] # {}
    BY <1>1, <2>1, <2>2 DEF TablesOK
  <2> QED
    BY <1>1, <2>3, <2>4, RowsAreTyped DEF UsersHaveRoles
<1>5. CASE SaveDeleted(r)
  <2>1. /\ users' = [users EXCEPT ![q.user] = Deleted]
        /\ assigned' = [assigned EXCEPT ![q.user] = {}]
    BY <1>5 DEF SaveDeleted
  <2>2. \A u \in Rows(users)' : u \in Rows(users) /\ u # q.user /\ u \in Users
    BY <1>1, <2>1 DEF Rows, TablesOK, UserTable
  <2> QED
    BY <1>1, <2>1, <2>2 DEF UsersHaveRoles, TablesOK
<1>6. CASE SaveRole(r)
  BY <1>6 DEF SaveRole, UsersHaveRoles, Rows
<1> QED
  BY <1>3, <1>4, <1>5, <1>6 DEF Save

(* The administrator that DataInitializer adds has a role.                 *)
LEMMA EndInitKeepsRoles ==
    ASSUME Inv, EndInit, UsersHaveRoles, AdminHasRole
    PROVE  UsersHaveRoles' /\ AdminHasRole'
<1>1. TablesOK /\ BootOK
  BY InvParts
<1>2. AdminHasRole'
  BY DEF EndInit, AdminHasRole
<1>3. TablesOK'
  BY <1>1, EndInitKeeps
<1>4. CASE UNCHANGED <<users, assigned>>
  BY <1>2, <1>4 DEF UsersHaveRoles, Rows
<1>5. CASE ~UNCHANGED <<users, assigned>>
  <2>1. boot.step = "saveAdmin"
    BY <1>5 DEF EndInit
  <2>2. PICK u \in Users :
           /\ users' = [users EXCEPT ![u] = [email |-> AdminEmail, active |-> TRUE]]
           /\ assigned' = [assigned EXCEPT ![u] = RolesOfAdmin]
    BY <1>5 DEF EndInit
  <2>3. RolesOfAdmin # {}
    <3>1. CASE AdminRole \in boot.new
      <4>1. PICK id \in [boot.new -> Roles] :
               /\ \A m, n \in boot.new : id[m] = id[n] => m = n
               /\ roles' = [k \in Roles |-> IF \E n \in boot.new : id[n] = k
                                            THEN CHOOSE n \in boot.new : id[n] = k ELSE roles[k]]
        BY DEF EndInit
      <4>2. id[AdminRole] \in Roles /\ roles'[id[AdminRole]] = AdminRole
        BY <3>1, <4>1
      <4>3. id[AdminRole] \in HasName(roles', AdminRole)
        BY <4>1, <4>2, NameAssumption, NeverAbsent DEF HasName, Rows
      <4> QED
        BY <3>1, <4>3 DEF RolesOfAdmin
    <3>2. CASE AdminRole \notin boot.new
      BY <2>1, <3>2 DEF RolesOfAdmin, AdminHasRole
    <3> QED
      BY <3>1, <3>2
  <2>4. \A v \in Users \ {u} : users'[v] = users[v] /\ assigned'[v] = assigned[v]
    BY <1>1, <2>2 DEF TablesOK, UserTable
  <2>5. assigned'[u] # {}
    BY <1>1, <2>2, <2>3 DEF TablesOK
  <2>6. \A v \in Rows(users)' : v \in Users /\ (v # u => v \in Rows(users))
    BY <1>1, <1>3, <2>4 DEF Rows, TablesOK, UserTable
  <2> QED
    BY <1>2, <2>4, <2>5, <2>6 DEF UsersHaveRoles
<1> QED
  BY <1>4, <1>5

(* InitAdmin goes on to save an administrator only with a role for them.   *)
LEMMA AdminKeepsRole ==
    ASSUME Inv, AdminHasRole, [Next]_vars
    PROVE  AdminHasRole'
<1>1. boot \in [step: BootSteps, new: SUBSET Names, admin: SUBSET Roles]
  BY DEF Inv, TypeOK
<1>2. CASE UNCHANGED boot
  BY <1>2 DEF AdminHasRole
<1>3. CASE StartInit \/ EndInit \/ Crash
  BY <1>3 DEF StartInit, EndInit, Crash, AdminHasRole
<1>4. CASE InitRoles
  <2>1. boot'.step \in {"adminRole", "admin"}
    BY <1>1, <1>4 DEF InitRoles, RoleMissing
  <2> QED
    BY <2>1 DEF AdminHasRole
<1>5. CASE InitAdmin
  <2>1. CASE HasEmail(users, AdminEmail) # {}
    <3>1. boot'.step = "saveRoles"
      BY <1>1, <1>5, <2>1 DEF InitAdmin
    <3> QED
      BY <3>1 DEF AdminHasRole
  <2>2. CASE HasEmail(users, AdminEmail) = {}
    BY <1>1, <1>5, <2>2 DEF InitAdmin, AdminHasRole
  <2> QED
    BY <2>1, <2>2
<1>6. ASSUME NEW r \in Requests, Receive(r) \/ Handle(r) PROVE UNCHANGED boot
  BY <1>6 DEF Receive, Handle, Find, CheckEmail, FindRoles, CheckName, CheckUnused, Merge,
              Flush, Save, Refused, Fail, EndRequest
<1> QED
  BY <1>2, <1>3, <1>4, <1>5, <1>6 DEF Next, vars

LEMMA InitRolesInv == Init => RolesInv
<1> SUFFICES ASSUME Init PROVE RolesInv
  OBVIOUS
<1>1. UsersHaveRoles
  BY OpeningAssumption DEF Init, UsersHaveRoles, Rows, UserTable
<1>2. \A r \in Requests : FindsItsRoles(r) /\ KeepsUnnamedRoles(r) /\ ServesNoPassword(r)
  BY DEF Init, FindsItsRoles, KeepsUnnamedRoles, ServesNoPassword, NoWork
<1>3. AdminHasRole
  BY OpeningAssumption DEF Init, AdminHasRole
<1> QED
  BY <1>1, <1>2, <1>3 DEF RolesInv

LEMMA NextKeepsRoles ==
    ASSUME Inv, RolesInv, "PASSWORD" \notin Kinds, [Next]_vars
    PROVE  RolesInv'
<1>1. UsersHaveRoles /\ AdminHasRole /\ \A r \in Requests : KeepsRoles(r)
  BY DEF RolesInv, KeepsRoles
<1> SUFFICES UsersHaveRoles' /\ AdminHasRole' /\ \A r \in Requests : KeepsRoles(r)'
  BY DEF RolesInv, KeepsRoles
<1>2. ASSUME UNCHANGED <<users, assigned>> PROVE UsersHaveRoles'
  BY <1>1, <1>2 DEF UsersHaveRoles, Rows
<1>3. ASSUME UNCHANGED boot PROVE AdminHasRole'
  BY <1>1, <1>3 DEF AdminHasRole
<1>4. ASSUME UNCHANGED <<pc, req, work>> PROVE \A r \in Requests : KeepsRoles(r)'
  BY <1>1, <1>4 DEF KeepsRoles, FindsItsRoles, KeepsUnnamedRoles, ServesNoPassword
<1>5. CASE UNCHANGED vars
  BY <1>2, <1>3, <1>4, <1>5 DEF vars
<1>6. ASSUME NEW r \in Requests, Receive(r) \/ Handle(r)
      PROVE  UsersHaveRoles' /\ AdminHasRole' /\ \A s \in Requests : KeepsRoles(s)'
  <2>1. \A s \in Requests : KeepsRoles(s)'
    BY <1>1, <1>6, StepsKeepRoles
  <2>2. UNCHANGED boot
    BY <1>6 DEF Receive, Handle, Find, CheckEmail, FindRoles, CheckName, CheckUnused, Merge,
                Flush, Save, Refused, Fail, EndRequest
  <2>3. CASE Save(r)
    BY <1>1, <1>3, <2>1, <2>2, <2>3, SaveKeepsRoles
  <2>4. CASE ~Save(r)
    <3>1. UNCHANGED tables
      BY <1>6, <2>4 DEF Receive, Handle, Find, CheckEmail, FindRoles, CheckName, CheckUnused,
                        Merge, Flush, Refused, Fail
    <3> QED
      BY <1>2, <1>3, <2>1, <2>2, <3>1 DEF tables
  <2> QED
    BY <2>3, <2>4
<1>7. CASE StartInit \/ InitRoles \/ InitAdmin
  <2>1. UNCHANGED <<tables, pc, req, work>>
    BY <1>7 DEF StartInit, InitRoles, InitAdmin
  <2>2. AdminHasRole'
    BY <1>1, <1>7, AdminKeepsRole DEF Next
  <2> QED
    BY <1>2, <1>4, <2>1, <2>2 DEF tables
<1>8. CASE EndInit
  BY <1>1, <1>4, <1>8, EndInitKeepsRoles DEF EndInit
<1>9. CASE Crash
  BY <1>2, <1>9 DEF Crash, tables, AdminHasRole, KeepsRoles, FindsItsRoles, KeepsUnnamedRoles,
                    ServesNoPassword, NoWork
<1> QED
  BY <1>5, <1>6, <1>7, <1>8, <1>9 DEF Next

(* A request that names roles comes to its commit with at least one found, *)
(* and one that names none deletes none: so the services keep it through   *)
(* every interleaving of requests and starts without a password change.    *)
THEOREM RolesInvariance ==
    ASSUME "PASSWORD" \notin Kinds
    PROVE  Spec => []RolesInv
<1>1. Inv /\ RolesInv /\ [Next]_vars => RolesInv'
  BY NextKeepsRoles
<1> QED
  BY <1>1, InitRolesInv, DirectoryInvariance, PTL DEF Spec

(* While nobody changes a password, no order of PUTs, PATCHes and          *)
(* deletions of roles takes the last role from a user: whoever deletes     *)
(* memberships inserts one, and a role in use is not deleted.  (A password *)
(* change does it, the run LastRole shows how.)                            *)
THEOREM UsersKeepARole ==
    ASSUME "PASSWORD" \notin Kinds
    PROVE  Spec => []UsersHaveRoles
<1>1. RolesInv => UsersHaveRoles
  BY DEF RolesInv
<1> QED
  BY <1>1, RolesInvariance, PTL
=============================================================================

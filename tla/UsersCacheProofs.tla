-------------------------- MODULE UsersCacheProofs --------------------------
(***************************************************************************)
(* The pages in the cache are true, about to be removed, or have missed a  *)
(* change in a way that CachedPagesAreTrue names: for every set of pages,  *)
(* users, roles and threads.                                               *)
(*                                                                         *)
(* Most steps change no table (TablesStay) and so no page.  Of the commits *)
(* that remove no page, that of a new or deleted role changes none because *)
(* nobody has the role (UnusedRolesDoNotShow), that of a password because  *)
(* it writes what its copy has (FreshMergesWriteNothing).                  *)
(***************************************************************************)
EXTENDS UsersCacheInvariants, DirectoryRefinement

LEMMA PagesHaveType ==
    ASSUME Inv, NEW p \in Pages
    PROVE  Page(p) \in PageData
<1>1. /\ users \in UserTable /\ roles \in RoleTable
      /\ assigned \in [Users -> SUBSET Roles] /\ AssignedRolesExist
  BY DEF Inv, TypeOK
<1>2. OnPage(p) \subseteq Rows(users) /\ Rows(users) \subseteq Users
  BY <1>1 DEF OnPage, Rows, UserTable
<1>3. ASSUME NEW u \in OnPage(p) PROVE Read(u) \in Shown
  <2>1. u \in Users /\ users[u] \in UserRow
    BY <1>1, <1>2, <1>3 DEF Rows, UserTable
  <2>2. assigned[u] \in SUBSET Roles
    BY <1>1, <2>1
  <2>3. \A k \in assigned[u] : roles[k] \in Names
    BY <1>1, <2>1 DEF AssignedRolesExist, Rows, RoleTable
  <2>4. [k \in assigned[u] |-> roles[k]] \in [assigned[u] -> Names]
    BY <2>3
  <2>5. [k \in assigned[u] |-> roles[k]] \in UNION {[on -> Names] : on \in SUBSET Roles}
    BY <2>2, <2>4
  <2> QED
    BY <2>1, <2>2, <2>5 DEF Read, Shown
<1>4. Page(p) \in [OnPage(p) -> Shown]
  BY <1>3 DEF Page
<1> QED
  BY <1>2, <1>4 DEF PageData

(* Pages are made of the tables only. *)
LEMMA TablesStay ==
    ASSUME UNCHANGED tables, NEW p \in Pages
    PROVE  Page(p)' = Page(p)
BY DEF tables, Page, OnPage, Read, Rows

(* Nor do roles that nobody has make a difference. *)
LEMMA UnusedRolesDoNotShow ==
    ASSUME Inv, UNCHANGED <<users, assigned>>, NEW p \in Pages,
           \A u \in Rows(users) : \A k \in assigned[u] : roles'[k] = roles[k]
    PROVE  Page(p)' = Page(p)
<1>1. Rows(users)' = Rows(users)
  BY DEF Rows
<1>2. \A u \in Rows(users) : Read(u)' = Read(u)
  BY DEF Read
<1>3. OnPage(p)' = OnPage(p)
  BY <1>1 DEF OnPage
<1> QED
  BY <1>2, <1>3 DEF Page, OnPage

-----------------------------------------------------------------------------
(* A commit that removes no page changes none, unless it merges an old     *)
(* copy.                                                                   *)
LEMMA SilentCommitsDoNotShow ==
    ASSUME Inv, NEW r \in Requests, MergesItsCopy(r), Save(r), ~Evicts(req[r]),
           ~(req[r].kind = "PASSWORD" /\ Stale(r)), NEW p \in Pages
    PROVE  Page(p)' = Page(p)
<1> DEFINE q == req[r]
<1>1. pc[r] = "commit"
  BY DEF Save
<1>2. CASE q.kind = "PASSWORD"
  <2>1. SaveChanged(r)
    BY <1>2 DEF Save, SaveNew, SaveDeleted, SaveRole, AddKinds
  <2> QED
    BY <1>1, <1>2, <2>1, FreshMergesWriteNothing, TablesStay
<1>3. CASE q.kind # "PASSWORD"
  <2>1. SaveRole(r) /\ q.kind \in {"ADD_ROLE", "DELETE_ROLE"}
    BY <1>3 DEF Save, SaveNew, SaveChanged, SaveDeleted, SaveRole, Evicts
  <2>2. \A u \in Rows(users) : assigned[u] \subseteq Rows(roles)
    BY DEF Inv, AssignedRolesExist, TypeOK, Rows, UserTable
  <2>3. \A u \in Rows(users) : \A k \in assigned[u] : roles'[k] = roles[k]
    <3>0. roles \in RoleTable /\ Rows(users) \subseteq Users
      BY DEF Inv, TypeOK, Rows, UserTable
    <3>1. CASE q.kind = "ADD_ROLE"
      <4>1. PICK k \in Roles : roles[k] = Unused /\ roles' = [roles EXCEPT ![k] = q.name]
        BY <2>1, <3>1 DEF SaveRole
      <4>2. k \notin Rows(roles)
        BY <4>1 DEF Rows
      <4> QED
        BY <2>2, <3>0, <4>1, <4>2 DEF RoleTable
    <3>2. CASE q.kind = "DELETE_ROLE"
      <4>1. Unassigned(q.role) /\ roles' = [roles EXCEPT ![q.role] = Deleted]
        BY <2>1, <3>2 DEF SaveRole, Deletable
      <4> QED
        BY <3>0, <4>1 DEF Unassigned, RoleTable
    <3> QED
      BY <2>1, <3>1, <3>2
  <2> QED
    BY <2>1, <2>3, UnusedRolesDoNotShow DEF SaveRole
<1> QED
  BY <1>2, <1>3

(* A start that does not add the administrator changes no page: the roles  *)
(* it adds nobody has.                                                     *)
LEMMA SilentStartsDoNotShow ==
    ASSUME Inv, StartInit \/ InitRoles \/ InitAdmin \/ EndInit, boot.step # "saveAdmin",
           NEW p \in Pages
    PROVE  Page(p)' = Page(p)
<1>1. CASE StartInit \/ InitRoles \/ InitAdmin
  BY <1>1, TablesStay DEF StartInit, InitRoles, InitAdmin
<1>2. CASE EndInit
  <2>1. UNCHANGED <<users, assigned>>
    BY <1>2 DEF EndInit
  <2>2. \A k \in Rows(roles) : roles'[k] = roles[k]
    BY <1>2 DEF EndInit, Rows, Inv, TypeOK, RoleTable
  <2>3. \A u \in Rows(users) : assigned[u] \subseteq Rows(roles)
    BY DEF Inv, AssignedRolesExist, TypeOK, Rows, UserTable
  <2> QED
    BY <2>1, <2>2, <2>3, UnusedRolesDoNotShow
<1> QED
  BY <1>1, <1>2
-----------------------------------------------------------------------------
LEMMA CachingStarts == CInit => CInv
<1> SUFFICES ASSUME CInit PROVE CInv
  OBVIOUS
<1>1. Inv
  BY InitInv DEF CInit
<1>2. CTypeOK /\ CachedPagesAreTrue
  BY DEF CInit, CTypeOK, CachedPagesAreTrue, Cached
<1>3. \A r \in Requests : OneThingAtATime(r) /\ MergesItsCopy(r)
  BY DEF CInit, Init, OneThingAtATime, MergesItsCopy
<1> QED
  BY <1>1, <1>2, <1>3 DEF CInv

LEMMA StepsOfDirectory == CNext => [Next]_vars
BY DEF CNext, Hit, Miss, Query, Put, Begin, Serve, Commit, Evict, Start, Stop, Tick, Drop, Next, Handle
-----------------------------------------------------------------------------
(* Only the commits and the start change tables. *)
LEMMA ServingKeepsTables ==
    ASSUME NEW r \in Requests, Begin(r) \/ Serve(r)
    PROVE  UNCHANGED tables
BY DEF Begin, Serve, Receive, Find, CheckEmail, FindRoles, CheckName, CheckUnused, Merge, Flush,
       Refused, Fail, tables

LEMMA ThreadsKeepTables ==
    ASSUME NEW r \in Requests, Hit(r) \/ Miss(r) \/ Query(r) \/ Put(r) \/ Evict(r)
    PROVE  UNCHANGED <<vars, tables>>
BY DEF Hit, Miss, Query, Put, Evict, vars, tables

LEMMA StartKeepsThreads ==
    ASSUME Start
    PROVE  UNCHANGED <<pc, req, copy, work, caching>>
BY DEF Start, StartInit, InitRoles, InitAdmin, EndInit
-----------------------------------------------------------------------------
LEMMA ThingsStayOne ==
    ASSUME CInv, CNext, NEW s \in Requests
    PROVE  OneThingAtATime(s)'
<1>1. /\ pc \in [Requests -> Steps]
      /\ get \in [Requests -> [page: Pages, data: PageData \cup {NoPage}] \cup {NoRequest}]
      /\ evicting \in [Requests -> SUBSET Pages]
      /\ OneThingAtATime(s)
  BY DEF CInv, Inv, TypeOK, CTypeOK
<1>2. ASSUME NEW r \in Requests, Hit(r) \/ Miss(r) \/ Query(r) \/ Put(r)
      PROVE  OneThingAtATime(s)'
  <2>1. pc' = pc /\ evicting' = evicting
    BY <1>2 DEF Hit, Miss, Query, Put, vars
  <2>2. CASE s # r \/ Hit(r)
    <3>1. get'[s] = get[s]
      BY <1>1, <1>2, <2>2 DEF Hit, Miss, Query, Put
    <3> QED
      BY <1>1, <2>1, <3>1 DEF OneThingAtATime
  <2>3. CASE s = r /\ ~Hit(r)
    <3>1. pc[r] = "idle"
      BY <1>1, <1>2, <2>3 DEF Miss, Query, Put, Free, OneThingAtATime
    <3> QED
      BY <2>1, <2>3, <3>1 DEF OneThingAtATime
  <2> QED
    BY <2>2, <2>3
<1>3. ASSUME NEW r \in Requests, Begin(r) \/ Serve(r) PROVE OneThingAtATime(s)'
  <2>1. get' = get /\ evicting' = evicting
    BY <1>3 DEF Begin, Serve, caching
  <2>2. CASE s = r
    <3>1. get[s] = NoRequest /\ evicting[s] = {}
      BY <1>1, <1>3, <2>2 DEF Begin, Free, Serve, OneThingAtATime, Find, CheckEmail, FindRoles,
                              CheckName, CheckUnused, Merge, Flush, Refused
    <3> QED
      BY <2>1, <3>1 DEF OneThingAtATime
  <2>3. CASE s # r
    <3>1. pc'[s] = pc[s]
      BY <1>3, <2>3, OthersStay DEF CInv, Begin, Serve, Handle
    <3> QED
      BY <1>1, <2>1, <3>1 DEF OneThingAtATime
  <2> QED
    BY <2>2, <2>3
<1>4. ASSUME NEW r \in Requests, Commit(r) PROVE OneThingAtATime(s)'
  <2>1. get' = get /\ EndRequest(r)
    BY <1>4 DEF Commit, Save
  <2>2. CASE s = r
    BY <2>1, <2>2, EndIsIdle DEF CInv, OneThingAtATime
  <2>3. CASE s # r
    <3>1. pc'[s] = pc[s] /\ evicting'[s] = evicting[s]
      BY <1>1, <1>4, <2>1, <2>3, EndIsIdle DEF CInv, Commit
    <3> QED
      BY <1>1, <2>1, <3>1 DEF OneThingAtATime
  <2> QED
    BY <2>2, <2>3
<1>5. ASSUME NEW r \in Requests, Evict(r) PROVE OneThingAtATime(s)'
  <2>1. pc' = pc /\ get' = get /\ evicting'[s] \subseteq evicting[s]
    BY <1>1, <1>5 DEF Evict, vars
  <2> QED
    BY <1>1, <2>1 DEF OneThingAtATime
<1>6. CASE Start
  BY <1>1, <1>6, StartKeepsThreads DEF caching, OneThingAtATime
<1>7. CASE Stop
  BY <1>7 DEF Stop, Crash, OneThingAtATime
<1>8. CASE Tick \/ Drop
  BY <1>1, <1>8 DEF Tick, Drop, vars, OneThingAtATime
<1> QED
  BY <1>2, <1>3, <1>4, <1>5, <1>6, <1>7, <1>8 DEF CNext

LEMMA CopiesStayMerged ==
    ASSUME CInv, CNext, NEW s \in Requests
    PROVE  MergesItsCopy(s)'
<1>1. Inv /\ MergesItsCopy(s)
  BY DEF CInv
<1>2. ASSUME NEW r \in Requests, Begin(r) \/ Serve(r) \/ Commit(r) PROVE MergesItsCopy(s)'
  <2>1. Receive(r) \/ Handle(r)
    BY <1>2 DEF Begin, Serve, Commit, Handle
  <2>2. CASE s = r
    BY <1>1, <2>1, <2>2, MergesKeepTheirCopies
  <2>3. CASE s # r
    <3>1. pc'[s] = pc[s] /\ req'[s] = req[s] /\ copy'[s] = copy[s] /\ work'[s] = work[s]
      BY <1>1, <2>1, <2>3, OthersStay
    <3> QED
      BY <1>1, <3>1 DEF MergesItsCopy
  <2> QED
    BY <2>2, <2>3
<1>3. CASE UNCHANGED <<pc, req, copy, work>>
  BY <1>1, <1>3 DEF MergesItsCopy
<1>4. CASE Stop
  BY <1>4 DEF Stop, Crash, MergesItsCopy
<1> QED
  BY <1>2, <1>3, <1>4, ThreadsKeepTables, StartKeepsThreads DEF CNext, Tick, Drop, vars
-----------------------------------------------------------------------------
LEMMA CacheKeepsTypes ==
    ASSUME CInv, CNext
    PROVE  CTypeOK'
<1> DEFINE Gets == [page: Pages, data: PageData \cup {NoPage}] \cup {NoRequest}
<1>1. /\ cache \in [Pages -> Entry \cup {NoPage}]
      /\ get \in [Requests -> Gets]
      /\ evicting \in [Requests -> SUBSET Pages]
      /\ missed \subseteq {p \in Pages : Cached(p)}
  BY DEF CInv, CTypeOK
<1>2. \A p \in Pages : Page(p) \in PageData
  BY PagesHaveType DEF CInv
<1>3. NoPage \notin Entry
  BY NoPageAssumption
<1>4. MaxAge \in Nat \ {0} /\ 0 \in 0..(MaxAge - 1)
  BY BoundsAssumption
<1>5. \A p \in Pages : Cached(p) => cache[p] \in Entry
  BY <1>1 DEF Cached
<1>6. ASSUME NEW r \in Requests, Hit(r) PROVE CTypeOK'
  <2>1. PICK p \in Pages : Cached(p) /\ cache' = [cache EXCEPT ![p].age = cache[p].age]
    BY <1>6 DEF Hit, AgeOnHit
  <2>2. [cache[p] EXCEPT !.age = cache[p].age] = cache[p]
    BY <1>5, <2>1 DEF Entry
  <2>3. cache' = cache
    BY <1>1, <2>1, <2>2
  <2> QED
    BY <1>1, <1>6, <2>3 DEF Hit, CTypeOK, Cached
<1>7. ASSUME NEW r \in Requests, Miss(r) \/ Query(r) PROVE CTypeOK'
  <2>1. UNCHANGED <<cache, evicting, missed>>
    BY <1>7 DEF Miss, Query
  <2>2. get' \in [Requests -> Gets]
    <3>1. CASE Miss(r)
      BY <1>1, <3>1 DEF Miss
    <3>2. CASE Query(r)
      <4>1. get[r] \in [page: Pages, data: PageData \cup {NoPage}]
        BY <1>1, <3>2 DEF Query
      <4>2. Page(get[r].page) \in PageData
        BY <1>2, <4>1
      <4> QED
        BY <1>1, <3>2, <4>1, <4>2 DEF Query
    <3> QED
      BY <1>7, <3>1, <3>2
  <2> QED
    BY <1>1, <2>1, <2>2 DEF CTypeOK, Cached
<1>8. ASSUME NEW r \in Requests, Put(r) PROVE CTypeOK'
  <2> DEFINE p == get[r].page
             e == [data |-> get[r].data, age |-> 0]
  <2>1. get[r] \in [page: Pages, data: PageData \cup {NoPage}] /\ get[r].data # NoPage
    BY <1>1, <1>8 DEF Put
  <2>2. e \in Entry /\ p \in Pages
    BY <1>4, <2>1 DEF Entry
  <2>3. cache' = [cache EXCEPT ![p] = e] /\ get' = [get EXCEPT ![r] = NoRequest]
        /\ evicting' = evicting /\ missed' \subseteq missed \cup {p}
    BY <1>8 DEF Put
  <2> HIDE DEF e
  <2>4. cache' \in [Pages -> Entry \cup {NoPage}] /\ cache'[p] # NoPage
    BY <1>1, <1>3, <2>2, <2>3
  <2>5. \A q \in Pages \ {p} : cache'[q] = cache[q]
    BY <1>1, <2>3
  <2> QED
    BY <1>1, <2>2, <2>3, <2>4, <2>5 DEF CTypeOK, Cached
<1>9. ASSUME NEW r \in Requests, Begin(r) \/ Serve(r) PROVE CTypeOK'
  BY <1>1, <1>9 DEF Begin, Serve, caching, CTypeOK, Cached
<1>10. ASSUME NEW r \in Requests, Commit(r) PROVE CTypeOK'
  <2>1. cache' = cache /\ get' = get /\ missed' \subseteq missed \cup Changed
    BY <1>10 DEF Commit
  <2>2. evicting' \in [Requests -> SUBSET Pages]
    BY <1>1, <1>10 DEF Commit
  <2> QED
    BY <1>1, <2>1, <2>2 DEF CTypeOK, Cached, Changed
<1>11. ASSUME NEW gone \in SUBSET Pages, Without(gone),
              get' \in [Requests -> Gets], evicting' \in [Requests -> SUBSET Pages]
       PROVE  CTypeOK'
  BY <1>1, <1>11 DEF Without, CTypeOK, Cached
<1>12. ASSUME NEW r \in Requests, Evict(r) PROVE CTypeOK'
  <2>1. PICK p \in Pages : evicting' = [evicting EXCEPT ![r] = @ \ {p}] /\ Without({p})
    BY <1>1, <1>12 DEF Evict
  <2>2. evicting' \in [Requests -> SUBSET Pages] /\ get' = get
    BY <1>1, <1>12, <2>1 DEF Evict
  <2> QED
    BY <1>1, <1>11, <2>1, <2>2
<1>13. CASE Start
  <2>1. UNCHANGED <<cache, get, evicting>> /\ missed' \subseteq missed \cup Changed
    BY <1>13 DEF Start, caching
  <2> QED
    BY <1>1, <2>1 DEF CTypeOK, Cached, Changed
<1>14. CASE Stop
  BY <1>11, <1>14 DEF Stop
<1>15. CASE Tick
  <2>1. ASSUME NEW p \in Pages, Cached(p), ~Expires(p)
        PROVE  [cache[p] EXCEPT !.age = @ + 1] \in Entry
    BY <1>4, <1>5, <2>1 DEF Expires, Entry
  <2>2. cache' \in [Pages -> Entry \cup {NoPage}]
    BY <1>15, <2>1 DEF Tick
  <2>3. \A p \in Pages : Cached(p) /\ ~Expires(p) => cache'[p] # NoPage
    BY <1>3, <1>15, <2>1 DEF Tick
  <2>4. missed' \subseteq {p \in Pages : cache'[p] # NoPage}
    BY <1>1, <1>15, <2>3 DEF Tick
  <2>5. get' = get /\ evicting' = evicting
    BY <1>15 DEF Tick
  <2> QED
    BY <1>1, <2>2, <2>4, <2>5 DEF CTypeOK, Cached
<1>16. CASE Drop
  BY <1>1, <1>11, <1>16 DEF Drop
<1> QED
  BY <1>6, <1>7, <1>8, <1>9, <1>10, <1>12, <1>13, <1>14, <1>15, <1>16 DEF CNext

LEMMA PagesStayTrueOrLeave ==
    ASSUME CInv, CNext
    PROVE  CachedPagesAreTrue'
<1> DEFINE Fine(p) == Cached(p) => True(p) \/ Leaving(p) \/ p \in missed
<1>1. /\ Inv
      /\ cache \in [Pages -> Entry \cup {NoPage}]
      /\ evicting \in [Requests -> SUBSET Pages]
      /\ \A r \in Requests : OneThingAtATime(r) /\ MergesItsCopy(r)
      /\ \A p \in Pages : Cached(p) => True(p) \/ Leaving(p) \/ p \in missed
  BY DEF CInv, CTypeOK, CachedPagesAreTrue
<1>2. \A p \in Pages : Cached(p) => cache[p] \in Entry
  BY <1>1 DEF Cached
<1>3. ASSUME UNCHANGED <<tables, cache, evicting, missed>> PROVE CachedPagesAreTrue'
  BY <1>1, <1>3, TablesStay DEF CachedPagesAreTrue, Cached, True, Leaving
<1>4. ASSUME NEW r \in Requests, Hit(r) PROVE CachedPagesAreTrue'
  <2>1. PICK p \in Pages : Cached(p) /\ cache' = [cache EXCEPT ![p].age = cache[p].age]
    BY <1>4 DEF Hit, AgeOnHit
  <2>2. [cache[p] EXCEPT !.age = cache[p].age] = cache[p]
    BY <1>2, <2>1 DEF Entry
  <2>3. cache' = cache
    BY <1>1, <2>1, <2>2
  <2> QED
    BY <1>3, <1>4, <2>3, ThreadsKeepTables DEF Hit
<1>5. ASSUME NEW r \in Requests, Miss(r) \/ Query(r) \/ Begin(r) \/ Serve(r)
      PROVE  CachedPagesAreTrue'
  BY <1>3, <1>5, ThreadsKeepTables, ServingKeepsTables DEF Miss, Query, Begin, Serve, caching
<1>6. ASSUME NEW r \in Requests, Put(r) PROVE CachedPagesAreTrue'
  <2> DEFINE p == get[r].page
             e == [data |-> get[r].data, age |-> 0]
  <2>1. /\ cache' = [cache EXCEPT ![p] = e]
        /\ evicting' = evicting
        /\ missed' = IF get[r].data # Page(p) /\ ~Leaving(p) THEN missed \cup {p} ELSE missed \ {p}
    BY <1>6 DEF Put
  <2>2. UNCHANGED tables
    BY <1>6, ThreadsKeepTables
  <2>3. ASSUME NEW q \in Pages, Cached(q)' PROVE True(q)' \/ Leaving(q)' \/ q \in missed'
    <3>1. Page(q)' = Page(q) /\ (Leaving(q)' <=> Leaving(q))
      BY <2>1, <2>2, TablesStay DEF Leaving
    <3>2. CASE q = p
      <4>1. cache'[q].data = get[r].data
        BY <1>1, <2>1, <3>2
      <4> QED
        BY <2>1, <3>1, <3>2, <4>1 DEF True
    <3>3. CASE q # p
      <4>1. cache'[q] = cache[q] /\ (q \in missed => q \in missed')
        BY <1>1, <2>1, <3>3
      <4> QED
        BY <1>1, <2>3, <3>1, <4>1 DEF True, Cached
    <3> QED
      BY <3>2, <3>3
  <2> QED
    BY <2>3 DEF CachedPagesAreTrue
<1>7. ASSUME NEW r \in Requests, Commit(r) PROVE CachedPagesAreTrue'
  <2>1. /\ Save(r) /\ cache' = cache /\ missed \subseteq missed'
        /\ evicting' = [evicting EXCEPT ![r] = IF Evicts(req[r]) THEN Pages ELSE {}]
    BY <1>7 DEF Commit
  <2>2. CASE Evicts(req[r])
    <3>1. \A p \in Pages : p \in evicting'[r]
      BY <1>1, <2>1, <2>2
    <3> QED
      BY <3>1 DEF CachedPagesAreTrue, Leaving
  <2>3. CASE ~Evicts(req[r])
    <3>1. evicting[r] = {}
      BY <1>1, <2>1 DEF Save, OneThingAtATime
    <3>2. evicting' = evicting
      BY <1>1, <2>1, <2>3, <3>1
    <3>3. CASE req[r].kind = "PASSWORD" /\ Stale(r)
      <4>1. missed' = missed \cup Changed
        BY <1>7, <3>3 DEF Commit
      <4> QED
        BY <1>1, <2>1, <3>2, <4>1 DEF CachedPagesAreTrue, Cached, True, Leaving, Changed
    <3>4. CASE ~(req[r].kind = "PASSWORD" /\ Stale(r))
      <4>1. \A p \in Pages : Page(p)' = Page(p)
        BY <1>1, <2>1, <2>3, <3>4, SilentCommitsDoNotShow
      <4> QED
        BY <1>1, <2>1, <3>2, <4>1 DEF CachedPagesAreTrue, Cached, True, Leaving
    <3> QED
      BY <3>3, <3>4
  <2> QED
    BY <2>2, <2>3
<1>8. ASSUME NEW r \in Requests, Evict(r) PROVE CachedPagesAreTrue'
  <2>1. PICK p \in Pages : evicting' = [evicting EXCEPT ![r] = @ \ {p}] /\ Without({p})
    BY <1>1, <1>8 DEF Evict
  <2>2. UNCHANGED tables
    BY <1>8, ThreadsKeepTables
  <2>3. ASSUME NEW q \in Pages, Cached(q)' PROVE True(q)' \/ Leaving(q)' \/ q \in missed'
    <3>1. q # p /\ cache'[q] = cache[q] /\ (q \in missed => q \in missed')
      BY <2>1, <2>3 DEF Without, Cached
    <3>2. Leaving(q) => Leaving(q)'
      BY <1>1, <2>1, <3>1 DEF Leaving
    <3> QED
      BY <1>1, <2>2, <2>3, <3>1, <3>2, TablesStay DEF True, Cached
  <2> QED
    BY <2>3 DEF CachedPagesAreTrue
<1>9. CASE Start
  <2>1. cache' = cache /\ evicting' = evicting
    BY <1>9, StartKeepsThreads DEF caching
  <2>2. CASE boot.step = "saveAdmin"
    <3>1. missed' = missed \cup Changed
      BY <1>9, <2>2 DEF Start
    <3> QED
      BY <1>1, <2>1, <3>1 DEF CachedPagesAreTrue, Cached, True, Leaving, Changed
  <2>3. CASE boot.step # "saveAdmin"
    <3>1. missed' = missed /\ \A p \in Pages : Page(p)' = Page(p)
      BY <1>1, <1>9, <2>3, SilentStartsDoNotShow DEF Start
    <3> QED
      BY <1>1, <2>1, <3>1 DEF CachedPagesAreTrue, Cached, True, Leaving
  <2> QED
    BY <2>2, <2>3
<1>10. CASE Stop
  BY <1>10 DEF Stop, Without, CachedPagesAreTrue, Cached
<1>11. CASE Tick
  <2>1. UNCHANGED tables /\ evicting' = evicting
    BY <1>11 DEF Tick, vars, tables
  <2>2. ASSUME NEW q \in Pages, Cached(q)' PROVE True(q)' \/ Leaving(q)' \/ q \in missed'
    <3>1. Cached(q) /\ ~Expires(q) /\ cache'[q] = [cache[q] EXCEPT !.age = @ + 1]
      BY <1>11, <2>2 DEF Tick, Cached
    <3>2. cache'[q].data = cache[q].data
      BY <1>2, <3>1 DEF Entry
    <3>3. q \in missed => q \in missed'
      BY <1>11, <3>1 DEF Tick
    <3> QED
      BY <1>1, <2>1, <3>1, <3>2, <3>3, TablesStay DEF True, Leaving
  <2> QED
    BY <2>2 DEF CachedPagesAreTrue
<1>12. CASE Drop
  <2>1. PICK p \in Pages : Without({p})
    BY <1>12 DEF Drop
  <2>2. UNCHANGED tables /\ evicting' = evicting
    BY <1>12 DEF Drop, vars, tables
  <2>3. ASSUME NEW q \in Pages, Cached(q)' PROVE True(q)' \/ Leaving(q)' \/ q \in missed'
    <3>1. q # p /\ cache'[q] = cache[q] /\ (q \in missed => q \in missed')
      BY <2>1, <2>3 DEF Without, Cached
    <3> QED
      BY <1>1, <2>2, <2>3, <3>1, TablesStay DEF True, Cached, Leaving
  <2> QED
    BY <2>3 DEF CachedPagesAreTrue
<1> QED
  BY <1>4, <1>5, <1>6, <1>7, <1>8, <1>9, <1>10, <1>11, <1>12 DEF CNext
-----------------------------------------------------------------------------
LEMMA NextKeepsCInv == CInv /\ [CNext]_cvars => CInv'
<1> SUFFICES ASSUME CInv, [CNext]_cvars PROVE CInv'
  OBVIOUS
<1>1. CASE CNext
  <2>1. Inv'
    BY <1>1, StepsOfDirectory, NextKeepsInv DEF CInv
  <2> QED
    BY <1>1, <2>1, CacheKeepsTypes, ThingsStayOne, CopiesStayMerged, PagesStayTrueOrLeave DEF CInv
<1>2. CASE UNCHANGED cvars
  <2>1. Inv'
    BY <1>2, NextKeepsInv DEF CInv, cvars
  <2>2. UNCHANGED <<tables, cache, get, evicting, missed, pc, req, copy, work>>
    BY <1>2 DEF cvars, vars, caching, tables
  <2>3. CTypeOK' /\ \A r \in Requests : OneThingAtATime(r)' /\ MergesItsCopy(r)'
    BY <2>2 DEF CInv, CTypeOK, Cached, OneThingAtATime, MergesItsCopy
  <2>4. CachedPagesAreTrue'
    BY <2>2, TablesStay DEF CInv, CachedPagesAreTrue, Cached, True, Leaving
  <2> QED
    BY <2>1, <2>3, <2>4 DEF CInv
<1> QED
  BY <1>1, <1>2

(* The cache does not disturb the directory, and what the cache holds is   *)
(* explained, after every step of every thread, of the clock and of a      *)
(* restart of the application.                                             *)
THEOREM CachingInvariance == CSpec => []CInv
BY CachingStarts, NextKeepsCInv, PTL DEF CSpec

(* The pages, the reads and the removals of getUsers are of their types.   *)
THEOREM CachingTypes == CSpec => []CTypeOK
<1>1. CInv => CTypeOK
  BY DEF CInv
<1> QED
  BY <1>1, CachingInvariance, PTL

(* A page in the cache "users" shows the tables, is about to be removed,   *)
(* or has missed a change in one of the three ways of CachedPagesAreTrue:  *)
(* no commit of a method without @CacheEvict is a fourth.                  *)
THEOREM PagesStayTrue == CSpec => []CachedPagesAreTrue
<1>1. CInv => CachedPagesAreTrue
  BY DEF CInv
<1> QED
  BY <1>1, CachingInvariance, PTL
-----------------------------------------------------------------------------
(* One thread: what getUsers has read is so until it has put it, and no    *)
(* commit is stale.                                                        *)
NothingMissed ==
    /\ missed = {}
    /\ \A r \in Requests :
          get[r] # NoRequest /\ get[r].data # NoPage => get[r].data = Page(get[r].page)

SerialCInv == CInv /\ WorkInv /\ SerialInv /\ NothingMissed

LEMMA NextMissesNothing ==
    ASSUME NEW t, Requests = {t}, ~Restarts, SerialCInv, CNext
    PROVE  NothingMissed'
<1>1. /\ Inv /\ SerialInv /\ missed = {} /\ boot.step = "up"
      /\ OneThingAtATime(t) /\ ReadsAreSo(t)
      /\ get[t] # NoRequest /\ get[t].data # NoPage => get[t].data = Page(get[t].page)
      /\ get \in [Requests -> [page: Pages, data: PageData \cup {NoPage}] \cup {NoRequest}]
  BY DEF SerialCInv, CInv, CTypeOK, SerialInv, NothingMissed
<1>2. ASSUME UNCHANGED tables, UNCHANGED get, missed' \subseteq missed PROVE NothingMissed'
  <2>1. get[t] # NoRequest => Page(get[t].page)' = Page(get[t].page)
    BY <1>1, <1>2, TablesStay
  <2> QED
    BY <1>1, <1>2, <2>1 DEF NothingMissed
<1>3. CASE Hit(t) \/ Evict(t)
  BY <1>2, <1>3, ThreadsKeepTables DEF Hit, Evict, Without
<1>4. CASE Miss(t)
  BY <1>1, <1>4 DEF Miss, NothingMissed
<1>5. CASE Query(t)
  <2>1. get[t].page \in Pages /\ get'[t] = [get[t] EXCEPT !.data = Page(get[t].page)]
    BY <1>1, <1>5 DEF Query
  <2>2. Page(get[t].page)' = Page(get[t].page)
    BY <1>5, <2>1, ThreadsKeepTables, TablesStay
  <2>3. get'[t].page = get[t].page /\ get'[t].data = Page(get[t].page)
    BY <1>1, <1>5, <2>1 DEF Query
  <2> QED
    BY <1>1, <1>5, <2>2, <2>3 DEF Query, NothingMissed
<1>6. CASE Put(t)
  BY <1>1, <1>6 DEF Put, NothingMissed
<1>7. CASE Begin(t) \/ Serve(t)
  BY <1>2, <1>7, ServingKeepsTables DEF Begin, Serve, caching
<1>8. CASE Commit(t)
  <2>1. pc[t] = "commit"
    BY <1>8 DEF Commit, Save
  <2>2. get[t] = NoRequest /\ ~Stale(t)
    BY <1>1, <2>1, ReadsAreFresh DEF OneThingAtATime
  <2> QED
    BY <1>1, <1>8, <2>2 DEF Commit, NothingMissed
<1>9. ~(Start \/ Stop)
  BY <1>1 DEF Start, Stop, StartInit, InitRoles, InitAdmin, EndInit, Crash
<1>10. CASE Tick \/ Drop
  BY <1>2, <1>10 DEF Tick, Drop, Without, vars, tables
<1> QED
  BY <1>3, <1>4, <1>5, <1>6, <1>7, <1>8, <1>9, <1>10 DEF CNext

(* With one thread no page ever misses a change: a page in the cache shows *)
(* the tables, or is about to be removed.  So it takes a thread that puts  *)
(* what another has changed meanwhile, a password merged from an old copy, *)
(* or a start, to leave an old page in the cache "users".                  *)
THEOREM SerialPagesAreTrue ==
    ASSUME NEW t, Requests = {t}, Opening.step = "up", ~Restarts
    PROVE  CSpec => [](\A p \in Pages : Cached(p) => True(p) \/ Leaving(p))
<1>1. CInit => SerialCInv
  <2>1. CInit => CInv /\ WorkInv
    BY CachingStarts, InitWorkInv DEF CInit
  <2>2. CInit => SerialInv
    BY DEF CInit, Init, SerialInv, ReadsAreSo
  <2>3. CInit => NothingMissed
    BY DEF CInit, NothingMissed
  <2> QED
    BY <2>1, <2>2, <2>3 DEF SerialCInv
<1>2. SerialCInv /\ [CNext]_cvars => SerialCInv'
  <2> SUFFICES ASSUME SerialCInv, [CNext]_cvars PROVE SerialCInv'
    OBVIOUS
  <2>1. CInv' /\ [Next]_vars
    BY NextKeepsCInv, StepsOfDirectory DEF SerialCInv, cvars
  <2>2. WorkInv' /\ SerialInv'
    BY <2>1, NextKeepsWorkInv, NextKeepsSerialInv DEF SerialCInv, CInv
  <2>3. CASE CNext
    BY <2>1, <2>2, <2>3, NextMissesNothing DEF SerialCInv
  <2>4. CASE UNCHANGED cvars
    <3>1. NothingMissed'
      BY <2>4 DEF cvars, caching, vars, tables, SerialCInv, NothingMissed, Page, OnPage, Read, Rows
    <3> QED
      BY <2>1, <2>2, <3>1 DEF SerialCInv
  <2> QED
    BY <2>3, <2>4
<1>3. SerialCInv => \A p \in Pages : Cached(p) => True(p) \/ Leaving(p)
  BY DEF SerialCInv, CInv, CachedPagesAreTrue, NothingMissed
<1> QED
  BY <1>1, <1>2, <1>3, PTL DEF CSpec
=============================================================================

------------------------------ MODULE UsersCache ------------------------------
(***************************************************************************)
(* The pages of users that UserService.getUsers keeps in the cache         *)
(* "users", over the directory they show.  A thread that finds no page     *)
(* asks the database and puts the answer; a request that changes users     *)
(* removes all pages, after its commit: caching is enabled by the          *)
(* application and transactions by the framework behind it, so the advice  *)
(* of @CacheEvict is around the one of @Transactional.  Nothing keeps a    *)
(* thread from putting a page that was removed meanwhile.                  *)
(*                                                                         *)
(* A page is known by the names of roles it is asked for.  Of a user it    *)
(* shows what Read has; the accounts it shows too are in module Banking,   *)
(* whose operations all remove the pages as updateRole does.               *)
(***************************************************************************)
EXTENDS UserDirectory, Naturals

CONSTANTS Pages,    \* sets of names: users with one of them, with {} all users
          MaxAge,   \* expireAfterWrite, in ticks of the clock
          MaxPages, \* maximumSize
          NoPage

(* What is shown of a user, and of those on a page. *)
Shown == [row: UserRow, on: SUBSET Roles, names: UNION {[on -> Names] : on \in SUBSET Roles}]
PageData == UNION {[on -> Shown] : on \in SUBSET Users}
Entry == [data: PageData, age: 0..(MaxAge - 1)]

ASSUME PagesAssumption == Pages \subseteq SUBSET Names
ASSUME BoundsAssumption == MaxAge \in Nat \ {0} /\ MaxPages \in Nat
ASSUME NoPageAssumption == NoPage \notin Entry

VARIABLES cache,    \* the pages in the cache, with their age
          get,      \* what the thread in getUsers asks for, and has read
          evicting, \* the pages the thread has still to remove
          missed    \* history: the pages in the cache that missed a change

caching == <<cache, get, evicting>>
cvars == <<vars, caching, missed>>

(* hasRoles joins the roles, findAll fetches them: one query. *)
OnPage(p) == {u \in Rows(users) : p = {} \/ \E k \in assigned[u] : roles[k] \in p}
Page(p) == [u \in OnPage(p) |-> Read(u)]

Cached(p) == cache[p] # NoPage
True(p) == cache[p].data = Page(p)
Leaving(p) == \E r \in Requests : p \in evicting[r]
-----------------------------------------------------------------------------
CInit ==
    /\ Init
    /\ cache = [p \in Pages |-> NoPage]
    /\ get = [r \in Requests |-> NoRequest]
    /\ evicting = [r \in Requests |-> {}]
    /\ missed = {}

Free(r) == pc[r] = "idle" /\ get[r] = NoRequest /\ evicting[r] = {} /\ boot.step # "down"

(* expireAfterWrite: a page that is found is no younger for it. *)
AgeOnHit_AsIfWritten(p) == 0
AgeOnHit(p) == cache[p].age

Hit(r) ==
    /\ Free(r)
    /\ \E p \in Pages : Cached(p) /\ cache' = [cache EXCEPT ![p].age = AgeOnHit(p)]
    /\ UNCHANGED <<vars, get, evicting, missed>>

Miss(r) ==
    /\ Free(r)
    /\ \E p \in Pages : ~Cached(p) /\ get' = [get EXCEPT ![r] = [page |-> p, data |-> NoPage]]
    /\ UNCHANGED <<vars, cache, evicting, missed>>

Query(r) ==
    /\ get[r] # NoRequest /\ get[r].data = NoPage
    /\ get' = [get EXCEPT ![r].data = Page(get[r].page)]
    /\ UNCHANGED <<vars, cache, evicting, missed>>

(* A late put: the change it does not show has been committed, and the     *)
(* page removed for it, since the query.                                   *)
Put(r) ==
    LET p == get[r].page
        late == get[r].data # Page(p) /\ ~Leaving(p) IN
    /\ get[r] # NoRequest /\ get[r].data # NoPage
    /\ cache' = [cache EXCEPT ![p] = [data |-> get[r].data, age |-> 0]]
    /\ get' = [get EXCEPT ![r] = NoRequest]
    /\ missed' = IF late THEN missed \cup {p} ELSE missed \ {p}
    /\ UNCHANGED <<vars, evicting>>
-----------------------------------------------------------------------------
(* The methods with @CacheEvict that change what this module shows.        *)
Evicts_UsersOnly(q) == q.kind \in AddKinds \cup ChangeKinds \cup {"DELETE"}
Evicts(q) == q.kind \in AddKinds \cup ChangeKinds \cup {"DELETE", "RENAME_ROLE"}

Begin(r) == Free(r) /\ Receive(r) /\ UNCHANGED <<caching, missed>>

Serve(r) ==
    /\ \/ Find(r) \/ CheckEmail(r) \/ FindRoles(r) \/ CheckName(r) \/ CheckUnused(r)
       \/ Merge(r) \/ Flush(r) \/ Refused(r)
    /\ UNCHANGED <<caching, missed>>

(* Pages that a request changes and does not remove. *)
Changed == {p \in Pages : Cached(p) /\ Page(p)' # Page(p)}

(* The password of an old copy is merged with all the copy has. *)
Commit(r) ==
    /\ Save(r)
    /\ evicting' = [evicting EXCEPT ![r] = IF Evicts(req[r]) THEN Pages ELSE {}]
    /\ missed' = IF req[r].kind = "PASSWORD" /\ Stale(r) THEN missed \cup Changed ELSE missed
    /\ UNCHANGED <<cache, get>>

Without(gone) == /\ cache' = [p \in Pages |-> IF p \in gone THEN NoPage ELSE cache[p]]
                 /\ missed' = missed \ gone

(* allEntries: one page after the other. *)
Evict(r) ==
    /\ \E p \in evicting[r] :
          /\ evicting' = [evicting EXCEPT ![r] = @ \ {p}]
          /\ Without({p})
    /\ UNCHANGED <<vars, get>>

(* The start may add the administrator, and has no cache of its own. *)
Start ==
    /\ StartInit \/ InitRoles \/ InitAdmin \/ EndInit
    /\ missed' = IF boot.step = "saveAdmin" THEN missed \cup Changed ELSE missed
    /\ UNCHANGED caching

(* The cache is in the memory of the application. *)
Stop ==
    /\ Crash
    /\ Without(Pages)
    /\ get' = [r \in Requests |-> NoRequest]
    /\ evicting' = [r \in Requests |-> {}]
-----------------------------------------------------------------------------
(* The cache by itself: pages expire, and one goes when there are too many.*)

Expires_OneLate(p) == Cached(p) /\ cache[p].age = MaxAge
Expires(p) == Cached(p) /\ cache[p].age = MaxAge - 1

Tick ==
    LET old == {p \in Pages : Expires(p)} IN
    /\ cache' = [p \in Pages |-> IF ~Cached(p) \/ p \in old THEN NoPage
                                 ELSE [cache[p] EXCEPT !.age = @ + 1]]
    /\ missed' = missed \ old
    /\ UNCHANGED <<vars, get, evicting>>

Drop ==
    /\ Cardinality({p \in Pages : Cached(p)}) > MaxPages
    /\ \E p \in Pages : Cached(p) /\ Without({p})
    /\ UNCHANGED <<vars, get, evicting>>

CNext == \/ \E r \in Requests : \/ Hit(r) \/ Miss(r) \/ Query(r) \/ Put(r)
                                \/ Begin(r) \/ Serve(r) \/ Commit(r) \/ Evict(r)
         \/ Start \/ Stop \/ Tick \/ Drop

CSpec == CInit /\ [][CNext]_cvars

(* The clock runs. *)
CFairSpec == CSpec /\ WF_cvars(Tick)
-----------------------------------------------------------------------------
(* Properties *)

(* Every variable holds what its place in the program can hold.            *)
CTypeOK ==
    /\ cache \in [Pages -> Entry \cup {NoPage}]
    /\ get \in [Requests -> [page: Pages, data: PageData \cup {NoPage}] \cup {NoRequest}]
    /\ evicting \in [Requests -> SUBSET Pages]
    /\ missed \subseteq {p \in Pages : Cached(p)}

(* A page in the cache shows the tables, or is about to be removed, or has *)
(* missed a change in one of three ways: a thread put it after the change  *)
(* had removed it, a password was merged from an old copy, or the start    *)
(* added the administrator.  So nothing is missed by the requests that do  *)
(* not remove pages: new and deleted roles, and a fresh change of password.*)
CachedPagesAreTrue == \A p \in Pages : Cached(p) => True(p) \/ Leaving(p) \/ p \in missed

(* A page that missed a change is not shown for ever, however often it is  *)
(* asked for.                                                              *)
MissedPagesLeave == \A p \in Pages : p \in missed ~> p \notin missed
=============================================================================

------------------------ MODULE UsersCacheInvariants ------------------------
(***************************************************************************)
(* Why the pages in the cache are true, but for those that missed a        *)
(* change: an inductive invariant, checked by MCUsersCache and proved in   *)
(* UsersCacheProofs.                                                       *)
(***************************************************************************)
EXTENDS UsersCache, UserDirectoryInvariants

(* A thread that changes users is not in getUsers, nor removing pages.     *)
OneThingAtATime(r) == pc[r] # "idle" => get[r] = NoRequest /\ evicting[r] = {}

CInv ==
    /\ Inv
    /\ CTypeOK
    /\ \A r \in Requests : OneThingAtATime(r) /\ MergesItsCopy(r)
    /\ CachedPagesAreTrue
=============================================================================

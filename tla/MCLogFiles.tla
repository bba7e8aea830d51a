------------------------------ MODULE MCLogFiles ------------------------------
(***************************************************************************)
(* LogFiles on a small instance.                                           *)
(***************************************************************************)
EXTENDS LogFilesInvariants, TLC

CONSTANTS t1, t2

(* Threads differ in nothing. *)
Symmetry == Permutations(Threads)
=============================================================================

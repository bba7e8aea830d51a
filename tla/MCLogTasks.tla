------------------------------ MODULE MCLogTasks ------------------------------
(***************************************************************************)
(* LogTasks on a small instance.                                           *)
(***************************************************************************)
EXTENDS LogTaskAnswers

CONSTANTS t1, c1, c2
=============================================================================

---------------------------- MODULE LogTaskAnswers ----------------------------
(***************************************************************************)
(* What the answers of LogTasks are worth.  A request looks at the map, at *)
(* the time and at the future one after the other, while the task ends,    *)
(* expires or is taken out.  The history variable could collects, for each *)
(* request, what a request served at one blow would have been told at each *)
(* moment since it came.                                                   *)
(***************************************************************************)
EXTENDS LogTasks

VARIABLE could

(* What a request is told when nothing happens while it is served.         *)
Truth(q) ==
    CASE q.task \notin tasks \/ IsExpired(q.task) -> "NOT_FOUND"
      [] q.task \in tasks /\ ~IsExpired(q.task) /\ Finished(q.task) -> Told(q)
      [] OTHER -> "PENDING"

Remember ==
    could' = [c \in Clients |->
        IF pc[c] # "idle" THEN could[c] \cup {Truth(asked[c])}
        ELSE IF pc'[c] # "idle" THEN {} ELSE could[c]]

HInit == Init /\ could = [c \in Clients |-> {}]
HNext == Next /\ Remember
HSpec == HInit /\ [][HNext]_<<vars, could>>
HFairSpec == HSpec /\ Fairness

(* Every answer was true at some moment while the request was served: none *)
(* is made up of a map, a clock and a future that were never so together.  *)
AnswersWereTrue ==
    \A c \in Clients : pc[c] = "idle" /\ answer[c] # Idle => answer[c] \in could[c]
-----------------------------------------------------------------------------
(* The outcome has been the truth already, or it is, or it will be when    *)
(* the task ends.                                                          *)
Decided(c) ==
    LET q == asked[c] IN
    \/ Finished(q.task) /\ Told(q) \in could[c]
    \/ Finished(q.task) /\ Told(q) = Truth(q)
    \/ Truth(q) = "PENDING"

(* From the map to the answer. *)
OnItsWay(c) ==
    /\ pc[c] = "time" => Decided(c) \/ IsExpired(asked[c].task)
    /\ pc[c] \in {"done", "result"} => Decided(c)
    /\ pc[c] = "result" => Finished(asked[c].task)

(* How the variables of a task keep step with each other. *)
InStep(t) ==
    /\ stage[t] = "none" <=> future[t] = "none"
    /\ callback[t] # "none" => Finished(t)
    /\ callback[t] \in {"none", "flagged"} <=> remaining[t] = Never
    /\ t \in tasks => stage[t] = "returned"

SweepsLate == sweep # Idle => \A t \in sweep.late : remaining[t] = -1

KnowsItsTask(c) ==
    pc[c] # "idle" => asked[c] \in Request /\ stage[asked[c].task] = "returned"

(* Inductive: what a sweep may take out is past its time for good, and a   *)
(* request that has the wrapper can tell no other outcome than the one it  *)
(* would have been told before.                                            *)
Inv ==
    /\ TypeOK
    /\ \A t \in Tasks : InStep(t)
    /\ SweepsLate
    /\ KeptForItsTime
    /\ could = [c \in Clients |-> could[c]]
    /\ \A c \in Clients : KnowsItsTask(c) /\ OnItsWay(c)
    /\ AnswersWereTrue
=============================================================================

------------------------------- MODULE LogTasks -------------------------------
(***************************************************************************)
(* The tasks of LogsService: a POST starts a task that collects the log of *)
(* a day in a CompletableFuture, requests for its status and its file find *)
(* it in a ConcurrentHashMap until its time is over, and a sweep takes it  *)
(* out then.  The threads that create, run, ask and sweep share no lock.   *)
(*                                                                         *)
(* Of the time only differences matter: remaining is what expirationTime   *)
(* is ahead of the clock, -1 once it is behind.                            *)
(***************************************************************************)
EXTENDS Integers

CONSTANTS Tasks,   \* the ids that UUID.randomUUID draws, each once
          Clients, \* the threads that serve STATUS and FILE requests
          TTL,     \* TASK_TTL_MINUTES, in ticks of the clock
          Never,   \* Long.MAX_VALUE as expirationTime
          Idle     \* no sweep is under way, no request, no answer

Sweeps == [late: SUBSET Tasks, left: SUBSET Tasks]

ASSUME TTLAssumption == TTL \in Nat
ASSUME MarksAssumption ==
    /\ Never \notin Int
    /\ Idle \notin Sweeps

VARIABLES stage,     \* how far createLogFileAsync is
          future,    \* the state of the CompletableFuture
          callback,  \* how far the action of whenComplete is
          inline,    \* the tasks for which the creating thread runs that action
          remaining, \* the time left from when the callback has read the clock
          tasks,     \* the keys of the map
          sweep,     \* cleanupOldTasks: what is past its time, what is to visit
          pc,        \* where a client's thread is
          asked,     \* the request it serves
          answer     \* its last answer

vars == <<stage, future, callback, inline, remaining, tasks, sweep, pc, asked, answer>>
creation == <<stage, future, callback, inline, remaining>>
clients == <<pc, asked, answer>>

Outcomes == {"logs", "empty", "failed"}
Request == [op: {"STATUS", "FILE"}, task: Tasks]
Answers == {"NOT_FOUND", "PENDING", "COMPLETED", "FAILED", "EMPTY", "FILE"}

Init ==
    /\ stage = [t \in Tasks |-> "none"]
    /\ future = [t \in Tasks |-> "none"]
    /\ callback = [t \in Tasks |-> "none"]
    /\ inline = {}
    /\ remaining = [t \in Tasks |-> Never]
    /\ tasks = {}
    /\ sweep = Idle
    /\ pc = [c \in Clients |-> "idle"]
    /\ asked = [c \in Clients |-> Idle]
    /\ answer = [c \in Clients |-> Idle]

Finished(t) == future[t] \in Outcomes

(* isExpired: Long.MAX_VALUE until the callback has written the time.      *)
IsExpired(t) == callback[t] = "written" /\ remaining[t] = -1
-----------------------------------------------------------------------------
(* createLogFileAsync: the future runs before there is a wrapper, and may  *)
(* be done before the wrapper asks for the callback or the map has it.     *)

Submit(t) ==
    /\ stage[t] = "none"
    /\ stage' = [stage EXCEPT ![t] = "submitted"]
    /\ future' = [future EXCEPT ![t] = "running"]
    /\ UNCHANGED <<callback, inline, remaining, tasks, sweep, clients>>

Finish(t) ==
    /\ future[t] = "running"
    /\ \E o \in Outcomes : future' = [future EXCEPT ![t] = o]
    /\ UNCHANGED <<stage, callback, inline, remaining, tasks, sweep, clients>>

(* new TaskWrapper. *)
Wrap(t) ==
    /\ stage[t] = "submitted"
    /\ stage' = [stage EXCEPT ![t] = "wrapped"]
    /\ inline' = IF Finished(t) THEN inline \cup {t} ELSE inline
    /\ UNCHANGED <<future, callback, remaining, tasks, sweep, clients>>

(* The callback: isCompleted, the clock, expirationTime. *)
SetCompleted_OnSuccess(t) ==
    /\ stage[t] \in {"wrapped", "returned"} /\ callback[t] = "none"
    /\ future[t] \in {"logs", "empty"}
    /\ callback' = [callback EXCEPT ![t] = "flagged"]
    /\ UNCHANGED <<stage, future, inline, remaining, tasks, sweep, clients>>
SetCompleted(t) ==
    /\ stage[t] \in {"wrapped", "returned"} /\ Finished(t) /\ callback[t] = "none"
    /\ callback' = [callback EXCEPT ![t] = "flagged"]
    /\ UNCHANGED <<stage, future, inline, remaining, tasks, sweep, clients>>

ReadClock(t) ==
    /\ callback[t] = "flagged"
    /\ callback' = [callback EXCEPT ![t] = "clocked"]
    /\ remaining' = [remaining EXCEPT ![t] = TTL]
    /\ UNCHANGED <<stage, future, inline, tasks, sweep, clients>>

SetExpiration(t) ==
    /\ callback[t] = "clocked"
    /\ callback' = [callback EXCEPT ![t] = "written"]
    /\ UNCHANGED <<stage, future, inline, remaining, tasks, sweep, clients>>

(* The sweep's iterator shows an entry that is put meanwhile, or does not. *)
Put(t) ==
    /\ stage[t] = "wrapped" /\ (t \in inline => callback[t] = "written")
    /\ stage' = [stage EXCEPT ![t] = "returned"]
    /\ tasks' = tasks \cup {t}
    /\ sweep' \in {sweep} \cup (IF sweep = Idle THEN {} ELSE {[sweep EXCEPT !.left = @ \cup {t}]})
    /\ UNCHANGED <<future, callback, inline, remaining, clients>>

Tick ==
    /\ remaining' = [t \in Tasks |-> IF remaining[t] \in 0..TTL THEN remaining[t] - 1
                                     ELSE remaining[t]]
    /\ UNCHANGED <<stage, future, callback, inline, tasks, sweep, clients>>
-----------------------------------------------------------------------------
(* cleanupOldTasks: it reads the clock once and compares every entry with  *)
(* that, however long it takes.                                            *)

StartSweep ==
    /\ sweep = Idle
    /\ sweep' = [late |-> {t \in Tasks : remaining[t] = -1}, left |-> tasks]
    /\ UNCHANGED <<creation, tasks, clients>>

Late_FromTheFlag(t) == \/ callback[t] \in {"flagged", "clocked"}
                       \/ callback[t] = "written" /\ t \in sweep.late
Late(t) == callback[t] = "written" /\ t \in sweep.late

Remove(t) ==
    /\ sweep # Idle /\ t \in sweep.left /\ Late(t)
    /\ tasks' = tasks \ {t}
    /\ sweep' = [sweep EXCEPT !.left = @ \ {t}]
    /\ UNCHANGED <<creation, clients>>

(* isCompleted is not volatile: the sweep may read the old value unless    *)
(* the creating thread wrote it before the entry was put.                  *)
Pass(t) ==
    /\ sweep # Idle /\ t \in sweep.left
    /\ ~Late(t) \/ t \notin inline
    /\ sweep' = [sweep EXCEPT !.left = @ \ {t}]
    /\ UNCHANGED <<creation, tasks, clients>>

EndSweep ==
    /\ sweep # Idle /\ sweep.left = {}
    /\ sweep' = Idle
    /\ UNCHANGED <<creation, tasks, clients>>
-----------------------------------------------------------------------------
(* getTaskStatus and getTaskLog: the wrapper from the map, its time, its   *)
(* future, each looked at once and in this order.                          *)

Goto(c, step) == pc' = [pc EXCEPT ![c] = step] /\ UNCHANGED <<creation, sweep, asked, answer>>

(* (What is left of its time, which a COMPLETED status tells, is left out.)*)
Answer(c, a) ==
    /\ answer' = [answer EXCEPT ![c] = a]
    /\ pc' = [pc EXCEPT ![c] = "idle"]
    /\ UNCHANGED <<creation, sweep, asked>>

(* A client knows the ids that POSTs have returned. *)
Ask(c) ==
    /\ pc[c] = "idle"
    /\ \E q \in Request : stage[q.task] = "returned" /\ asked' = [asked EXCEPT ![c] = q]
    /\ pc' = [pc EXCEPT ![c] = "get"]
    /\ answer' = [answer EXCEPT ![c] = Idle]
    /\ UNCHANGED <<creation, tasks, sweep>>

Get(c) ==
    /\ pc[c] = "get"
    /\ \/ asked[c].task \in tasks /\ Goto(c, "time")
       \/ asked[c].task \notin tasks /\ Answer(c, "NOT_FOUND")
    /\ UNCHANGED tasks

CheckTime_Not(c) == pc[c] = "time" /\ Goto(c, "done") /\ UNCHANGED tasks
CheckTime(c) ==
    /\ pc[c] = "time"
    /\ \/ ~IsExpired(asked[c].task) /\ Goto(c, "done")
       \/ IsExpired(asked[c].task) /\ Answer(c, "NOT_FOUND")
    /\ UNCHANGED tasks

CheckDone(c) ==
    /\ pc[c] = "done"
    /\ \/ Finished(asked[c].task) /\ Goto(c, "result")
       \/ ~Finished(asked[c].task) /\ Answer(c, "PENDING")
    /\ UNCHANGED tasks

(* What a finished task answers: the log, that there is none, a failure.   *)
Told(q) ==
    CASE future[q.task] = "failed" -> "FAILED"
      [] future[q.task] # "failed" /\ q.op = "STATUS" -> "COMPLETED"
      [] future[q.task] = "empty" /\ q.op = "FILE" -> "EMPTY"
      [] future[q.task] = "logs" /\ q.op = "FILE" -> "FILE"

(* A failed task whose file is asked for is taken out. *)
Drops_EveryFile(q) == q.op = "FILE"
Drops(q) == q.op = "FILE" /\ future[q.task] = "failed"

Result(c) ==
    /\ pc[c] = "result"
    /\ Answer(c, Told(asked[c]))
    /\ tasks' = IF Drops(asked[c]) THEN tasks \ {asked[c].task} ELSE tasks

Create(t) == \/ Submit(t) \/ Finish(t) \/ Wrap(t) \/ Put(t)
             \/ SetCompleted(t) \/ ReadClock(t) \/ SetExpiration(t)

Sweep == StartSweep \/ EndSweep \/ \E t \in Tasks : Remove(t) \/ Pass(t)

Serve(c) == Ask(c) \/ Get(c) \/ CheckTime(c) \/ CheckDone(c) \/ Result(c)

Next == \/ \E t \in Tasks : Create(t)
        \/ \E c \in Clients : Serve(c)
        \/ Sweep \/ Tick

Spec == Init /\ [][Next]_vars

(* Threads that can go on do, the clock runs, and the executor starts a    *)
(* sweep every CLEANUP_INTERVAL_MINUTES.  A sweep that comes again and     *)
(* again does not read an old isCompleted for ever.                        *)
Fairness ==
    /\ WF_vars(Tick) /\ WF_vars(StartSweep) /\ WF_vars(EndSweep)
    /\ \A t \in Tasks :
          /\ WF_vars(Finish(t)) /\ WF_vars(Wrap(t)) /\ WF_vars(Put(t))
          /\ WF_vars(SetCompleted(t)) /\ WF_vars(ReadClock(t)) /\ WF_vars(SetExpiration(t))
          /\ WF_vars(Remove(t) \/ Pass(t)) /\ SF_vars(Remove(t))

FairSpec == Spec /\ Fairness
-----------------------------------------------------------------------------
(* Properties *)

(* Every variable holds what its place in the program can hold.            *)
TypeOK ==
    /\ stage \in [Tasks -> {"none", "submitted", "wrapped", "returned"}]
    /\ future \in [Tasks -> {"none", "running"} \cup Outcomes]
    /\ callback \in [Tasks -> {"none", "flagged", "clocked", "written"}]
    /\ inline \subseteq Tasks
    /\ remaining \in [Tasks -> {Never} \cup -1..TTL]
    /\ tasks \subseteq Tasks
    /\ sweep \in Sweeps \cup {Idle}
    /\ pc \in [Clients -> {"idle", "get", "time", "done", "result"}]
    /\ asked \in [Clients -> Request \cup {Idle}]
    /\ answer \in [Clients -> Answers \cup {Idle}]

(* Whoever was told of a task finds it until its time is over: no sweep,   *)
(* started before or after the task was done, takes one out that is not    *)
(* done or has time left.  A failure may be told once only.                *)
KeptForItsTime ==
    \A t \in Tasks : stage[t] = "returned" /\ t \notin tasks =>
        IsExpired(t) \/ future[t] = "failed"

(* Every task leaves the map in the end, asked for or not, whichever       *)
(* thread its callback runs in.                                            *)
TasksLeave == \A t \in Tasks : stage[t] = "returned" ~> t \notin tasks
=============================================================================

----------------------------- MODULE LogTaskProofs -----------------------------
(***************************************************************************)
(* LogTasks and the answers it gives, for every number of tasks, clients   *)
(* and ticks a task lives.                                                 *)
(*                                                                         *)
(* The truth about a task only moves forward: it is pending, then its      *)
(* outcome, then that it is not found (PendingMoves, ExpiredStays,         *)
(* OutcomeStays).  So what a request reads later is never older than what  *)
(* it read first, and its answer was the truth in between.                 *)
(***************************************************************************)
EXTENDS LogTaskAnswers, TLAPS

LEMMA InitInv == HInit => Inv
<1> SUFFICES ASSUME HInit PROVE Inv
  OBVIOUS
<1>1. TypeOK
  BY DEF HInit, Init, TypeOK
<1>2. \A t \in Tasks : InStep(t)
  BY DEF HInit, Init, InStep, Outcomes
<1>3. SweepsLate /\ KeptForItsTime /\ could = [c \in Clients |-> could[c]]
  BY DEF HInit, Init, SweepsLate, KeptForItsTime
<1>4. \A c \in Clients : KnowsItsTask(c) /\ OnItsWay(c)
  BY DEF HInit, Init, KnowsItsTask, OnItsWay
<1>5. AnswersWereTrue
  BY DEF HInit, Init, AnswersWereTrue
<1> QED
  BY <1>1, <1>2, <1>3, <1>4, <1>5 DEF Inv
-----------------------------------------------------------------------------
(* What is told is one of the answers. *)
LEMMA ToldIsAnswer ==
    ASSUME NEW q \in Request, Finished(q.task)
    PROVE  Told(q) \in Answers /\ Told(q) \notin {"PENDING", "NOT_FOUND"}
BY DEF Request, Finished, Outcomes, Told, Answers

(* One step of the types. *)
LEMMA NextKeepsTypes ==
    ASSUME Inv, [Next]_vars
    PROVE  TypeOK'
<1> USE TTLAssumption
<1>0. TypeOK
  BY DEF Inv
<1>1. CASE UNCHANGED vars
  BY <1>0, <1>1 DEF vars, TypeOK
<1>2. ASSUME NEW t \in Tasks, Create(t) PROVE TypeOK'
  <2>1. CASE Submit(t)
    BY <1>0, <2>1 DEF TypeOK, Submit, clients
  <2>2. CASE Finish(t)
    BY <1>0, <2>2 DEF TypeOK, Finish, clients
  <2>3. CASE Wrap(t)
    BY <1>0, <2>3 DEF TypeOK, Wrap, clients
  <2>4. CASE Put(t)
    <3>1. sweep' \in Sweeps \cup {Idle}
      BY <1>0, <2>4 DEF TypeOK, Put, Sweeps
    <3> QED
      BY <1>0, <2>4, <3>1 DEF TypeOK, Put, clients
  <2>5. CASE SetCompleted(t)
    BY <1>0, <2>5 DEF TypeOK, SetCompleted, clients
  <2>6. CASE ReadClock(t)
    BY <1>0, <2>6 DEF TypeOK, ReadClock, clients
  <2>7. CASE SetExpiration(t)
    BY <1>0, <2>7 DEF TypeOK, SetExpiration, clients
  <2> QED
    BY <1>2, <2>1, <2>2, <2>3, <2>4, <2>5, <2>6, <2>7 DEF Create
<1>3. CASE Tick
  <2>1. remaining' \in [Tasks -> {Never} \cup -1..TTL]
    <3>1. \A t \in Tasks : remaining[t] \in 0..TTL => remaining[t] - 1 \in -1..TTL
      OBVIOUS
    <3> QED
      BY <1>0, <1>3, <3>1 DEF Tick, TypeOK
  <2> QED
    BY <1>0, <1>3, <2>1 DEF TypeOK, Tick, clients
<1>4. CASE Sweep
  <2>1. sweep' \in Sweeps \cup {Idle} /\ tasks' \subseteq Tasks /\ UNCHANGED <<creation, clients>>
    BY <1>0, <1>4 DEF TypeOK, Sweep, StartSweep, EndSweep, Remove, Pass, Sweeps
  <2> QED
    BY <1>0, <2>1 DEF TypeOK, creation, clients
<1>5. ASSUME NEW c \in Clients, Serve(c) PROVE TypeOK'
  <2>1. UNCHANGED <<creation, sweep>> /\ tasks' \subseteq tasks
    BY <1>5 DEF Serve, Ask, Get, CheckTime, CheckDone, Result, Goto, Answer
  <2>2. /\ pc' \in [Clients -> {"idle", "get", "time", "done", "result"}]
        /\ asked' \in [Clients -> Request \cup {Idle}]
        /\ answer' \in [Clients -> Answers \cup {Idle}]
    <3>1. CASE Ask(c)
      BY <1>0, <3>1 DEF TypeOK, Ask
    <3>2. CASE Get(c) \/ CheckTime(c) \/ CheckDone(c)
      BY <1>0, <3>2 DEF TypeOK, Get, CheckTime, CheckDone, Goto, Answer, Answers
    <3>3. CASE Result(c)
      <4>1. Told(asked[c]) \in Answers
        BY <3>3, ToldIsAnswer DEF Inv, Result, KnowsItsTask, OnItsWay
      <4> QED
        BY <1>0, <3>3, <4>1 DEF TypeOK, Result, Answer
    <3> QED
      BY <1>5, <3>1, <3>2, <3>3 DEF Serve
  <2> QED
    BY <1>0, <2>1, <2>2 DEF TypeOK, creation
<1> QED
  BY <1>1, <1>2, <1>3, <1>4, <1>5 DEF Next
-----------------------------------------------------------------------------
(* What a step does to one task, whoever takes it.                         *)
Creates(t) ==
    /\ \/ /\ stage[t] = "none" /\ stage'[t] = "submitted"
          /\ future[t] = "none" /\ future'[t] = "running"
          /\ (t \in tasks)' = (t \in tasks)
       \/ /\ stage[t] = "submitted" /\ stage'[t] = "wrapped"
          /\ future'[t] = future[t] /\ (t \in tasks)' = (t \in tasks)
       \/ /\ stage[t] = "wrapped" /\ stage'[t] = "returned"
          /\ future'[t] = future[t] /\ (t \in tasks)'
    /\ callback'[t] = callback[t] /\ remaining'[t] = remaining[t]

Ends(t) ==
    /\ \/ future[t] = "running" /\ Finished(t)' /\ callback'[t] = callback[t]
       \/ /\ Finished(t) /\ future'[t] = future[t]
          /\ <<callback[t], callback'[t]>> \in {<<"none", "flagged">>, <<"clocked", "written">>}
    /\ stage'[t] = stage[t] /\ remaining'[t] = remaining[t] /\ (t \in tasks)' = (t \in tasks)

Ages(t) ==
    /\ \/ /\ callback[t] = "flagged" /\ callback'[t] = "clocked"
          /\ remaining'[t] = TTL
       \/ /\ callback'[t] = callback[t]
          /\ remaining'[t] = IF remaining[t] \in 0..TTL THEN remaining[t] - 1 ELSE remaining[t]
    /\ stage'[t] = stage[t] /\ future'[t] = future[t] /\ (t \in tasks)' = (t \in tasks)

Stays(t) ==
    /\ stage'[t] = stage[t] /\ future'[t] = future[t] /\ callback'[t] = callback[t]
    /\ remaining'[t] = remaining[t]
    /\ \/ (t \in tasks)' = (t \in tasks)
       \/ (t \notin tasks)' /\ (IsExpired(t) \/ future[t] = "failed")

LEMMA StepsOfTasks ==
    ASSUME Inv, [Next]_vars, NEW t \in Tasks
    PROVE  Creates(t) \/ Ends(t) \/ Ages(t) \/ Stays(t)
<1>0. TypeOK /\ InStep(t)
  BY DEF Inv
<1>1. CASE UNCHANGED vars
  BY <1>1 DEF vars, Stays
<1>2. ASSUME NEW u \in Tasks, Create(u) PROVE Creates(t) \/ Ends(t) \/ Stays(t) \/ Ages(t)
  <2>1. CASE u # t
    <3>1. /\ stage'[t] = stage[t] /\ future'[t] = future[t] /\ callback'[t] = callback[t]
          /\ remaining'[t] = remaining[t]
      BY <1>0, <1>2, <2>1
         DEF Create, Submit, Finish, Wrap, Put, SetCompleted, ReadClock, SetExpiration, TypeOK
    <3>2. (t \in tasks)' = (t \in tasks)
      BY <1>2, <2>1
         DEF Create, Submit, Finish, Wrap, Put, SetCompleted, ReadClock, SetExpiration
    <3> QED
      BY <3>1, <3>2 DEF Stays
  <2>2. CASE u = t
    <3>1. CASE Submit(t)
      BY <1>0, <3>1 DEF TypeOK, Submit, Creates, InStep
    <3>2. CASE Finish(t)
      BY <1>0, <3>2 DEF TypeOK, Finish, Ends, Finished
    <3>3. CASE Wrap(t) \/ Put(t)
      BY <1>0, <3>3 DEF TypeOK, Wrap, Put, Creates
    <3>4. CASE SetCompleted(t) \/ SetExpiration(t)
      <4>1. Finished(t) /\ UNCHANGED <<stage, future, remaining, tasks>>
        BY <1>0, <3>4 DEF SetCompleted, SetExpiration, InStep
      <4> QED
        BY <1>0, <3>4, <4>1 DEF TypeOK, SetCompleted, SetExpiration, Ends
    <3>5. CASE ReadClock(t)
      BY <1>0, <3>5 DEF TypeOK, ReadClock, Ages
    <3> QED
      BY <1>2, <2>2, <3>1, <3>2, <3>3, <3>4, <3>5 DEF Create
  <2> QED
    BY <2>1, <2>2
<1>3. CASE Tick
  BY <1>3 DEF Tick, Ages
<1>4. CASE Sweep
  <2>1. UNCHANGED creation
    BY <1>4 DEF Sweep, StartSweep, EndSweep, Remove, Pass
  <2>2. \A u \in Tasks : Remove(u) => IsExpired(u)
    BY DEF Remove, Late, IsExpired, Inv, SweepsLate
  <2>3. \/ tasks' = tasks
        \/ \E u \in Tasks : tasks' = tasks \ {u} /\ IsExpired(u)
    BY <1>4, <2>2 DEF Sweep, StartSweep, EndSweep, Remove, Pass
  <2> QED
    BY <2>1, <2>3 DEF creation, Stays
<1>5. ASSUME NEW c \in Clients, Serve(c) PROVE Stays(t)
  <2>1. UNCHANGED creation
    BY <1>5 DEF Serve, Ask, Get, CheckTime, CheckDone, Result, Goto, Answer
  <2>2. \/ tasks' = tasks
        \/ tasks' = tasks \ {asked[c].task} /\ future[asked[c].task] = "failed"
    BY <1>5 DEF Serve, Ask, Get, CheckTime, CheckDone, Result, Goto, Drops
  <2> QED
    BY <2>1, <2>2 DEF creation, Stays
<1> QED
  BY <1>1, <1>2, <1>3, <1>4, <1>5 DEF Next

(* An outcome is for good, the time that is over, and an id once returned. *)
LEMMA TasksMoveOn ==
    ASSUME Inv, [Next]_vars, NEW t \in Tasks
    PROVE  /\ Finished(t) => Finished(t)' /\ future'[t] = future[t]
           /\ IsExpired(t) => IsExpired(t)'
           /\ remaining[t] = -1 => remaining'[t] = -1
           /\ stage[t] = "returned" => stage'[t] = "returned"
<1>1. InStep(t) /\ remaining[t] \in {Never} \cup -1..TTL
  BY DEF Inv, TypeOK
<1>2. -1 \notin 0..TTL /\ Never # -1
  BY MarksAssumption
<1> QED
  BY <1>1, <1>2, StepsOfTasks
     DEF Creates, Ends, Ages, Stays, InStep, Finished, IsExpired, Outcomes

LEMMA TasksStayInStep ==
    ASSUME Inv, [Next]_vars, NEW t \in Tasks
    PROVE  InStep(t)'
<1>1. InStep(t) /\ remaining[t] \in {Never} \cup -1..TTL
  BY DEF Inv, TypeOK
<1>2. Never \notin Int /\ TTL \in Int
  BY MarksAssumption, TTLAssumption
<1>3. CASE Creates(t)
  BY <1>1, <1>3 DEF Creates, InStep, Finished, Outcomes
<1>4. CASE Ends(t)
  BY <1>1, <1>4 DEF Ends, InStep, Finished, Outcomes
<1>5. CASE Ages(t)
  <2>1. remaining'[t] = Never <=> (remaining[t] = Never /\ callback'[t] # "clocked")
    BY <1>1, <1>2, <1>5 DEF Ages, InStep
  <2> QED
    BY <1>1, <1>5, <2>1 DEF Ages, InStep, Finished
<1>6. CASE Stays(t)
  BY <1>1, <1>6 DEF Stays, InStep, Finished
<1> QED
  BY <1>3, <1>4, <1>5, <1>6, StepsOfTasks

LEMMA SweepsStayLate ==
    ASSUME Inv, [Next]_vars
    PROVE  SweepsLate'
<1>1. sweep' = Idle \/ sweep'.late \subseteq {t \in Tasks : remaining[t] = -1}
  <2>1. CASE sweep # Idle
    <3>1. sweep \in Sweeps /\ sweep.late \subseteq {t \in Tasks : remaining[t] = -1}
      BY <2>1 DEF Inv, TypeOK, SweepsLate, Sweeps
    <3>2. sweep' = Idle \/ sweep' = sweep \/ \E l : sweep' = [sweep EXCEPT !.left = l]
      BY <2>1 DEF Next, vars, Create, Submit, Finish, Wrap, Put, SetCompleted, ReadClock,
                  SetExpiration, Tick, Sweep, StartSweep, EndSweep, Remove, Pass, Serve, Ask, Get,
                  CheckTime, CheckDone, Result, Goto, Answer
    <3> QED
      BY <3>1, <3>2 DEF Sweeps
  <2>2. CASE sweep = Idle
    <3>1. sweep' = Idle \/ sweep'.late = {t \in Tasks : remaining[t] = -1}
      BY <2>2 DEF Next, vars, Create, Submit, Finish, Wrap, Put, SetCompleted, ReadClock,
                  SetExpiration, Tick, Sweep, StartSweep, EndSweep, Remove, Pass, Serve, Ask, Get,
                  CheckTime, CheckDone, Result, Goto, Answer
    <3> QED
      BY <3>1
  <2> QED
    BY <2>1, <2>2
<1> QED
  BY <1>1, TasksMoveOn DEF SweepsLate

LEMMA TasksStayKept ==
    ASSUME Inv, [Next]_vars
    PROVE  KeptForItsTime'
<1> SUFFICES ASSUME NEW t \in Tasks, stage'[t] = "returned", t \notin tasks'
             PROVE  IsExpired(t)' \/ future'[t] = "failed"
  BY DEF KeptForItsTime
<1>1. /\ InStep(t)
      /\ stage[t] = "returned" /\ t \notin tasks => IsExpired(t) \/ future[t] = "failed"
  BY DEF Inv, KeptForItsTime
<1>2. future[t] = "failed" => future'[t] = "failed"
  BY TasksMoveOn DEF Finished, Outcomes
<1>3. IsExpired(t) \/ future[t] = "failed"
  BY <1>1, StepsOfTasks DEF Creates, Ends, Ages, Stays
<1> QED
  BY <1>2, <1>3, TasksMoveOn
-----------------------------------------------------------------------------
(* While a task is pending its next truth is that, or its outcome.         *)
LEMMA PendingMoves ==
    ASSUME Inv, [Next]_vars, NEW q \in Request, stage[q.task] = "returned", Truth(q) = "PENDING"
    PROVE  Truth(q)' = "PENDING" \/ (Finished(q.task)' /\ Truth(q)' = Told(q)')
<1> DEFINE t == q.task
<1>1. t \in Tasks /\ InStep(t)
  BY DEF Request, Inv
<1>2. t \in tasks /\ ~Finished(t)
  BY ToldIsAnswer DEF Truth
<1>3. callback[t] = "none"
  BY <1>1, <1>2 DEF InStep
<1>4. /\ t \in tasks' /\ (callback'[t] # "written" \/ remaining'[t] # -1)
  BY <1>1, <1>2, <1>3, StepsOfTasks
     DEF Creates, Ends, Ages, Stays, IsExpired, Finished, Outcomes
<1> QED
  BY <1>4 DEF Truth, IsExpired

LEMMA DecidedStays ==
    ASSUME Inv, [Next]_vars, NEW c \in Clients, pc[c] # "idle", Decided(c),
           asked'[c] = asked[c], could'[c] = could[c] \cup {Truth(asked[c])}
    PROVE  Decided(c)'
<1> DEFINE q == asked[c]
<1>1. q \in Request /\ stage[q.task] = "returned" /\ q.task \in Tasks
  BY DEF Inv, KnowsItsTask, Request
<1>2. CASE Finished(q.task)
  <2>1. Finished(q.task)' /\ future'[q.task] = future[q.task]
    BY <1>1, <1>2, TasksMoveOn
  <2>2. Told(q)' = Told(q)
    BY <2>1 DEF Told
  <2>3. Truth(q) # "PENDING"
    BY <1>1, <1>2, ToldIsAnswer DEF Truth
  <2>4. Told(q) \in could'[c]
    BY <2>3 DEF Decided
  <2> QED
    BY <2>1, <2>2, <2>4 DEF Decided
<1>3. CASE ~Finished(q.task)
  <2>1. Truth(q)' = "PENDING" \/ (Finished(q.task)' /\ Truth(q)' = Told(q)')
    BY <1>1, <1>3, PendingMoves DEF Decided
  <2> QED
    BY <2>1 DEF Decided
<1> QED
  BY <1>2, <1>3

(* What a step of a request, or of somebody else, does to one client.      *)
LEMMA RequestsStay ==
    ASSUME Inv, HNext, NEW c \in Clients
    PROVE  KnowsItsTask(c)' /\ OnItsWay(c)'
           /\ (pc'[c] = "idle" /\ answer'[c] # Idle => answer'[c] \in could'[c])
<1> DEFINE Goal == KnowsItsTask(c)' /\ OnItsWay(c)'
                   /\ (pc'[c] = "idle" /\ answer'[c] # Idle => answer'[c] \in could'[c])
           q == asked[c]
<1>0. /\ TypeOK /\ KnowsItsTask(c) /\ OnItsWay(c) /\ [Next]_vars
      /\ pc[c] = "idle" /\ answer[c] # Idle => answer[c] \in could[c]
  BY DEF Inv, HNext, AnswersWereTrue
<1>1. /\ pc[c] # "idle" => could'[c] = could[c] \cup {Truth(q)}
      /\ pc[c] = "idle" /\ pc'[c] = "idle" => could'[c] = could[c]
  BY DEF HNext, Remember
<1>2. pc[c] # "idle" => q \in Request /\ q.task \in Tasks /\ stage[q.task] = "returned"
                        /\ stage'[q.task] = "returned"
  BY <1>0, TasksMoveOn DEF KnowsItsTask, Request
<1>3. ASSUME pc[c] # "idle", asked'[c] = asked[c]
      PROVE  /\ Decided(c) => Decided(c)'
             /\ IsExpired(q.task) => IsExpired(q.task)'
             /\ Finished(q.task) => Finished(q.task)'
  BY <1>0, <1>1, <1>2, <1>3, DecidedStays, TasksMoveOn
<1>4. CASE pc'[c] = pc[c] /\ asked'[c] = asked[c] /\ answer'[c] = answer[c]
  <2>1. CASE pc[c] = "idle"
    BY <1>0, <1>1, <1>4, <2>1 DEF KnowsItsTask, OnItsWay
  <2>2. CASE pc[c] # "idle"
    <3>1. KnowsItsTask(c)'
      BY <1>2, <1>4, <2>2 DEF KnowsItsTask
    <3>2. OnItsWay(c)'
      BY <1>0, <1>3, <1>4, <2>2 DEF OnItsWay
    <3> QED
      BY <1>4, <2>2, <3>1, <3>2
  <2> QED
    BY <2>1, <2>2
<1>5. CASE Ask(c)
  <2>1. /\ pc'[c] = "get" /\ answer'[c] = Idle
        /\ \E r \in Request : stage[r.task] = "returned" /\ asked'[c] = r
        /\ UNCHANGED creation
    BY <1>0, <1>5 DEF Ask, TypeOK
  <2> QED
    BY <2>1 DEF KnowsItsTask, OnItsWay, creation
<1>6. CASE Get(c) \/ CheckTime(c) \/ CheckDone(c) \/ Result(c)
  <2>0. pc[c] # "idle" /\ asked'[c] = asked[c] /\ UNCHANGED creation
    BY <1>6 DEF Get, CheckTime, CheckDone, Result, Goto, Answer
  <2>1. ASSUME NEW a, Answer(c, a), a \in could[c] \cup {Truth(q)} PROVE Goal
    <3>1. pc'[c] = "idle" /\ answer'[c] = a
      BY <1>0, <2>1 DEF Answer, TypeOK
    <3> QED
      BY <1>1, <2>0, <2>1, <3>1 DEF KnowsItsTask, OnItsWay
  <2>2. ASSUME NEW step \in {"time", "done", "result"}, Goto(c, step),
               Decided(c) \/ (step = "time" /\ IsExpired(q.task)),
               step = "result" => Finished(q.task)
        PROVE  Goal
    <3>1. pc'[c] = step
      BY <1>0, <2>2 DEF Goto, TypeOK
    <3>2. KnowsItsTask(c)'
      BY <1>2, <2>0 DEF KnowsItsTask
    <3>3. OnItsWay(c)'
      BY <1>3, <2>0, <2>2, <3>1 DEF OnItsWay
    <3> QED
      BY <3>1, <3>2, <3>3
  <2>3. CASE Get(c)
    <3>1. CASE q.task \in tasks
      <4>1. Decided(c) \/ IsExpired(q.task)
        BY <3>1 DEF Decided, Truth
      <4> QED
        BY <2>2, <2>3, <3>1, <4>1 DEF Get
    <3>2. CASE q.task \notin tasks
      BY <2>1, <2>3, <3>2 DEF Get, Truth
    <3> QED
      BY <3>1, <3>2
  <2>4. CASE CheckTime(c)
    <3>1. CASE IsExpired(q.task)
      BY <2>1, <2>4, <3>1 DEF CheckTime, Truth
    <3>2. CASE ~IsExpired(q.task)
      BY <1>0, <2>2, <2>4, <3>2 DEF CheckTime, OnItsWay
    <3> QED
      BY <3>1, <3>2
  <2>5. CASE CheckDone(c)
    <3>1. CASE Finished(q.task)
      BY <1>0, <2>2, <2>5, <3>1 DEF CheckDone, OnItsWay
    <3>2. CASE ~Finished(q.task)
      <4>1. Truth(q) = "PENDING"
        BY <1>0, <2>5, <3>2 DEF CheckDone, OnItsWay, Decided
      <4> QED
        BY <2>1, <2>5, <3>2, <4>1 DEF CheckDone
    <3> QED
      BY <3>1, <3>2
  <2>6. CASE Result(c)
    <3>1. Finished(q.task) /\ Decided(c)
      BY <1>0, <2>6 DEF Result, OnItsWay
    <3>2. Truth(q) # "PENDING"
      BY <1>2, <2>0, <3>1, ToldIsAnswer DEF Truth
    <3>3. Told(q) \in could[c] \cup {Truth(q)}
      BY <3>1, <3>2 DEF Decided
    <3> QED
      BY <2>1, <2>6, <3>3 DEF Result
  <2> QED
    BY <1>6, <2>3, <2>4, <2>5, <2>6
<1>7. CASE ~Serve(c)
  <2>1. pc'[c] = pc[c] /\ asked'[c] = asked[c] /\ answer'[c] = answer[c]
    <3>1. CASE UNCHANGED clients
      BY <3>1 DEF clients
    <3>2. ASSUME NEW d \in Clients, Serve(d), d # c
          PROVE  pc'[c] = pc[c] /\ asked'[c] = asked[c] /\ answer'[c] = answer[c]
      BY <1>0, <3>2 DEF Serve, Ask, Get, CheckTime, CheckDone, Result, Goto, Answer, TypeOK
    <3>3. UNCHANGED clients \/ \E d \in Clients : Serve(d)
      BY DEF HNext, Next, Create, Submit, Finish, Wrap, Put, SetCompleted, ReadClock,
             SetExpiration, Tick, Sweep, StartSweep, EndSweep, Remove, Pass
    <3> QED
      BY <1>7, <3>1, <3>2, <3>3
  <2> QED
    BY <1>4, <2>1
<1> QED
  BY <1>5, <1>6, <1>7 DEF Serve

LEMMA NextKeepsInv ==
    ASSUME Inv, [HNext]_<<vars, could>>
    PROVE  Inv'
<1>1. CASE HNext
  <2>1. TypeOK' /\ SweepsLate' /\ KeptForItsTime' /\ \A t \in Tasks : InStep(t)'
    BY <1>1, NextKeepsTypes, SweepsStayLate, TasksStayKept, TasksStayInStep DEF HNext
  <2>2. could' = [c \in Clients |-> could'[c]]
    BY <1>1 DEF HNext, Remember
  <2>3. \A c \in Clients : /\ KnowsItsTask(c)' /\ OnItsWay(c)'
                           /\ pc'[c] = "idle" /\ answer'[c] # Idle => answer'[c] \in could'[c]
    BY <1>1, RequestsStay
  <2>4. AnswersWereTrue'
    BY <2>3 DEF AnswersWereTrue
  <2> QED
    BY <2>1, <2>2, <2>3, <2>4 DEF Inv
<1>2. CASE UNCHANGED <<vars, could>>
  <2>1. TypeOK' /\ SweepsLate' /\ \A t \in Tasks : InStep(t)'
    BY <1>2, NextKeepsTypes, SweepsStayLate, TasksStayInStep
  <2>2. KeptForItsTime'
    BY <1>2, TasksStayKept
  <2>3. could' = [c \in Clients |-> could'[c]]
    BY <1>2 DEF Inv
  <2>4. AnswersWereTrue'
    BY <1>2 DEF Inv, vars, AnswersWereTrue
  <2>5. ASSUME NEW c \in Clients PROVE KnowsItsTask(c)' /\ OnItsWay(c)'
    <3>1. UNCHANGED <<stage, future, callback, remaining, tasks, pc, asked, could>>
      BY <1>2 DEF vars
    <3>2. Decided(c)' = Decided(c) /\ IsExpired(asked[c].task)' = IsExpired(asked[c].task)
          /\ Finished(asked[c].task)' = Finished(asked[c].task)
      BY <3>1 DEF Decided, Truth, Told, Finished, IsExpired
    <3> QED
      BY <3>1, <3>2 DEF Inv, KnowsItsTask, OnItsWay
  <2> QED
    BY <2>1, <2>2, <2>3, <2>4, <2>5 DEF Inv
<1> QED
  BY <1>1, <1>2

(* The inductive invariant holds whatever the order in which the threads   *)
(* that create, run, ask and sweep take their steps.                       *)
THEOREM TaskInvariance == HSpec => []Inv
BY InitInv, NextKeepsInv, PTL DEF HSpec

(* A task is found until its time is over, from the moment its id is told. *)
THEOREM TasksAreKept == HSpec => []KeptForItsTime
<1>1. Inv => KeptForItsTime
  BY DEF Inv
<1> QED
  BY <1>1, TaskInvariance, PTL

(* Every answer was the truth at a moment while its request was served,    *)
(* although a request reads the map, the time and the future separately.   *)
THEOREM AnswersAreTrue == HSpec => []AnswersWereTrue
<1>1. Inv => AnswersWereTrue
  BY DEF Inv
<1> QED
  BY <1>1, TaskInvariance, PTL
=============================================================================

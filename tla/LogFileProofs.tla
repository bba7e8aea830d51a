---------------------------- MODULE LogFileProofs ----------------------------
(***************************************************************************)
(* The log of a day is answered in order and lacks only what               *)
(* OnlyTheseAreMissing names, for all threads, days, lines and files.      *)
(*                                                                         *)
(* The files are numbered as they were written, and so are the indices of  *)
(* one day: reading by index is reading forwards (ReadsForwards), whatever *)
(* is renamed or removed meanwhile.  A line that was there before is in a  *)
(* file that the listing saw, but for the current one, and that file keeps *)
(* its name until it is read or removed (NothingElseIsLost).               *)
(***************************************************************************)
EXTENDS LogFilesInvariants, SequenceTheorems, TLAPS

LEMMA DaysAreNumbers == LastDay \in Nat /\ Days \subseteq Nat /\ 0 \in Days
BY BoundsAssumption DEF Days

LEMMA LinesHaveFiles ==
    ASSUME LInv
    PROVE  /\ Len(log) \in Nat /\ file \in Nat
           /\ \A n \in 1..Len(log) : /\ log[n] \in [day: Days, file: Nat]
                                     /\ log[n].file \in Nat
                                     /\ log[n].file <= file
<1>1. log \in Seq([day: Days, file: Nat]) /\ file \in Nat
  BY DEF LInv, LTypeOK
<1>2. Len(log) \in Nat /\ \A n \in 1..Len(log) : log[n] \in [day: Days, file: Nat]
  BY <1>1, ElementOfSeq, LenProperties
<1> QED
  BY <1>1, <1>2 DEF LInv, FilesInOrder

LEMMA LogStarts == Init => LInv
<1> SUFFICES ASSUME Init PROVE LInv
  OBVIOUS
<1>1. LTypeOK
  BY BoundsAssumption DEF Init, LTypeOK, Task, NoTask, Days, Steps
<1>2. FilesInOrder /\ RolledInOrder
  BY DEF Init, FilesInOrder, RolledInOrder
<1>3. ReadsForwards /\ AnswersInOrder
  BY DEF Init, NoTask, ReadsForwards, AnswersInOrder
<1>4. NothingElseIsLost
  BY DEF Init, NoTask, NothingElseIsLost
<1> QED
  BY <1>1, <1>2, <1>3, <1>4 DEF LInv

(* What the clock and the dates of events have no part in. *)
LEMMA FilesStay ==
    ASSUME LInv, UNCHANGED <<log, file, rolling, period, index, rolled, task>>, LTypeOK'
    PROVE  LInv'
<1>1. FilesInOrder' /\ RolledInOrder'
  BY DEF LInv, FilesInOrder, RolledInOrder, Given
<1>2. ReadsForwards' /\ AnswersInOrder'
  BY DEF LInv, ReadsForwards, AnswersInOrder, Given, Behind, OfDate
<1>3. NothingElseIsLost'
  BY DEF LInv, NothingElseIsLost, Accounted, Answered, Removed, Astray, OfDate
<1> QED
  BY <1>1, <1>2, <1>3 DEF LInv

LEMMA ClockKeeps ==
    ASSUME LInv, Midnight \/ (\E t \in Threads : Log(t))
    PROVE  LInv'
<1>1. LTypeOK'
  <2>1. CASE Midnight
    <3>1. day \in 0..LastDay /\ LastDay \in Nat /\ day' = day + 1 /\ day < LastDay
      BY <2>1, DaysAreNumbers DEF LInv, LTypeOK, Midnight, Days
    <3>2. day' \in Days /\ 0..day \subseteq 0..day'
      BY <3>1 DEF Days
    <3> QED
      BY <2>1, <3>2 DEF LInv, LTypeOK, Midnight, writer
  <2>2. CASE \E t \in Threads : Log(t)
    BY <2>2 DEF LInv, LTypeOK, Log
  <2> QED
    BY <2>1, <2>2
<1> QED
  BY <1>1, FilesStay DEF Midnight, Log, writer
-----------------------------------------------------------------------------
(* The line that is written is the last of all. *)
LEMMA WriteKeeps ==
    ASSUME LInv, NEW t \in Threads, Write(t)
    PROVE  LInv'
<1> DEFINE L == Len(log)
           e == [day |-> stamp[t], file |-> file]
<1>1. /\ log \in Seq([day: Days, file: Nat]) /\ file \in Nat
      /\ stamp[t] \in Days /\ e \in [day: Days, file: Nat]
  BY DEF LInv, LTypeOK, Write
<1>2. /\ log' = Append(log, e) /\ rolling' = None
      /\ UNCHANGED <<day, file, period, index, rolled, task>>
  BY DEF Write
<1> HIDE DEF e
<1>3. /\ Len(log') = L + 1 /\ L \in Nat
      /\ \A n \in 1..L : log'[n] = log[n] /\ log[n].file \in Nat
      /\ log'[L + 1] = e
      /\ log' \in Seq([day: Days, file: Nat])
  BY <1>1, <1>2, AppendProperties, LinesHaveFiles
<1>4. LTypeOK'
  <2>1. stamp' \in [Threads -> Days \cup {None}]
    BY DEF LInv, LTypeOK, Write
  <2> QED
    BY <1>2, <1>3, <2>1 DEF LInv, LTypeOK
<1>5. FilesInOrder'
  <2>1. e.file = file
    BY DEF e
  <2>2. \A n \in 1..(L + 1) : log'[n].file <= file
    <3>1. \A n \in 1..(L + 1) : n \in 1..L \/ n = L + 1
      BY <1>3
    <3>2. \A n \in 1..L : log'[n].file <= file
      BY <1>3, LinesHaveFiles
    <3> QED
      BY <1>1, <1>3, <2>1, <3>1, <3>2
  <2>3. ASSUME NEW m \in 1..(L + 1), NEW n \in 1..(L + 1), m <= n
        PROVE  log'[m].file <= log'[n].file
    <3>1. CASE n = L + 1
      BY <1>3, <2>1, <2>2, <3>1
    <3>2. CASE n # L + 1
      BY <1>3, <2>3, <3>2 DEF LInv, FilesInOrder
    <3> QED
      BY <3>1, <3>2
  <2> QED
    BY <1>2, <1>3, <2>2, <2>3 DEF FilesInOrder
<1>6. RolledInOrder'
  BY <1>2 DEF LInv, RolledInOrder, Given
<1>7. ReadsForwards'
  <2>1. ASSUME NEW c \in DOMAIN task.answer, NEW m \in task.answer[c]
        PROVE  m \in 1..L /\ log'[m] = log[m]
    BY <1>3, <2>1 DEF LInv, ReadsForwards
  <2>2. \A f : Behind(f)' <=> Behind(f)
    BY <1>2 DEF Behind, OfDate
  <2>3. \A d, i : Given(d, i)' <=> Given(d, i)
    BY <1>2 DEF Given
  <2>4. \A c \in DOMAIN task.answer : \A m \in task.answer[c] :
            /\ m \in 1..(L + 1)
            /\ Behind(log'[m].file)
            /\ task.open # None => log'[m].file < task.open
    BY <1>3, <2>1 DEF LInv, ReadsForwards
  <2> QED
    BY <1>2, <1>3, <2>2, <2>3, <2>4 DEF LInv, ReadsForwards
<1>8. AnswersInOrder'
  BY <1>2 DEF LInv, AnswersInOrder
<1>9. NothingElseIsLost'
  <2>1. task.begun \in Nat /\ task.begun <= L
    BY DEF LInv, LTypeOK, Task, NothingElseIsLost
  <2>2. \A n \in 1..task.begun : n \in 1..L /\ log'[n] = log[n]
    BY <1>3, <2>1
  <2>3. \A n \in 1..task.begun : Accounted(n) => Accounted(n)'
    BY <1>2, <2>2 DEF Accounted, Answered, Removed, Astray, OfDate
  <2> QED
    BY <1>2, <1>3, <2>1, <2>2, <2>3 DEF LInv, NothingElseIsLost
<1> QED
  BY <1>4, <1>5, <1>6, <1>7, <1>8, <1>9 DEF LInv

(* The current file gets a name nobody has been told of. *)
LEMMA RenameKeeps ==
    ASSUME LInv, NEW t \in Threads, Rename(t)
    PROVE  LInv'
<1> DEFINE new == [file |-> file, day |-> period, index |-> index]
<1>1. /\ file \in Nat /\ index \in Nat /\ day \in Days /\ period \in 0..day /\ period \in Days
      /\ rolled \subseteq Name /\ Days \subseteq Nat
  <2>1. day \in 0..LastDay /\ period \in 0..day
    BY DEF LInv, LTypeOK, Days
  <2>2. period \in 0..LastDay
    BY <2>1, DaysAreNumbers
  <2> QED
    BY <2>1, <2>2, DaysAreNumbers DEF LInv, LTypeOK, Days
<1>2. /\ rolled' = rolled \cup {new} /\ rolling' = t
      /\ file' = file + 1 /\ period' = day /\ index' = NextIndex
      /\ UNCHANGED <<day, log, stamp, task>>
  BY DEF Rename
<1>3. new \in Name /\ new.file = file /\ new.day = period /\ new.index = index
  BY <1>1 DEF Name
<1> HIDE DEF new
<1>4. index' \in Nat /\ (period' = period => index' = index + 1) /\ period <= period'
  BY <1>1, <1>2 DEF NextIndex, NewDay
<1>5. \A d \in Int, i \in Int : Given(d, i) => Given(d, i)'
  BY <1>1, <1>2, <1>4 DEF Given
<1>6. LTypeOK'
  BY <1>1, <1>2, <1>3, <1>4 DEF LInv, LTypeOK
<1>7. FilesInOrder'
  <2>1. \A n \in 1..Len(log) : log[n].file <= file' /\ log[n].file < file'
    BY <1>1, <1>2, LinesHaveFiles
  <2> QED
    BY <1>2, <2>1 DEF LInv, FilesInOrder
<1>8. RolledInOrder'
  <2>1. \A a \in rolled : a.file \in Nat /\ a.day \in Int /\ a.index \in Nat
                          /\ a.file < file /\ Given(a.day, a.index)
    BY <1>1 DEF LInv, RolledInOrder, Name, Days
  <2>2. \A a \in rolled' : a.file < file' /\ Given(a.day, a.index)'
    <3>1. ASSUME NEW a, a = new PROVE a.file < file' /\ Given(a.day, a.index)'
      BY <1>1, <1>2, <1>3, <1>4, <3>1 DEF Given
    <3> QED
      BY <1>1, <1>2, <1>5, <2>1, <3>1
  <2>3. \A a \in rolled : a.file # file /\ (a.day = period => a.index < index)
    BY <1>1, <2>1 DEF Given
  <2>4. \A a, b \in rolled' : a.file = b.file => a = b
    BY <1>2, <1>3, <2>3 DEF LInv, RolledInOrder
  <2>5. ASSUME NEW a \in rolled', NEW b \in rolled', a.day = b.day
        PROVE  /\ a.index = b.index => a = b
               /\ a.index < b.index => a.file < b.file
    BY <1>1, <1>2, <1>3, <2>1, <2>3, <2>5 DEF LInv, RolledInOrder
  <2> QED
    BY <2>2, <2>4, <2>5 DEF RolledInOrder
<1>9. ReadsForwards'
  <2>1. task.date \in Int /\ task.left \subseteq Nat /\ \A a \in task.seen : a.index \in Nat
    <3>1. task.date \in Days /\ task.left \subseteq Nat /\ task.seen \subseteq Name
      BY DEF LInv, LTypeOK, Task
    <3>2. task.date \in Nat
      BY <3>1, DaysAreNumbers
    <3>3. \A a \in task.seen : a \in Name /\ a.index \in Nat
      BY <3>1 DEF Name
    <3> QED
      BY <3>1, <3>2, <3>3
  <2>2. ASSUME NEW f \in Int, Behind(f) PROVE Behind(f)'
    <3>1. \A a \in rolled' : a.day = task.date /\ a.index \in task.left => a \in rolled
      BY <1>1, <1>2, <1>3, <2>1 DEF LInv, ReadsForwards, Given
    <3> QED
      BY <1>1, <1>2, <2>2, <3>1 DEF Behind, OfDate
  <2>3. \A c \in DOMAIN task.answer : \A m \in task.answer[c] : log[m].file \in Int
    BY LinesHaveFiles DEF LInv, ReadsForwards
  <2>4. task.open # None => task.open \in Int
    BY DEF LInv, LTypeOK, Task
  <2> QED
    BY <1>1, <1>2, <1>5, <2>1, <2>2, <2>3, <2>4 DEF LInv, ReadsForwards
<1>10. AnswersInOrder'
  BY <1>2 DEF LInv, AnswersInOrder
<1>11. NothingElseIsLost'
  <2>1. task.begun \in Nat /\ task.begun <= Len(log)
    BY DEF LInv, LTypeOK, Task, NothingElseIsLost
  <2>2. ASSUME NEW n \in 1..task.begun, Accounted(n) PROVE Accounted(n)'
    <3> DEFINE f == log[n].file
    <3>0. f \in Nat /\ f <= file /\ n \in 1..Len(log)
      BY <2>1, LinesHaveFiles
    <3>1. CASE Removed(f)
      BY <1>1, <1>2, <1>3, <3>0, <3>1 DEF Removed, Accounted
    <3>2. CASE Astray(f)
      BY <1>1, <1>2, <1>3, <3>0, <3>2 DEF Astray, Accounted
    <3>3. CASE f = file /\ f = task.was
      BY <1>1, <1>2, <3>3 DEF Accounted
    <3>4. CASE f # file /\ f = task.was
      BY <1>1, <1>2, <3>0, <3>4 DEF Accounted
    <3> QED
      BY <1>2, <2>2, <3>1, <3>2, <3>3, <3>4 DEF Accounted, Answered, OfDate
  <2> QED
    BY <1>2, <2>1, <2>2 DEF LInv, NothingElseIsLost
<1> QED
  BY <1>6, <1>7, <1>8, <1>9, <1>10, <1>11 DEF LInv

(* What is removed can be lost. *)
LEMMA RemoveKeeps ==
    ASSUME LInv, Remove
    PROVE  LInv'
<1>1. PICK gone \in rolled : rolled' = rolled \ {gone}
  BY DEF Remove
<1>2. UNCHANGED <<day, log, file, rolling, period, index, stamp, task>>
  BY DEF Remove
<1>3. LTypeOK' /\ FilesInOrder' /\ AnswersInOrder'
  BY <1>1, <1>2 DEF LInv, LTypeOK, FilesInOrder, AnswersInOrder
<1>4. RolledInOrder'
  BY <1>1, <1>2 DEF LInv, RolledInOrder, Given
<1>5. ReadsForwards'
  <2>1. \A f : Behind(f) => Behind(f)'
    BY <1>1, <1>2 DEF Behind, OfDate
  <2>2. \A d, i : Given(d, i)' <=> Given(d, i)
    BY <1>2 DEF Given
  <2> QED
    BY <1>2, <2>1, <2>2 DEF LInv, ReadsForwards
<1>6. NothingElseIsLost'
  <2>1. ASSUME NEW n \in 1..task.begun, Accounted(n) PROVE Accounted(n)'
    <3> DEFINE f == log[n].file
    <3>1. CASE gone.file = f
      <4>1. f # file
        <5>1. gone.file < file /\ gone.file \in Nat /\ file \in Nat
          BY DEF LInv, RolledInOrder, LTypeOK, Name
        <5> QED
          BY <3>1, <5>1
      <4>2. \A a \in rolled' : a.file # f
        BY <1>1, <3>1 DEF LInv, RolledInOrder
      <4> QED
        BY <1>2, <4>1, <4>2 DEF Removed, Accounted
    <3>2. CASE gone.file # f
      BY <1>1, <1>2, <2>1, <3>2 DEF Accounted, Answered, Removed, Astray, OfDate
    <3> QED
      BY <3>1, <3>2
  <2> QED
    BY <1>2, <2>1 DEF LInv, NothingElseIsLost
<1> QED
  BY <1>3, <1>4, <1>5, <1>6 DEF LInv
-----------------------------------------------------------------------------
(* A task changes nothing but itself. *)
LEMMA TaskKeeps ==
    ASSUME LInv, UNCHANGED <<day, writer>>, task' \in Task,
           ReadsForwards', AnswersInOrder', NothingElseIsLost'
    PROVE  LInv'
<1>1. LTypeOK'
  BY DEF LInv, LTypeOK, writer
<1>2. FilesInOrder' /\ RolledInOrder'
  BY DEF LInv, writer, FilesInOrder, RolledInOrder, Given
<1> QED
  BY <1>1, <1>2 DEF LInv

LEMMA AskKeeps ==
    ASSUME LInv, Ask \/ IsToday
    PROVE  LInv'
<1>1. /\ UNCHANGED <<day, writer>> /\ task \in Task /\ day \in Days
      /\ Len(log) \in Nat /\ task.step \in {"none", "date"}
  BY LinesHaveFiles DEF LInv, LTypeOK, Ask, IsToday
<1>2. 0..day \subseteq Days
  <2>1. day \in 0..LastDay
    BY <1>1 DEF Days
  <2> QED
    BY <2>1, DaysAreNumbers DEF Days
<1>3. ASSUME Ask PROVE task' \in Task
  <2>1. PICK date \in 0..day :
           task' = [task EXCEPT !.step = "date", !.date = date, !.begun = Len(log)]
    BY <1>3 DEF Ask
  <2>2. date \in Days
    BY <1>2
  <2> QED
    BY <1>1, <2>1, <2>2 DEF Task, Steps
<1>4. task' \in Task
  <2>1. CASE IsToday
    BY <1>1, <2>1 DEF IsToday, Task, Steps
  <2> QED
    BY <1>3, <2>1
<1>5. task.open = None /\ task.answer = << >>
  BY <1>1 DEF LInv, ReadsForwards
<1>6. /\ task'.step \in {"date", "scan"}
      /\ task'.open = None /\ task'.answer = << >>
      /\ task'.seen = task.seen /\ task'.left = task.left
      /\ task'.date # task.date => task.seen = {} /\ task.left = {}
      /\ task'.begun \in {task.begun, Len(log)}
  <2>1. CASE Ask
    <3>1. task = NoTask
      BY <2>1 DEF LInv, ReadsForwards, Ask
    <3>2. task.seen = {} /\ task.left = {}
      BY <3>1 DEF NoTask
    <3> QED
      BY <1>1, <1>5, <2>1, <3>2 DEF Ask, Task
  <2>2. CASE IsToday
    BY <1>1, <1>5, <2>2 DEF IsToday, Task
  <2> QED
    BY <2>1, <2>2
<1>7. ReadsForwards' /\ AnswersInOrder'
  BY <1>1, <1>6 DEF LInv, ReadsForwards, AnswersInOrder, Given, writer
<1>8. NothingElseIsLost'
  BY <1>1, <1>6 DEF LInv, NothingElseIsLost, writer
<1> QED
  BY <1>1, <1>4, <1>7, <1>8, TaskKeeps

(* The listing begins when each file has its name, but for the current. *)
LEMMA ScanKeeps ==
    ASSUME LInv, Scan
    PROVE  LInv'
<1>1. task \in Task /\ file \in Nat /\ rolled \subseteq Name
  BY DEF LInv, LTypeOK
<1>2. UNCHANGED <<day, writer>> /\ OfDate(task.date) \subseteq Name
  BY <1>1 DEF Scan, OfDate
<1>3. task' \in Task
  BY <1>1, <1>2 DEF Scan, Task, Steps
<1>4. /\ task.open = None /\ task.answer = << >>
      /\ task'.open = None /\ task'.answer = << >>
      /\ task'.step = "list" /\ task'.date = task.date /\ task'.left = task.left
      /\ task'.seen = OfDate(task.date) /\ task'.was = file /\ task'.begun = task.begun
  BY <1>1 DEF LInv, ReadsForwards, Scan, Task
<1>5. ReadsForwards' /\ AnswersInOrder'
  <2>1. \A a \in OfDate(task.date) : a.day = task.date /\ Given(task.date, a.index)
    BY DEF LInv, RolledInOrder, OfDate
  <2> QED
    BY <1>2, <1>4, <2>1 DEF LInv, ReadsForwards, AnswersInOrder, Given, writer
<1>6. NothingElseIsLost'
  <2>1. ASSUME NEW n \in 1..task.begun PROVE Accounted(n)'
    BY <1>2, <1>4 DEF Accounted, Removed, Astray, OfDate, writer
  <2> QED
    BY <1>2, <1>4, <2>1 DEF LInv, NothingElseIsLost, writer
<1> QED
  BY <1>2, <1>3, <1>5, <1>6, TaskKeeps

(* A name that was there before and is there still has been seen. *)
LEMMA ListKeeps ==
    ASSUME LInv, List
    PROVE  LInv'
<1>1. task \in Task /\ rolled \subseteq Name
  BY DEF LInv, LTypeOK
<1>2. PICK some \in SUBSET (task.seen \cup OfDate(task.date)) :
         /\ task.seen \cap OfDate(task.date) \subseteq some
         /\ task' = [task EXCEPT !.step = "exists", !.left = {name.index : name \in some},
                                 !.seen = {}]
  BY DEF List
<1>3. UNCHANGED <<day, writer>> /\ task.step = "list"
  BY DEF List
<1>4. some \subseteq Name /\ {name.index : name \in some} \subseteq Nat
  BY <1>1, <1>2 DEF OfDate, Task, Name
<1>5. task' \in Task
  BY <1>1, <1>2, <1>4 DEF Task, Steps
<1>6. /\ task.open = None /\ task.answer = << >>
      /\ task'.open = None /\ task'.answer = << >>
      /\ task'.step = "exists" /\ task'.date = task.date
      /\ task'.left = {name.index : name \in some} /\ task'.seen = {}
      /\ task'.was = task.was /\ task'.today = task.today /\ task'.begun = task.begun
  BY <1>1, <1>2, <1>3 DEF LInv, ReadsForwards, Task
<1>7. ReadsForwards' /\ AnswersInOrder'
  <2>1. \A a \in some : Given(task.date, a.index)
    BY <1>2 DEF LInv, RolledInOrder, ReadsForwards, OfDate
  <2> QED
    BY <1>3, <1>6, <2>1 DEF LInv, ReadsForwards, AnswersInOrder, Given, writer
<1>8. NothingElseIsLost'
  <2>1. ASSUME NEW n \in 1..task.begun, Accounted(n) PROVE Accounted(n)'
    <3> DEFINE f == log[n].file
    <3>1. CASE \E a \in task.seen \cap rolled : a.file = f
      <4>1. PICK a \in task.seen \cap rolled : a.file = f
        BY <3>1
      <4>2. a \in OfDate(task.date) /\ a \in some
        BY <1>2, <4>1 DEF LInv, ReadsForwards, OfDate
      <4> QED
        BY <1>3, <1>6, <4>1, <4>2 DEF Accounted, OfDate, writer
    <3>2. CASE Removed(f) \/ Astray(f)
      BY <1>3, <1>6, <3>2 DEF Accounted, Removed, Astray, writer
    <3>3. CASE f = task.was
      BY <1>3, <1>6, <3>3 DEF Accounted, writer
    <3>4. n \notin Answered /\ task.open # f
      <4>1. n \in Nat /\ n \in 1..Len(log)
        BY LinesHaveFiles DEF LInv, NothingElseIsLost, LTypeOK, Task
      <4>2. log[n].file \in Nat /\ None \notin Nat
        BY <4>1, LinesHaveFiles, BoundsAssumption
      <4> QED
        BY <1>6, <4>2 DEF Answered
    <3> QED
      BY <1>3, <2>1, <3>1, <3>2, <3>3, <3>4 DEF Accounted
  <2> QED
    BY <1>3, <1>6, <2>1 DEF LInv, NothingElseIsLost, writer
<1> QED
  BY <1>3, <1>5, <1>7, <1>8, TaskKeeps

(* A file that does not exist yet has no lines. *)
LEMMA AddCurrentKeeps ==
    ASSUME LInv, AddCurrent
    PROVE  LInv'
<1>1. task \in Task
  BY DEF LInv, LTypeOK
<1>2. UNCHANGED <<day, writer>> /\ task.step = "exists" /\ AddsCurrent \in BOOLEAN
  BY <1>1 DEF AddCurrent, AddsCurrent, Task
<1>3. task' \in Task
  BY <1>1, <1>2 DEF AddCurrent, Task, Steps
<1>4. /\ task.open = None /\ task.answer = << >>
      /\ task'.open = None /\ task'.answer = << >>
      /\ task'.step = "read" /\ task'.date = task.date /\ task'.current = AddsCurrent
      /\ task'.left = task.left /\ task'.seen = task.seen
      /\ task'.was = task.was /\ task'.today = task.today /\ task'.begun = task.begun
  BY <1>1, <1>2 DEF LInv, ReadsForwards, AddCurrent, Task
<1>5. ReadsForwards' /\ AnswersInOrder'
  BY <1>2, <1>4 DEF LInv, ReadsForwards, AnswersInOrder, Given, writer
<1>6. NothingElseIsLost'
  <2>1. ASSUME NEW n \in 1..task.begun, Accounted(n) PROVE Accounted(n)'
    <3>1. n \in 1..Len(log)
      BY <1>1, LinesHaveFiles DEF LInv, NothingElseIsLost, Task
    <3>2. log[n].file = file => rolling = None
      BY <3>1, LinesHaveFiles DEF LInv, FilesInOrder
    <3> QED
      BY <1>2, <1>4, <2>1, <3>2 DEF Accounted, AddsCurrent, Answered, Removed, Astray, OfDate,
                                    writer
  <2> QED
    BY <1>2, <1>4, <2>1 DEF LInv, NothingElseIsLost, writer
<1> QED
  BY <1>2, <1>3, <1>5, <1>6, TaskKeeps

(* The least index is that of the first file that is left. *)
LEMMA OpenRolledKeeps ==
    ASSUME LInv, OpenRolled
    PROVE  LInv'
<1>1. task \in Task /\ rolled \subseteq Name /\ file \in Nat
  BY DEF LInv, LTypeOK
<1>2. PICK i \in task.left :
         /\ \A j \in task.left : i <= j
         /\ \/ \E name \in OfDate(task.date) :
                  /\ name.index = i
                  /\ task' = [task EXCEPT !.left = @ \ {i}, !.open = name.file]
            \/ /\ \A name \in OfDate(task.date) : name.index # i
               /\ task' = [task EXCEPT !.left = @ \ {i}]
  BY DEF OpenRolled, IsNext
<1>3. UNCHANGED <<day, writer>> /\ task.step = "read" /\ task.open = None
  BY DEF OpenRolled
<1>4. task' \in Task
  BY <1>1, <1>2 DEF Task, OfDate, Name
<1>5. /\ task'.step = "read" /\ task'.date = task.date /\ task'.current = task.current
      /\ task'.left = task.left \ {i} /\ task'.seen = task.seen
      /\ task'.was = task.was /\ task'.today = task.today /\ task'.begun = task.begun
      /\ task'.answer = task.answer
      /\ task'.open \in {None} \cup {a.file : a \in {b \in OfDate(task.date) : b.index = i}}
  BY <1>1, <1>2, <1>3 DEF Task
<1> DEFINE StillBehind(f) ==
              /\ task.current => f < file
              /\ \A b \in OfDate(task.date) : b.index \in task.left \ {i} => f < b.file
<1>6. OfDate(task.date)' = OfDate(task.date) /\ file' = file /\ log' = log
  BY <1>3, <1>5 DEF OfDate, writer
<1>7. ASSUME NEW a \in OfDate(task.date), a.index = i
      PROVE  /\ a.file \in Nat /\ a.file < file /\ StillBehind(a.file)
             /\ \A c \in DOMAIN task.answer : \A m \in task.answer[c] : log[m].file < a.file
  <2>1. a \in rolled /\ a.file \in Nat /\ a.file < file
    BY <1>1, <1>7 DEF LInv, RolledInOrder, OfDate, Name
  <2>2. \A b \in OfDate(task.date) : b.index \in task.left \ {i} => a.file < b.file
    <3>1. task.left \subseteq Nat
      BY <1>1 DEF Task
    <3>2. \A j \in task.left \ {i} : i < j
      <4>1. \A j \in task.left : i <= j
        BY <1>2
      <4> QED
        BY <3>1, <4>1
    <3>3. \A b \in OfDate(task.date) : b.index \in task.left \ {i} => a.index < b.index
      BY <1>7, <3>2
    <3>4. \A b \in OfDate(task.date) : b \in rolled /\ a \in rolled /\ a.day = b.day
      BY DEF OfDate
    <3> QED
      BY <3>3, <3>4 DEF LInv, RolledInOrder
  <2>3. \A c \in DOMAIN task.answer : \A m \in task.answer[c] : log[m].file < a.file
    BY <1>2, <1>7 DEF LInv, ReadsForwards, Behind
  <2> QED
    BY <2>1, <2>2, <2>3
<1>8. ReadsForwards' /\ AnswersInOrder'
  <2>1. task'.open # None => /\ task'.open <= file /\ StillBehind(task'.open)
                             /\ \A c \in DOMAIN task.answer : \A m \in task.answer[c] :
                                   log[m].file < task'.open
    <3>1. CASE task'.open # None
      <4>1. PICK a \in OfDate(task.date) : a.index = i /\ task'.open = a.file
        BY <1>5, <3>1
      <4> QED
        BY <1>1, <1>7, <4>1
    <3> QED
      BY <3>1
  <2>2. \A c \in DOMAIN task.answer : \A m \in task.answer[c] :
           m \in 1..Len(log) /\ StillBehind(log[m].file)
    BY DEF LInv, ReadsForwards, Behind
  <2> HIDE DEF StillBehind
  <2>3. \A f : StillBehind(f) => /\ task'.current => f < file'
                                 /\ \A b \in OfDate(task.date)' :
                                       b.index \in task'.left => f < b.file
    BY <1>5, <1>6 DEF StillBehind
  <2>4. \A k \in task.left : Given(task.date, k)
    BY DEF LInv, ReadsForwards
  <2>5. \A d, k : Given(d, k)' <=> Given(d, k)
    BY <1>3 DEF Given, writer
  <2> QED
    BY <1>3, <1>5, <1>6, <2>1, <2>2, <2>3, <2>4, <2>5 DEF LInv, ReadsForwards, AnswersInOrder,
                                                            Behind
<1>9. NothingElseIsLost'
  <2>1. ASSUME NEW n \in 1..task.begun, Accounted(n) PROVE Accounted(n)'
    <3> DEFINE f == log[n].file
    <3>0. f # None
      <4>1. n \in 1..Len(log)
        BY <1>1, LinesHaveFiles DEF LInv, NothingElseIsLost, Task
      <4> QED
        BY <4>1, LinesHaveFiles, BoundsAssumption
    <3>1. CASE \E a \in OfDate(task.date) : a.file = f /\ a.index = i
      <4>1. PICK a \in OfDate(task.date) : a.file = f /\ a.index = i
        BY <3>1
      <4>2. \A b \in OfDate(task.date) : b.index = i => b = a
        BY <4>1 DEF LInv, RolledInOrder, OfDate
      <4>3. task'.open = f
        BY <1>1, <1>2, <4>1, <4>2 DEF Task
      <4> QED
        BY <1>3, <4>3 DEF Accounted, writer
    <3>2. CASE ~\E a \in OfDate(task.date) : a.file = f /\ a.index = i
      BY <1>3, <1>5, <2>1, <3>0, <3>2 DEF Accounted, Answered, Removed, Astray, OfDate, writer
    <3> QED
      BY <3>1, <3>2
  <2> QED
    BY <1>3, <1>5, <2>1 DEF LInv, NothingElseIsLost, writer
<1> QED
  BY <1>3, <1>4, <1>8, <1>9, TaskKeeps

(* The current file is the last there is. *)
LEMMA OpenCurrentKeeps ==
    ASSUME LInv, OpenCurrent
    PROVE  LInv'
<1>1. task \in Task /\ file \in Nat
  BY DEF LInv, LTypeOK
<1>2. /\ UNCHANGED <<day, writer>> /\ task.step = "read" /\ task.open = None
      /\ task.left = {} /\ task.current
  BY DEF OpenCurrent
<1>3. task' \in Task
  BY <1>1 DEF OpenCurrent, Task
<1>4. /\ task'.step = "read" /\ task'.date = task.date /\ task'.current = FALSE
      /\ task'.left = {} /\ task'.seen = task.seen
      /\ task'.was = task.was /\ task'.today = task.today /\ task'.begun = task.begun
      /\ task'.answer = task.answer
      /\ task'.open = IF rolling = None THEN file ELSE None
  BY <1>1, <1>2 DEF OpenCurrent, Task
<1>5. ReadsForwards' /\ AnswersInOrder'
  <2>1. \A f : Behind(f)'
    BY <1>4 DEF Behind
  <2>2. \A c \in DOMAIN task.answer : \A m \in task.answer[c] :
           m \in 1..Len(log) /\ log[m].file < file
    BY <1>2 DEF LInv, ReadsForwards, Behind
  <2>3. task'.open # None => task'.open = file /\ file <= file
    BY <1>1, <1>4
  <2> QED
    BY <1>2, <1>4, <2>1, <2>2, <2>3 DEF LInv, ReadsForwards, AnswersInOrder, Given, writer, Behind
<1>6. NothingElseIsLost'
  <2>1. ASSUME NEW n \in 1..task.begun, Accounted(n) PROVE Accounted(n)'
    <3>1. n \in 1..Len(log)
      BY <1>1, LinesHaveFiles DEF LInv, NothingElseIsLost, Task
    <3>2. log[n].file = file => rolling = None
      BY <3>1, LinesHaveFiles DEF LInv, FilesInOrder
    <3>3. log[n].file # None
      BY <3>1, LinesHaveFiles, BoundsAssumption
    <3> QED
      BY <1>2, <1>4, <2>1, <3>2, <3>3 DEF Accounted, Answered, Removed, Astray, OfDate, writer
  <2> QED
    BY <1>2, <1>4, <2>1 DEF LInv, NothingElseIsLost, writer
<1> QED
  BY <1>2, <1>3, <1>5, <1>6, TaskKeeps

(* What is read now was written after all that has been read. *)
LEMMA ReadKeeps ==
    ASSUME LInv, Read
    PROVE  LInv'
<1> DEFINE f == task.open
           new == {n \in Lines(f) : log[n].day = task.date}
           A == task.answer
<1>1. task \in Task /\ A \in Seq(SUBSET Nat)
  BY DEF LInv, LTypeOK, Task
<1>2. /\ UNCHANGED <<day, writer>> /\ f # None /\ task.step = "read"
      /\ task' = [task EXCEPT !.open = None, !.answer = Append(@, new)]
  BY DEF Read, LInv, ReadsForwards
<1>3. new \subseteq Nat /\ \A n \in new : n \in 1..Len(log) /\ log[n].file = f
  BY LinesHaveFiles DEF Lines
<1>4. \A n \in 1..Len(log) : log[n].file = f /\ log[n].day = task.date => n \in new
  BY DEF Lines
<1> HIDE DEF new
<1>5. /\ Append(A, new) \in Seq(SUBSET Nat)
      /\ Len(A) \in Nat /\ Len(Append(A, new)) = Len(A) + 1
      /\ DOMAIN A = 1..Len(A) /\ DOMAIN Append(A, new) = 1..(Len(A) + 1)
      /\ \A c \in 1..Len(A) : Append(A, new)[c] = A[c]
      /\ Append(A, new)[Len(A) + 1] = new
  BY <1>1, <1>3, AppendProperties, LenProperties
<1>6. task' \in Task
  BY <1>1, <1>2, <1>5 DEF Task
<1>7. /\ task'.step = "read" /\ task'.date = task.date /\ task'.current = task.current
      /\ task'.left = task.left /\ task'.seen = task.seen
      /\ task'.was = task.was /\ task'.today = task.today /\ task'.begun = task.begun
      /\ task'.answer = Append(A, new) /\ task'.open = None
  BY <1>1, <1>2 DEF Task
<1>8. /\ Behind(f)
      /\ \A c \in DOMAIN A : \A m \in A[c] :
            m \in 1..Len(log) /\ Behind(log[m].file) /\ log[m].file < f
  BY <1>2 DEF LInv, ReadsForwards
<1>9. \A c \in DOMAIN Append(A, new) : (c \in DOMAIN A /\ Append(A, new)[c] = A[c])
                                      \/ (c = Len(A) + 1 /\ Append(A, new)[c] = new)
  BY <1>5
<1>10. ReadsForwards'
  <2>1. \A c \in DOMAIN Append(A, new) : \A m \in Append(A, new)[c] :
           m \in 1..Len(log) /\ Behind(log[m].file)
    BY <1>3, <1>8, <1>9
  <2>2. \A a \in task.seen : a.day = task.date /\ Given(task.date, a.index)
    BY DEF LInv, ReadsForwards
  <2>3. \A k \in task.left : Given(task.date, k)
    BY DEF LInv, ReadsForwards
  <2> QED
    BY <1>2, <1>7, <2>1, <2>2, <2>3 DEF ReadsForwards, Behind, OfDate, Given, writer
<1>11. AnswersInOrder'
  <2>1. ASSUME NEW c \in DOMAIN A, NEW m \in A[c], NEW n \in new PROVE m < n
    <3>1. m \in 1..Len(log) /\ n \in 1..Len(log) /\ log[m].file < log[n].file
      BY <1>3, <1>8
    <3>2. ~(n <= m)
      BY <3>1, LinesHaveFiles DEF LInv, FilesInOrder
    <3> QED
      BY <3>1, <3>2
  <2>2. ASSUME NEW c \in DOMAIN Append(A, new), NEW e \in DOMAIN Append(A, new), c < e,
               NEW m \in Append(A, new)[c], NEW n \in Append(A, new)[e]
        PROVE  m < n
    <3>1. c \in 1..Len(A) /\ Append(A, new)[c] = A[c]
      BY <1>5, <2>2
    <3>2. CASE e = Len(A) + 1
      BY <1>5, <2>1, <2>2, <3>1, <3>2
    <3>3. CASE e # Len(A) + 1
      <4>1. e \in DOMAIN A /\ Append(A, new)[e] = A[e]
        BY <1>9, <3>3
      <4> QED
        BY <1>5, <2>2, <3>1, <4>1 DEF LInv, AnswersInOrder
    <3> QED
      BY <3>2, <3>3
  <2> QED
    BY <1>7, <2>2 DEF AnswersInOrder
<1>12. NothingElseIsLost'
  <2>1. Answered' = Answered \cup new
    BY <1>5, <1>7, <1>9 DEF Answered
  <2>2. ASSUME NEW n \in 1..task.begun, Accounted(n), log[n].day = task.date
        PROVE  Accounted(n)'
    <3>1. n \in 1..Len(log)
      BY <1>1, LinesHaveFiles DEF LInv, NothingElseIsLost, Task
    <3>2. log[n].file = f => n \in Answered'
      BY <1>4, <2>1, <2>2, <3>1
    <3> QED
      BY <1>2, <1>7, <2>1, <2>2, <3>2 DEF Accounted, Removed, Astray, OfDate, writer
  <2> QED
    BY <1>2, <1>7, <2>2 DEF LInv, NothingElseIsLost, writer
<1> QED
  BY <1>2, <1>6, <1>10, <1>11, <1>12, TaskKeeps

LEMMA FinishKeeps ==
    ASSUME LInv, Finish
    PROVE  LInv'
<1>1. task \in Task
  BY DEF LInv, LTypeOK
<1>2. /\ UNCHANGED <<day, writer>> /\ task.step = "read" /\ task.open = None
      /\ task.left = {} /\ ~task.current
  BY DEF Finish
<1>3. task' \in Task
  BY <1>1 DEF Finish, Task, Steps
<1>4. /\ task'.step = "done" /\ task'.date = task.date /\ task'.current = task.current
      /\ task'.left = task.left /\ task'.seen = task.seen
      /\ task'.was = task.was /\ task'.today = task.today /\ task'.begun = task.begun
      /\ task'.answer = task.answer /\ task'.open = None
  BY <1>1, <1>2 DEF Finish, Task
<1>5. ReadsForwards' /\ AnswersInOrder'
  BY <1>2, <1>4 DEF LInv, ReadsForwards, AnswersInOrder, Behind, OfDate, Given, writer
<1>6. NothingElseIsLost'
  <2>1. ASSUME NEW n \in 1..task.begun, Accounted(n) PROVE Accounted(n)'
    BY <1>2, <1>4, <2>1 DEF Accounted, Answered, Removed, Astray, OfDate, writer
  <2> QED
    BY <1>2, <1>4, <2>1 DEF LInv, NothingElseIsLost, writer
<1> QED
  BY <1>2, <1>3, <1>5, <1>6, TaskKeeps
-----------------------------------------------------------------------------
LEMMA NextKeepsLInv == LInv /\ [Next]_vars => LInv'
<1> SUFFICES ASSUME LInv, [Next]_vars PROVE LInv'
  OBVIOUS
<1>1. CASE Midnight \/ \E t \in Threads : Log(t)
  BY <1>1, ClockKeeps
<1>2. CASE \E t \in Threads : Rename(t) \/ Write(t)
  BY <1>2, RenameKeeps, WriteKeeps
<1>3. CASE Remove
  BY <1>3, RemoveKeeps
<1>4. CASE Ask \/ Collect
  BY <1>4, AskKeeps, ScanKeeps, ListKeeps, AddCurrentKeeps, OpenRolledKeeps, OpenCurrentKeeps,
     ReadKeeps, FinishKeeps DEF Collect
<1>5. CASE UNCHANGED vars
  <2>1. LTypeOK'
    BY <1>5 DEF LInv, LTypeOK, vars, writer
  <2> QED
    BY <1>5, <2>1, FilesStay DEF vars, writer
<1> QED
  BY <1>1, <1>2, <1>3, <1>4, <1>5 DEF Next

(* The files, their names and what a task has still to read keep together  *)
(* through rollovers, removals and midnights.                              *)
THEOREM LogInvariance == Spec => []LInv
BY LogStarts, NextKeepsLInv, PTL DEF Spec

(* getLogsForDate answers the lines in the order they were written, none   *)
(* twice, however logback rolls and removes files while it reads them.     *)
THEOREM LinesInOrder == Spec => []AnswersInOrder
<1>1. LInv => AnswersInOrder
  BY DEF LInv
<1> QED
  BY <1>1, LogInvariance, PTL

(* And it answers every line of the day that was written before it was     *)
(* asked, but for those of the file that was the current one when it       *)
(* listed the directory, of removed files and of the files of other days.  *)
THEOREM NoOtherLineIsMissing == Spec => []OnlyTheseAreMissing
<1>1. LInv => OnlyTheseAreMissing
  <2> SUFFICES ASSUME LInv, task.step = "done", NEW n \in 1..task.begun,
                      log[n].day = task.date, n \notin Answered
               PROVE  LET f == log[n].file IN
                      \/ Removed(f) \/ Astray(f)
                      \/ f = task.was /\ (task.today => f # file)
    BY DEF OnlyTheseAreMissing
  <2>1. Accounted(n)
    BY DEF LInv, NothingElseIsLost
  <2>2. task.open = None
    BY DEF LInv, ReadsForwards
  <2>3. n \in 1..Len(log)
    BY LinesHaveFiles DEF LInv, NothingElseIsLost, LTypeOK, Task
  <2>4. log[n].file # None
    BY <2>3, LinesHaveFiles, BoundsAssumption
  <2> QED
    BY <2>1, <2>2, <2>4 DEF Accounted
<1> QED
  BY <1>1, LogInvariance, PTL
=============================================================================

------------------------- MODULE LogFilesInvariants -------------------------
(***************************************************************************)
(* Why the log of a day is in order, and what it may lack: an inductive    *)
(* invariant, checked by MCLogFiles and proved in LogFileProofs.           *)
(***************************************************************************)
EXTENDS LogFiles

Steps == {"none", "date", "scan", "list", "exists", "read", "done"}

Task == [step: Steps, date: Days, today: BOOLEAN, seen: SUBSET Name, was: Nat,
         left: SUBSET Nat, current: BOOLEAN, open: Nat \cup {None},
         answer: Seq(SUBSET Nat), begun: Nat]

(* Every variable holds what its place in the program can hold.            *)
LTypeOK ==
    /\ day \in Days
    /\ log \in Seq([day: Days, file: Nat])
    /\ file \in Nat
    /\ rolling \in Threads \cup {None}
    /\ period \in 0..day
    /\ index \in Nat
    /\ rolled \subseteq Name
    /\ stamp \in [Threads -> Days \cup {None}]
    /\ task \in Task

(* One file after the other is written. *)
FilesInOrder ==
    /\ \A m, n \in 1..Len(log) : m <= n => log[m].file <= log[n].file
    /\ \A n \in 1..Len(log) : /\ log[n].file <= file
                              /\ rolling # None => log[n].file < file

(* logback has given the name before, and gives it to no other file. *)
Given(d, i) == d < period \/ (d = period /\ i < index)

(* The indices of a day are in the order of its files. *)
RolledInOrder ==
    /\ \A a \in rolled : a.file < file /\ Given(a.day, a.index)
    /\ \A a, b \in rolled : a.file = b.file => a = b
    /\ \A a, b \in rolled : a.day = b.day =>
          /\ a.index = b.index => a = b
          /\ a.index < b.index => a.file < b.file

(* The files that the task has still to open come after this one. *)
Behind(f) == /\ task.current => f < file
             /\ \A a \in OfDate(task.date) : a.index \in task.left => f < a.file

ReadsForwards ==
    /\ task.step = "none" => task = NoTask
    /\ \A a \in task.seen : a.day = task.date /\ Given(task.date, a.index)
    /\ \A i \in task.left : Given(task.date, i)
    /\ task.open # None => task.step = "read" /\ task.open <= file /\ Behind(task.open)
    /\ task.step \notin {"read", "done"} => task.answer = << >>
    /\ \A c \in DOMAIN task.answer : \A m \in task.answer[c] :
          /\ m \in 1..Len(log)
          /\ Behind(log[m].file)
          /\ task.open # None => log[m].file < task.open

(* The line has been read, or its file is still to be read, or it is lost  *)
(* in one of the ways of OnlyTheseAreMissing.                              *)
Accounted(n) ==
    LET f == log[n].file IN
    \/ n \in Answered
    \/ Removed(f) \/ Astray(f)
    \/ task.open = f
    \/ task.step = "list" /\ \E a \in task.seen \cap rolled : a.file = f
    \/ /\ task.step \in {"exists", "read"}
       /\ \E a \in OfDate(task.date) : a.file = f /\ a.index \in task.left
    \/ /\ f = task.was
       /\ task.today /\ f = file => \/ task.step \in {"list", "exists"}
                                    \/ task.step = "read" /\ task.current

NothingElseIsLost ==
    /\ task.begun <= Len(log)
    /\ task.step \in {"list", "exists", "read", "done"} =>
          \A n \in 1..task.begun : log[n].day = task.date => Accounted(n)

(* Inductive. *)
LInv ==
    /\ LTypeOK
    /\ FilesInOrder
    /\ RolledInOrder
    /\ ReadsForwards
    /\ AnswersInOrder
    /\ NothingElseIsLost
=============================================================================

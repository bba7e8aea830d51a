------------------------------ MODULE LogFiles ------------------------------
(***************************************************************************)
(* The log of a day as a task of LogsService collects it, while logback    *)
(* writes and rolls the files.  The directory is listed once and the files *)
(* are opened by name, one after the other; in between the current file    *)
(* may get the name of a rolled one, and a rolled one may be removed.  A   *)
(* file that is open is read to its end, whatever its name is by then.     *)
(*                                                                         *)
(* A line is known by its place in the log, a file by its place among the  *)
(* files there have been.  Tasks write no files, so one task stands for    *)
(* all.  The text of a line is left out, but for the date it begins with.  *)
(***************************************************************************)
EXTENDS Integers, Sequences

CONSTANTS Threads,    \* that log
          MaxHistory, \* maxHistory of logback-spring.xml, in days
          LastDay, MaxLines, MaxFiles, \* bounds
          None        \* no event, no open file

Days == 0..LastDay

ASSUME BoundsAssumption ==
    /\ MaxHistory \in Nat /\ LastDay \in Nat /\ MaxLines \in Nat /\ MaxFiles \in Nat
    /\ None \notin Int

VARIABLES day,    \* the date, by the clock
          log,    \* the lines written: their date, the file they went to
          file,   \* which file is, or will be, application.current.log
          rolling, \* the thread that has renamed it and not opened it anew
          period, \* the date logback has for the current file
          index,  \* and the index it will give it
          rolled, \* the files application.DATE.INDEX.log in the directory
          stamp,  \* the date of the event a thread has still to write
          task    \* the task that collects a log

writer == <<log, file, rolling, period, index, rolled, stamp>>
vars == <<day, writer, task>>

Name == [file: Nat, day: Days, index: Nat]
Lines(f) == {n \in 1..Len(log) : log[n].file = f}
OfDate(d) == {name \in rolled : name.day = d}

(* Where the task is: the date it collects, whether that is today, the     *)
(* rolled files there were when the listing began and the current file     *)
(* then, the indices it has still to open and whether the current file     *)
(* comes after them, the open file, the lines of each file it has read,    *)
(* and how long the log was when it was asked for.                         *)
NoTask == [step |-> "none", date |-> 0, today |-> FALSE, seen |-> {}, was |-> 0, left |-> {},
           current |-> FALSE, open |-> None, answer |-> << >>, begun |-> 0]

Init ==
    /\ day = 0
    /\ log = << >>
    /\ file = 0 /\ rolling = None /\ period = 0 /\ index = 0
    /\ rolled = {}
    /\ stamp = [t \in Threads |-> None]
    /\ task = NoTask
-----------------------------------------------------------------------------
(* logback: an event gets its date before the thread has the lock of the   *)
(* appender.                                                               *)

Midnight ==
    /\ day < LastDay
    /\ day' = day + 1
    /\ UNCHANGED <<writer, task>>

Log(t) ==
    /\ stamp[t] = None
    /\ stamp' = [stamp EXCEPT ![t] = day]
    /\ UNCHANGED <<day, log, file, rolling, period, index, rolled, task>>

(* What makes an event roll the file first: a new day, a file that is full.*)
NewDay == day > period
Full == Lines(file) # {}

NextIndex == IF NewDay THEN 0 ELSE index + 1

(* The current file gets its name, under the lock. *)
Rename(t) ==
    /\ stamp[t] # None /\ rolling = None
    /\ NewDay \/ Full
    /\ file < MaxFiles
    /\ rolled' = rolled \cup {[file |-> file, day |-> period, index |-> index]}
    /\ rolling' = t
    /\ file' = file + 1
    /\ period' = day
    /\ index' = NextIndex
    /\ UNCHANGED <<day, log, stamp, task>>

(* The event is written, to a file that is opened for it after a renaming. *)
Write(t) ==
    /\ stamp[t] # None /\ Len(log) < MaxLines
    /\ rolling = t \/ (rolling = None /\ ~NewDay)
    /\ log' = Append(log, [day |-> stamp[t], file |-> file])
    /\ stamp' = [stamp EXCEPT ![t] = None]
    /\ rolling' = None
    /\ UNCHANGED <<day, file, period, index, rolled, task>>

(* The remover of old files runs by itself, after a rollover. *)
Remove ==
    /\ \E name \in rolled : /\ name.day + MaxHistory < period
                            /\ rolled' = rolled \ {name}
    /\ UNCHANGED <<day, log, file, rolling, period, index, stamp, task>>
-----------------------------------------------------------------------------
(* The task: getLogsForDate. *)

(* validateDateNotInFuture, createLogFileAsync. *)
Ask ==
    /\ task.step = "none"
    /\ \E date \in 0..day :
          task' = [task EXCEPT !.step = "date", !.date = date, !.begun = Len(log)]
    /\ UNCHANGED <<day, writer>>

IsToday ==
    /\ task.step = "date"
    /\ task' = [task EXCEPT !.step = "scan", !.today = (task.date = day)]
    /\ UNCHANGED <<day, writer>>

(* Files.list begins, and ends: what was there all the time it has seen,   *)
(* what was there for a part of it perhaps.                                *)
Scan ==
    /\ task.step = "scan"
    /\ task' = [task EXCEPT !.step = "list", !.seen = OfDate(task.date), !.was = file]
    /\ UNCHANGED <<day, writer>>

List ==
    LET now == OfDate(task.date) IN
    /\ task.step = "list"
    /\ \E some \in SUBSET (task.seen \cup now) :
          /\ task.seen \cap now \subseteq some
          /\ task' = [task EXCEPT !.step = "exists", !.left = {name.index : name \in some},
                                  !.seen = {}]
    /\ UNCHANGED <<day, writer>>

(* Files.exists, for today. *)
AddsCurrent_OnlyFile == task.today /\ rolling = None /\ task.left = {}
AddsCurrent == task.today /\ rolling = None

AddCurrent ==
    /\ task.step = "exists"
    /\ task' = [task EXCEPT !.step = "read", !.current = AddsCurrent]
    /\ UNCHANGED <<day, writer>>

(* compareLogFiles: the least index is the next. *)
IsNext_AsListed(i) == TRUE
IsNext(i) == \A j \in task.left : i <= j

(* readLinesSafely: a name that no file has any more has no lines. *)
OpenRolled ==
    LET d == task.date IN
    /\ task.step = "read" /\ task.open = None
    /\ \E i \in task.left :
          /\ IsNext(i)
          /\ \/ \E name \in OfDate(d) :
                   /\ name.index = i
                   /\ task' = [task EXCEPT !.left = @ \ {i}, !.open = name.file]
             \/ /\ \A name \in OfDate(d) : name.index # i
                /\ task' = [task EXCEPT !.left = @ \ {i}]
    /\ UNCHANGED <<day, writer>>

OpenCurrent ==
    /\ task.step = "read" /\ task.open = None /\ task.left = {} /\ task.current
    /\ task' = [task EXCEPT !.current = FALSE, !.open = IF rolling = None THEN file ELSE None]
    /\ UNCHANGED <<day, writer>>

(* To the end of the file; then only the lines of the date are kept. *)
Read ==
    LET f == task.open IN
    /\ task.open # None
    /\ task' = [task EXCEPT !.open = None,
                            !.answer = Append(@, {n \in Lines(f) : log[n].day = task.date})]
    /\ UNCHANGED <<day, writer>>

Finish ==
    /\ task.step = "read" /\ task.open = None /\ task.left = {} /\ ~task.current
    /\ task' = [task EXCEPT !.step = "done"]
    /\ UNCHANGED <<day, writer>>

Collect == \/ IsToday \/ Scan \/ List \/ AddCurrent \/ OpenRolled \/ OpenCurrent \/ Read \/ Finish

Next == \/ Midnight \/ Remove
        \/ \E t \in Threads : Log(t) \/ Rename(t) \/ Write(t)
        \/ Ask \/ Collect

Spec == Init /\ [][Next]_vars
-----------------------------------------------------------------------------
(* Properties *)

Answered == UNION {task.answer[c] : c \in DOMAIN task.answer}

(* The lines of a log are answered in the order they were written, and     *)
(* none twice, although the files change their names while they are read.  *)
AnswersInOrder ==
    \A c, e \in DOMAIN task.answer : c < e =>
        \A m \in task.answer[c], n \in task.answer[e] : m < n

(* The file that had the line is there no more. *)
Removed(f) == f # file /\ \A name \in rolled : name.file # f

(* The file that has the line is, or will be, one of another day. *)
Astray(f) == \/ f = file /\ period # task.date
             \/ \E name \in rolled : name.file = f /\ name.day # task.date

(* A line of the day that was written before the task was asked for is     *)
(* answered, but for three cases: its file has been removed; a thread gave *)
(* it its date before midnight and wrote it after, into the file of the    *)
(* next day; or it was in the current file when the directory was listed,  *)
(* and that has been rolled since, or was not asked because the day is     *)
(* over.                                                                   *)
OnlyTheseAreMissing ==
    task.step = "done" =>
        \A n \in 1..task.begun :
            log[n].day = task.date /\ n \notin Answered =>
                LET f == log[n].file IN
                \/ Removed(f) \/ Astray(f)
                \/ f = task.was /\ (task.today => f # file)
=============================================================================

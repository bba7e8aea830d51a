# TLA+ models of OnlineBanking

Specifications of the parts of this Spring Boot application whose correctness
depends on the order in which things happen: several web requests, the
database they share, the cache in front of it, the start of the application,
and the threads that write and collect log files. TLC checks the specifications
on small instances. TLAPS proves the theorems for every value of the constants.

Paths below are relative to `src/src/main/java/by/onlinebanking/`. All names in
`code font` are definitions of the modules or identifiers of the code.

## 1. The system and its parts

The application is a REST server: Spring MVC on a Tomcat thread pool, Spring
Data JPA (Hibernate) over PostgreSQL. Nobody in the code takes a lock, names an
isolation level or has a `@Version` column, so what requests may do to each
other is decided by three things outside the code:

- The **persistence context**. `spring.jpa.open-in-view` is left at its default:
  a request has one persistence context from its beginning to its end, across
  all its transactions, so a row it has read once is not read again. The
  authentication filter runs before that context is opened; the user it reads
  is *detached*.
- The **flush**. A changed entity is written at the commit by an `UPDATE` of
  *all* columns from the copy, with `WHERE id = ?` only. A new entity with an
  identity column is inserted immediately.
- **READ COMMITTED**. A query sees what is committed when it starts. A row that
  was written is locked until the writer ends; those who want to write it
  queue. A cycle of waiting transactions is found and one of them is aborted.

| Component | State | Operations | Hard behaviours | What makes it correct |
|---|---|---|---|---|
| **Transactions and accounts** (`service/TransactionService`, `AccountService`, `validation/TransactionValidator`, `security/service/AccountSecurityService`, `UserService.deleteUser`) | table `accounts` | deposit, withdraw, transfer, open, close, delete, create, delete the user | decisions on old copies, two rows per transfer, deadlocks, rounding, foreign keys | money moves entirely or not at all; no negative balance; a closed account is empty; every account has a user; every request is answered |
| **Users and roles** (`service/UserService`, `RoleService`, `validation/RolesValidator`) | tables `users`, `roles`, `user_roles` | register, create, bulk, PUT, PATCH, password, delete; add, rename, delete a role | check first and write later, replaced sets of rows, merge of a detached user | emails and names are unique; memberships lead somewhere; a user has a role; a change changes what it names |
| **DataInitializer** (`config/DataInitializer`) | the same tables | creates the two roles and the administrator at the start | runs while requests are served, may be stopped anywhere | a start completes what a stopped one left, without duplicates |
| **Log tasks** (`logging/service/LogsService`, `createLogFileAsync`, `getTaskStatus`, `getTaskLog`, `cleanupOldTasks`, `TaskWrapper`) | `tasks`: a `ConcurrentHashMap` of futures with expiry | start a task, ask for its status or file, sweep | four kinds of threads, no common lock, a field that is not volatile, time | a task is kept for its time and leaves afterwards; answers are true |
| **Log reading** (`LogsService.getLogsForDate` and below) | the files of the log directory | list, sort, read | logback rolls a file between listing and reading, removes old ones, and writes past midnight | each line at most once, in order; what is missing is known |
| **Users cache** (`config/CacheConfig`, `UserService.getUsers`) | a Caffeine cache of pages of users | get, put, evict | a page read before a change is put after the eviction; some methods do not evict | a page shows the tables, or leaves soon, or has missed a change in a known way and leaves in the end |
| **IBAN** (`utils/IbanGenerator`, `validation/IbanValidator`) | – | generate, check digits, validate | modulo 97 of 28 digits, the sign of Java's remainder | what is generated is valid; a mistyped number is not |
| **Visit statistics** (`stats/`) | a map of counters | increment, read | – | no visit is lost |
| **Authentication and access rules** (`security/`) | – (tokens carry the state) | filter, `@PreAuthorize`, ownership | the user is read before the controller runs | see *Transactions* |
| Logging aspects, exception handlers, DTOs and validation, queries of users, API documentation | – | – | – | – |

How they interact: controllers call services; the services share the four
tables, and `UserService` reaches the accounts twice, by `deleteUser` (a cascade)
and by `changePassword` (a merge that cascades to accounts and roles).
`DataInitializer` calls the repositories of users and roles. The filter reads
users and their accounts before any service is called. The log tasks share
nothing with the rest.

`PROJECT.json` lists each component with its status, and each hazard at its line.

## 2. Plan

Order of work; all but what is marked *left* is in this directory.

1. **Banking** – accounts under concurrent requests, with the abstract bank
   `AtomicBank`: model, runs, proofs, refinement proof.
2. **UserDirectory** – users, roles, first start, with `AtomicDirectory`: model,
   runs, proofs of the invariants, refinement proof.
3. **LogTasks** – the tasks and their sweep: model, run, proofs.
4. **UsersCache** – composed with `UserDirectory`: model, run, proofs.
5. **LogFiles** – the reading of a log against logback: model, run, proofs.
6. **Iban** – functions and proofs.
7. **Whole lifecycle of a user** – `Banking` and `UserDirectory` composed at
   `deleteUser` and `changePassword`, whose one transaction is now modelled
   twice, once per set of tables. *Left: each of the two is near what TLC
   explores in minutes with two threads, so the composition is one to prove about.*

## 3. The modules

| Module | What it holds |
|---|---|
| `AccountData` | rows of `accounts`, the numeric column, what a row must be |
| `AtomicBank` | abstract: each operation of the bank at one instant |
| `Banking` | requests, persistence contexts, flush, locks, crash; the properties |
| `BankingInvariants` | the inductive invariant in named parts |
| `BankingProofs` | type correctness and the safety invariants |
| `BankingRefinement` | whole cents, atomicity, and the bank with one thread: `AtomicBank`, and what section 6 refutes for two |
| `MCBanking` | instances |
| `DirectoryData` | rows of `users`, `roles`, `user_roles` |
| `AtomicDirectory` | abstract: each operation on users and roles at one instant |
| `UserDirectory` | requests on users and roles, DataInitializer; the properties |
| `UserDirectoryInvariants` | the inductive invariants: of the tables (`Inv`), of roles (`RolesInv`), of what threads are about to write (`WorkInv`), and of what stays as it was read (`SerialInv`, `LastingInv`) |
| `UserDirectoryProofs` | types and the safety invariants |
| `DirectoryHistory` | the history variable that says how old a copy may be that is written back |
| `DirectoryRefinement` | atomicity, `AtomicDirectory`, what `AtomicDirectory` itself keeps, and the history |
| `MCUserDirectory`, `MCDirectoryHistory` | instances, without and with the history |
| `LogTasks` | tasks, callbacks, sweep, clients, time |
| `LogTaskAnswers` | the history variable that says what a true answer is; the inductive invariant |
| `LogTaskProofs` | the proofs |
| `MCLogTasks` | instances |
| `UsersCache` | the cache of pages over `UserDirectory`; the properties |
| `UsersCacheInvariants`, `UsersCacheProofs` | the inductive invariant, and the proofs |
| `MCUsersCache` | an instance |
| `LogFiles` | logback's files and the task that reads them; the properties |
| `LogFilesInvariants`, `LogFileProofs` | the inductive invariant, and the proofs |
| `MCLogFiles` | an instance |
| `Iban` | the functions of `IbanGenerator` and `IbanValidator`, and their theorems |

An operator whose name ends in an underscore and a word
(`Posting_NoCredit`, `UniqueEmail_NoConstraint`) is a plausible fault: the
operator it is named after, with one guard dropped or one effect changed. No
specification uses one. `PROJECT.json` says for each property which of them it
would catch.

### 3.1 Banking

One value of `Requests` is one Tomcat thread. It serves a request step by step:

| `pc` | Action | Code |
|---|---|---|
| `idle` | `Receive` | `JwtAuthenticationFilter`, `@PreAuthorize` on roles and ids |
| `authorize` | `Authorize` | `AccountSecurityService.canPerformTransaction` |
| `load` | `Load` | `accountRepository.findByIban`, for one account after the other |
| `access` | `CheckAccess` | `AccountSecurityService.validateAndGetAccount`: `hasAccess` on the copy just loaded |
| `execute` | `Execute` | the guards of `TransactionValidator` and of the service method |
| `loadUser` | `LoadUser` | `userRepository.findById`, and the accounts of a user to delete |
| `merge` | `Merge` | `userRepository.save` of the detached user in `changePassword` |
| `insert` | `Insert` | `accountRepository.save` of a new account |
| `flush` | `Flush`, `Commit`, `AbortDeadlock` | the statements of the flush one at a time, the commit, PostgreSQL's deadlock detector |
| any | `Crash` | the process dies; what is not committed is gone |

- `session[r]` is the persistence context: the copy of each row the request has
  read. All guards are evaluated on it (`Allowed`).
- `todo[r]` is what the flush still has to write and `lock` who holds a row. The
  effects of a transaction's statements appear in `accounts` at the commit;
  under READ COMMITTED nobody can see them before, and those who want to write
  the same row wait on `lock`.
- Money is in tenths of a cent, because a `BigDecimal` of a request may be finer
  than the column. `Column` is the rounding of `numeric(38,2)`.
- An iban stands for its row. `Unused` rows have never been inserted, `Deleted`
  rows never come back: identity columns do not reuse ids. That bounds the
  creations of an instance.

### 3.2 UserDirectory

The same threads, other tables. What the services check is a query of its own
(`CheckEmail`, `FindRoles`, `CheckName`, `CheckUnused`), so another request may
change the answer before the statements run. Constraints of the tables are the
guards of `Save`; a transaction they refuse is undone (`Refused`). One thing
is decided before the commit: the `DELETE FROM user_roles` that replaces a set of
roles deletes what is committed when it starts (`Replaced`), `work[r].off`, which `Flush` takes.
The names of roles that a merge cascades are written by one `UPDATE` each, in no
order anybody has chosen: `NamesAccepted` asks for some order in which each name is
free at its turn, `NamesRefused` for one in which a name is not.

Of the columns of a user, `email` stands for the unique one and `active` for all
others. Accounts are in `Banking`. `boot` is the CommandLineRunner
`DataInitializer`, which runs when Tomcat already answers; `Crash` stops the
application anywhere, `StartInit` starts it again.

`DirectoryHistory` adds a variable that no action reads: `was[r]` collects, from the
first read of a request to its flush, the rows the user has had, the roles the user
was without at some moment, and for a change of password the roles the user had with
their names. `HNext` is each action of `UserDirectory` with that bookkeeping, so the
three runs that go by it (`first_start`, `role_changes`, `password_merges`) check
`UserDirectory` itself.

### 3.3 LogTasks

Time is a countdown: `remaining[t]` is how far `expirationTime` is ahead of the
clock, `-1` once it is behind. The action of `whenComplete` is three steps
(`SetCompleted`, `ReadClock`, `SetExpiration`) that run in the thread that
completes the future, or, if the future was done before, in the thread that
creates the wrapper (`inline`), and then before the map has the entry. `Put`
during a sweep may or may not be seen by its iterator, as ConcurrentHashMap
promises. A sweep reads the clock once (`sweep.late`). `isCompleted` is neither
volatile nor guarded: `Pass` lets the sweep skip a task whose flag was written
by another thread, as if it read the old value. A request of a client is four
steps: the map, the time, `isDone`, the result.

### 3.4 UsersCache

`UsersCache` extends `UserDirectory`: its threads also serve `getUsers`. A cached
page is found (`Hit`), or missed (`Miss`), read by one query (`Query`) and put
(`Put`); nothing connects the three, so anything may happen between them. A
method with `@CacheEvict(allEntries = true)` evicts after its commit (`Commit`,
then `Evict` page by page): the advice of the cache is around that of the
transaction. `Evicts` says which methods do; `createRole`, `deleteRole` and
`changePassword` do not, and neither does `DataInitializer`. `Tick` is the clock:
a page expires `MaxAge` ticks after it was put, however often it is found.
`Drop` is the limit of the cache, which may take any page. `Stop` loses the cache
with the memory of the application. `missed` is a history variable, and no
action reads it: the pages in the cache that missed a change.

### 3.5 LogFiles

The writers are threads that log: an event gets its date first (`Log`) and is
written later, under logback's lock (`Write`), after a rollover if it is the first
of a new day or the file is full (`Rename`: the current file gets its name, and
is opened anew only by the `Write` that follows). `Remove` is the remover of files
older than `maxHistory`, a thread of its own. The reader is one task, step by
step as `getLogFilesForDate` has it: is it today (`IsToday`), the listing, which
begins and ends (`Scan`, `List`) and may or may not see what changed meanwhile,
the current file (`AddCurrent`), and then one file after the other, by *name*
(`OpenRolled`, `OpenCurrent`): `Files.lines` opens a file when the stream comes to
it, and a name may be gone by then, or be that of another file. An open
file is read to its end (`Read`), whatever its name. Lines and files are numbers in
the order of writing, so that order and loss can be told.

### 3.6 Iban

An IBAN is three numbers: bank, account, check digits. `IbanNumber` is what
`convertLettersToNumbers` writes, letters being two digits each. `JavaMod` is the
`%` of Java. There is no state and no run: the numbers have 28 digits, more than
TLC's integers hold, and the theorems are about all of them.

## 4. What the runs check

One run answers several questions where one instance can: `PROJECT.json` lists the
properties of each.

### 4.1 Banking

Two threads, since every hazard of this code is a pair of requests (with a third
thread nothing new can meet: a row has one holder, and copies do not depend on
how many others there are; the proofs cover any number). Two accounts, so that
transfers can lock each other out, and owners that are and are not
administrators. Amounts of a cent; balances with room for one or two, so that
both ends of the range are met.

| Run | Bounds | Shows |
|---|---|---|
| `requests` | 2 threads, one open account and one to create, balance up to one cent (1 million states) | the inductive invariant; a closed account is empty although closings and deposits write whole rows from copies; no orphan account and no partial deletion; every commit from present copies is the operation it was asked for. Withdrawals, which are the first half of a transfer, and changes of password are left to the next two runs |
| `serial` | 1 thread, 9 kinds, 3 accounts, 2 currencies, 1 and 2 cents | the code implements `AtomicBank` |
| `requests_finish` | 2 threads, the kinds that lock several rows, changes of password among them, amounts of a cent and a half | every request ends, under fairness; no fraction of a cent is ever stored or read; the inductive invariant |

In these instances ibans and users may be used up, and then nothing is left to
ask for: deadlock checking is off. A deadlock of requests would be a violation
of `RequestsFinish`.

`FreshCommitsAreAtomic` reads: the tables change only as an operation of
`AtomicBank` that a request in flight asked for, or by a commit one of whose
rows is no longer what its copy says. The second half is what the code does
under concurrency: the property excuses it, and section 6 shows what it costs.

### 4.2 UserDirectory

| Run | Bounds | Shows |
|---|---|---|
| `first_start` | an empty database, 2 users, 2 roles, stops at any moment | the start and four kinds of creation want the same emails and role names at once: none is given twice; a bulk creation adds all or none; a start completes what a stopped one left. Although all overlap, every change is one that was promised, and the run implements `AtomicDirectory`; the inductive invariant `LastingInv` |
| `role_changes` | 1 user, 3 roles, 3 names | a PATCH between any two steps of a creation, renaming or deletion of a role: no membership dangles, no user loses the last role, and after a replacement the user has the roles it found and else only roles that another request gave meanwhile (`NothingOlderComesBack`; 1.1 million states) |
| `password_merges` | 2 users, 2 roles, 3 emails | merges of old copies against PUTs, renamings and deletions: no email twice, a merge of a fresh copy changes nothing, one of an old copy brings back only columns, roles and names that were so while it was served (`NothingOlderComesBack`), and the inductive invariant (0.9 million states) |

`FreshChangesAreAtomic` reads as `FreshCommitsAreAtomic` does: the tables change as an
operation of `AtomicDirectory` that a request in flight, or the start, promises,
or by a commit of what was read and is no longer so. `ChangesArePromised` has no such way
out. It holds in `first_start` because nothing there changes or deletes a row,
and the run with PATCHes needs the way out.

The way out excuses every commit of an old copy, so these properties say nothing of how
much such a commit can undo. `NothingOlderComesBack` does, and excuses none: what a
PUT, a PATCH or a change of password writes beyond what it is asked for was so at a
moment of its own request. What another request has changed in that time may be
undone; what was committed before it began may not. That two replacements of the
roles of one user may leave the union of what both gave is within this bound. No run has
PATCHes of several columns that overlap (twelve kinds of PATCH are too many for a
run); `OldCopiesAreRecent` proves the bound for them as well.

An id is used once, so two or three rows are what an instance can insert; that
also means that requests run out, and deadlock checking is off. What an instance
leaves out another has: PUT and PATCH differ in `Columns` and `ReplacesRoles`
only, and a renaming needs a spare name to conflict. A merge that meets a name given
to another role meanwhile needs two users, three names and more states than a run
has time for; that names stay unique then is part of the theorem
`RoleNamesStayUnique`.

### 4.3 LogTasks

| Run | Bounds | Shows |
|---|---|---|
| `log_tasks` | 1 task, 2 clients, 2 ticks | no task goes early; every answer was the truth at some moment while its request was served; every task leaves the map; the inductive invariant |

Tasks share the sweep only, which removes each entry by itself, so one task
shows what can happen to it; two clients, because one may take out a failed
task while the other reads. With two ticks a sweep and a request start before,
at and after the end of the time; a longer time only repeats the middle.

### 4.4 UsersCache

| Run | Bounds | Shows |
|---|---|---|
| `users_cache` | 2 threads, 1 page, 2 users, 2 roles, 2 ticks to live, starts and stops (472 thousand states) | a page is true, about to be removed, or has missed a change in one of three ways; an old page leaves; the inductive invariant |

The page is that of the administrators, so that a renaming, a merge of an old
copy and the start, which adds the administrator, all change it. Pages do not
touch each other but for the limit, so one is enough, and `MaxPages` is 0 so
that `Drop` can take it. Of the methods that evict, the instance has
`RENAME_ROLE`; the theorem has all. `CachedPagesAreTrue` excuses a page that has
missed a change, whether it was put late or the change evicted nothing: of those pages
only `MissedPagesLeave` says something, that they leave.

### 4.5 LogFiles

| Run | Bounds | Shows |
|---|---|---|
| `log_files` | 2 threads that log, 3 days, 3 lines, 5 files, files kept for one day (2.1 million states) | the lines of an answer are in order and none comes twice; which lines may be missing; the inductive invariant |

Two threads, because an event of yesterday has to wait while another thread
rolls the file. Three days, because on the third the files of the first are
removed. Three lines: the date of a line and the file before and after it are
all that matters. Each way of `OnlyTheseAreMissing` to miss a line occurs.

## 5. Fairness

- `Banking!FairSpec`: a thread that has a request goes on with it
  (`WF(Handle)`); PostgreSQL queues those who wait for a row and gives it to the
  first, so who waits again and again gets it (`SF(Flush \/ Insert)`); the
  deadlock detector runs (`WF(AbortDeadlock)`). Nobody is assumed to send
  requests. The application has no lock timeout and needs none.
- `LogTasks!FairSpec`: each thread goes on, the clock runs, the scheduled executor
  starts a sweep again and again, and a value one thread has written is not
  invisible to another for ever (`SF(Remove)`); the last is not in the letter of
  the Java memory model, but no JVM keeps a plain field from a thread
  that takes and leaves monitors between its reads, as the scheduled executor does.

- `UsersCache!CFairSpec`: only that the clock runs (`WF(Tick)`). Nobody has to ask,
  change or evict anything for an old page to leave.

## 6. Where the code does not keep its word

Each is a run TLC is expected to refute, about a sentence of a test or a message
of the code, quoted in `PROJECT.json`.

| Run | What happens |
|---|---|
| `lost_posting` | of two deposits at once one is lost, though both are acknowledged |
| `password_over_account` | a deposit after the filter has read the user is undone by `changePassword` |
| `last_role` | a password change between two PATCHes leaves a user without a role |

The same two causes, decisions on old copies and `UPDATE`s of all columns, have
other effects that have no run of their own because they add no new mechanism:
a deposit between the read and the write of `closeAccount` is overwritten, and
an account with money is closed in spite of "You cannot close an account with a
positive balance." (`service/AccountService.java`, line 77); an account opened after `deleteAccount` read it is deleted open; of two PATCHes of different
fields one undoes the other; two PATCHes of the roles of a user leave the roles
of both. They are among the commits that `Stale` sets apart. And a deposit of
0.015 is acknowledged as such and stored as 0.02: `Column`, `CentsStayWhole`.

## 7. What is proved

All proofs are checked by TLAPS to the last leaf. They hold for every set of
accounts, users, threads, kinds of request and amounts that meets the
assumptions of the modules: requests have amounts that are natural numbers, the
opening tables are sound, the marks (`Unused`, `NotLoaded`, ...) are no values,
`Ibans` is finite.

**Banking.** `Inv` of `BankingInvariants` is inductive (`Invariance`). The three
properties it yields are not inductive alone:

- *A closed account is empty* (`ClosedStayEmpty`) holds although a close may
  overwrite a deposit and a deposit may overwrite a close: each commit writes
  status and balance from one copy, a copy was a sound row once
  (`CopiesWereRows`), and the guard the request passed is true of its copy until
  the commit (`DecidedOnCopies`).
- *No orphan account* (`NoOrphanAccounts`): past the `DELETE` of the user, a deletion
  holds the row of every account of the user (`DeletedUsersKeepNothing`), rows
  that are held stay (`LockedRowsStay`, `LockedUsersStay`), and the foreign key
  keeps a creation waiting.
- *No negative and no oversized balance* is part of `TypeCorrectness`, from
  `LockedRowsStay` and the guard `Funded` on the copy.

`CentsStayWhole` proves that balances stay whole cents for any amounts, from the
rounding of the column. `Atomicity` is `FreshCommitsAreAtomic` as a theorem, from
`Inv` and `CentsInv`; it needs a bank of whole cents and whole amounts
(`WholeCentBank`), since otherwise what is stored is not what was asked.
`SerialRefinement` is the refinement: with at most one thread no copy is old, so
the specification implements `AtomicBank`.

**UserDirectory.** `Inv` (`DirectoryInvariance`) gives `EmailsStayUnique`,
`RoleNamesStayUnique` and `MembershipsLead`. Its argument is that a commit relies
on no check but its own constraint, so that early checks may be as old as they
like; the copies only have to be of the right type. `UsersKeepARole` proves that
no user loses the last role as long as `"PASSWORD" \notin Kinds`; `last_role`
shows that the assumption is needed. Its strengthening `RolesInv` (`RolesInvariance`) says that a request
that names roles has found one before it deletes any.

**DirectoryRefinement.** What a thread is about to write is made of its request
and of what it has read (`WorkInv`, `WorkInvariance`). If that is still so at the
commit, the commit is the operation that was asked for on the tables as they are: the
roles found are those that have the names now, and what else the operation
needs, an email nobody has or a role nobody has, a constraint of the tables
demands again. That is `DirectoryAtomicity`, which states `FreshChangesAreAtomic`.

- *What is old is not older than the request.* `OldCopiesAreRecent` states
  `NothingOlderComesBack` for any number of threads and all kinds of requests, starts and
  stops among them. `HistoryInv` (`HistoryInvariance`) says that the copy of a
  request, and what its `DELETE` of the roles has not found, was so at some moment of
  the request; by `WorkInv` the commit writes nothing else.
- *What needs no way out.* `CreationsKeepPromises` and `CreationsAreAtomic` state
  `ChangesArePromised` and `ImplementsAtomicDirectory` for any number of threads,
  if requests only create users and roles, with starts and stops of the
  application anywhere among them, or create and delete them while nothing
  starts. `LastingInv` (`LastingInvariance`) is why: a role that was found keeps its name or is gone,
  and the insert of a membership in a role that is gone fails. So what is out of date
  at a commit is so because of a PUT, a PATCH, a change of password, a renaming,
  or a deletion during a start.
- *One thread.* `SerialDirectory`: with one thread, and the application up, the
  directory implements `AtomicDirectory` for every kind of request. `SerialInv`
  says that all a thread has read is so until its own commit.
- *The promise itself.* `AtomicDirectoryKeepsOrder`: unique emails and names,
  memberships that lead somewhere and a role for every user follow from
  `AtomicDirectory` alone, changes of password or not.

**What takes two requests.** The three runs of section 6 refute what holds with
one thread: `SerialAmountsArrive` (in a bank of whole cents every acknowledged amount arrives),
`SerialPasswordsLeaveAccounts` (a change of password leaves the accounts alone) and
`SerialUsersKeepARole` (no user is without a role) state the same three properties for
one thread. So the overlap is the cause, not the arithmetic or the order
of statements in a service.

**LogTasks.** `TaskInvariance` proves `Inv` of `LogTaskAnswers`, which holds
`KeptForItsTime` (`TasksAreKept`) and `AnswersWereTrue` (`AnswersAreTrue`). The
second needs the history variable `could`, what a request served at one blow
would have been told at each moment since it came; `Decided` says that from the
moment a request holds the wrapper, what it will answer has been true, is true,
or will be true when the task ends.

**UsersCache.** `CInv` (`CachingInvariance`) has the invariant of the directory in it
and gives `CachedPagesAreTrue` (`PagesStayTrue`) and `CTypeOK` (`CachingTypes`). The
work is in the commits that evict nothing: a new role is nobody's, a role that
is deleted is nobody's either (the constraint of `user_roles`), and a merge of a
fresh copy writes what is there (`MergesItsCopy`), so none of them changes a
page. Every other commit evicts all pages, and a page put meanwhile either shows
the tables, or is about to be evicted, or counts as missed. With one thread none is ever missed
(`SerialPagesAreTrue`).

**LogFiles.** `LInv` (`LogInvariance`) has two parts that carry the properties.
`ReadsForwards`, for `AnswersInOrder` (`LinesInOrder`): all files still to be opened come after those
that were read, because the indices of a day grow with its files
(`RolledInOrder`) and no index is given twice (`Given`); a rollover in
between can only push the current file further back. `NothingElseIsLost`, for
`OnlyTheseAreMissing` (`NoOtherLineIsMissing`): at every step each line of the day is
read, still to be read, or already lost in a way the property names.

**Iban.** `GeneratedIbansHaveTheForm`: sixteen digits, two check digits and a check
that is passed, for every `long`. `ValidIbansAreOneModulo97`: the comparison of check
digits in the code accepts exactly what the standard does. `MistypedIbansAreRefused`: no
power of ten has the factor 97, so one wrong digit or two that changed
places are noticed.

Only model-checked: the liveness properties (`RequestsFinish`, `TasksLeave`,
`MissedPagesLeave`), since fairness speaks of `ENABLED`, which these provers do
not reason about. Every invariant and every action property of a run that passes
is stated by a theorem. `WorkInv`, `SerialInv` and `HistoryInv` are steps of these
proofs and are in no run: the runs check what follows from them.

## 8. What is not modelled

- Tokens, their signature and expiry; CORS; the bodies of answers; patterns of
  single DTO fields; logging aspects: no shared state.
- Waiting on unique indexes and on rows of `users` and `roles` in `UserDirectory`,
  other than the `UPDATE` of a user, which decides what a `DELETE` sees. A
  transaction that would wait commits later in the model, and finds the same rows.
- Read-only queries, visit statistics (one atomic increment), API documentation.
- The seconds a `COMPLETED` status tells. Before the callback has run they are
  computed from `Long.MAX_VALUE`; nothing in the repository says what they are to be.
- The transaction history and currency rates that the repository's own README names
  are not in the code.
- On the pages of the cache: the accounts of a user, names, page numbers and
  totals. All methods that change accounts evict as `updateRole` does, and a
  password change that merges old accounts misses a page as one that merges old
  roles does.
- Of the log files: lines without a date at their beginning (stack traces), which
  the filter drops; decoding errors; a restart of logback, which takes the date of the
  current file from the file system.
- `src/src/main/resources/static/swagger-ui/`: the only JavaScript in the
  repository are the bundles of Swagger UI, a third-party product, and its stock
  initializer, which hands it an address. They keep no state of this system.

# A verification project for the Windows API examples

The repository is a collection of about 65 small Windows programs, each of which
shows one part of the API. A few contain what is hard to get right: threads that
share state with no lock, callbacks, waits with a time limit, handles closed by
one thread and used by another, and destructors that run while work is under way.
Each of those has a state machine of its own in TLA+, checked with TLC on small
instances, and proved with TLAPS for all values of the constants where the prover
reaches. Most of the others are one sequence of calls, in which the errors are what
is hard: 79 of them are written down call by call, and checked for what they leave
open, use twice, read in vain or report wrongly when any of the calls fails.

- [1. Inventory](#1-inventory)
- [2. The modules](#2-the-modules)
- [3. The runs](#3-the-runs)
- [4. Fairness](#4-fairness)
- [5. What is proved](#5-what-is-proved)
- [6. What the code does otherwise than its documents say](#6-what-the-code-does-otherwise-than-its-documents-say)
- [7. What is not modelled](#7-what-is-not-modelled)
- [8. Plan](#8-plan)

Paths are relative to the repository's root; in this file `src/` is left out.

## 1. Inventory

The programs do not call each other, with one exception: the service control
program installs, starts and stops the service. Each program's parts interact
through shared memory, kernel objects and callbacks, as listed.

### 1.1 NcDetection: the route monitor (`NcDetection/NcQuery.cpp:458-783`)

| | |
|---|---|
| State | `m_StopFlag`, `m_Route` (the routes issued to the virtual card), two switches that say what to check, `g_mutex_mointor_thread`; the instance itself, made at the first call |
| Operations | `GetInstance`, `Start`, `Stop`, `Clear`, `UpdateRouteTable`, `UpdateNetCardOptions`; `ThreadCheck` in a detached thread for each `Start` |
| Interaction | Threads of the network client call in through `Handle...` functions; the check thread reads what they write. The mutex is taken by check threads only. Routes that are missing from the system's table go to the repair |
| Hard | Data races on the set; a flag that is raised and lowered; detached threads that pile up; a `continue` in a `do while`; a system call that fails between two others; an instance made at the first call with no lock |
| Correct when | One thread checks at a time; a started monitor has a thread; issued routes are looked at; repair is tried as long as it is needed; a stopped monitor has no thread (it has: section 6) |

### 1.2 NcDetection: status reports (`NcDetection/NcQuery.cpp:96-456`, `:655-717`)

| | |
|---|---|
| State | The map of module states, the master code, state and message, the registered recovery handler |
| Operations | `SetNcIPStatus`, `SetNcOptStatus`, `SetNetCardStatus`, `SetNetCardOptStatus`, `SetRouteStatus`, `SetEventRelt`, `Clear`, `RegisterRecoverEvent`; `RecoverEvent` and the `Handle...` functions |
| Interaction | A report goes to the map, to the status service, over IPC to the core and to the handler, in an order that differs from function to function; the handler calls into the route monitor, on the reporter's thread |
| Hard | Six orders of the same writes; a card that reports in the name of the ip; a handler that runs while another thread starts or stops the monitor |
| Correct when | Map, master status and service agree on the last report; the handler is called when everything is written; a table of routes that was delivered is watched |

### 1.3 The service (`ServiceCallDll/SimpleService.cpp`, `SimpleService/SimpleService.cpp`)

| | |
|---|---|
| State | `g_MyServiceStatus` (the record that is reported), a static check point, the stop event, the pause flag |
| Operations | `MyServiceMain` in a thread of its own, and `MyServiceWorker` in it; `MyServiceHandlerEx` in the dispatcher's thread, `ReportServiceStatus` called by both |
| Interaction | With the service control manager, which starts the process, delivers the controls the last report accepts and receives reports. The worker of `ServiceCallDll` loads a library into another process and waits with no time limit for the thread it made there (`InjectDll.cpp:237`); `SimpleService`'s is empty |
| Hard | A global record filled field by field by two threads; a report and an event in a given order; a main thread that is at the mercy of another process while the handler acknowledges a stop |
| Correct when | Reports are not mixed; the manager sees a legal history; check points grow; a stop completes once the worker is back |

### 1.4 Service control programs and DLL injection

`ServiceCallDll/CreateService/createservice.cpp` and `CreateService/CreateService.cpp`
install, start, stop and remove services; they hold handles and poll the service's
state with a time limit and the check point. `ServiceCallDll/InjectDll.cpp` and
`ProcessHelper.cpp` load a library into another process and read its environment.
Correct when what is opened is closed on every path, and the result says what
happened.

### 1.5 The registry monitor (`RegNotifyChangeKeyValue/CRegMonitorClass.cpp`)

| | |
|---|---|
| State | Four handles: key, exit event, change event, thread |
| Operations | `StartMonitor`, `StopMonitor`, the destructor; `RegMonFunction` in a thread |
| Interaction | The thread reads the handles its owner opens and closes; the kernel sets the change event when a registration fires |
| Hard | A wait of 2000 ms whose result is ignored; a one-shot registration between a reset and a wait; failing calls half way through a start |
| Correct when | Handles outlive the thread; no change is lost to a waiting thread; the exit event ends the thread |

### 1.6 The work pools (`ThreadPool_1/ThreadPools.cpp`, `ThreadPool_1/ThreadPool_1.cpp`)

| | |
|---|---|
| State | Per user a pool (thread pool, cleanup group, work handles) and a task (`m_bDone`, `m_strPwd`); main's vector of tasks |
| Operations | The constructors, `CreateWorkThread`, `UpdateAllTaskState`, the destructors; the callback, which looks a password up in two dictionaries |
| Interaction | Main and the callbacks share tasks and pools through plain members; the pool's destructor waits for its callback |
| Hard | A task is deleted while its callback is still on the stack; a base destructor that waits when the derived part is gone; constructors that go on after a failure |
| Correct when | No callback meets a deleted task or a half destroyed pool; what is printed is what was found; main ends |

### 1.7 The semaphore ring (`Test_Semaphore_D/Test_Semaphore_D.cpp`)

State: three semaphores with names `A`, `B`, `C`, a counter in each of three
threads. Each thread waits for its semaphore, prints its letter and releases the
next, ten times. The semaphores are named, so that several runs of the program
share them. Correct when the letters come in turn, no release is lost, and all
threads end.

### 1.8 The process chain (`ProcessChainDemo/ProcessChainDemo.cpp`)

| | |
|---|---|
| State | `g_ProcessTree`, a map of records keyed by process id and start time, each with its parent's key, its root and its level |
| Operations | `BuildProcessTreeSnapshot` in three passes (records, roots, levels), `FindProcessChain`, `FindProcessChainByPid`, `PrintProcessChain` |
| Interaction | With the system, whose processes start and end while the tree is built and used: the snapshot has ids only, start times and names are asked for by id later |
| Hard | Ids that are used again; links that form a cycle; roots inherited in the order of the ids; a printing loop with no guard |
| Correct when | The root is on the line of parents, it is the nearest stop process, the level is the distance to it, and the loops end |

### 1.9 The monitor of Explorer windows (`ShellApplication/ShellApplicationMon.cpp`)

| | |
|---|---|
| State | A queue with a lock, an auto-reset event, an exit flag, the advised connection; the worker's own queue |
| Operations | The constructor, `Invoke` (COM threads), `ProcessEvents` (worker thread), the destructor |
| Interaction | COM threads push and signal, the worker swaps the queue and shows it, main deletes the sink |
| Hard | One signal for several pushes; a destructor that frees what two kinds of threads use, and waits for one of them; a string that `Invoke` frees and its holder frees again |
| Correct when | Events are shown once, in order and in the end; the worker is gone before its handles are |

### 1.10 The thread parameter (`Test_Semaphore_C/threadCtrl.cpp`)

State: the loop variable of main, read by each new thread through a pointer; a
semaphore that makes main wait for that read; a counter under a critical section.
Correct when every thread gets a number of its own and the printed values count up.

### 1.11 The straight programs

Programs that are one sequence of calls: registry, users, shares, drives, network
tables, USN journal, files, environment, processes, COM objects, logins, pipes.
Their state is what they have acquired and not released. They interact with the
system only. What is hard about them is a call that fails in the middle: each
program is tested with all calls working. Correct when a routine that returns has
released what it acquired, uses nothing dead, reads nothing a failed call was to
give it, and does not report success over a failure.

### 1.12 The others

Programs that acquire nothing (one query and a print), demonstrations of a crash or
of a mitigation, third-party code, and `RouteChange`. Section 7 has the reasons.

## 2. The modules

A component has a module with its state machine, an `MC` module that TLC runs, and
a module with its proofs. Names of variables and actions are those of the code
where there is one; an action models the code up to the next point at which
another thread can see or change something. The straight programs share a small
language of calls, and one module that runs it.

| Module | Lines of the code | State and actions |
|---|---|---|
| `NcMonitor` | `NcQuery.cpp:458-783` | Callers and check threads are sets. A call is a sequence of actions, one for each shared field; a library call on `m_Route` has a begin and an end action. Overlapping ones set `raced`, after which the set's content is open and the process may crash. `sysTable` and `cardUp` are the system's side |
| `RegMonitor` | `CRegMonitorClass.cpp` | One owner, a thread for each session. A handle is the number of the session that opened it. `signalled`, `armed` and `pending` are the kernel's side. `Denotes` says what a stale handle means: nothing, or any object that took over the value. `Created` is the test of `StartMonitor` for a member that is already set, which makes a start go on with what an earlier one left. `KeyIsWatched` says that owner, threads and kernel implement `KeyWatch` |
| `KeyWatch` | abstract | What a monitor owes its owner. A session is new, busy, listening, told of a change, or gone; it may be asked to end. A wait that ran out is `GiveUp`, after which nothing is promised |
| `Turns` | abstract | The letters in turn |
| `SemaphoreRing` | `Test_Semaphore_D.cpp` | A set of runs (`Procs`) with three threads each and one set of semaphores. A semaphore lives as long as somebody has it open, with the count of its creator. `TakeTurns` says that the ring implements `Turns` |
| `Service` | `SimpleService.cpp` | Main thread, handler, manager. A report is four actions, so that two of them can be mixed. The worker is a step of the main thread that fails on the way or comes to the wait for the thread in the other process; that thread's end is an action of its own (`RemoteThreadEnds`) |
| `WorkPool` | `ThreadPools.cpp`, `ThreadPool_1.cpp` | Main walks through construction, polling and destruction for `NumUsers` users, one callback for each. A NULL handle passed to a system function crashes the process or does nothing |
| `Reporting` | abstract | A board on which reports are settled, and then somebody is called for each |
| `NcStatus` | `NcQuery.cpp:96-456`, `:655-717` | Each function is the sequence of its writes; a thread does one after the other. A field of the map holds the number of the report that wrote it. The route monitor is an instance of `NcMonitor`, its callers the reporting threads. `ReportsSettleFirst` says that the functions implement `Reporting`. Two calls into the map at once are a race, after which the model ends |
| `ExplorerSink` | `ShellApplicationMon.cpp` | main, the worker, a set of COM threads; a caller that comes too late leaves what it touched in `strays` |
| `ParamHandoff` | `threadCtrl.cpp` | main and `THREAD_NUM` threads, semaphore and critical section |
| `Calls` | | The steps in which the straight programs are written: a call that acquires, works, releases, releases by another allocator's function (`Mismatch`) or may fail, with where the code goes then; loops, branches and jumps |
| `Ledger` | | Runs one routine with every outcome of every call, and keeps book of what it holds, has lost and has used after its end |
| `ProcessCode`, `LoginCode`, `SystemCode`, `ShellCode` | 49 files, section 6.2 | 14, 5, 32 and 28 routines |
| `ProcessChain` | `ProcessChainDemo.cpp` | The system's processes (`procs`, `alive`) and the program. An entry of the first pass, a record of the second and a round of the printing loop are actions, so that processes come and go in between; a search within one record is one action |

Abstractions, with what they rest on:

- Texts, addresses and routes are model values. A dictionary search is whether it
  finds (`found`), the same for all users since they share one hash.
- Sleeps are steps that take any time. A wait with a time limit may run out at any
  moment, and what follows is tagged with it (`timedOut`).
- Data races: on single flags (`m_StopFlag`, `m_bDone`, the handles) an access is
  one step, and that a store is seen in the end is assumed of the build. On
  `m_Route`, where it would not hold, the outcome is open.
- A start time is the place in the order of starts, 0 is unknown: two processes that
  get the same id within one second, which the keys cannot tell apart, are left
  out. `Guard` stands for the 100 of the guarded loops.
- In `NcStatus` the system's side of the monitor stands still: no route comes into
  the system's table and no card is connected, so that the check thread scans and
  repairs nothing. `NcMonitor` has all of that. A report is a code and, for routes,
  a table; texts are the number of the report they came with.
- In a routine conditions on data are open, both ways are taken. A failed call goes
  where the code goes. `Out` is a call that leaves its variable alone when it fails,
  `Get` one that stores NULL. Memory behind NULL is a crash; behind a variable with
  an old or no value it may be there or not. A directory inside a directory, or a
  container inside a container, is taken one level deep. `new` does not fail.
- `NcMonitor` bounds the number of `Start` calls by the number of thread identities,
  `RegMonitor` by `MaxSessions`, `Service` the controls of one process by
  `MaxCheckPoint`, `ProcessChain` the processes ever started by `MaxProcs`, `NcStatus`
  the calls by `MaxReports`, `ExplorerSink` the events by `MaxEvents`. Nothing else
  is bounded.

Definitions marked as mutants in a comment are not part of the models. Each is a
plausible bug, replaced for the action it stands before in order to see that the
property it is listed with in PROJECT.json can fail.

## 3. The runs

| Run | Instance | Shows | Distinct states |
|---|---|---|---|
| `nc_monitor` | 2 callers, 2 check threads, 1 table route, 1 card route; symmetric | `OneChecker`, `StartedMeansWatched`, `IssuedRoutesAreChecked` | 2.7 million |
| `nc_repair` | 1 caller, 2 check threads, fair | `RepairGoesOn` | 490,000 |
| `nc_stop` | 1 caller, 1 check thread, fair | `StopStopsTheThread` is violated | |
| `reg_monitor` | 2 sessions, fair | `HandlesOutliveThread`, `NoLostWakeup`, `ExitEndsRounds`, `KeyIsWatched`, `StopEndsThread` | 51,000 |
| `reg_late` | 1 session | `AssertionsHold` is violated | |
| `semaphore_ring` | 2 runs, 3 rounds, fair | `OneTurn`, `NothingLost`, `SomebodyRuns`, `TakeTurns`, `AllEnd` | 4,700 |
| `service` | up to 4 controls before the stop, any number of restarts, fair | `ReportsDoNotOverlap`, `StopIsSignalled`, `LegalReports`, `CheckPointsGrow`, `StopCompletes` | 3,200 |
| `work_pool` | 3 users, fair | `TasksOutliveCallbacks`, `NoPureVirtualCall`, `WeakAreReported`, `PolledTaskIsComing`, `MainEnds` | 20,000 |
| `process_chain` | 3 processes over time, 4 ids, 1 that cannot be opened, fair | `RootOnLine`, `RootIsNearestStop`, `PrintingClimbs`, `CompleteChainEnds` | 360,000 |
| `process_level` | the same | `LevelIsToRoot` is violated | |
| `nc_status` | 2 threads, 1 check thread, 2 reports or clearings, 2 codes, 1 route; symmetric | `StatusShowsLastReport`, `RoutesReachMonitor`, `ReportsSettleFirst` | 570,000 |
| `programs` | 79 routines; the sink with 2 COM threads and 4 events, fair; 3 threads that take their numbers | `NothingElseLeft`, `NothingDeadUsed`, `NothingMissingRead`, `SuccessIsReal`, `ShownInOrder`, `WorkerOutlived`, `NoEventSleeps`, `EventsAreShown`, `NumbersHandedOver` | 31,600 |

The type invariants (`TypeOK`, and `HandoffTypeOK` for the hand-over) are proved for all
values of the constants (section 5), and no run repeats them.

Why the bounds are enough to meet the hard cases:

- Two callers and two check threads are the least with which a `Start` overlaps a
  `Stop`, a thread waits behind another for the mutex, and an insertion overlaps a
  scan. `nc_repair` has one caller, because its property speaks of an end of the
  calls, and symmetry is not used with liveness.
- Two sessions let a stop whose wait ran out be followed by a start with new
  handles, while the first thread still runs.
- Three rounds in two runs let one run start in the first, a middle and the last
  round of the other, and after it; the code has ten. The safety properties are
  proved for any number of rounds and of runs.
- Four controls let a pause and a continue each follow the other and themselves.
- Three users are the source's.
- Three processes make the longest line of two links with every order of the ids
  along it, and an id used again by a grandchild, which closes a cycle of two
  links. A guard of 4 leaves a cycle of two where the source's 100 does, both
  being even. What takes more processes (a link that is found when the roots are set,
  on the line of a third record) is left to the proofs, which are for any number of
  processes, ids and any guard.

- Two calls are the least in which one report follows another of the same module,
  of another one, or a clearing, or meets it half written; a third thread or call
  would repeat one of these pairs. One check thread scans while a table is delivered.
- Two COM threads and four events: two pushes for one signal, a push while the
  worker waits, has the queue in hand and tests the exit flag. Three threads let a
  number be taken by the first, a middle and the last; the code has ten, and the
  proof is for any number. A routine is bounded by itself.

`CHECK_DEADLOCK FALSE` stands in the configurations of `NcMonitor` (a crash ends
the process), `SemaphoreRing`, `WorkPool` and `Programs` (the programs end) and
`NcStatus` (it ends at a race, and when the calls are used up). `RegMonitor`,
`Service` and `ProcessChain` never stop, and deadlock is checked.

### The properties

`OneChecker`. However many threads repeated `Start`s have left behind, one at a time
is in the loop. It rests on the mutex alone.

`StartedMeansWatched`. If `Start` was the last of `Start` and `Stop` to return and no
`Stop` is under way, no stop request is pending, and a check thread is in its loop, or at
the mutex and finds it free: the loop goes on, or is about to. It rests on the stop
request being taken back by every `Clear`, the very line that makes `Stop` ineffective
(a repair of one has to keep the other), and on a thread that leaves the loop giving the
mutex back, so that those that are left over from earlier starts block nobody.

`IssuedRoutesAreChecked`. Outside calls, and without a race on the set, a route in the
set means that the switch is on. It rests on opposite orders in `Clear` (switch,
then set) and `UpdateRouteTable` (set, then switch).

`RepairGoesOn`. In a monitor that stays started with a card that stays connected, a
route that is issued is again and again either in the system's table or handed to
the repair.

`HandlesOutliveThread`. Unless a wait ran out, the three handles a running thread
works with are those of its own session. `StopMonitor` resets every member, also those of
a start that failed half way, and `StartMonitor` creates only what is not set: if a reset
were left out, the next session would go on with a closed handle.

`NoLostWakeup`. A waiting thread's registration is armed or its event is set.

`KeyIsWatched`. The refinement of `KeyWatch`, until a wait of `StopMonitor` runs out. One
session watches the key at a time. From its registration on a session listens, or was
told of a change, at once if the key handle kept one; it goes round again only when it
was told, once for each time, and never when it was asked to end; and it ends only when it
was asked, or when the registration fails. It takes most of the code's orders to keep:
the event reset before the registration, the exit event first in the array, the thread
waited for before anything is closed.

`StopEndsThread`. A thread that `StopMonitor` waits for ends or the wait runs out,
although the key may change for ever. `ExitEndsRounds` is its safety half: from
the moment `StopMonitor` waits, the thread leaves its own wait only to end, because
the exit event was set before and comes first in the array; no change that is
signalled beside it costs another round of the 2000 ms.

`OneTurn`, `NothingLost`, `SomebodyRuns`, `TakeTurns`, `AllEnd`. There is one turn, in a
semaphore or with a thread; no release fails on a full semaphore and no semaphore is
closed under a thread; while a thread waits, somebody has the turn or can take it, or a
run that has begun is still making its threads, so that the ring never stands still with
somebody in it; the letters come in turn; both runs end. All of them also when
two runs share the semaphores, in which case a semaphore can be created by one
run and closed last by the other.

`ReportsDoNotOverlap`, `StopIsSignalled`, `LegalReports`, `CheckPointsGrow`,
`StopCompletes`. The record
has no lock, and needs none: no control comes before RUNNING is reported or after
STOP_PENDING is, and the event is set after the report. If the event could not be
created, the main thread's wait fails and it reports STOPPED at once, possibly in
the middle of the handler's report; the first four are therefore stated for the
case that it was created (`HasEvent`), `StopCompletes` holds in both. `StopIsSignalled`
ties the event to the history: while main is in its worker or waits it is set exactly when
the manager was told of the stop and the handler is done, so that main neither sleeps
through a stop nor reports STOPPED in one. `LegalReports` says what history the code
gives; a service is expected to follow PAUSE_PENDING by PAUSED and CONTINUE_PENDING by
RUNNING, and this one does neither.

`StopCompletes` is not true by itself. The worker of `ServiceCallDll` waits with no time
limit for a thread of another process (`InjectDll.cpp:237`), and if the library hangs
there, a stop that was acknowledged stays STOP_PENDING for ever. The property therefore
has a premise, `RemoteThreadsEnd`: the wait, whenever it is begun, ends. Without
the premise TLC finds the service that hangs.

`TasksOutliveCallbacks`, `NoPureVirtualCall`, `WeakAreReported`, `PolledTaskIsComing`,
`MainEnds`. Polling
until every task is done is what protects the pools: no callback can begin once
the destructors do. It holds for every combination of failing creations, because
a task that was never submitted keeps main polling for ever; `MainEnds` is stated
for the case that all were submitted. `PolledTaskIsComing` is its safety half: a task
that was submitted and is still polled for is done or has its callback before it.

`RootOnLine`, `RootIsNearestStop`, `PrintingClimbs`, `CompleteChainEnds`. A root is never
off the line of its record, although it may be inherited, be outside the tree, or belong
to a process that only took over an ancestor's id. It rests on the search writing the
start time it found into the record (line 245). The order of the ids makes no difference
to roots and levels wherever the links up to the nearest stop process, or to the topmost
one, are known: all of the line to there is in the tree, and each link on it but the
record's own has a start time, of a process that is the elder. The last is needed. With
six processes a parent's start time can be missing when the record is made and be found
when its root is set, as that of a younger process that has the id by then; whether a
third record sees the link before or after depends on the order of the ids, also when its
own line is complete in the end.

Where the line is complete, up to a process with no parent, all of it in the tree and
with every start time known, each round of the printing loop is one link nearer to the
top, and the chain gets printed. That is not true of every line: `PrintProcessChain` has
no guard, and from a stop process above which the links form a cycle it would go round
for ever, its own id being the only one it stops at. That takes an id used again by a
descendant and a stop process below it, four processes in all, one more than the run has.

`StatusShowsLastReport`. Outside calls, the map shows the last report of each module in
state and message, the master status is that of the last call, and the service heard
what the map shows. It is stated for the names the code uses, the card's report under
`ncip` included, and it is false as soon as one function leaves out or swaps a write
across a clearing. Two calls at once would be a race on the map.

`RoutesReachMonitor`. A table that was delivered to the handler while nobody started or
stopped the monitor is watched: it is in the set and the switch is on, although the
handler runs on the reporter's thread and the check thread scans the same set.

`ReportsSettleFirst`. The refinement of `Reporting`: each of the four functions calls the
handler last, when map, service and master status have been written, and once.

`ShownInOrder`, `WorkerOutlived`, `NoEventSleeps`, `EventsAreShown`. What was shown, what the worker has in
hand and what is queued are together all events in order. Handles and sink go only
when the worker has gone; a COM thread can be late, but only while main deletes. The
worker sleeps on an event that is not set only while nothing is queued or somebody is
about to signal, and never while the destructor waits for it: it rests on the queue
being filled, and the exit flag being set, before the signal that goes with it. As
long as main does not begin to delete and the event and the thread could be made,
every event is shown.

`NumbersHandedOver`. Each thread prints a number of its own and the counter goes up by
one a line; main never waits for a thread that has already let it go on.

`NothingElseLeft`, `NothingDeadUsed`, `NothingMissingRead`, `SuccessIsReal`. For each of the
79 routines, with every call working or failing. A routine that does leave something,
or does break one of the last three, is listed with just that (`Routine(body, leaves,
breaks)`, section 6.2), and the lists are the smallest with which the run passes: take an
entry out and it fails. So the properties say of the code exactly what each path
leaves, not that nothing is ever left.

## 4. Fairness

Every fairness condition is weak fairness of a thread's next step: the scheduler
runs a thread that can run. No call is ever forced, neither a user's nor the
service manager's, no route is ever lost or key changed by force, and no wait has
to run out.

- `NcMonitor`: each call that was begun goes on; each check thread goes on, which
  for the one that waits for the mutex means only when the mutex is free.
- `RegMonitor`: the owner goes on (`OwnerGoesOn` leaves the running out of the wait
  out), each monitor thread goes on.
- `SemaphoreRing`: each main and each thread goes on. Weak fairness is enough for
  the semaphores, since the turn that enables a waiting thread is taken by nobody
  else but the same letter's thread of another run, which has finitely many rounds.
- `Service`: main thread, handler and the end of the process. The thread in the other
  process has no fairness; that it ends is the premise of `StopCompletes`.
- `WorkPool`: main and each callback; each pool has a thread of its own.
- `ProcessChain`: a build and a printing that were begun go on. Nobody has to choose
  from the menu, and no process has to start or end.
- `ExplorerSink`: the destructor once it has begun, the worker thread, and each COM
  thread inside `Invoke`. No event has to come, and main need not begin to delete.
- `NcStatus`, `ParamHandoff` and the routines have safety properties only, and no
  fairness.

## 5. What is proved

The theorems hold for all values of the constants under the named assumptions of
the modules: `RoutesAssumption` (table routes and card routes are disjoint),
`PidsAssumption` (ids are positive, those that cannot be opened are ids), and
`SessionsAssumption`, `RoundsAssumption`, `BoundAssumption`, `UsersAssumption`,
`ReportsAssumption`, `SinkAssumption`, `HandoffAssumption`, `BoundsAssumption` (each a
natural number, positive where the code's is). Sets of threads, callers, runs and routes
may be any sets, infinite ones too. TLC evaluates all of the assumptions in the runs.

| Module | Theorem | Property | Inductive invariant |
|---|---|---|---|
| `NcMonitorProofs` | `TypeCorrect` | `TypeOK` | itself |
| | `MutualExclusion` | `OneChecker` | `HeldInLoop`: a thread in the loop holds the mutex, which is at most a singleton |
| | `StartWatches` | `StartedMeansWatched` | `CallsOK`: step and argument of a call fit the call. `StopPending`: a raised flag means a `Stop` at its first step. `Watched`: a thread is alive. `HeldInLoop`: the mutex is held just while a thread is in the loop, so that one that is alive can enter if nobody is in |
| | `IssuedChecked` | `IssuedRoutesAreChecked` | `IssuedInv`: routes in the set mean that the switch is on, or that an update will turn it on, or that a `Clear` is about to empty the set |
| `RegMonitorProofs` | `TypeCorrect` | `TypeOK` | itself |
| | `HandlesAreSafe` | `HandlesOutliveThread` | `HandlesInv`: how far a start has come determines which handles are open, and a running thread owns all of them; an owner that begins a start has no member set (`Cleared`) |
| | `ExitComesFirst` | `ExitEndsRounds` | `ExitInv`: a thread waits for the events of its own session, the exit event first, and it is set when `StopMonitor` waits; with `HandlesInv`, by which no other session's event is meant |
| | `WakeupsAreKept` | `NoLostWakeup` | `WakeupInv`: the property from the registration on, together with `HandlesInv`, by which nobody else's event is meant |
| | `MonitorImplementsKeyWatch` | `KeyIsWatched` | the three above, with `FreshInv`: a session that has not begun was not asked to end, and the owner never holds the exit event of one to come; and `KernelInv`: a registration that waits belongs to the thread that made it and its event is not set. Each action maps to one of `KeyWatch`, or to a stutter; from the first wait that ran out on, all do |
| `SemaphoreRingProofs` | `TypeCorrect` | `TypeOK`, with no count outside 0..1 | `IInv`: the phases of a run, and the rounds of each thread |
| | `OneTurnAtATime`, `NoTurnIsLost`, `LettersTakeTurns` | `OneTurn`, `NothingLost`, `TakeTurns` | `TurnInv`: the releases made at each place of the ring, by all runs together, are a finite set; the places before the turn have made one more than the others (`Tally`); and the turn is in that place's semaphore (`Idle`), or with one of its threads (`Held`), or no run has begun (`Fresh`) |
| | `NobodyIsStuck` | `SomebodyRuns` | `TurnInv` and `IInv`: if the letter to come had no thread left that waits, each run would have released it as often as it ever does, and a thread waiting elsewhere has released less (`TurnIsWanted`) |
| `ServiceProofs` | `TypeCorrect`, `NoOverlap`, `LegalHistory` | `TypeOK`, `ReportsDoNotOverlap`, `LegalReports` | `IInv`: where each thread is determines what the manager has seen and what the record holds; from the RUNNING report on, the worker included (`Serving`), the controls decide that |
| | `StopsAreSignalled` | `StopIsSignalled` | `SetInv` in addition: whoever told the manager of the stop has set the event or is about to |
| | `CheckPointsIncrease` | `CheckPointsGrow` | `CInv` in addition: the counter is above every check point that was written |
| `WorkPoolProofs` | `TypeCorrect`, `TasksAreSafe`, `NoPureCall`, `AllReported` | `TypeOK`, `TasksOutliveCallbacks`, `NoPureVirtualCall`, `WeakAreReported` | `IInv`: a callback that is not done has its task in main's vector, so main still polls (`CallbackInv`); who comes later has no task yet (`BuildInv`); what was found agrees with what was stored and printed (`ReportInv`) |
| | `PolledTasksCome` | `PolledTaskIsComing` | `PollInv`: the property, and that nobody has submitted for the users main has not come to yet |
| `NcStatusProofs` | `TypeCorrect` | `TypeOK` | itself, with `CallsInv` |
| | `FunctionsImplementReporting` | `ReportsSettleFirst` | `CallsInv`: a thread with something to write is making a report, no other thread makes the same, each write is left once, and the handler's is the last |
| | `BoardShowsLastReport` | `StatusShowsLastReport` | `BoardInv`: unless two calls overlapped, the call under way is the last report and has only writes of its own function left (`OrderInv`); each place of the board either is still owed to by that call or holds the last report that touches it (`ShownInv`); the master status fits the report whose message it has (`MasterInv`) |
| | `DeliveredRoutesWatched` | `RoutesReachMonitor` | `RouteInv`: the step of a call of the monitor fits the call (`CallsMatch`); while a table is delivered nobody starts or stops the monitor, and what is missing of it in the set is still in the argument of an `UpdateRouteTable` (`DeliveredInv`) |
| | `MonitorIsRefined` | `Mon!Spec` of the instance of `NcMonitor` | none: each step of the whole is a step of `NcMonitor` or leaves it alone (`StepsOfMonitor`), and none is a crash, since the model ends at a race (`NoCrash`) |
| | `MonitorSafeInUse` | `Mon!OneChecker`, `Mon!StartedMeansWatched`, `Mon!IssuedRoutesAreChecked` | none of its own: the three theorems of `NcMonitorProofs`, with the reporting threads as callers, and `MonitorIsRefined` |
| `ProgramsProofs` | `SinkTypeCorrect`, `EventsKeepTheirOrder`, `DestructorWaits` | types, `ShownInOrder`, `WorkerOutlived` | `SinkInv`: where main is determines whether the worker can be alive and what the handles are; the three queues together are the numbers up to `pushed` |
| | `WorkerIsWoken` | `NoEventSleeps` | `WakeInv`: from the swap of the queue to the next wait, whoever fills it signals or has done so; the exit flag is set before its signal |
| | `HandoffTypeCorrect`, `NumbersAreHandedOver` | types, `NumbersHandedOver` | `HandoffInv`: main waits exactly for the thread at its counter, the threads before it have read, those behind it are not there (`LoopInv`); one thread is in the section (`SectionInv`); the lines are those of the threads past it (`LinesInv`) |
| `ProcessChainProofs` | `TypeCorrect` | `TypeOK` | `BaseInv`: an id has one owner at a time; the tree is finite and its keys name processes there have been; a snapshot has each id once; a start time that is found late is that of a younger process |
| | `RootsOnLine` | `RootOnLine` | `RootInv`: a root can be reached along links that no longer change. That what can be reached is on the line (`Line` looks as many links up as there are records) is a pigeonhole: a line leaves the tree or repeats itself by then (`LineClosed`) |
| | `RootsAreNearest` | `RootIsNearestStop` | `NearestInv`: a root that was set is already the nearest stop process, wherever the links are known; with it the search (`SearchFindsNearest`) and the level (`LevelIsNear`) |
| | `PrintingGoesUp` | `PrintingClimbs` | `BaseInv` |

The loops of `ProcessChain` (search, level, line) are one recursive function, `Iterate`:
n rounds of a function from a state on. What they keep is proved from its runs, the
sequences of states, by an induction over sets of numbers (`Induction`, `RunsExist`,
`IterateRuns`), since the induction rule of the library cannot be used here.

None of the properties is inductive as it stands. In each case the strengthening
says what the program counters imply for the data, which is the information the
code has only implicitly.

Only model-checked:

- The liveness properties `RepairGoesOn`, `StopEndsThread`, `AllEnd`, `StopCompletes`,
  `MainEnds`, `CompleteChainEnds` and `EventsAreShown`. Liveness under fairness is out of
  the prover's reach, since it needs ENABLED. Each of them rests on safety properties that
  are proved, and that say that nobody waits for what does not come: `RepairGoesOn` on
  `StartedMeansWatched` (a thread goes round) and `IssuedRoutesAreChecked` (it looks),
  `StopEndsThread` on `ExitEndsRounds`, `AllEnd` on `SomebodyRuns`, `StopCompletes` on
  `StopIsSignalled`, `MainEnds` on `PolledTaskIsComing`, `CompleteChainEnds` on
  `PrintingClimbs`, `EventsAreShown` on `NoEventSleeps`.
- `NothingElseLeft`, `NothingDeadUsed`, `NothingMissingRead` and `SuccessIsReal`. The
  routines are finite data with no parameter: the run takes every path there is of
  them, up to repetitions that change nothing. A proof would have to follow the same
  paths, step by step, and hold for nothing else.

## 6. What the code does otherwise

### 6.1 Than its documents say

- `NcQuery.h:238` says that `Stop` stops the monitor thread. It does not: `Clear`,
  which `Stop` calls at `NcQuery.cpp:486`, takes the stop request of line 484 back
  (line 641) long before the thread, asleep for ten seconds, reads it. Run
  `nc_stop`.
- `CRegMonitorClass.cpp:128-130` asserts that the thread's handles are set. If the
  thread is first run after `StopMonitor`'s wait of 2000 ms (line 31) ran out, they
  are NULL. Run `reg_late`.
- `ProcessChainDemo.cpp:463` says that the level is counted up to the root. It is
  counted up to the first record that is its own root (line 471), or to the end of
  the line. A process whose id is below its parent's, whose grandparent has ended,
  gets its parent as root (lines 291-296), while the parent, next in the order of
  the ids, gets another: the level is then beyond the root. With the ids the other
  way round the process inherits its parent's root. Run `process_level`.

### 6.2 In the straight programs

What the routines leave behind on some path, and which promise they break. Where no
path is named it is every path, errors aside. Every routine that is not in this table
keeps all promises.

| Routine | Leaves | Breaks | Where |
|---|---|---|---|
| `IntallService`, `StartService`, `StopService`, `RemoveService` | | checked | `createservice.cpp:67` and the same line of the others: `argv[argc]` is NULL. `_tmain` calls each of them only when the names differ, `lstrcmpi` being 0 for equal ones (:31) |
| `Inject` | the target, memory in it, modules, the thread | | `InjectDll.cpp:141-278`, by which step fails |
| `GetProcessEnvByPid_Wow64` | process | honest | `ProcessHelper.cpp:190`: a failed query is logged, and the zeroed result used |
| `EnableDebugPrivilege` | token | | `ProcessHelper.cpp` |
| `LoadMySQLFun` | library | | `LoadMySqlFun.cpp` |
| `GetInstalledPath` | | live | `GetProcessPath.cpp:48`: the jump to a label that closes a handle without a value |
| `IsExistTrustAgentPro` | snapshot, process | | `GetProcessPath.cpp` |
| `IsEnvValue` | block | | `GetEnvirmentStrings.cpp`: released only when it is NULL |
| `trustdservice_Uninstall` | both handles, on errors | honest | `CreateService.cpp` |
| `IsEmptyPWUser` | all of the handshake | honest | `SspiNTLMAuth.cpp`: a response that cannot be computed means a password |
| `CNTLMClientAuth` | messages | | `PJNNTLMAuth.cpp` |
| `SspiLoginMain` | credentials | live | `SspiLogin.cpp`: an array of the frame is deleted |
| `GetSynchroInfo` (two) | key | checked (the second) | `RegGetValue.cpp`: a string is made of a null pointer |
| `RegOpenKeyMain` | message | | `RegOpenKey.cpp` |
| `GetLocalCurUserName` (two) | name | live, checked | `NetUserGetInfo.cpp:39-62`, `GetCurLoginUser.cpp:127`: printed before the result is looked at; the second frees the array, not the name |
| `disableUser` | last look-up | checked | `NetUserEnum.cpp:153` |
| `Get_LogUser` | process, token, buffer, on errors | honest | `GetCurLoginUser.cpp:78-95` |
| `GetUserNameByPid` | name | honest | `GetCurLoginUser.cpp:174-189` |
| `EnumerateFunc` | enumeration, when memory fails | honest | `WNetEnumResource.cpp` |
| `CheckServer` | | checked, honest | `WNetGetResourceInformation.cpp:92-134` |
| `GetDiskSN` | | honest | `usbtest.cpp:165-179` |
| `queryStorage`, `getMediaType` | | checked | `GetDriveType.cpp`: the second buffer |
| `AllLogoCacheMain` | volume: the first always, the second on errors | | `AllLogoCache.cpp` |
| `getUSN` | file | live | `GetUSN.cpp`: a port without a value |
| `GetIsDeleteDefaultRout` | | live, checked, honest | `GetIsDeleteDefaultRot.cpp:84` (freed, then freed at the label), :152, :139 |
| `FindAvailablePort` | | honest | `GetAbailablePort.cpp:29`: a table that cannot be read is an empty one |
| `GetPort` | | live | `GetPort.cpp:35`, `:40`, `:59`: memory of `new[]` is given to `delete` and to `free` |
| `GetTcpStatisticsTest` | | live | `GetTcpStatistics.cpp:50` |
| `getLnkFormPath` | link | checked | `GetChdFileByPath.cpp:15-69` |
| `TCHARTurnString` | buffer | | `RenameLnk.cpp:13-27`: it returns it |
| `CrnModifyShortcutArguments` | COM | honest | `RenameLnk.cpp:57-101` |
| `MonitorExplorerTabs` | COM, sinks | | `DWebBrowserEvents2.cpp` |
| `ExplorerEventSinkInvoke` | characters | live | `ShellApplicationMon.cpp:117-121`: the path is freed by hand and by the `CComBSTR` that holds it; what is copied from it is not |
| `PathChangedInvoke` | | live, checked | `DWebBrowserEvents2.cpp:65-70`: the result of `get_LocationURL` is not looked at, and the string has no value without it |
| `IsExistUsingNcCard` | COM, connections | checked | `NcQuery.cpp:870-924` |
| `GetKernel32Proc` | process and thread | | `GetProcaddress.cpp` |
| `GetDominNameMain` | information | | `GetDominName.cpp` |
| `get_cpu_info` | | checked | `GetCPUNumber.cpp:17-32`: reads `/proc/stat` |
| `pipeipcMain` | both ends | | `pipeipc.cpp` |
| `WaitForSingleObjectMain`, `MultiThreadMain` | event, threads | | |

`live`: uses or releases something dead, or releases it by another allocator's function
(`NothingDeadUsed`). `checked`: reads what a
failed call did not give (`NothingMissingRead`). `honest`: reports success over a
failure (`SuccessIsReal`). That a program leaves a handle behind just before its
process ends costs nothing; it is listed all the same.

Outside the promises: in `ShellApplicationMon.cpp` the handles are closed (:58) before
the connection is cut (:70), and a call of `Invoke` in between works on them; main of
`threadCtrl.cpp` waits for ever when a thread cannot be created (:25).

## 7. What is not modelled

- Of `WorkPool`'s sources: `test_Class_Submit` and `Test_Normal`, which main does not
  call. The first would submit one task to fifty callbacks at once.
- Of `NcMonitor`: `UpdateNetCardIndex`, which nobody calls, and the members
  `m_cardinfo` and `m_Status`, which nobody reads.
- `GetInstance` of `NcQuery` and of `NcMonitor`: a pointer of the file that is NULL until
  the first call and has no lock (`NcQuery.cpp:92`, `:134-142`, `:404-410`, `:458-468`). Two
  first calls at once can make two instances, and one of them is lost, with the handler
  that was registered in it or the routes that were put into it. Models and properties
  are about one instance that is there from the beginning.
- Of `NcStatus`: `GetNCStatus`, which only reads, and a status code that
  is no number.
- Of `Service`: exit code and wait hint, always 0; INTERROGATE, which does nothing;
  SHUTDOWN, which is never accepted. Of the worker only whether it comes to its last wait,
  and whether that ends: what it opens and closes is the routine `Inject`.
- Of `SemaphoreRing`: the killing of a process. One that is killed with the turn
  leaves the others waiting for ever.
- Of `ProcessChain`: the System Idle Process, which has id 0; a process that changes
  between the system calls made for one record; a directory path, which is stored
  and not read.
- Of the routines: the data. Walks over records of variable length (`AllLogoCache.cpp:150-165`,
  `DeviceIOTest.cpp`), paged enumerations and growing buffers are loops of any length;
  whether a count of bytes wraps round is not asked, nor whether the waits of
  `createservice.cpp` end.
- Failing allocations by `new`.
- `RouteChange`: main waits on a local event that hides the global one the callback
  signals, so that it waits for ever: one behaviour, which needs no model.
- The threads of `MultiThread` and `WaitForSingleObject`: the first lose updates for
  show, so that any final value is right; the second print.
- `ReadData` and `WriteData` of `pipeipc`, and `WriteData` of `PipeClass`: nobody calls
  them. They would send a length and then a payload, and a reader that fails between
  the two would take the next payload for a length.
- Programs that acquire nothing, one query and a print each:
  `GetWindowsStatus`, `HideVolume`, `WNetGetConnection`, `WNetCancelConnetion2`,
  `GetHoverInfo`, `CmdLineDesensization`, `RemoveAndRestoreMountPoint`,
  `ShellExecute`, the programs on time, environment and directories, `ipConvert` (text
  and bits).
- `SHChangeNotifyRegister`, a window procedure that prints; `vldforptr`,
  `MitigationPolicyDemo`, `BadDll`, `GoodDll`, which show a fault on purpose.
- `RegType`, which calls `RegGetValue` with no arguments and does not compile.
- Third-party code: `apr_md5`, `crypt_blowfish`.

## 8. Plan

The modules were written in the order of how much concurrency the code has, then of
how much state: `NcMonitor`, `RegMonitor`, `SemaphoreRing`, `Service`, `WorkPool`,
`ProcessChain`; then `NcStatus`, which composes the reports with `NcMonitor`,
`ExplorerSink`, `ParamHandoff`, and the straight programs with `Calls` and `Ledger`.

What is left, in order of what it would show:

1. The waits of the service control programs against `Service` in place of its free
   manager: that a wait ends, by the check point that `CheckPointsGrow` is about.
2. The walks over variable-length records as functions on small lists, with the width
   of the counters: that a walk ends within the buffer (`AllLogoCache.cpp:161`).

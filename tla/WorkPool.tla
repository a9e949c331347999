------------------------------ MODULE WorkPool ------------------------------
(***************************************************************************)
(* test_Class_WorkThreadPool (ThreadPool_1/ThreadPool_1.cpp:90-156) with   *)
(* the classes it runs on (ThreadPools.cpp).  For each user main builds a  *)
(* thread pool of its own and submits one task, which looks the user's     *)
(* password up in two dictionaries.  Main polls m_bDone of the tasks,      *)
(* reports and deletes those that are done, and then deletes the pools.    *)
(*                                                                         *)
(* Main and the pool threads share the task and the pool objects with no   *)
(* lock: the task is deleted once m_bDone was seen, the pool once every    *)
(* task was.  What NULL handles do to the thread pool functions is         *)
(* undefined: the process dies or goes on.  That a store to m_bDone, a     *)
(* plain BOOL, is seen in the end is assumed of the build.                 *)
(***************************************************************************)
EXTENDS Naturals, SequencesExt

CONSTANT NumUsers  \* 3 in the source

ASSUME UsersAssumption == NumUsers \in Nat \ {0}

Users == 1..NumUsers

VARIABLES
  step, user,               \* where main is, and for which user
  tasks, iter,              \* main's vector of tasks and its position there
  m_pPool, m_pCleanupGroup, m_pWork,  \* is the pool's handle not NULL?
  pool,                     \* which destructor of the pool has begun
  pc,                       \* where the task's callback is
  alive, m_bDone, m_strPwd, \* the tasks; is m_strPwd set?
  reported,                 \* users whose password main printed
  found                     \* the dictionary that has the password of g_data

mains   == <<step, user, tasks, iter, reported>>
handles == <<m_pPool, m_pCleanupGroup, m_pWork, pool>>
objects == <<alive, m_bDone, m_strPwd, found>>
vars    == <<mains, handles, pc, objects>>

BuildSteps   == {"pool", "limits", "group", "work"}
DestroySteps == {"destroy", "cancel", "join"}

TypeOK ==
  /\ step \in BuildSteps \cup DestroySteps \cup {"poll", "ended", "crashed"}
  /\ user \in Users
  /\ tasks \in Seq(Users)
  /\ iter \in Nat \ {0}
  /\ m_pPool \in [Users -> BOOLEAN]
  /\ m_pCleanupGroup \in [Users -> BOOLEAN]
  /\ m_pWork \in [Users -> BOOLEAN]
  /\ pool \in [Users -> {"none", "derived", "base"}]
  /\ pc \in [Users -> {"none", "queued", "entered", "inner", "user", "mark", "leaving", "done"}]
  /\ alive \in [Users -> BOOLEAN]
  /\ m_bDone \in [Users -> BOOLEAN]
  /\ m_strPwd \in [Users -> BOOLEAN]
  /\ reported \in SUBSET Users
  /\ found \in {"inner", "user", "none"}

Init ==
  /\ step = "pool"
  /\ user = 1
  /\ tasks = <<>>
  /\ iter = 1
  /\ m_pPool = [u \in Users |-> FALSE]
  /\ m_pCleanupGroup = [u \in Users |-> FALSE]
  /\ m_pWork = [u \in Users |-> FALSE]
  /\ pool = [u \in Users |-> "none"]
  /\ pc = [u \in Users |-> "none"]
  /\ alive = [u \in Users |-> FALSE]
  /\ m_bDone = [u \in Users |-> FALSE]
  /\ m_strPwd = [u \in Users |-> FALSE]
  /\ reported = {}
  /\ found \in {"inner", "user", "none"}

-----------------------------------------------------------------------------
(* The constructor, CreateThreadPools.  After a failure it calls           *)
(* CloseThreadPools and goes on as if nothing had failed.  m_nRollback is  *)
(* 0 after CreateThreadpool, 1 after the next two, which can close the     *)
(* pool, and 3 from then on, so that the destructor closes everything.     *)

CreateThreadpool ==
  /\ step = "pool"
  /\ step' = "limits"
  /\ \E ok \in BOOLEAN : m_pPool' = [m_pPool EXCEPT ![user] = ok]
  /\ UNCHANGED <<user, tasks, iter, reported, m_pCleanupGroup, m_pWork, pool, pc, objects>>

SetLimits ==
  /\ step = "limits"
  /\ step' \in IF m_pPool[user] THEN {"group"} ELSE {"group", "crashed"}
  /\ \E ok \in BOOLEAN : m_pPool' = [m_pPool EXCEPT ![user] = @ /\ ok]
  /\ UNCHANGED <<user, tasks, iter, reported, m_pCleanupGroup, m_pWork, pool, pc,
                 objects>>

CreateCleanupGroup ==
  /\ step = "group"
  /\ \E ok \in BOOLEAN :
       /\ step' \in IF ok \/ m_pPool[user] THEN {"work"} ELSE {"work", "crashed"}
       /\ m_pCleanupGroup' = [m_pCleanupGroup EXCEPT ![user] = ok]
       /\ m_pPool' = [m_pPool EXCEPT ![user] = @ /\ ok]
  /\ pool' = [pool EXCEPT ![user] = "derived"]
  /\ UNCHANGED <<user, tasks, iter, reported, m_pWork, pc, objects>>

(* CreateWorkThread, for a new task; main does not look at its result. *)
CreateWorkThread ==
  /\ step = "work"
  /\ IF user < NumUsers THEN step' = "pool" /\ user' = user + 1
                        ELSE step' = "poll" /\ user' = 1
  /\ tasks' = Append(tasks, user)
  /\ alive' = [alive EXCEPT ![user] = TRUE]
  /\ \/ /\ m_pPool[user] /\ m_pCleanupGroup[user]
        /\ m_pWork' = [m_pWork EXCEPT ![user] = TRUE]
        /\ pc' = [pc EXCEPT ![user] = "queued"]
     \/ UNCHANGED <<m_pWork, pc>>
  /\ UNCHANGED <<iter, reported, m_pPool, m_pCleanupGroup, pool, m_bDone, m_strPwd,
                 found>>

-----------------------------------------------------------------------------
(* UpdateAllTaskState: the vector from its beginning, again after each     *)
(* task that was erased, and over and over until it is empty.              *)

ReportAndDelete ==
  /\ step = "poll"
  /\ iter <= Len(tasks)
  /\ m_bDone[tasks[iter]]
  /\ reported' = IF m_strPwd[tasks[iter]] THEN reported \cup {tasks[iter]} ELSE reported
  /\ alive' = [alive EXCEPT ![tasks[iter]] = FALSE]
  /\ tasks' = RemoveAt(tasks, iter)
  /\ iter' = 1
  /\ UNCHANGED <<step, user, handles, pc, m_bDone, m_strPwd, found>>

PassOver ==
  /\ step = "poll"
  /\ iter <= Len(tasks)
  /\ ~m_bDone[tasks[iter]]
  /\ iter' = iter + 1
  /\ UNCHANGED <<step, user, tasks, reported, handles, pc, objects>>

(* Mutant of EndOfVector: one pass over the tasks. *)
OnePass ==
  /\ step = "poll"
  /\ iter > Len(tasks)
  /\ step' = "destroy"
  /\ UNCHANGED <<user, tasks, iter, reported, handles, pc, objects>>

EndOfVector ==
  /\ step = "poll"
  /\ iter > Len(tasks)
  /\ IF tasks = <<>> THEN step' = "destroy" /\ UNCHANGED iter
                     ELSE iter' = 1 /\ UNCHANGED step
  /\ UNCHANGED <<user, tasks, reported, handles, pc, objects>>

-----------------------------------------------------------------------------
(* delete pool: ~CJenkinsCheckThreadPools has gone when                    *)
(* ~CCheckThreadPools cancels and waits for the callbacks.                 *)

DestroyDerived ==
  /\ step = "destroy"
  /\ step' = "cancel"
  /\ pool' = [pool EXCEPT ![user] = "base"]
  /\ UNCHANGED <<user, tasks, iter, reported, m_pPool, m_pCleanupGroup, m_pWork, pc,
                 objects>>

CancelCallbacks ==
  /\ step = "cancel"
  /\ step' = "join"
  /\ pc' = [pc EXCEPT ![user] = IF @ = "queued" /\ m_pWork[user] THEN "done" ELSE @]
  /\ UNCHANGED <<user, tasks, iter, reported, handles, objects>>

(* The end of CloseWorkThread and ~CThreadPools. *)
CloseThreadPools ==
  /\ step = "join"
  /\ m_pWork[user] => pc[user] = "done"
  /\ \/ /\ step' = IF user < NumUsers THEN "destroy" ELSE "ended"
        /\ user' = IF user < NumUsers THEN user + 1 ELSE user
     \/ /\ ~(m_pPool[user] /\ m_pCleanupGroup[user])
        /\ step' = "crashed"
        /\ UNCHANGED user
  /\ m_pWork' = [m_pWork EXCEPT ![user] = FALSE]
  /\ m_pPool' = [m_pPool EXCEPT ![user] = FALSE]
  /\ m_pCleanupGroup' = [m_pCleanupGroup EXCEPT ![user] = FALSE]
  /\ UNCHANGED <<tasks, iter, reported, pool, pc, objects>>

-----------------------------------------------------------------------------
(* The callback of user u's task, in a thread of u's pool.                 *)

At(u, from, to) == pc[u] = from /\ pc' = [pc EXCEPT ![u] = to]

BeginCallback(u) ==
  /\ At(u, "queued", "entered")
  /\ UNCHANGED <<mains, handles, objects>>

(* WorkCallback and RunWorkThread call the virtual WorkThreadProcess; in   *)
(* the base class it is pure, which ends the process.                      *)
WorkThreadProcess(u) ==
  /\ At(u, "entered", "inner")
  /\ step' = IF pool[u] = "derived" THEN step ELSE "crashed"
  /\ UNCHANGED <<user, tasks, iter, reported, handles, objects>>

(* execute, for the inner and then for the user dictionary. *)

(* Mutant of TryInnerDict: the task is done when it was found weak. *)
TryInnerDictDone(u) ==
  /\ At(u, "inner", IF found = "inner" THEN "mark" ELSE "user")
  /\ m_strPwd' = [m_strPwd EXCEPT ![u] = found = "inner"]
  /\ m_bDone' = [m_bDone EXCEPT ![u] = found = "inner"]
  /\ UNCHANGED <<mains, handles, alive, found>>

(* Mutant of TryInnerDict: returns where the code breaks. *)
TryInnerDictReturns(u) ==
  /\ At(u, "inner", IF found = "inner" THEN "leaving" ELSE "user")
  /\ m_strPwd' = [m_strPwd EXCEPT ![u] = found = "inner"]
  /\ UNCHANGED <<mains, handles, alive, m_bDone, found>>

TryInnerDict(u) ==
  /\ At(u, "inner", IF found = "inner" THEN "mark" ELSE "user")
  /\ m_strPwd' = [m_strPwd EXCEPT ![u] = found = "inner"]
  /\ UNCHANGED <<mains, handles, alive, m_bDone, found>>

(* Mutant of TryUserDict: the password found does not get into the task. *)
TryUserDictForgets(u) ==
  /\ At(u, "user", "mark")
  /\ UNCHANGED <<mains, handles, objects>>

TryUserDict(u) ==
  /\ At(u, "user", "mark")
  /\ m_strPwd' = [m_strPwd EXCEPT ![u] = found = "user"]
  /\ UNCHANGED <<mains, handles, alive, m_bDone, found>>

MarkDone(u) ==
  /\ At(u, "mark", "leaving")
  /\ m_bDone' = [m_bDone EXCEPT ![u] = TRUE]
  /\ UNCHANGED <<mains, handles, alive, m_strPwd, found>>

EndCallback(u) ==
  /\ At(u, "leaving", "done")
  /\ UNCHANGED <<mains, handles, objects>>

-----------------------------------------------------------------------------
Main ==
  \/ CreateThreadpool \/ SetLimits \/ CreateCleanupGroup \/ CreateWorkThread
  \/ ReportAndDelete \/ PassOver \/ EndOfVector
  \/ DestroyDerived \/ CancelCallbacks \/ CloseThreadPools

Callback(u) ==
  \/ BeginCallback(u) \/ WorkThreadProcess(u) \/ TryInnerDict(u) \/ TryUserDict(u)
  \/ MarkDone(u) \/ EndCallback(u)

Next == step # "crashed" /\ (Main \/ \E u \in Users : Callback(u))

Spec == Init /\ [][Next]_vars

(* Main runs, and every pool has a thread for its callback. *)
FairSpec ==
  /\ Spec
  /\ WF_vars(step # "crashed" /\ Main)
  /\ \A u \in Users : WF_vars(step # "crashed" /\ Callback(u))

-----------------------------------------------------------------------------
UsesTask(u) == pc[u] \in {"queued", "entered", "inner", "user", "mark"}
Dispatches(u) == pc[u] \in {"queued", "entered"}

(* No callback ever works on a task that main has deleted. *)
TasksOutliveCallbacks == \A u \in Users : UsesTask(u) => alive[u]

(* No callback ever calls WorkThreadProcess on a pool whose destruction    *)
(* has begun, when it would be a pure virtual function: the wait in        *)
(* ~CCheckThreadPools comes too late to prevent it, the polling prevents   *)
(* it.                                                                     *)
NoPureVirtualCall == \A u \in Users : Dispatches(u) => pool[u] = "derived"

(* When main stops polling, it has printed exactly the users whose         *)
(* password is in a dictionary.                                            *)
WeakAreReported ==
  step \in DestroySteps \cup {"ended"} => reported = IF found = "none" THEN {} ELSE Users

(* Main never polls for a task that nobody will mark done: a task that was *)
(* submitted and not yet deleted is done or has its callback before it.    *)
PolledTaskIsComing == \A u \in Users : alive[u] /\ m_pWork[u] => m_bDone[u] \/ UsesTask(u)

(* If every task could be submitted, main ends: it does not poll for ever. *)
MainEnds == (step = "poll" /\ \A u \in Users : m_pWork[u]) ~> step = "ended"
=============================================================================

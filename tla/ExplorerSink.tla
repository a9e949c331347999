--------------------------- MODULE ExplorerSink ---------------------------
(***************************************************************************)
(* ShellApplication/ShellApplicationMon.cpp: an ExplorerEventSink.  COM    *)
(* threads put the events of an Explorer window into a queue and signal an *)
(* auto-reset event; a worker thread of the sink swaps the queue for an    *)
(* empty one and shows what it got.  main creates the sink and deletes it. *)
(***************************************************************************)
EXTENDS Integers, Sequences

CONSTANTS Callers,   \* the COM threads that may be in Invoke
          MaxEvents  \* bound: how many events come

ASSUME SinkAssumption == MaxEvents \in Nat

VARIABLES main,          \* where main is with the sink
          worker,        \* where the worker thread is, "none" without one
          invoke,        \* where each caller is in Invoke
          m_bExit, m_eventQueue,
          ready,         \* m_hEventQueueReady: "set", "reset", "null" or "closed"
          m_dwCookie,    \* the sink is advised
          localQueue,    \* what the worker took and has not shown
          shown,         \* the events shown, in their order
          pushed,        \* how many events came into the queue
          strays         \* what a caller used when it was closed or deleted

sinkVars == <<main, worker, invoke, m_bExit, m_eventQueue, ready, m_dwCookie,
              localQueue, shown, pushed, strays>>

TypeOK ==
  /\ main \in {"new", "advise", "run", "exit", "join", "close", "unadvise", "deleted"}
  /\ worker \in {"none", "test", "wait", "woken", "show", "done"}
  /\ invoke \in [Callers -> {"idle", "push", "signal"}]
  /\ m_bExit \in BOOLEAN /\ m_dwCookie \in BOOLEAN
  /\ ready \in {"set", "reset", "null", "closed"}
  /\ pushed \in 0..MaxEvents
  /\ \A queue \in {m_eventQueue, localQueue, shown} : queue \in Seq(1..pushed)
  /\ strays \subseteq {"handle", "sink"}

Init ==
  /\ main = "new" /\ worker = "none" /\ invoke = [c \in Callers |-> "idle"]
  /\ m_bExit = FALSE /\ m_eventQueue = <<>> /\ ready = "null" /\ m_dwCookie = FALSE
  /\ localQueue = <<>> /\ shown = <<>> /\ pushed = 0 /\ strays = {}

(* SetEvent: nothing happens without an event. *)
Set(event) == IF event = "reset" THEN "set" ELSE event

-----------------------------------------------------------------------------
(* main.  Neither CreateEvent nor CreateThread is checked.                 *)
Construct ==
  /\ main = "new" /\ main' = "advise"
  /\ ready' \in {"reset", "null"} /\ worker' \in {"test", "none"}
  /\ UNCHANGED <<invoke, m_bExit, m_eventQueue, m_dwCookie, localQueue, shown, pushed, strays>>

Advise ==
  /\ main = "advise" /\ main' = "run"
  /\ m_dwCookie' \in BOOLEAN
  /\ UNCHANGED <<worker, invoke, m_bExit, m_eventQueue, ready, localQueue, shown, pushed, strays>>

(* A key was pressed: main deletes the sink, whoever holds references.     *)
RequestExit ==
  /\ main = "run" /\ main' = "exit"
  /\ m_bExit' = TRUE
  /\ UNCHANGED <<worker, invoke, m_eventQueue, ready, m_dwCookie, localQueue, shown, pushed, strays>>

SignalExit ==
  /\ main = "exit" /\ main' = "join"
  /\ ready' = Set(ready)
  /\ UNCHANGED <<worker, invoke, m_bExit, m_eventQueue, m_dwCookie, localQueue, shown, pushed, strays>>

(* Mutant: the destructor does not wait for its thread. *)
JoinAtOnce ==
  /\ main = "join" /\ main' = "close"
  /\ UNCHANGED <<worker, invoke, m_bExit, m_eventQueue, ready, m_dwCookie,
                 localQueue, shown, pushed, strays>>

Join ==
  /\ main = "join" /\ main' = "close"
  /\ worker \in {"none", "done"}
  /\ UNCHANGED <<worker, invoke, m_bExit, m_eventQueue, ready, m_dwCookie,
                 localQueue, shown, pushed, strays>>

CloseHandles ==
  /\ main = "close" /\ main' = "unadvise"
  /\ ready' = "closed"
  /\ UNCHANGED <<worker, invoke, m_bExit, m_eventQueue, m_dwCookie, localQueue, shown, pushed, strays>>

(* Without its connection point the sink stays advised. *)
Unadvise ==
  /\ main = "unadvise" /\ main' = "deleted"
  /\ m_dwCookie' \in {FALSE, m_dwCookie}
  /\ UNCHANGED <<worker, invoke, m_bExit, m_eventQueue, ready, localQueue, shown, pushed, strays>>

-----------------------------------------------------------------------------
(* Invoke, on a thread of COM, as long as the sink is advised.             *)
Enter(c) ==
  /\ m_dwCookie /\ invoke[c] = "idle" /\ pushed < MaxEvents
  /\ invoke' = [invoke EXCEPT ![c] = "push"]
  /\ UNCHANGED <<main, worker, m_bExit, m_eventQueue, ready, m_dwCookie,
                 localQueue, shown, pushed, strays>>

(* What a push into a deleted sink does is not known; the call ends here.  *)
(* How the URL is read, and its BSTR freed twice, is the routine           *)
(* ExplorerEventSinkInvoke of ShellCode.                                   *)
Push(c) ==
  /\ invoke[c] = "push"
  /\ IF main = "deleted"
     THEN /\ strays' = strays \cup {"sink"}
          /\ invoke' = [invoke EXCEPT ![c] = "idle"]
          /\ UNCHANGED <<m_eventQueue, pushed>>
     ELSE /\ pushed < MaxEvents /\ pushed' = pushed + 1
          /\ m_eventQueue' = Append(m_eventQueue, pushed + 1)
          /\ invoke' = [invoke EXCEPT ![c] = "signal"]
          /\ UNCHANGED strays
  /\ UNCHANGED <<main, worker, m_bExit, ready, m_dwCookie, localQueue, shown>>

(* Mutant: a queue that was not empty is not signalled again, after a test *)
(* that comes too late.                                                    *)
SignalIfAlone(c) ==
  /\ invoke[c] = "signal"
  /\ invoke' = [invoke EXCEPT ![c] = "idle"]
  /\ ready' = IF Len(m_eventQueue) = 1 THEN Set(ready) ELSE ready
  /\ strays' = strays \cup (IF ready = "closed" THEN {"handle"} ELSE {})
  /\ UNCHANGED <<main, worker, m_bExit, m_eventQueue, m_dwCookie, localQueue, shown, pushed>>

Signal(c) ==
  /\ invoke[c] = "signal"
  /\ invoke' = [invoke EXCEPT ![c] = "idle"]
  /\ ready' = Set(ready)
  /\ strays' = strays \cup (IF ready = "closed" THEN {"handle"} ELSE {})
  /\ UNCHANGED <<main, worker, m_bExit, m_eventQueue, m_dwCookie, localQueue, shown, pushed>>

-----------------------------------------------------------------------------
(* ProcessEvents, on the worker thread.                                    *)
Test ==
  /\ worker = "test"
  /\ worker' = IF m_bExit THEN "done" ELSE "wait"
  /\ UNCHANGED <<main, invoke, m_bExit, m_eventQueue, ready, m_dwCookie,
                 localQueue, shown, pushed, strays>>

(* A wait for an event that is not there fails at once. *)
Wait ==
  /\ worker = "wait" /\ ready # "reset"
  /\ worker' = "woken"
  /\ ready' = IF ready = "set" THEN "reset" ELSE ready
  /\ UNCHANGED <<main, invoke, m_bExit, m_eventQueue, m_dwCookie, localQueue, shown, pushed, strays>>

(* Mutant: the queue is copied and not swapped. *)
TakeQueueCopies ==
  /\ worker = "woken"
  /\ IF m_bExit
     THEN worker' = "done" /\ UNCHANGED <<m_eventQueue, localQueue>>
     ELSE worker' = "show" /\ localQueue' = m_eventQueue /\ UNCHANGED m_eventQueue
  /\ UNCHANGED <<main, invoke, m_bExit, ready, m_dwCookie, shown, pushed, strays>>

TakeQueue ==
  /\ worker = "woken"
  /\ IF m_bExit
     THEN worker' = "done" /\ UNCHANGED <<m_eventQueue, localQueue>>
     ELSE worker' = "show" /\ localQueue' = m_eventQueue /\ m_eventQueue' = <<>>
  /\ UNCHANGED <<main, invoke, m_bExit, ready, m_dwCookie, shown, pushed, strays>>

Show ==
  /\ worker = "show"
  /\ IF localQueue = <<>>
     THEN worker' = "test" /\ UNCHANGED <<localQueue, shown>>
     ELSE /\ shown' = Append(shown, Head(localQueue)) /\ localQueue' = Tail(localQueue)
          /\ UNCHANGED worker
  /\ UNCHANGED <<main, invoke, m_bExit, m_eventQueue, ready, m_dwCookie, pushed, strays>>

-----------------------------------------------------------------------------
Delete == SignalExit \/ Join \/ CloseHandles \/ Unadvise
Invoke(c) == Push(c) \/ Signal(c)
ProcessEvents == Test \/ Wait \/ TakeQueue \/ Show

Next ==
  \/ Construct \/ Advise \/ RequestExit \/ Delete
  \/ \E c \in Callers : Enter(c) \/ Invoke(c)
  \/ ProcessEvents

(* Threads that are ready run; nobody need press a key, no event need come.*)
Fairness ==
  /\ WF_sinkVars(Delete) /\ WF_sinkVars(ProcessEvents)
  /\ \A c \in Callers : WF_sinkVars(Invoke(c))

Spec == Init /\ [][Next]_sinkVars /\ Fairness

-----------------------------------------------------------------------------
(* No event of Explorer is lost, shown twice or shown out of order between *)
(* the callers' queue and the worker's: what was shown, what the worker    *)
(* still has and what is in the queue are the events in the order in which *)
(* they came.                                                              *)
ShownInOrder == shown \o localQueue \o m_eventQueue = [k \in 1..pushed |-> k]

(* The destructor closes the event and frees the sink under a worker that  *)
(* has gone for good; only a caller may still come upon a closed event or a*)
(* deleted sink, and only while main deletes it.                           *)
WorkerOutlived ==
  /\ main \in {"close", "unadvise", "deleted"} => worker \in {"none", "done"}
  /\ strays # {} => main \in {"unadvise", "deleted"}

(* The worker never sleeps over work: while it waits for an event that is  *)
(* not set, the queue is empty or a caller is about to signal, and the     *)
(* destructor does not wait for it.  Neither a signal taken for an earlier *)
(* event nor the test of m_bExit before the wait loses a wakeup.           *)
NoEventSleeps ==
  worker = "wait" /\ ready = "reset" =>
    /\ m_eventQueue # <<>> => \E c \in Callers : invoke[c] = "signal"
    /\ main # "join"

(* An event that is in the queue while the sink is kept is shown, although *)
(* several events may come for one signal; and a destructor that has begun *)
(* ends: the worker sees m_bExit before it sleeps again.                   *)
EventsAreShown ==
  /\ \A k \in 1..MaxEvents : pushed = k ~> k <= Len(shown) \/ m_bExit \/ worker = "none"
  /\ m_bExit ~> main = "deleted"
=============================================================================

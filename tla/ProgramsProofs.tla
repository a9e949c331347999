--------------------------- MODULE ProgramsProofs ---------------------------
(***************************************************************************)
(* Proofs about two of the small programs: of ExplorerSink, for any        *)
(* callers and any number of events, that no event is lost, shown twice or *)
(* out of order and that the destructor outlives the worker; of            *)
(* ParamHandoff, for any number of threads, that each has its own number.  *)
(***************************************************************************)
EXTENDS ExplorerSink, ParamHandoff, SequenceTheorems, TLAPS

USE SinkAssumption, HandoffAssumption

-----------------------------------------------------------------------------
(* ExplorerSink.                                                           *)

(* There is no worker before the constructor; it has something in hand     *)
(* only while it shows it; the event is closed, and callers come too late, *)
(* only when main is past closing it.                                      *)
SinkInv ==
  /\ TypeOK /\ ShownInOrder /\ WorkerOutlived
  /\ main = "new" => worker = "none"
  /\ worker # "show" => localQueue = <<>>
  /\ ready = "closed" => main \in {"unadvise", "deleted"}

-----------------------------------------------------------------------------
(* Sequences. *)

(* Moving the first element of q to the end of s changes nothing in both.  *)
LEMMA MoveHead ==
  ASSUME NEW S, NEW s \in Seq(S), NEW q \in Seq(S), q # <<>>
  PROVE  Append(s, Head(q)) \o Tail(q) = s \o q
<1> DEFINE a == Append(s, Head(q))
           l == a \o Tail(q)
<1>1. /\ Head(q) \in S /\ Tail(q) \in Seq(S) /\ Len(Tail(q)) = Len(q) - 1
      /\ \A m \in 1..Len(Tail(q)) : Tail(q)[m] = q[m + 1]
  BY HeadTailProperties
<1>2. /\ a \in Seq(S) /\ Len(a) = Len(s) + 1
      /\ \A m \in 1..Len(s) : a[m] = s[m]
      /\ a[Len(s) + 1] = Head(q)
  BY <1>1, AppendProperties
<1>3. /\ l \in Seq(S) /\ Len(l) = Len(a) + Len(Tail(q))
      /\ \A m \in 1..Len(a) + Len(Tail(q)) :
           l[m] = IF m <= Len(a) THEN a[m] ELSE Tail(q)[m - Len(a)]
  BY <1>1, <1>2, ConcatProperties
<1>4. /\ s \o q \in Seq(S) /\ Len(s \o q) = Len(s) + Len(q)
      /\ \A m \in 1..Len(s) + Len(q) : (s \o q)[m] = IF m <= Len(s) THEN s[m] ELSE q[m - Len(s)]
  BY ConcatProperties
<1>5. /\ Len(s) \in Nat /\ Len(q) \in Nat /\ Len(q) > 0 /\ Head(q) = q[1]
  BY LenProperties, EmptySeq
<1>6. Len(l) = Len(s \o q)
  BY <1>1, <1>2, <1>3, <1>4, <1>5
<1>7. ASSUME NEW m \in 1..Len(l) PROVE l[m] = (s \o q)[m]
  <2> HIDE DEF a, l
  <2>1. CASE m <= Len(s)
    BY <2>1, <1>1, <1>2, <1>3, <1>4, <1>5, <1>6
  <2>2. CASE m = Len(s) + 1
    BY <2>2, <1>1, <1>2, <1>3, <1>4, <1>5, <1>6
  <2>3. CASE m > Len(s) + 1
    <3>1. m - Len(a) \in 1..Len(Tail(q)) /\ m - Len(a) + 1 = m - Len(s)
      BY <2>3, <1>1, <1>2, <1>3, <1>4, <1>5, <1>6
    <3>2. l[m] = Tail(q)[m - Len(a)] /\ (s \o q)[m] = q[m - Len(s)]
      BY <2>3, <1>1, <1>2, <1>3, <1>4, <1>5, <1>6
    <3> QED BY <3>1, <3>2, <1>1
  <2> QED BY <2>1, <2>2, <2>3, <1>2, <1>3, <1>5
<1> QED
  BY <1>3, <1>4, <1>6, <1>7, SeqEqual

LEMMA AppendToLast ==
  ASSUME NEW S, NEW s \in Seq(S), NEW q \in Seq(S), NEW e \in S
  PROVE  s \o Append(q, e) = Append(s \o q, e)
<1>1. <<e>> \in Seq(S)
  OBVIOUS
<1>2. Append(q, e) = q \o <<e>> /\ Append(s \o q, e) = (s \o q) \o <<e>>
  BY AppendIsConcat, ConcatProperties
<1> QED
  BY <1>1, <1>2, ConcatAssociative

(* The first n numbers, and one more. *)
UpTo(n) == [k \in 1..n |-> k]

LEMMA OneMore ==
  ASSUME NEW n \in Nat
  PROVE  UpTo(n) \in Seq(Nat) /\ Append(UpTo(n), n + 1) = UpTo(n + 1)
<1>1. UpTo(n) \in Seq(Nat) /\ Len(UpTo(n)) = n
  BY DEF UpTo
<1>2. UpTo(n + 1) \in Seq(Nat) /\ Len(UpTo(n + 1)) = n + 1
  BY DEF UpTo
<1>3. /\ Append(UpTo(n), n + 1) \in Seq(Nat)
      /\ Len(Append(UpTo(n), n + 1)) = n + 1
      /\ \A m \in 1..n : Append(UpTo(n), n + 1)[m] = m
      /\ Append(UpTo(n), n + 1)[n + 1] = n + 1
  BY <1>1, AppendProperties DEF UpTo
<1>4. \A m \in 1..n + 1 : Append(UpTo(n), n + 1)[m] = UpTo(n + 1)[m]
  BY <1>3 DEF UpTo
<1> QED
  BY <1>1, <1>2, <1>3, <1>4, SeqEqual

-----------------------------------------------------------------------------
(* The steps. *)

Queues ==
  m_eventQueue \in Seq(1..pushed) /\ localQueue \in Seq(1..pushed) /\ shown \in Seq(1..pushed)

LEMMA InitSink == Init => SinkInv
<1> SUFFICES ASSUME Init PROVE SinkInv
  OBVIOUS
<1>1. <<>> \in Seq(1..0) /\ <<>> \o <<>> \o <<>> = <<>> /\ [k \in 1..0 |-> k] = <<>>
  BY EmptySeq, ConcatEmptySeq
<1>2. TypeOK
  <2>1. 0 \in 0..MaxEvents /\ [c \in Callers |-> "idle"] \in [Callers -> {"idle", "push", "signal"}]
    OBVIOUS
  <2>2. \A queue \in {m_eventQueue, localQueue, shown} : queue \in Seq(1..pushed)
    BY <1>1 DEF Init
  <2> QED BY <2>1, <2>2 DEF Init, TypeOK
<1>3. ShownInOrder
  BY <1>1 DEF Init, ShownInOrder
<1> QED
  BY <1>2, <1>3 DEF Init, SinkInv, WorkerOutlived

(* Steps that leave the queues alone. *)
LEMMA QuietSteps ==
  ASSUME SinkInv,
         \/ Construct \/ Advise \/ RequestExit \/ SignalExit \/ Join \/ CloseHandles \/ Unadvise
         \/ Test \/ Wait \/ \E c \in Callers : Enter(c) \/ Signal(c)
  PROVE  SinkInv'
<1>1. UNCHANGED <<m_eventQueue, localQueue, shown, pushed>>
  BY DEF Construct, Advise, RequestExit, SignalExit, Join, CloseHandles, Unadvise, Test, Wait,
         Enter, Signal
<1>2. TypeOK'
  <2>1. /\ m_eventQueue' \in Seq(1..pushed') /\ localQueue' \in Seq(1..pushed')
        /\ shown' \in Seq(1..pushed') /\ pushed' \in 0..MaxEvents
    BY <1>1 DEF SinkInv, TypeOK
  <2>2. main' \in {"new", "advise", "run", "exit", "join", "close", "unadvise", "deleted"}
    BY DEF SinkInv, TypeOK, Construct, Advise, RequestExit, SignalExit, Join, CloseHandles,
           Unadvise, Test, Wait, Enter, Signal
  <2>5. worker' \in {"none", "test", "wait", "woken", "show", "done"}
    BY DEF SinkInv, TypeOK, Construct, Advise, RequestExit, SignalExit, Join, CloseHandles,
           Unadvise, Test, Wait, Enter, Signal
  <2>6. m_bExit' \in BOOLEAN /\ m_dwCookie' \in BOOLEAN
    <3>1. m_bExit \in BOOLEAN /\ m_dwCookie \in BOOLEAN
      BY DEF SinkInv, TypeOK
    <3> QED
      BY <3>1, Zenon DEF Construct, Advise, RequestExit, SignalExit, Join, CloseHandles,
           Unadvise, Test, Wait, Enter, Signal
  <2>7. ready' \in {"set", "reset", "null", "closed"}
    BY DEF SinkInv, TypeOK, Construct, Advise, RequestExit, SignalExit, Join, CloseHandles,
           Unadvise, Test, Wait, Enter, Signal, Set
  <2>3. invoke' \in [Callers -> {"idle", "push", "signal"}]
    BY DEF SinkInv, TypeOK, Construct, Advise, RequestExit, SignalExit, Join, CloseHandles,
           Unadvise, Test, Wait, Enter, Signal
  <2>4. strays' \subseteq {"handle", "sink"}
    BY DEF SinkInv, TypeOK, Construct, Advise, RequestExit, SignalExit, Join, CloseHandles,
           Unadvise, Test, Wait, Enter, Signal
  <2> QED BY <2>1, <2>2, <2>3, <2>4, <2>5, <2>6, <2>7 DEF TypeOK
<1>3. ShownInOrder'
  BY <1>1 DEF SinkInv, ShownInOrder
<1>4. /\ WorkerOutlived' /\ (ready' = "closed" => main' \in {"unadvise", "deleted"})
      /\ main' = "new" => worker' = "none"
  BY DEF SinkInv, TypeOK, WorkerOutlived, Construct, Advise, RequestExit, SignalExit, Join,
         CloseHandles, Unadvise, Test, Wait, Enter, Signal, Set
<1>5. worker' # "show" => localQueue' = <<>>
  <2>1. worker' # "show" => worker # "show"
    BY DEF SinkInv, Construct, Advise, RequestExit, SignalExit, Join, CloseHandles, Unadvise, Test,
           Wait, Enter, Signal
  <2>2. localQueue' = localQueue
    BY <1>1
  <2> QED BY <2>1, <2>2 DEF SinkInv
<1> QED
  BY <1>2, <1>3, <1>4, <1>5 DEF SinkInv

LEMMA PushStep ==
  ASSUME SinkInv, NEW c \in Callers, Push(c)
  PROVE  SinkInv'
<1>1. CASE main = "deleted"
  BY <1>1 DEF SinkInv, TypeOK, ShownInOrder, WorkerOutlived, Push
<1>2. CASE main # "deleted"
  <2>1. /\ pushed \in Nat /\ pushed < MaxEvents /\ pushed' = pushed + 1
        /\ m_eventQueue' = Append(m_eventQueue, pushed + 1)
        /\ UNCHANGED <<shown, localQueue, main, worker, m_bExit, ready, m_dwCookie, strays>>
        /\ invoke' = [invoke EXCEPT ![c] = "signal"]
    BY <1>2 DEF SinkInv, TypeOK, Push
  <2>2. Queues
    BY DEF SinkInv, TypeOK, Queues
  <2>3. /\ m_eventQueue \in Seq(1..pushed') /\ localQueue \in Seq(1..pushed')
        /\ shown \in Seq(1..pushed')
    BY <2>1, <2>2, SeqMonotonic, 1..pushed \subseteq 1..pushed + 1 DEF Queues
  <2>4. m_eventQueue' \in Seq(1..pushed')
    BY <2>1, <2>3, AppendProperties
  <2>5. TypeOK'
    BY <2>1, <2>3, <2>4 DEF SinkInv, TypeOK
  <2>6. ShownInOrder'
    <3>1. shown \o localQueue \in Seq(1..pushed')
      BY <2>3, ConcatProperties
    <3>2. (shown \o localQueue) \o Append(m_eventQueue, pushed + 1)
            = Append((shown \o localQueue) \o m_eventQueue, pushed + 1)
      BY <2>1, <2>3, <3>1, pushed + 1 \in 1..pushed', AppendToLast
    <3>3. (shown \o localQueue) \o m_eventQueue = UpTo(pushed)
      BY DEF SinkInv, ShownInOrder, UpTo
    <3>4. Append(UpTo(pushed), pushed + 1) = UpTo(pushed + 1)
      BY <2>1, OneMore
    <3> QED BY <2>1, <3>2, <3>3, <3>4 DEF ShownInOrder, UpTo
  <2> QED BY <2>1, <2>5, <2>6 DEF SinkInv, WorkerOutlived
<1> QED
  BY <1>1, <1>2

LEMMA TakeStep ==
  ASSUME SinkInv, TakeQueue
  PROVE  SinkInv'
<1>1. CASE m_bExit
  BY <1>1 DEF SinkInv, TypeOK, ShownInOrder, WorkerOutlived, TakeQueue
<1>2. CASE ~m_bExit
  <2>1. /\ localQueue = <<>> /\ localQueue' = m_eventQueue /\ m_eventQueue' = <<>>
        /\ worker' = "show" /\ worker = "woken"
        /\ UNCHANGED <<main, invoke, m_bExit, ready, m_dwCookie, shown, pushed, strays>>
    BY <1>2 DEF SinkInv, TakeQueue
  <2>2. Queues
    BY DEF SinkInv, TypeOK, Queues
  <2>3. shown \o <<>> = shown /\ (shown \o m_eventQueue) \o <<>> = shown \o m_eventQueue
    BY <2>2, ConcatProperties, ConcatEmptySeq DEF Queues
  <2>4. ShownInOrder'
    BY <2>1, <2>3 DEF SinkInv, ShownInOrder
  <2>5. TypeOK'
    BY <2>1, <2>2, EmptySeq DEF SinkInv, TypeOK, Queues
  <2> QED BY <2>1, <2>4, <2>5 DEF SinkInv, WorkerOutlived
<1> QED
  BY <1>1, <1>2

LEMMA ShowStep ==
  ASSUME SinkInv, Show
  PROVE  SinkInv'
<1>1. CASE localQueue = <<>>
  BY <1>1 DEF SinkInv, TypeOK, ShownInOrder, WorkerOutlived, Show
<1>2. CASE localQueue # <<>>
  <2>1. /\ shown' = Append(shown, Head(localQueue)) /\ localQueue' = Tail(localQueue)
        /\ worker = "show"
        /\ UNCHANGED <<worker, main, invoke, m_bExit, m_eventQueue, ready, m_dwCookie, pushed,
                       strays>>
    BY <1>2 DEF Show
  <2>2. Queues
    BY DEF SinkInv, TypeOK, Queues
  <2>3. shown' \in Seq(1..pushed) /\ localQueue' \in Seq(1..pushed)
    BY <1>2, <2>1, <2>2, HeadTailProperties, AppendProperties DEF Queues
  <2>4. shown' \o localQueue' = shown \o localQueue
    BY <1>2, <2>1, <2>2, MoveHead DEF Queues
  <2>5. ShownInOrder'
    BY <2>1, <2>4 DEF SinkInv, ShownInOrder
  <2>6. TypeOK'
    BY <2>1, <2>2, <2>3 DEF SinkInv, TypeOK, Queues
  <2> QED BY <2>1, <2>5, <2>6 DEF SinkInv, WorkerOutlived
<1> QED
  BY <1>1, <1>2

LEMMA StepKeepsSink == SinkInv /\ [Next]_sinkVars => SinkInv'
<1> SUFFICES ASSUME SinkInv, [Next]_sinkVars PROVE SinkInv'
  OBVIOUS
<1>1. CASE UNCHANGED sinkVars
  BY <1>1 DEF SinkInv, TypeOK, ShownInOrder, WorkerOutlived, sinkVars
<1>2. CASE Next
  BY <1>2, QuietSteps, PushStep, TakeStep, ShowStep DEF Next, Delete, Invoke, ProcessEvents
<1> QED
  BY <1>1, <1>2

LEMMA SinkInvariance == Spec => []SinkInv
  BY InitSink, StepKeepsSink, PTL DEF Spec

(* Every reachable state of the sink is well typed. *)
THEOREM SinkTypeCorrect == Spec => []TypeOK
  BY SinkInvariance, PTL DEF SinkInv

(* No event is lost, shown twice or shown out of order, however many COM   *)
(* threads are in Invoke and however often the worker is woken.            *)
THEOREM EventsKeepTheirOrder == Spec => []ShownInOrder
  BY SinkInvariance, PTL DEF SinkInv

(* ~ExplorerEventSink closes its handles and frees the sink when the       *)
(* worker has gone; only callers can come too late.                        *)
THEOREM DestructorWaits == Spec => []WorkerOutlived
  BY SinkInvariance, PTL DEF SinkInv

-----------------------------------------------------------------------------
(* No wakeup of the worker is lost.                                        *)

Signalling == \E c \in Callers : invoke[c] = "signal"

(* Nobody calls before the sink is advised.  From the swap of the queue to *)
(* the next wait, whoever fills the queue again signals or has done so.    *)
(* The exit flag is set before the signal that goes with it, so that the   *)
(* worker sees one of the two.                                             *)
WakeInv ==
  /\ main \in {"new", "advise"} => ~m_dwCookie /\ \A c \in Callers : invoke[c] = "idle"
  /\ main = "new" => m_eventQueue = <<>>
  /\ worker \in {"test", "wait", "show"} /\ m_eventQueue # <<>> => ready # "reset" \/ Signalling
  /\ main \in {"exit", "join"} => m_bExit
  /\ main = "join" /\ worker = "wait" => ready # "reset"

LEMMA InitWake == Init => WakeInv
  BY DEF Init, WakeInv

LEMMA StepKeepsWake == SinkInv /\ WakeInv /\ [Next]_sinkVars => WakeInv'
<1> SUFFICES ASSUME SinkInv, WakeInv, [Next]_sinkVars PROVE WakeInv'
  OBVIOUS
<1> USE DEF WakeInv, Signalling
<1>t. /\ invoke \in [Callers -> {"idle", "push", "signal"}]
      /\ main = "new" => worker = "none"
      /\ ready = "closed" => main \in {"unadvise", "deleted"}
  BY DEF SinkInv, TypeOK
<1>1. CASE Construct
  BY <1>1, <1>t DEF Construct
<1>2. CASE Advise \/ RequestExit \/ SignalExit \/ Join \/ CloseHandles \/ Unadvise
  BY <1>2, <1>t DEF Advise, RequestExit, SignalExit, Join, CloseHandles, Unadvise, Set
<1>3. ASSUME NEW c \in Callers, Enter(c) PROVE WakeInv'
  BY <1>3, <1>t DEF Enter
<1>4. ASSUME NEW c \in Callers, Push(c) PROVE WakeInv'
  BY <1>4, <1>t DEF Push
<1>5. ASSUME NEW c \in Callers, Signal(c) PROVE WakeInv'
  BY <1>5, <1>t DEF Signal, Set
<1>6. CASE Test \/ Wait \/ TakeQueue \/ Show
  BY <1>6, <1>t DEF Test, Wait, TakeQueue, Show
<1>7. CASE UNCHANGED sinkVars
  BY <1>7 DEF sinkVars
<1> QED
  BY <1>1, <1>2, <1>3, <1>4, <1>5, <1>6, <1>7 DEF Next, Delete, Invoke, ProcessEvents

(* The worker waits in vain only while there is nothing to show and nobody *)
(* waits for its end, for any number of COM threads and events.            *)
THEOREM WorkerIsWoken == Spec => []NoEventSleeps
<1>1. WakeInv => NoEventSleeps
  BY DEF WakeInv, NoEventSleeps, Signalling
<1> QED
  BY <1>1, InitSink, StepKeepsSink, InitWake, StepKeepsWake, PTL DEF Spec

-----------------------------------------------------------------------------
(* ParamHandoff.                                                           *)

Inside   == {"add", "print", "leave"}   \* in the critical section
Let      == {"enter", "done"} \cup Inside  \* main has been let go on
Building == {"create", "wait", "next"}
Closed   == {"close", "closing", "done"}

(* While main builds, the threads before its counter have let it go on and *)
(* those after it are not there; the one at the counter is on its way.     *)
LoopInv ==
  /\ starter = "init" => i = 0 /\ \A k \in Threads : thread[k] = "none"
  /\ starter \in Building =>
       \A k \in Threads : (k < i => thread[k] \in Let) /\ (k > i => thread[k] = "none")
  /\ starter = "create" /\ i < THREAD_NUM => thread[i] = "none"
  /\ starter = "wait" => thread[i] \in {"failed", "read", "release"} \cup Let
  /\ starter = "wait" /\ count = 0 => thread[i] \notin Let
  /\ starter = "next" => thread[i] \in Let
  /\ count = 1 => starter = "wait" /\ thread[i] \in Let
  /\ starter \in Closed => \A k \in Threads : thread[k] = "done"
  /\ g_hThreadParameter = "closed" => starter \in {"closing", "done"}

(* One thread at a time is inside. *)
SectionInv ==
  /\ \A k \in Threads : thread[k] \in Inside => g_csThreadCode = "taken"
  /\ \A j, k \in Threads : thread[j] \in Inside /\ thread[k] \in Inside => j = k
  /\ g_csThreadCode = "deleted" => starter \in {"closing", "done"}

(* A thread has the number it was made at, prints it once, and the counter *)
(* runs ahead of the lines by the thread that is about to print.           *)
LinesInv ==
  /\ \A k \in Threads : thread[k] \in Let \cup {"release"} => nThreadNum[k] = k
  /\ \A a \in 1..Len(lines) : /\ lines[a].number \in Threads
                              /\ thread[lines[a].number] \in {"leave", "done"}
                              /\ lines[a].value = a
  /\ \A a, b \in 1..Len(lines) : lines[a].number = lines[b].number => a = b
  /\ \A k \in Threads : thread[k] = "print" => g_nNum = Len(lines) + 1
  /\ (\A k \in Threads : thread[k] # "print") => g_nNum = Len(lines)

Semaphore == g_hThreadParameter # "null" \/ starter = "init"

LoopBound == starter \in {"wait", "next"} => i < THREAD_NUM

HandoffInv == HandoffTypeOK /\ LoopBound /\ (Semaphore => LoopInv /\ SectionInv /\ LinesInv)

-----------------------------------------------------------------------------
LEMMA InitHandoff == ASSUME HandoffInit PROVE HandoffInv
<1>1. lines = <<>> /\ Len(lines) = 0
  BY DEF HandoffInit
<1>2. HandoffTypeOK
  BY DEF HandoffInit, HandoffTypeOK, Threads
<1>3. LoopInv /\ SectionInv
  BY DEF HandoffInit, LoopInv, SectionInv, Building, Closed, Inside
<1>4. LinesInv
  BY <1>1 DEF HandoffInit, LinesInv, Let, Inside
<1> QED
  BY <1>2, <1>3, <1>4 DEF HandoffInv, LoopBound, HandoffInit

LEMMA TypeKept ==
  ASSUME HandoffTypeOK, LoopBound, [HandoffNext]_handoffVars
  PROVE  HandoffTypeOK' /\ LoopBound'
<1> USE DEF HandoffTypeOK, LoopBound
<1>1. CASE UNCHANGED handoffVars
  BY <1>1 DEF handoffVars
<1>2. CASE CreateSemaphore
  BY <1>2 DEF CreateSemaphore
<1>3. CASE BeginThread
  BY <1>3 DEF BeginThread, Threads
<1>4. CASE WaitForParameter
  BY <1>4 DEF WaitForParameter
<1>5. CASE NextThread
  BY <1>5 DEF NextThread
<1>6. CASE WaitForThreads
  BY <1>6 DEF WaitForThreads
<1>7. CASE DeleteObjects
  BY <1>7 DEF DeleteObjects
<1>8. CASE CloseThread
  BY <1>8 DEF CloseThread
<1>9. ASSUME NEW k \in Threads, ReadParameter(k) PROVE HandoffTypeOK' /\ LoopBound'
  <2>1. nThreadNum' \in [Threads -> Int]
    BY <1>9 DEF ReadParameter
  <2> QED BY <1>9, <2>1 DEF ReadParameter, Goes
<1>10. ASSUME NEW k \in Threads, ReleaseSemaphore(k) PROVE HandoffTypeOK' /\ LoopBound'
  BY <1>10 DEF ReleaseSemaphore, Release, Goes
<1>11. ASSUME NEW k \in Threads, EnterCriticalSection(k) PROVE HandoffTypeOK' /\ LoopBound'
  BY <1>11 DEF EnterCriticalSection, Goes
<1>12. ASSUME NEW k \in Threads, Add(k) PROVE HandoffTypeOK' /\ LoopBound'
  BY <1>12 DEF Add, Goes
<1>13. ASSUME NEW k \in Threads, PrintLine(k) PROVE HandoffTypeOK' /\ LoopBound'
  <2>1. lines' \in Seq([number : Int, value : Nat])
    BY <1>13, AppendProperties DEF PrintLine
  <2> QED BY <1>13, <2>1 DEF PrintLine, Goes
<1>14. ASSUME NEW k \in Threads, LeaveCriticalSection(k) PROVE HandoffTypeOK' /\ LoopBound'
  BY <1>14 DEF LeaveCriticalSection, Goes
<1> QED
  BY <1>1, <1>2, <1>3, <1>4, <1>5, <1>6, <1>7, <1>8, <1>9, <1>10, <1>11, <1>12, <1>13, <1>14
     DEF HandoffNext, Main, Fun, TakeParameter

-----------------------------------------------------------------------------
(* With a semaphore. *)

(* Only the newest thread, while main waits, has main not let go on yet. *)
LEMMA Newest ==
  ASSUME HandoffTypeOK, LoopInv, NEW k \in Threads
  PROVE  /\ thread[k] \in {"read", "release"} => starter = "wait" /\ k = i
         /\ thread[k] \in Let \ {"done"} => starter \in Building
         /\ starter \in Building /\ k = i /\ thread[k] \in Let => starter \in {"wait", "next"}
<1>1. k \in Int /\ i \in Int /\ k < THREAD_NUM
  BY DEF Threads, HandoffTypeOK
<1>2. k < i \/ k = i \/ k > i
  BY <1>1
<1>3. starter \in {"init"} \cup Building \cup Closed
  BY DEF HandoffTypeOK, Building, Closed
<1> QED
  BY <1>1, <1>2, <1>3 DEF LoopInv, Building, Let, Inside

LEMMA MainKeeps ==
  ASSUME HandoffTypeOK, LoopBound, Semaphore, LoopInv, SectionInv, LinesInv,
         Main, Semaphore'
  PROVE  LoopInv' /\ SectionInv' /\ LinesInv'
<1> USE DEF HandoffTypeOK
<1>1. CASE CreateSemaphore
  <2>1. /\ starter = "init" /\ starter' = "create" /\ i' = i
        /\ UNCHANGED <<count, g_csThreadCode, thread, nThreadNum, g_nNum, lines>>
        /\ g_hThreadParameter' \in {"open", "null"}
    BY <1>1 DEF CreateSemaphore
  <2>2. LoopInv'
    BY <2>1 DEF LoopInv, Building, Closed, Threads, Let, Inside
  <2> QED BY <2>1, <2>2 DEF SectionInv, LinesInv
<1>2. CASE BeginThread
  <2>1. /\ starter = "create" /\ i < THREAD_NUM /\ starter' = "wait" /\ i \in Threads
        /\ UNCHANGED <<i, g_hThreadParameter, count, g_csThreadCode, nThreadNum, g_nNum, lines>>
    BY <1>2 DEF BeginThread, Threads
  <2>2. PICK at \in {"read", "failed"} : thread' = [thread EXCEPT ![i] = at]
    BY <1>2 DEF BeginThread
  <2>3. thread'[i] = at /\ \A k \in Threads \ {i} : thread'[k] = thread[k]
    BY <2>1, <2>2
  <2>4. thread[i] = "none"
    BY <2>1 DEF LoopInv
  <2>5. LoopInv'
    BY <2>1, <2>3 DEF LoopInv, Building, Closed, Threads, Let, Inside
  <2>6. SectionInv'
    BY <2>1, <2>3 DEF SectionInv, Inside
  <2>7. LinesInv'
    <3>1. \A k \in Threads : (thread'[k] \in Let \cup {"release"} => thread[k] = thread'[k])
                            /\ (thread'[k] = "print" <=> thread[k] = "print")
      BY <2>3, <2>4 DEF Let, Inside
    <3>2. \A k \in Threads : thread[k] \in {"leave", "done"} => thread'[k] = thread[k]
      BY <2>3, <2>4
    <3> QED BY <2>1, <3>1, <3>2 DEF LinesInv
  <2> QED BY <2>5, <2>6, <2>7
<1>3. CASE WaitForParameter
  <2>1. /\ starter = "wait" /\ starter' = "next" /\ count = 1 /\ count' = 0
        /\ UNCHANGED <<i, g_hThreadParameter, g_csThreadCode, thread, nThreadNum, g_nNum, lines>>
    BY <1>3 DEF WaitForParameter, Semaphore
  <2>2. LoopInv'
    BY <2>1 DEF LoopInv, Building, Closed
  <2> QED BY <2>1, <2>2 DEF SectionInv, LinesInv
<1>4. CASE NextThread
  <2>1. /\ starter = "next" /\ starter' = "create" /\ i' = i + 1 /\ i < THREAD_NUM
        /\ UNCHANGED <<g_hThreadParameter, count, g_csThreadCode, thread, nThreadNum, g_nNum, lines>>
    BY <1>4 DEF NextThread, LoopBound
  <2>2. \A k \in Threads : (k < i' => k < i \/ k = i) /\ (k > i' => k > i) /\ (k = i' => k > i)
    BY <2>1 DEF Threads
  <2>3. i' < THREAD_NUM => i' \in Threads
    BY <2>1 DEF Threads
  <2>4. LoopInv'
    BY <2>1, <2>2, <2>3 DEF LoopInv, Building, Closed
  <2> QED BY <2>1, <2>4 DEF SectionInv, LinesInv
<1>5. CASE WaitForThreads
  <2>1. /\ starter = "create" /\ i = THREAD_NUM /\ starter' = "close"
        /\ UNCHANGED <<i, g_hThreadParameter, count, g_csThreadCode, thread, nThreadNum, g_nNum, lines>>
    BY <1>5 DEF WaitForThreads
  <2>2. \A k \in Threads : k < i
    BY <2>1 DEF Threads
  <2>3. \A k \in Threads : thread[k] = "done"
    BY <1>5, <2>1, <2>2 DEF WaitForThreads, LoopInv, Building, Let, Inside
  <2>4. LoopInv'
    BY <2>1, <2>3 DEF LoopInv, Building, Closed
  <2> QED BY <2>1, <2>4 DEF SectionInv, LinesInv
<1>6. CASE DeleteObjects
  <2>1. /\ starter = "close" /\ starter' = "closing" /\ g_csThreadCode' = "deleted"
        /\ UNCHANGED <<count, thread, nThreadNum, g_nNum, lines>>
    BY <1>6 DEF DeleteObjects
  <2>2. \A k \in Threads : thread[k] = "done"
    BY <2>1 DEF LoopInv, Closed
  <2>3. LoopInv'
    BY <2>1, <2>2 DEF LoopInv, Building, Closed
  <2>4. SectionInv'
    BY <2>1, <2>2 DEF SectionInv, Inside
  <2> QED BY <2>1, <2>3, <2>4 DEF LinesInv
<1>7. CASE CloseThread
  <2>1. /\ starter = "closing" /\ starter' \in {"closing", "done"}
        /\ UNCHANGED <<g_hThreadParameter, count, g_csThreadCode, thread, nThreadNum, g_nNum, lines>>
    BY <1>7 DEF CloseThread
  <2>2. \A k \in Threads : thread[k] = "done"
    BY <2>1 DEF LoopInv, Closed
  <2>3. LoopInv'
    BY <2>1, <2>2 DEF LoopInv, Building, Closed
  <2> QED BY <2>1, <2>3 DEF SectionInv, LinesInv
<1> QED
  BY <1>1, <1>2, <1>3, <1>4, <1>5, <1>6, <1>7 DEF Main

LEMMA FunKeeps ==
  ASSUME HandoffTypeOK, LoopBound, Semaphore, LoopInv, SectionInv, LinesInv,
         NEW k \in Threads, Fun(k)
  PROVE  LoopInv' /\ SectionInv' /\ LinesInv'
<1> USE DEF HandoffTypeOK
<1>1. /\ starter # "done" /\ UNCHANGED <<starter, i, g_hThreadParameter>>
      /\ \E to : thread' = [thread EXCEPT ![k] = to]
  BY DEF Fun, TakeParameter, ReadParameter, ReleaseSemaphore, EnterCriticalSection, Add,
         PrintLine, LeaveCriticalSection, Goes
<1>2. \A j \in Threads \ {k} : thread'[j] = thread[j]
  BY <1>1
<1>3. (g_csThreadCode # "deleted" /\ g_hThreadParameter = "open") \/ thread[k] = "done"
  <2>1. starter \in {"init"} \cup Building \cup Closed
    BY DEF Building, Closed
  <2>2. starter = "init" => thread[k] = "none"
    BY DEF LoopInv
  <2>3. starter \in Closed => thread[k] = "done"
    BY DEF LoopInv
  <2>4. thread[k] # "none"
    BY DEF Fun, TakeParameter, ReadParameter, ReleaseSemaphore, EnterCriticalSection, Add,
           PrintLine, LeaveCriticalSection, Goes
  <2> QED BY <2>1, <2>2, <2>3, <2>4 DEF Building, SectionInv, LoopInv, Semaphore
<1>4. ASSUME thread[k] \in Let, thread'[k] \in Let,
             thread[k] # "done", UNCHANGED count
      PROVE  LoopInv'
  <2>1. starter \in Building
    BY <1>4, Newest
  <2>2. k = i => starter \in {"wait", "next"}
    BY <1>4, <2>1, Newest
  <2>3. k \in Int /\ i \in Int /\ "none" \notin Let /\ starter \notin Closed \cup {"init"}
    BY <2>1 DEF Threads, Let, Inside, Building, Closed
  <2>4. ~(k > i)
    BY <1>4, <2>1, <2>3 DEF LoopInv
  <2>5. \A j \in Threads : (j < i => thread'[j] \in Let) /\ (j > i => thread'[j] = "none")
    BY <1>2, <1>4, <2>1, <2>4 DEF LoopInv
  <2>6. starter = "create" /\ i < THREAD_NUM => thread'[i] = "none"
    BY <1>2, <2>2, <2>3 DEF LoopInv, Threads
  <2>7. /\ starter = "wait" => thread'[i] \in {"failed", "read", "release"} \cup Let
        /\ starter = "wait" /\ count = 0 => thread'[i] \notin Let
        /\ starter = "next" => thread'[i] \in Let
        /\ count = 1 => starter = "wait" /\ thread'[i] \in Let
    <3>1. i \in Threads \/ starter = "create"
      BY <2>1 DEF LoopBound, Threads, Building
    <3> QED BY <1>2, <1>4, <2>1, <3>1 DEF LoopInv, Building
  <2> QED BY <1>1, <1>4, <2>3, <2>5, <2>6, <2>7 DEF LoopInv, Building
<1>4a. ASSUME UNCHANGED <<lines, g_nNum>>,
              thread[k] # "print", thread'[k] # "print",
              thread[k] \in {"leave", "done"} => thread'[k] \in {"leave", "done"},
              \A j \in Threads : thread'[j] \in Let \cup {"release"} => nThreadNum'[j] = j
       PROVE  LinesInv'
  <2>1. \A j \in Threads : thread'[j] = "print" <=> thread[j] = "print"
    BY <1>2, <1>4a
  <2>2. \A j \in Threads : thread[j] \in {"leave", "done"} => thread'[j] \in {"leave", "done"}
    BY <1>2, <1>4a
  <2> QED BY <1>4a, <2>1, <2>2 DEF LinesInv
<1>5. CASE ReadParameter(k)
  <2>1. /\ thread[k] = "read" /\ thread'[k] = "release"
        /\ nThreadNum' = [nThreadNum EXCEPT ![k] = i]
        /\ UNCHANGED <<count, g_csThreadCode, g_nNum, lines>>
    BY <1>5 DEF ReadParameter, Goes
  <2>2. starter = "wait" /\ k = i
    BY <2>1, Newest
  <2>3. nThreadNum'[k] = k /\ \A j \in Threads \ {k} : nThreadNum'[j] = nThreadNum[j]
    BY <2>1, <2>2
  <2>4. LoopInv'
    BY <1>1, <1>2, <2>1, <2>2 DEF LoopInv, Building, Closed, Let, Inside, Threads
  <2>5. SectionInv'
    BY <1>1, <1>2, <2>1 DEF SectionInv, Inside
  <2>6. LinesInv'
    <3>1. \A j \in Threads : thread'[j] \in Let \cup {"release"} => nThreadNum'[j] = j
      BY <1>2, <2>3 DEF LinesInv
    <3> QED BY <1>4a, <2>1, <3>1
  <2> QED BY <2>4, <2>5, <2>6
<1>6. CASE ReleaseSemaphore(k)
  <2>1. /\ thread[k] = "release" /\ thread'[k] = "enter" /\ count' = 1
        /\ UNCHANGED <<g_csThreadCode, nThreadNum, g_nNum, lines>>
    BY <1>3, <1>6 DEF ReleaseSemaphore, Release, Goes
  <2>2. starter = "wait" /\ k = i
    BY <2>1, Newest
  <2>3. LoopInv'
    BY <1>1, <1>2, <2>1, <2>2 DEF LoopInv, Building, Closed, Let, Inside, Threads
  <2>4. SectionInv'
    BY <1>1, <1>2, <2>1 DEF SectionInv, Inside
  <2>5. LinesInv'
    <3>1. \A j \in Threads : thread'[j] \in Let \cup {"release"} => nThreadNum'[j] = j
      BY <1>2, <2>1 DEF LinesInv, Let, Inside
    <3> QED BY <1>4a, <2>1, <3>1
  <2> QED BY <2>3, <2>4, <2>5
<1>7. CASE EnterCriticalSection(k)
  <2>1. /\ thread[k] = "enter" /\ thread'[k] = "add"
        /\ g_csThreadCode = "free" /\ g_csThreadCode' = "taken"
        /\ UNCHANGED <<count, nThreadNum, g_nNum, lines>>
    BY <1>3, <1>7 DEF EnterCriticalSection, Goes
  <2>2. LoopInv'
    BY <1>4, <2>1 DEF Let, Inside
  <2>3. SectionInv'
    BY <1>1, <1>2, <2>1 DEF SectionInv
  <2>4. LinesInv'
    <3>1. \A j \in Threads : thread'[j] \in Let \cup {"release"} => nThreadNum'[j] = j
      BY <1>2, <2>1 DEF LinesInv, Let, Inside
    <3> QED BY <1>4a, <2>1, <3>1
  <2> QED BY <2>2, <2>3, <2>4
<1>8. CASE Add(k)
  <2>1. /\ thread[k] = "add" /\ thread'[k] = "print" /\ g_nNum' = g_nNum + 1
        /\ UNCHANGED <<count, g_csThreadCode, nThreadNum, lines>>
    BY <1>8 DEF Add, Goes
  <2>2. LoopInv'
    BY <1>4, <2>1 DEF Let, Inside
  <2>3. SectionInv'
    BY <1>1, <1>2, <2>1 DEF SectionInv, Inside
  <2>4. \A j \in Threads \ {k} : thread[j] \notin Inside
    BY <2>1 DEF SectionInv, Inside
  <2>5. g_nNum = Len(lines)
    BY <2>1, <2>4 DEF LinesInv, Inside
  <2>6. LinesInv'
    BY <1>2, <2>1, <2>4, <2>5 DEF LinesInv, Let, Inside
  <2> QED BY <2>2, <2>3, <2>6
<1>9. CASE PrintLine(k)
  <2>1. /\ thread[k] = "print" /\ thread'[k] = "leave"
        /\ lines' = Append(lines, [number |-> nThreadNum[k], value |-> g_nNum])
        /\ UNCHANGED <<count, g_csThreadCode, nThreadNum, g_nNum>>
    BY <1>9 DEF PrintLine, Goes
  <2>2. LoopInv'
    BY <1>4, <2>1 DEF Let, Inside
  <2>3. SectionInv'
    BY <1>1, <1>2, <2>1 DEF SectionInv, Inside
  <2>4. \A j \in Threads \ {k} : thread[j] \notin Inside
    BY <2>1 DEF SectionInv, Inside
  <2>5. nThreadNum[k] = k /\ g_nNum = Len(lines) + 1
    BY <2>1 DEF LinesInv, Let, Inside
  <2>6. /\ Len(lines') = Len(lines) + 1 /\ Len(lines) \in Nat
        /\ \A a \in 1..Len(lines) : lines'[a] = lines[a]
        /\ lines'[Len(lines) + 1].number = k /\ lines'[Len(lines) + 1].value = Len(lines) + 1
    BY <2>1, <2>5, AppendProperties, LenProperties
  <2>7. \A a \in 1..Len(lines) : lines[a].number # k
    BY <2>1 DEF LinesInv
  <2>8. \A a \in 1..Len(lines') : a \in 1..Len(lines) \/ a = Len(lines) + 1
    BY <2>6
  <2>9. ASSUME NEW a \in 1..Len(lines')
        PROVE  /\ lines'[a].number \in Threads
               /\ thread'[lines'[a].number] \in {"leave", "done"}
               /\ lines'[a].value = a
    <3>1. CASE a = Len(lines) + 1
      BY <2>1, <2>6, <3>1
    <3>2. CASE a \in 1..Len(lines)
      BY <1>2, <2>6, <2>7, <3>2 DEF LinesInv
    <3> QED BY <2>8, <3>1, <3>2
  <2>10. \A a, b \in 1..Len(lines') : lines'[a].number = lines'[b].number => a = b
    <3>1. \A a \in 1..Len(lines) : lines'[a].number # lines'[Len(lines) + 1].number
      BY <2>6, <2>7
    <3>2. \A a, b \in 1..Len(lines) : lines'[a].number = lines'[b].number => a = b
      BY <2>6 DEF LinesInv
    <3> QED BY <2>8, <3>1, <3>2
  <2>11. \A j \in Threads : thread'[j] # "print"
    BY <1>2, <2>1, <2>4 DEF Inside
  <2>12. \A j \in Threads : thread'[j] \in Let \cup {"release"} => nThreadNum'[j] = j
    BY <1>2, <2>1, <2>5 DEF LinesInv
  <2>13. LinesInv'
    BY <2>1, <2>5, <2>6, <2>9, <2>10, <2>11, <2>12 DEF LinesInv
  <2> QED BY <2>2, <2>3, <2>13
<1>10. CASE LeaveCriticalSection(k)
  <2>1. /\ thread[k] = "leave" /\ thread'[k] = "done" /\ g_csThreadCode' = "free"
        /\ UNCHANGED <<count, nThreadNum, g_nNum, lines>>
    BY <1>10 DEF LeaveCriticalSection, Goes, SectionInv, Inside
  <2>2. LoopInv'
    BY <1>4, <2>1 DEF Let, Inside
  <2>3. \A j \in Threads \ {k} : thread[j] \notin Inside
    BY <2>1 DEF SectionInv, Inside
  <2>4. SectionInv'
    BY <1>1, <1>2, <2>1, <2>3 DEF SectionInv, Inside
  <2>5. LinesInv'
    <3>1. \A j \in Threads : thread'[j] \in Let \cup {"release"} => nThreadNum'[j] = j
      BY <1>2, <2>1 DEF LinesInv, Let, Inside
    <3> QED BY <1>4a, <2>1, <3>1
  <2> QED BY <2>2, <2>4, <2>5
<1> QED
  BY <1>5, <1>6, <1>7, <1>8, <1>9, <1>10 DEF Fun, TakeParameter

LEMMA HandoffInvariance == HandoffSpec => []HandoffInv
<1>1. HandoffInv /\ [HandoffNext]_handoffVars => HandoffInv'
  <2> SUFFICES ASSUME HandoffInv, [HandoffNext]_handoffVars PROVE HandoffInv'
    OBVIOUS
  <2>1. HandoffTypeOK' /\ LoopBound'
    BY TypeKept DEF HandoffInv
  <2>2. Semaphore' => Semaphore
    BY DEF Semaphore, HandoffNext, Main, CreateSemaphore, BeginThread, WaitForParameter, NextThread,
           WaitForThreads, DeleteObjects, CloseThread, Fun, TakeParameter, ReadParameter,
           ReleaseSemaphore, EnterCriticalSection, Add, PrintLine, LeaveCriticalSection, handoffVars
  <2>3. CASE UNCHANGED handoffVars
    BY <2>1, <2>3 DEF HandoffInv, handoffVars, Semaphore, LoopInv, SectionInv, LinesInv
  <2>4. CASE HandoffNext
    BY <2>1, <2>2, <2>4, MainKeeps, FunKeeps DEF HandoffInv, HandoffNext
  <2> QED BY <2>3, <2>4
<1> QED
  BY InitHandoff, <1>1, PTL DEF HandoffSpec

(* main, its threads and what they share keep their types, with a          *)
(* semaphore and without.                                                  *)
THEOREM HandoffTypeCorrect == HandoffSpec => []HandoffTypeOK
<1>1. HandoffInv => HandoffTypeOK
  BY DEF HandoffInv
<1> QED
  BY <1>1, HandoffInvariance, PTL

(* With a semaphore every thread prints a number of its own beside the     *)
(* next value of the counter, and main waits for nobody who has let it go  *)
(* on, for any number of threads.                                          *)
THEOREM NumbersAreHandedOver == HandoffSpec => []NumbersHandedOver
<1>1. HandoffInv => NumbersHandedOver
  <2> SUFFICES ASSUME HandoffInv, g_hThreadParameter # "null"
               PROVE  /\ LinesInv
                      /\ starter = "wait" /\ thread[i] # "failed" =>
                           count = 1 \/ thread[i] \in {"read", "release"}
    BY DEF NumbersHandedOver, LinesInv
  <2>1. LoopInv /\ LinesInv /\ count \in 0..1
    BY DEF HandoffInv, Semaphore, HandoffTypeOK
  <2> QED BY <2>1 DEF LoopInv
<1> QED
  BY <1>1, HandoffInvariance, PTL
=============================================================================

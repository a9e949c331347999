---------------------------- MODULE ParamHandoff ----------------------------
(***************************************************************************)
(* Test_Semaphore_C/threadCtrl.cpp: main starts threads in a loop and gives*)
(* each the address of the loop's counter.  A semaphore makes main wait    *)
(* until the new thread has read its number; a critical section keeps the  *)
(* lines of the threads, with the value of a shared counter, apart.        *)
(***************************************************************************)
EXTENDS Integers, Sequences

CONSTANT THREAD_NUM  \* how many threads

ASSUME HandoffAssumption == THREAD_NUM \in Nat

VARIABLES starter,             \* where main is
          i,                   \* its counter
          g_hThreadParameter,  \* the semaphore: "null", "open" or "closed"
          count,               \* of the semaphore
          g_csThreadCode,      \* the critical section: "free", "taken", "deleted"
          thread,              \* where each thread is, by the counter it was made at
          nThreadNum,          \* the number each thread has read
          g_nNum,
          lines                \* what was printed

handoffVars == <<starter, i, g_hThreadParameter, count, g_csThreadCode, thread, nThreadNum,
                 g_nNum, lines>>

Threads == 0..THREAD_NUM - 1

HandoffTypeOK ==
  /\ starter \in {"init", "create", "wait", "next", "close", "closing", "done"}
  /\ i \in 0..THREAD_NUM
  /\ g_hThreadParameter \in {"null", "open", "closed"}
  /\ count \in 0..1
  /\ g_csThreadCode \in {"free", "taken", "deleted"}
  /\ thread \in [Threads -> {"none", "failed", "read", "release", "enter", "add", "print",
                             "leave", "done"}]
  /\ nThreadNum \in [Threads -> Int]
  /\ g_nNum \in Nat
  /\ lines \in Seq([number : Int, value : Nat])

HandoffInit ==
  /\ starter = "init" /\ i = 0
  /\ g_hThreadParameter = "null" /\ count = 0 /\ g_csThreadCode = "free"
  /\ thread = [k \in Threads |-> "none"] /\ nThreadNum = [k \in Threads |-> -1]
  /\ g_nNum = 0 /\ lines = <<>>

-----------------------------------------------------------------------------
(* main.  Neither CreateSemaphore nor _beginthreadex is checked.           *)
CreateSemaphore ==
  /\ starter = "init" /\ starter' = "create"
  /\ g_hThreadParameter' \in {"open", "null"}
  /\ UNCHANGED <<i, count, g_csThreadCode, thread, nThreadNum, g_nNum, lines>>

BeginThread ==
  /\ starter = "create" /\ i < THREAD_NUM
  /\ starter' = "wait"
  /\ \E at \in {"read", "failed"} : thread' = [thread EXCEPT ![i] = at]
  /\ UNCHANGED <<i, g_hThreadParameter, count, g_csThreadCode, nThreadNum, g_nNum, lines>>

(* The wait fails at once without a semaphore. *)
WaitForParameter ==
  /\ starter = "wait" /\ starter' = "next"
  /\ \/ g_hThreadParameter = "open" /\ count = 1 /\ count' = 0
     \/ g_hThreadParameter = "null" /\ UNCHANGED count
  /\ UNCHANGED <<i, g_hThreadParameter, g_csThreadCode, thread, nThreadNum, g_nNum, lines>>

NextThread ==
  /\ starter = "next" /\ starter' = "create"
  /\ i' = i + 1
  /\ UNCHANGED <<g_hThreadParameter, count, g_csThreadCode, thread, nThreadNum, g_nNum, lines>>

(* The wait for all threads fails at once when one was not created. *)
WaitForThreads ==
  /\ starter = "create" /\ i = THREAD_NUM
  /\ (\A k \in Threads : thread[k] = "done") \/ (\E k \in Threads : thread[k] = "failed")
  /\ starter' = "close"
  /\ UNCHANGED <<i, g_hThreadParameter, count, g_csThreadCode, thread, nThreadNum, g_nNum, lines>>

(* The counter of main's loop is used again. *)
DeleteObjects ==
  /\ starter = "close" /\ starter' = "closing"
  /\ g_csThreadCode' = "deleted"
  /\ g_hThreadParameter' = IF g_hThreadParameter = "open" THEN "closed" ELSE g_hThreadParameter
  /\ i' = 0
  /\ UNCHANGED <<count, thread, nThreadNum, g_nNum, lines>>

(* The end of main ends the process. *)
CloseThread ==
  /\ starter = "closing"
  /\ IF i < THREAD_NUM THEN i' = i + 1 /\ UNCHANGED starter ELSE starter' = "done" /\ UNCHANGED i
  /\ UNCHANGED <<g_hThreadParameter, count, g_csThreadCode, thread, nThreadNum, g_nNum, lines>>

-----------------------------------------------------------------------------
(* Fun, on its thread. *)
Goes(k, from, to) ==
  /\ starter # "done"
  /\ thread[k] = from /\ thread' = [thread EXCEPT ![k] = to]

ReadParameter(k) ==
  /\ Goes(k, "read", "release")
  /\ nThreadNum' = [nThreadNum EXCEPT ![k] = i]
  /\ UNCHANGED <<starter, i, g_hThreadParameter, count, g_csThreadCode, g_nNum, lines>>

(* A release at the maximum of 1, or of a semaphore that is not there,     *)
(* fails.                                                                  *)
Release == count' = IF g_hThreadParameter = "open" THEN 1 ELSE count

ReleaseSemaphore(k) ==
  /\ Goes(k, "release", "enter")
  /\ Release
  /\ UNCHANGED <<starter, i, g_hThreadParameter, g_csThreadCode, nThreadNum, g_nNum, lines>>

(* Mutant: the number is read after main has been let go on. *)
TakeParameterLate(k) ==
  \/ /\ Goes(k, "read", "release")
     /\ Release
     /\ UNCHANGED <<starter, i, g_hThreadParameter, g_csThreadCode, nThreadNum, g_nNum, lines>>
  \/ /\ Goes(k, "release", "enter")
     /\ nThreadNum' = [nThreadNum EXCEPT ![k] = i]
     /\ UNCHANGED <<starter, i, g_hThreadParameter, count, g_csThreadCode, g_nNum, lines>>

TakeParameter(k) == ReadParameter(k) \/ ReleaseSemaphore(k)

(* Whether a deleted section lets a thread in is not known. *)
EnterCriticalSection(k) ==
  /\ Goes(k, "enter", "add")
  /\ g_csThreadCode # "taken"
  /\ g_csThreadCode' = IF g_csThreadCode = "free" THEN "taken" ELSE g_csThreadCode
  /\ UNCHANGED <<starter, i, g_hThreadParameter, count, nThreadNum, g_nNum, lines>>

Add(k) ==
  /\ Goes(k, "add", "print")
  /\ g_nNum' = g_nNum + 1
  /\ UNCHANGED <<starter, i, g_hThreadParameter, count, g_csThreadCode, nThreadNum, lines>>

PrintLine(k) ==
  /\ Goes(k, "print", "leave")
  /\ lines' = Append(lines, [number |-> nThreadNum[k], value |-> g_nNum])
  /\ UNCHANGED <<starter, i, g_hThreadParameter, count, g_csThreadCode, nThreadNum, g_nNum>>

LeaveCriticalSection(k) ==
  /\ Goes(k, "leave", "done")
  /\ g_csThreadCode' = IF g_csThreadCode = "taken" THEN "free" ELSE g_csThreadCode
  /\ UNCHANGED <<starter, i, g_hThreadParameter, count, nThreadNum, g_nNum, lines>>

-----------------------------------------------------------------------------
Main ==
  \/ CreateSemaphore \/ BeginThread \/ WaitForParameter \/ NextThread
  \/ WaitForThreads \/ DeleteObjects \/ CloseThread

Fun(k) ==
  \/ TakeParameter(k) \/ EnterCriticalSection(k) \/ Add(k) \/ PrintLine(k)
  \/ LeaveCriticalSection(k)

HandoffNext == Main \/ \E k \in Threads : Fun(k)

HandoffSpec == HandoffInit /\ [][HandoffNext]_handoffVars

-----------------------------------------------------------------------------
(* With a semaphore, each thread gets a number of its own although all of  *)
(* them read it from the same variable, and the lines they print count up, *)
(* whatever the order of the threads; and main does not wait for a thread  *)
(* that has already let it go on.                                          *)
NumbersHandedOver ==
  g_hThreadParameter # "null" =>
    /\ \A a, b \in 1..Len(lines) : lines[a].number = lines[b].number => a = b
    /\ \A a \in 1..Len(lines) : lines[a].value = a
    /\ starter = "wait" /\ thread[i] # "failed" => count = 1 \/ thread[i] \in {"read", "release"}
=============================================================================

---------------------------- MODULE SemaphoreRing ----------------------------
(***************************************************************************)
(* Test_Semaphore_D: three threads pass the turn round a ring of three     *)
(* semaphores, Thread_i waiting for hSM_i and releasing the next one.      *)
(*                                                                         *)
(* The semaphores have names (L"A", L"B", L"C"), so they belong to the     *)
(* session and not to the process: CreateSemaphore opens the one that is   *)
(* there, with the count it has, and a semaphore goes when its last handle *)
(* is closed.  Procs are the runs of the program; they may overlap.        *)
(***************************************************************************)
EXTENDS Naturals, FiniteSets

CONSTANTS Procs,   \* runs of the program
          Rounds   \* 10 in the source

ASSUME RoundsAssumption == Rounds \in Nat

Ring    == 1..3
Succ(i) == (i % 3) + 1
Threads == Procs \X Ring  \* Thread_1, Thread_2 and Thread_3 of every run

VARIABLES
  count,   \* the semaphores' counts
  opened,  \* the semaphore handles each process has open
  main,    \* where each main is
  pc,      \* where each thread is in its loop
  i,       \* each thread's rounds so far
  refused, \* some ReleaseSemaphore found the count at its maximum
  last     \* history: the thread that printed last

vars == <<count, opened, main, pc, i, refused, last>>

(* A main opens, creates, waits for and closes its three things in order:  *)
(* <<"open", 1>>, <<"open", 2>>, ... <<"close", 3>>, <<"ended", 1>>.       *)
Phases == {"open", "create", "join", "close", "ended"}

After(phase) == CASE phase = "open"   -> "create"
                  [] phase = "create" -> "join"
                  [] phase = "join"   -> "close"
                  [] phase = "close"  -> "ended"

TypeOK ==
  /\ count \in [Ring -> 0..1]
  /\ opened \in [Procs -> SUBSET Ring]
  /\ main \in [Procs -> Phases \X Ring]
  /\ pc \in [Threads -> {"unborn", "wait", "print", "release", "done"}]
  /\ i \in [Threads -> 0..Rounds]
  /\ refused \in BOOLEAN
  /\ last \in 0..3

Init ==
  /\ count = [s \in Ring |-> 0]
  /\ opened = [p \in Procs |-> {}]
  /\ main = [p \in Procs |-> <<"open", 1>>]
  /\ pc = [t \in Threads |-> "unborn"]
  /\ i = [t \in Threads |-> 0]
  /\ refused = FALSE
  /\ last = 0

-----------------------------------------------------------------------------
(* main *)

Step(p, phase, s) ==
  /\ main[p] = <<phase, s>>
  /\ main' = [main EXCEPT ![p] = IF s < 3 THEN <<phase, s + 1>> ELSE <<After(phase), 1>>]

Exists(s) == \E p \in Procs : s \in opened[p]

(* Mutant of InitialCount: every semaphore is created signalled. *)
AllSignalled(s) == 1

(* Only the first semaphore is created signalled. *)
InitialCount(s) == IF s = 1 THEN 1 ELSE 0

CreateSemaphore(p, s) ==
  /\ Step(p, "open", s)
  /\ count' = [count EXCEPT ![s] = IF Exists(s) THEN @ ELSE InitialCount(s)]
  /\ opened' = [opened EXCEPT ![p] = @ \cup {s}]
  /\ UNCHANGED <<pc, i, refused, last>>

CreateThread(p, t) ==
  /\ Step(p, "create", t)
  /\ pc' = [pc EXCEPT ![<<p, t>>] = IF Rounds = 0 THEN "done" ELSE "wait"]
  /\ UNCHANGED <<count, opened, i, refused, last>>

(* Mutant of JoinThread: main does not wait. *)
JoinNobody(p, t) ==
  /\ Step(p, "join", t)
  /\ UNCHANGED <<count, opened, pc, i, refused, last>>

JoinThread(p, t) ==
  /\ Step(p, "join", t)
  /\ pc[<<p, t>>] = "done"
  /\ UNCHANGED <<count, opened, pc, i, refused, last>>

(* The thread handles go first, which nobody sees. *)
CloseSemaphore(p, s) ==
  /\ Step(p, "close", s)
  /\ opened' = [opened EXCEPT ![p] = @ \ {s}]
  /\ UNCHANGED <<count, pc, i, refused, last>>

-----------------------------------------------------------------------------
(* Thread_1, Thread_2 and Thread_3; t = <<process, number>>. *)

Wait(t) ==
  /\ pc[t] = "wait"
  /\ count[t[2]] > 0
  /\ count' = [count EXCEPT ![t[2]] = @ - 1]
  /\ pc' = [pc EXCEPT ![t] = "print"]
  /\ UNCHANGED <<opened, main, i, refused, last>>

PrintLetter(t) ==
  /\ pc[t] = "print"
  /\ pc' = [pc EXCEPT ![t] = "release"]
  /\ last' = t[2]
  /\ UNCHANGED <<count, opened, main, i, refused>>

(* Beyond the maximum of 1 ReleaseSemaphore fails, which nobody looks at. *)
ReleaseTo(t, s) ==
  /\ pc[t] = "release"
  /\ count' = [count EXCEPT ![s] = 1]
  /\ refused' = (refused \/ count[s] = 1)
  /\ i' = [i EXCEPT ![t] = @ + 1]
  /\ pc' = [pc EXCEPT ![t] = IF i'[t] < Rounds THEN "wait" ELSE "done"]
  /\ UNCHANGED <<opened, main, last>>

(* Mutant of Release: Thread_3 releases its own semaphore. *)
ReleaseOwn(t) == ReleaseTo(t, IF t[2] = 3 THEN 3 ELSE Succ(t[2]))

Release(t) == ReleaseTo(t, Succ(t[2]))

-----------------------------------------------------------------------------
Main(p) ==
  \E s \in Ring :
    CreateSemaphore(p, s) \/ CreateThread(p, s) \/ JoinThread(p, s) \/ CloseSemaphore(p, s)

Thread(t) == Wait(t) \/ PrintLetter(t) \/ Release(t)

Next == (\E p \in Procs : Main(p)) \/ (\E t \in Threads : Thread(t))

Spec == Init /\ [][Next]_vars

(* Every thread that can run does. *)
FairSpec ==
  /\ Spec
  /\ \A p \in Procs : WF_vars(Main(p))
  /\ \A t \in Threads : WF_vars(Thread(t))

-----------------------------------------------------------------------------
(* Where the turn is: in a signalled semaphore or with a thread between    *)
(* its wait and its release.                                               *)
InSemaphore(s) == Exists(s) /\ count[s] = 1
WithThread(t)  == pc[t] \in {"print", "release"}

(* There is never more than one turn, also when runs of the program share  *)
(* the named semaphores, start in the middle of another run or close their *)
(* handles while another one is opening them.                              *)
OneTurn ==
  /\ \A s, r \in Ring : InSemaphore(s) /\ InSemaphore(r) => s = r
  /\ \A t, u \in Threads : WithThread(t) /\ WithThread(u) => t = u
  /\ \A s \in Ring, t \in Threads : ~(InSemaphore(s) /\ WithThread(t))

(* No turn is lost in a semaphore that is full, and main closes no         *)
(* semaphore that one of its threads may still use.                        *)
NothingLost ==
  /\ ~refused
  /\ \A t \in Threads : pc[t] \notin {"unborn", "done"} => opened[t[1]] = Ring

(* Nobody waits for a turn that does not come: while a thread waits, one   *)
(* has the turn, or it is in a semaphore that a thread waits for, or some  *)
(* run is still making its semaphores and threads.  A run that has yet to  *)
(* begin is not needed, nor is one that ends missed.                       *)
SomebodyRuns ==
  (\E t \in Threads : pc[t] = "wait") =>
    \/ \E t \in Threads : WithThread(t) \/ (pc[t] = "wait" /\ count[t[2]] = 1)
    \/ \E p \in Procs : main[p][1] \in {"open", "create"} /\ main[p] # <<"open", 1>>

(* The letters are printed in turn. *)
T == INSTANCE Turns
TakeTurns == T!Spec

(* Every run of the program ends after its ten rounds: nobody waits for a  *)
(* turn that does not come.                                                *)
AllEnd == <>[](\A p \in Procs : main[p][1] = "ended" /\ \A r \in Ring : i[<<p, r>>] = Rounds)
=============================================================================

------------------------- MODULE SemaphoreRingProofs -------------------------
(***************************************************************************)
(* Proofs about SemaphoreRing, for any runs of the program and any number  *)
(* of rounds: the types, that there is one turn and none is lost, and that *)
(* the letters come in turn.  The runs share the semaphores, so that no    *)
(* run's own counters say where the turn is: the invariant counts the      *)
(* releases all runs made together.                                        *)
(***************************************************************************)
EXTENDS SemaphoreRing, FiniteSetTheorems, TLAPS

Looping == {"wait", "print", "release"}

(* The loop's counter. *)
RoundsOK ==
  \A t \in Threads :
    /\ pc[t] = "unborn" => i[t] = 0
    /\ pc[t] \in Looping => i[t] < Rounds
    /\ pc[t] = "done" => i[t] = Rounds

(* How far main is, and what its threads and its handles are like then. *)
Lifecycle(p) ==
  \A k \in Ring :
    /\ main[p][1] = "open" => pc[<<p, k>>] = "unborn"
    /\ main[p][1] = "open" /\ k < main[p][2] => k \in opened[p]
    /\ main[p][1] = "open" /\ k >= main[p][2] => k \notin opened[p]
    /\ main[p][1] = "create" /\ k >= main[p][2] => pc[<<p, k>>] = "unborn"
    /\ main[p][1] = "create" /\ k < main[p][2] => pc[<<p, k>>] # "unborn"
    /\ main[p][1] \in {"create", "join"} => k \in opened[p]
    /\ main[p][1] = "join" => pc[<<p, k>>] # "unborn"
    /\ main[p][1] = "join" /\ k < main[p][2] => pc[<<p, k>>] = "done"
    /\ main[p][1] \in {"close", "ended"} => pc[<<p, k>>] = "done"

IInv == TypeOK /\ RoundsOK /\ \A p \in Procs : Lifecycle(p)

LEMMA SuccType == ASSUME NEW s \in Ring PROVE Succ(s) \in Ring
BY DEF Succ, Ring

(* What a step of main does to main. *)
Moved(p, s, from, to) ==
  /\ main' \in [Procs -> Phases \X Ring]
  /\ main[p][1] = from /\ main[p][2] = s
  /\ s < 3 => main'[p][1] = from /\ main'[p][2] = s + 1
  /\ s = 3 => main'[p][1] = to /\ main'[p][2] = 1
  /\ \A q \in Procs : q # p => main'[q] = main[q]

LEMMA StepMoves ==
  ASSUME TypeOK, NEW p \in Procs, NEW s \in Ring,
         NEW phase \in {"open", "create", "join", "close"}, Step(p, phase, s)
  PROVE  Moved(p, s, phase, After(phase))
<1>1. After(phase) \in Phases
  BY DEF After, Phases
<1>2. (IF s < 3 THEN <<phase, s + 1>> ELSE <<After(phase), 1>>) \in Phases \X Ring
  BY <1>1 DEF Phases, Ring
<1> QED
  BY <1>2 DEF Step, TypeOK, Moved, Ring

LEMMA MainKeepsIInv ==
  ASSUME IInv, NEW p \in Procs, NEW s \in Ring,
         \/ CreateSemaphore(p, s) \/ CreateThread(p, s)
         \/ JoinThread(p, s) \/ CloseSemaphore(p, s)
  PROVE  IInv'
<1> USE RoundsAssumption
<1>1. CASE CreateSemaphore(p, s)
  <2>0. Moved(p, s, "open", "create")
    BY <1>1, StepMoves DEF CreateSemaphore, IInv, After
  <2>1. count' \in [Ring -> 0..1] /\ opened' \in [Procs -> SUBSET Ring]
    BY <1>1 DEF CreateSemaphore, IInv, TypeOK, InitialCount
  <2>2. TypeOK' /\ RoundsOK'
    BY <1>1, <2>0, <2>1 DEF CreateSemaphore, IInv, TypeOK, RoundsOK, Moved
  <2>3. /\ opened'[p] = opened[p] \cup {s}
        /\ \A q \in Procs : q # p => opened'[q] = opened[q]
    BY <1>1 DEF CreateSemaphore, IInv, TypeOK
  <2>4. ASSUME NEW q \in Procs PROVE Lifecycle(q)'
    <3>1. CASE q # p
      BY <1>1, <2>0, <2>3, <3>1 DEF CreateSemaphore, IInv, Lifecycle, Moved
    <3>2. CASE q = p
      <4>1. Lifecycle(p)
        BY DEF IInv
      <4>2. CASE s < 3
        BY <1>1, <2>0, <2>3, <3>2, <4>1, <4>2 DEF CreateSemaphore, Lifecycle, Moved, Ring
      <4>3. CASE s = 3
        BY <1>1, <2>0, <2>3, <3>2, <4>1, <4>3 DEF CreateSemaphore, Lifecycle, Moved, Ring
      <4> QED
        BY <3>2, <4>2, <4>3 DEF Ring
    <3> QED
      BY <3>1, <3>2
  <2> QED
    BY <2>2, <2>4 DEF IInv
<1>2. CASE CreateThread(p, s)
  <2>0. Moved(p, s, "create", "join")
    BY <1>2, StepMoves DEF CreateThread, IInv, After
  <2>1. <<p, s>> \in Threads /\ pc[<<p, s>>] = "unborn"
    <3>1. Lifecycle(p) /\ s >= main[p][2] /\ main[p][1] = "create"
      BY <2>0 DEF IInv, Moved, Ring
    <3> QED
      BY <3>1 DEF Lifecycle, Threads
  <2>2. i[<<p, s>>] = 0
    BY <2>1 DEF IInv, RoundsOK
  <2>3. pc' \in [Threads -> {"unborn", "wait", "print", "release", "done"}] /\ RoundsOK'
    <3>1. /\ pc' \in [Threads -> {"unborn", "wait", "print", "release", "done"}]
          /\ pc'[<<p, s>>] = IF Rounds = 0 THEN "done" ELSE "wait"
          /\ \A t \in Threads : t # <<p, s>> => pc'[t] = pc[t]
          /\ i' = i
      BY <1>2, <2>1 DEF CreateThread, IInv, TypeOK
    <3>2. \A t \in Threads : t # <<p, s>> =>
            /\ pc'[t] = "unborn" => i[t] = 0
            /\ pc'[t] \in Looping => i[t] < Rounds
            /\ pc'[t] = "done" => i[t] = Rounds
      BY <3>1 DEF IInv, RoundsOK
    <3> QED
      BY <2>2, <3>1, <3>2 DEF RoundsOK, Looping
  <2>4. TypeOK'
    BY <1>2, <2>0, <2>3 DEF CreateThread, IInv, TypeOK, Moved
  <2>5. ASSUME NEW q \in Procs PROVE Lifecycle(q)'
    <3>1. \A k \in Ring : <<q, k>> # <<p, s>> => pc'[<<q, k>>] = pc[<<q, k>>]
      BY <1>2 DEF CreateThread, IInv, TypeOK, Threads
    <3>2. CASE q # p
      BY <1>2, <2>0, <3>1, <3>2 DEF CreateThread, IInv, Lifecycle, Moved
    <3>3. CASE q = p
      <4>1. Lifecycle(p)
        BY DEF IInv
      <4>2. pc'[<<p, s>>] # "unborn"
        BY <1>2, <2>1 DEF CreateThread, IInv, TypeOK
      <4>3. opened' = opened /\ \A k \in Ring : k # s => pc'[<<p, k>>] = pc[<<p, k>>]
        BY <1>2, <3>1 DEF CreateThread
      <4>4. CASE s < 3
        BY <2>0, <3>3, <4>1, <4>2, <4>3, <4>4 DEF Lifecycle, Moved, Ring
      <4>5. CASE s = 3
        BY <2>0, <3>3, <4>1, <4>2, <4>3, <4>5 DEF Lifecycle, Moved, Ring
      <4> QED
        BY <4>4, <4>5 DEF Ring
    <3> QED
      BY <3>2, <3>3
  <2> QED
    BY <2>3, <2>4, <2>5 DEF IInv
<1>3. CASE JoinThread(p, s)
  <2>0. Moved(p, s, "join", "close")
    BY <1>3, StepMoves DEF JoinThread, IInv, After
  <2>1. TypeOK' /\ RoundsOK'
    BY <1>3, <2>0 DEF JoinThread, IInv, TypeOK, RoundsOK, Moved
  <2>2. ASSUME NEW q \in Procs PROVE Lifecycle(q)'
    <3>1. CASE q # p
      BY <1>3, <2>0, <3>1 DEF JoinThread, IInv, Lifecycle, Moved
    <3>2. CASE q = p
      <4>1. Lifecycle(p)
        BY DEF IInv
      <4>2. CASE s < 3
        BY <1>3, <2>0, <3>2, <4>1, <4>2 DEF JoinThread, Lifecycle, Moved, Ring
      <4>3. CASE s = 3
        BY <1>3, <2>0, <3>2, <4>1, <4>3 DEF JoinThread, Lifecycle, Moved, Ring
      <4> QED
        BY <3>2, <4>2, <4>3 DEF Ring
    <3> QED
      BY <3>1, <3>2
  <2> QED
    BY <2>1, <2>2 DEF IInv
<1>4. CASE CloseSemaphore(p, s)
  <2>0. Moved(p, s, "close", "ended")
    BY <1>4, StepMoves DEF CloseSemaphore, IInv, After
  <2>1. opened' \in [Procs -> SUBSET Ring] /\ \A q \in Procs : q # p => opened'[q] = opened[q]
    BY <1>4 DEF CloseSemaphore, IInv, TypeOK
  <2>2. TypeOK' /\ RoundsOK'
    BY <1>4, <2>0, <2>1 DEF CloseSemaphore, IInv, TypeOK, RoundsOK, Moved
  <2>3. ASSUME NEW q \in Procs PROVE Lifecycle(q)'
    <3>1. CASE q # p
      BY <1>4, <2>0, <2>1, <3>1 DEF CloseSemaphore, IInv, Lifecycle, Moved
    <3>2. CASE q = p
      <4>1. Lifecycle(p)
        BY DEF IInv
      <4>2. CASE s < 3
        BY <1>4, <2>0, <3>2, <4>1, <4>2 DEF CloseSemaphore, Lifecycle, Moved, Ring
      <4>3. CASE s = 3
        BY <1>4, <2>0, <3>2, <4>1, <4>3 DEF CloseSemaphore, Lifecycle, Moved, Ring
      <4> QED
        BY <3>2, <4>2, <4>3 DEF Ring
    <3> QED
      BY <3>1, <3>2
  <2> QED
    BY <2>2, <2>3 DEF IInv
<1> QED
  BY <1>1, <1>2, <1>3, <1>4

LEMMA ThreadKeepsIInv ==
  ASSUME IInv, NEW t \in Threads, Thread(t)
  PROVE  IInv'
<1> USE RoundsAssumption
<1>1. t = <<t[1], t[2]>> /\ t[1] \in Procs /\ t[2] \in Ring /\ Succ(t[2]) \in Ring
  BY SuccType DEF Threads
<1>2. pc[t] \in Looping /\ i[t] < Rounds /\ i[t] \in 0..Rounds
  BY DEF Thread, Wait, PrintLetter, Release, ReleaseTo, Looping, IInv, RoundsOK, TypeOK
<1>3. TypeOK' /\ RoundsOK'
  <2>1. CASE Wait(t)
    BY <1>1, <2>1 DEF Wait, IInv, TypeOK, RoundsOK, Looping
  <2>2. CASE PrintLetter(t)
    <3>1. t[2] \in 0..3
      BY <1>1 DEF Ring
    <3> QED
      BY <2>2, <3>1 DEF PrintLetter, IInv, TypeOK, RoundsOK, Looping
  <2>3. CASE Release(t)
    <3>1. /\ count' \in [Ring -> 0..1]
          /\ refused' \in BOOLEAN
      BY <1>1, <2>3 DEF Release, ReleaseTo, IInv, TypeOK
    <3>2. /\ i' \in [Threads -> 0..Rounds]
          /\ i'[t] = i[t] + 1
      BY <1>2, <2>3 DEF Release, ReleaseTo, IInv, TypeOK
    <3>3. /\ pc' \in [Threads -> {"unborn", "wait", "print", "release", "done"}]
          /\ RoundsOK'
      BY <1>2, <2>3, <3>2 DEF Release, ReleaseTo, IInv, TypeOK, RoundsOK, Looping
    <3> QED
      BY <2>3, <3>1, <3>2, <3>3 DEF Release, ReleaseTo, IInv, TypeOK
  <2> QED
    BY <2>1, <2>2, <2>3 DEF Thread
<1>4. ASSUME NEW q \in Procs PROVE Lifecycle(q)'
  <2>1. UNCHANGED <<main, opened>>
    BY DEF Thread, Wait, PrintLetter, Release, ReleaseTo
  <2>2. ASSUME NEW k \in Ring
        PROVE  /\ pc[<<q, k>>] \in {"unborn", "done"} => pc'[<<q, k>>] = pc[<<q, k>>]
               /\ pc'[<<q, k>>] = "unborn" => pc[<<q, k>>] = "unborn"
    BY <1>2 DEF Thread, Wait, PrintLetter, Release, ReleaseTo, IInv, TypeOK, Looping, Threads
  <2> QED
    BY <2>1, <2>2 DEF IInv, Lifecycle
<1> QED
  BY <1>3, <1>4 DEF IInv

LEMMA IInvInvariant == Spec => []IInv
<1> USE RoundsAssumption
<1>1. Init => IInv
  <2> SUFFICES ASSUME Init PROVE IInv
    OBVIOUS
  <2>1. /\ count \in [Ring -> 0..1]
        /\ opened \in [Procs -> SUBSET Ring]
        /\ main \in [Procs -> Phases \X Ring]
    BY DEF Init, Ring, Phases
  <2>2. /\ pc \in [Threads -> {"unborn", "wait", "print", "release", "done"}]
        /\ i \in [Threads -> 0..Rounds]
    BY DEF Init
  <2>3. RoundsOK
    BY DEF Init, RoundsOK, Looping
  <2>4. \A p \in Procs : Lifecycle(p)
    BY DEF Init, Lifecycle, Threads, Ring
  <2> QED
    <3>1. refused \in BOOLEAN
      BY DEF Init
    <3>2. last \in 0..3
      BY DEF Init
    <3> QED
      BY <2>1, <2>2, <2>3, <2>4, <3>1, <3>2 DEF IInv, TypeOK
<1>2. IInv /\ [Next]_vars => IInv'
  <2> SUFFICES ASSUME IInv, [Next]_vars PROVE IInv'
    OBVIOUS
  <2>1. CASE UNCHANGED vars
    BY <2>1 DEF vars, IInv, TypeOK, RoundsOK, Lifecycle
  <2> QED
    BY <2>1, MainKeepsIInv, ThreadKeepsIInv DEF Next, Main
<1> QED
  BY <1>1, <1>2, PTL DEF Spec

(* Type correctness for any runs of the program: above all no semaphore    *)
(* counts below zero or above its maximum.                                 *)
THEOREM TypeCorrect == Spec => []TypeOK
<1>1. IInv => TypeOK
  BY DEF IInv
<1> QED
  BY <1>1, IInvInvariant, PTL

-----------------------------------------------------------------------------
(* The turn, for any runs of the program.  The semaphores belong to all    *)
(* runs, so where the turn is says how many releases all runs together     *)
(* have made at every place of the ring.                                   *)

(* The releases made by all the threads s: run and round. *)
Released(s) == {r \in Procs \X (1..Rounds) : r[2] <= i[<<r[1], s>>]}

N(s) == Cardinality(Released(s))

(* The turn is at place k: the places before k made one release more. *)
Tally(k) ==
  /\ N(1) = N(3) + (IF k = 1 THEN 0 ELSE 1)
  /\ N(2) = N(3) + (IF k = 3 THEN 1 ELSE 0)

(* No run has begun. *)
Fresh ==
  /\ \A p \in Procs : main[p] = <<"open", 1>>
  /\ \A s \in Ring : count[s] = 0
  /\ last = 0

(* The turn waits in semaphore k, and k is the letter to come. *)
Idle(k) ==
  /\ \A s \in Ring : count[s] = IF s = k THEN 1 ELSE 0
  /\ \A t \in Threads : ~WithThread(t)
  /\ k = Succ(last)

(* Thread t has the turn. *)
Held(t) ==
  /\ \A s \in Ring : count[s] = 0
  /\ WithThread(t)
  /\ \A u \in Threads : WithThread(u) => u = t
  /\ pc[t] = "print" => t[2] = Succ(last)
  /\ pc[t] = "release" => t[2] = last

TurnInv ==
  /\ ~refused
  /\ \A s \in Ring : IsFiniteSet(Released(s))
  /\ \/ Fresh
     \/ \E k \in Ring : Tally(k) /\ Idle(k)
     \/ \E t \in Threads : Tally(t[2]) /\ Held(t)

LEMMA FreshThreads ==
  ASSUME IInv, Fresh, NEW t \in Threads
  PROVE  pc[t] = "unborn" /\ opened[t[1]] = {}
<1>1. t = <<t[1], t[2]>> /\ t[1] \in Procs /\ t[2] \in Ring
  BY DEF Threads
<1>2. main[t[1]][1] = "open" /\ main[t[1]][2] = 1 /\ Lifecycle(t[1])
  BY <1>1 DEF Fresh, IInv
<1>3. pc[t] = "unborn" /\ \A k \in Ring : k \notin opened[t[1]]
  BY <1>1, <1>2 DEF Lifecycle, Ring
<1> QED
  BY <1>1, <1>3 DEF IInv, TypeOK

(* When a semaphore is not open anywhere no thread is in its loop, and the *)
(* three threads of every run have made as many rounds as each other.      *)
LEMMA AtRest ==
  ASSUME IInv, NEW s \in Ring, ~Exists(s)
  PROVE  /\ \A t \in Threads : ~WithThread(t)
         /\ Released(1) = Released(2) /\ Released(2) = Released(3)
<1>1. ASSUME NEW q \in Procs
      PROVE  \/ \A k \in Ring : pc[<<q, k>>] = "unborn"
             \/ \A k \in Ring : pc[<<q, k>>] = "done"
  <2>1. main[q][1] \notin {"create", "join"}
    BY DEF IInv, Lifecycle, Exists
  <2>2. main[q][1] \in Phases
    BY DEF IInv, TypeOK
  <2> QED
    BY <2>1, <2>2 DEF IInv, Lifecycle, Phases
<1>2. ASSUME NEW q \in Procs PROVE i[<<q, 1>>] = i[<<q, 2>>] /\ i[<<q, 2>>] = i[<<q, 3>>]
  <2>1. <<q, 1>> \in Threads /\ <<q, 2>> \in Threads /\ <<q, 3>> \in Threads
    BY DEF Threads, Ring
  <2> QED
    BY <1>1, <2>1 DEF IInv, RoundsOK, Ring
<1>3. Released(1) = Released(2) /\ Released(2) = Released(3)
  BY <1>2 DEF Released
<1>4. ASSUME NEW t \in Threads PROVE ~WithThread(t)
  <2>1. t = <<t[1], t[2]>> /\ t[1] \in Procs /\ t[2] \in Ring
    BY DEF Threads
  <2> QED
    BY <1>1, <2>1 DEF WithThread
<1> QED
  BY <1>3, <1>4

(* A semaphore that is made again is made with the count it had: at rest   *)
(* the turn is in the first semaphore, which is created signalled.         *)
LEMMA MadeAgain ==
  ASSUME IInv, TurnInv, NEW s \in Ring, ~Exists(s), ~Fresh
  PROVE  Tally(1) /\ Idle(1) /\ count[s] = InitialCount(s)
<1>1. (\A t \in Threads : ~WithThread(t)) /\ N(1) = N(2) /\ N(2) = N(3) /\ N(3) \in Nat
  BY AtRest, FS_CardinalityType DEF N, TurnInv, Ring
<1>2. PICK k \in Ring : Tally(k) /\ Idle(k)
  BY <1>1 DEF TurnInv, Held
<1>3. k = 1
  BY <1>1, <1>2 DEF Tally
<1> QED
  BY <1>2, <1>3 DEF Idle, InitialCount

LEMMA MainKeepsTurn ==
  ASSUME IInv, TurnInv, NEW p \in Procs, NEW s \in Ring,
         \/ CreateSemaphore(p, s) \/ CreateThread(p, s)
         \/ JoinThread(p, s) \/ CloseSemaphore(p, s)
  PROVE  TurnInv' /\ UNCHANGED last
<1>1. ~refused' /\ UNCHANGED <<i, refused, last>>
  BY DEF CreateSemaphore, CreateThread, JoinThread, CloseSemaphore, TurnInv
<1>2. ASSUME NEW t \in Threads
      PROVE  /\ pc'[t] = "print" <=> pc[t] = "print"
             /\ pc'[t] = "release" <=> pc[t] = "release"
  <2>1. CASE CreateThread(p, s)
    <3>1. Moved(p, s, "create", "join")
      BY <2>1, StepMoves DEF CreateThread, IInv, After
    <3>2. pc[<<p, s>>] = "unborn"
      <4>1. Lifecycle(p) /\ s >= main[p][2] /\ main[p][1] = "create"
        BY <3>1 DEF IInv, Moved, Ring
      <4> QED
        BY <4>1 DEF Lifecycle
    <3> QED
      BY <2>1, <3>2 DEF CreateThread, IInv, TypeOK
  <2>2. CASE ~CreateThread(p, s)
    BY <2>2 DEF CreateSemaphore, JoinThread, CloseSemaphore
  <2> QED
    BY <2>1, <2>2
<1>3. \A t \in Threads : WithThread(t)' <=> WithThread(t)
  BY <1>2 DEF WithThread
<1>4. \A k \in Ring : Released(k)' = Released(k) /\ N(k)' = N(k)
  BY <1>1 DEF Released, N
<1>5. \A k : Tally(k)' <=> Tally(k)
  BY <1>4 DEF Tally, Ring
<1>6. (\A k \in Ring : IsFiniteSet(Released(k)))'
  BY <1>4 DEF TurnInv
<1>7. CASE ~Fresh /\ UNCHANGED count
  <2>1. \A k \in Ring : Idle(k) => Idle(k)'
    BY <1>1, <1>3, <1>7 DEF Idle, Succ
  <2>2. \A t \in Threads : Held(t) => Held(t)'
    BY <1>1, <1>2, <1>3, <1>7 DEF Held, Succ
  <2>3. \/ \E k \in Ring : Tally(k) /\ Idle(k)
        \/ \E t \in Threads : Tally(t[2]) /\ Held(t)
    BY <1>7 DEF TurnInv
  <2>4. \/ \E k \in Ring : Tally(k)' /\ Idle(k)'
        \/ \E t \in Threads : Tally(t[2])' /\ Held(t)'
    BY <1>5, <2>1, <2>2, <2>3
  <2> QED
    BY <1>1, <1>6, <2>4 DEF TurnInv
<1>8. CASE ~Fresh /\ ~UNCHANGED count
  <2>1. CreateSemaphore(p, s)
    BY <1>8 DEF CreateThread, JoinThread, CloseSemaphore
  <2>2. count' = [count EXCEPT ![s] = count[s]]
    <3>1. CASE Exists(s)
      BY <2>1, <3>1 DEF CreateSemaphore
    <3>2. CASE ~Exists(s)
      BY <1>8, <2>1, <3>2, MadeAgain DEF CreateSemaphore
    <3> QED
      BY <3>1, <3>2
  <2> QED
    BY <1>8, <2>2 DEF IInv, TypeOK
<1>9. CASE Fresh
  <2>1. main[p] = <<"open", 1>>
    BY <1>9 DEF Fresh
  <2>2. CreateSemaphore(p, s) /\ s = 1
    BY <2>1 DEF CreateSemaphore, CreateThread, JoinThread, CloseSemaphore, Step
  <2>3. \A t \in Threads : opened[t[1]] = {}
    BY <1>9, FreshThreads
  <2>4. ~Exists(1)
    <3>1. \A q \in Procs : opened[q] = {}
      <4> TAKE q \in Procs
      <4>1. <<q, 1>> \in Threads /\ <<q, 1>>[1] = q
        BY DEF Threads, Ring
      <4> QED
        BY <2>3, <4>1
    <3> QED
      BY <3>1 DEF Exists
  <2>5. /\ \A t \in Threads : ~WithThread(t)
        /\ N(1) = N(2) /\ N(2) = N(3) /\ N(3) \in Nat
    BY <2>4, AtRest, FS_CardinalityType DEF N, TurnInv, Ring
  <2>6. Tally(1)'
    BY <1>5, <2>5 DEF Tally
  <2>7. \A r \in Ring : count'[r] = IF r = 1 THEN 1 ELSE 0
    BY <1>9, <2>2, <2>4 DEF CreateSemaphore, InitialCount, Fresh, IInv, TypeOK
  <2>8. Idle(1)'
    BY <1>1, <1>3, <1>9, <2>5, <2>7 DEF Idle, Succ, Fresh
  <2> QED
    BY <1>1, <1>6, <2>6, <2>8 DEF TurnInv, Ring
<1> QED
  BY <1>1, <1>7, <1>8, <1>9

(* A thread in its loop: the turn is in its semaphore when the wait        *)
(* returns, and with it until its release.                                 *)
LEMMA WhoHasTheTurn ==
  ASSUME IInv, TurnInv, NEW t \in Threads
  PROVE  /\ count[t[2]] > 0 => Tally(t[2]) /\ Idle(t[2])
         /\ WithThread(t) => Tally(t[2]) /\ Held(t)
<1>1. t[2] \in Ring
  BY DEF Threads
<1>2. count[t[2]] > 0 => Tally(t[2]) /\ Idle(t[2])
  <2> SUFFICES ASSUME count[t[2]] > 0 PROVE Tally(t[2]) /\ Idle(t[2])
    OBVIOUS
  <2>1. ~Fresh /\ \A u \in Threads : ~Held(u)
    BY <1>1 DEF Fresh, Held
  <2>2. PICK k \in Ring : Tally(k) /\ Idle(k)
    BY <2>1 DEF TurnInv
  <2>3. k = t[2]
    BY <1>1, <2>2 DEF Idle
  <2> QED
    BY <2>2, <2>3
<1>3. WithThread(t) => Tally(t[2]) /\ Held(t)
  <2> SUFFICES ASSUME WithThread(t) PROVE Tally(t[2]) /\ Held(t)
    OBVIOUS
  <2>1. ~Fresh
    BY FreshThreads DEF WithThread
  <2>2. PICK u \in Threads : Tally(u[2]) /\ Held(u)
    BY <2>1 DEF TurnInv, Idle
  <2>3. u = t
    BY <2>2 DEF Held
  <2> QED
    BY <2>2, <2>3
<1> QED
  BY <1>2, <1>3

(* One more release. *)
LEMMA ReleasedGrows ==
  ASSUME IInv, TurnInv, NEW t \in Threads, Release(t)
  PROVE  /\ \A s \in Ring : IsFiniteSet(Released(s))'
         /\ \A s \in Ring : N(s) \in Nat /\ N(s)' = IF s = t[2] THEN N(s) + 1 ELSE N(s)
<1>1. t = <<t[1], t[2]>> /\ t[1] \in Procs /\ t[2] \in Ring
  BY DEF Threads
<1>2. /\ i[t] \in 0..Rounds /\ i[t] < Rounds
      /\ i' = [i EXCEPT ![t] = i[t] + 1]
  BY DEF Release, ReleaseTo, IInv, TypeOK, RoundsOK, Looping
<1>3. \A u \in Threads : i[u] \in 0..Rounds /\ i'[u] = IF u = t THEN i[t] + 1 ELSE i[u]
  BY <1>2 DEF IInv, TypeOK
<1> DEFINE new == <<t[1], i[t] + 1>>
<1>4. new \notin Released(t[2])
  <2>1. new[2] = i[t] + 1 /\ i[<<new[1], t[2]>>] = i[t]
    BY <1>1
  <2> QED
    BY <1>2, <2>1, RoundsAssumption DEF Released
<1>5. Released(t[2])' = Released(t[2]) \cup {new}
  <2>1. new \in Procs \X (1..Rounds)
    BY <1>1, <1>2, RoundsAssumption
  <2>2. ASSUME NEW r \in Procs \X (1..Rounds)
        PROVE  r[2] <= i'[<<r[1], t[2]>>] <=> (r[2] <= i[<<r[1], t[2]>>] \/ r = new)
    <3>1. r = <<r[1], r[2]>> /\ r[1] \in Procs /\ r[2] \in 1..Rounds /\ <<r[1], t[2]>> \in Threads
      BY <1>1 DEF Threads
    <3>2. CASE r[1] = t[1]
      <4>1. <<r[1], t[2]>> = t /\ i'[t] = i[t] + 1 /\ (r = new <=> r[2] = i[t] + 1)
        BY <1>1, <1>3, <3>1, <3>2
      <4>2. i[t] \in Nat /\ r[2] \in Nat
        BY <1>2, <3>1, RoundsAssumption
      <4> HIDE DEF new
      <4> QED
        BY <4>1, <4>2
    <3>3. CASE r[1] # t[1]
      <4>1. <<r[1], t[2]>> # t /\ r # new
        BY <1>1, <3>1, <3>3
      <4> QED
        BY <1>3, <3>1, <4>1
    <3> QED
      BY <3>2, <3>3
  <2> HIDE DEF new
  <2>3. Released(t[2])' = {r \in Procs \X (1..Rounds) : r[2] <= i'[<<r[1], t[2]>>]}
    <3>1. t[2]' = t[2]
      OBVIOUS
    <3> QED
      BY DEF Released
  <2> QED
    BY <2>1, <2>2, <2>3 DEF Released
<1> HIDE DEF new
<1>6. ASSUME NEW s \in Ring, s # t[2] PROVE Released(s)' = Released(s)
  <2>1. ASSUME NEW r \in Procs \X (1..Rounds) PROVE i'[<<r[1], s>>] = i[<<r[1], s>>]
    BY <1>1, <1>3, <1>6 DEF Threads
  <2> QED
    BY <2>1 DEF Released
<1>7. ASSUME NEW s \in Ring
      PROVE  IsFiniteSet(Released(s))' /\ N(s) \in Nat /\ N(s)' = IF s = t[2] THEN N(s) + 1 ELSE N(s)
  <2>1. IsFiniteSet(Released(s)) /\ N(s) \in Nat
    BY FS_CardinalityType DEF TurnInv, N
  <2>2. CASE s = t[2]
    BY <1>4, <1>5, <2>1, <2>2, FS_AddElement DEF N
  <2>3. CASE s # t[2]
    BY <1>6, <2>1, <2>3 DEF N
  <2> QED
    BY <2>1, <2>2, <2>3
<1> QED
  BY <1>7

(* A step of a thread keeps the turn, and prints only the letter to come. *)
LEMMA ThreadKeepsTurn ==
  ASSUME IInv, TurnInv, NEW t \in Threads, Thread(t)
  PROVE  TurnInv' /\ [T!Next]_last
<1>1. t[2] \in Ring /\ Succ(t[2]) \in Ring /\ Succ(t[2]) # t[2]
  BY DEF Threads, Succ, Ring
<1>2. CASE Wait(t)
  <2>1. /\ pc[t] = "wait" /\ count[t[2]] > 0
        /\ count' = [count EXCEPT ![t[2]] = count[t[2]] - 1]
        /\ pc' = [pc EXCEPT ![t] = "print"]
        /\ UNCHANGED <<i, refused, last>>
    BY <1>2 DEF Wait
  <2>2. Tally(t[2]) /\ Idle(t[2])
    BY <2>1, WhoHasTheTurn
  <2>3. \A s \in Ring : count'[s] = 0
    BY <1>1, <2>1, <2>2 DEF Idle, IInv, TypeOK
  <2>4. pc'[t] = "print" /\ \A u \in Threads : WithThread(u)' => u = t
    BY <2>1, <2>2 DEF IInv, TypeOK, Idle, WithThread
  <2>5. t[2] = Succ(last)'
    BY <2>1, <2>2 DEF Idle, Succ
  <2>6. Held(t)'
    BY <2>3, <2>4, <2>5 DEF Held, WithThread
  <2>7. \A s \in Ring : Released(s)' = Released(s) /\ N(s)' = N(s)
    BY <2>1 DEF Released, N
  <2>8. Tally(t[2])'
    BY <2>2, <2>7 DEF Tally, Ring
  <2> QED
    BY <2>1, <2>6, <2>7, <2>8 DEF TurnInv
<1>3. CASE PrintLetter(t)
  <2>1. /\ pc[t] = "print" /\ last' = t[2]
        /\ pc' = [pc EXCEPT ![t] = "release"]
        /\ UNCHANGED <<count, i, refused>>
    BY <1>3 DEF PrintLetter
  <2>2. Tally(t[2]) /\ Held(t)
    BY <2>1, WhoHasTheTurn DEF WithThread
  <2>3. \A u \in Threads : WithThread(u)' <=> WithThread(u)
    BY <2>1 DEF IInv, TypeOK, WithThread
  <2>4. pc'[t] = "release"
    BY <2>1 DEF IInv, TypeOK
  <2>5. Held(t)'
    BY <2>1, <2>2, <2>3, <2>4 DEF Held
  <2>6. \A s \in Ring : Released(s)' = Released(s) /\ N(s)' = N(s)
    BY <2>1 DEF Released, N
  <2>7. Tally(t[2])'
    BY <2>2, <2>6 DEF Tally, Ring
  <2>8. t[2] = Succ(last)
    BY <2>1, <2>2 DEF Held
  <2>9. T!Next
    BY <1>1, <2>1, <2>8 DEF T!Next, T!PrintLetter, T!Ring, T!Succ, Ring, Succ
  <2> QED
    BY <2>1, <2>5, <2>6, <2>7, <2>9 DEF TurnInv
<1>4. CASE Release(t)
  <2>1. /\ pc[t] = "release" /\ last' = last
        /\ count' = [count EXCEPT ![Succ(t[2])] = 1]
        /\ refused' = (refused \/ count[Succ(t[2])] = 1)
        /\ pc'[t] \in {"wait", "done"}
        /\ \A u \in Threads : u # t => pc'[u] = pc[u]
    BY <1>4 DEF Release, ReleaseTo, IInv, TypeOK
  <2>2. Tally(t[2]) /\ Held(t)
    BY <2>1, WhoHasTheTurn DEF WithThread
  <2>3. ~refused'
    <3>1. count[Succ(t[2])] = 0
      BY <1>1, <2>2 DEF Held
    <3>2. ~(refused \/ count[Succ(t[2])] = 1)
      BY <3>1 DEF TurnInv
    <3>3. refused' = (refused \/ count[Succ(t[2])] = 1)
      BY <2>1
    <3> QED
      BY <3>2, <3>3, Zenon
  <2>4. \A s \in Ring : count'[s] = IF s = Succ(t[2]) THEN 1 ELSE 0
    BY <1>1, <2>1, <2>2 DEF Held, IInv, TypeOK
  <2>5. \A u \in Threads : ~WithThread(u)'
    BY <2>1, <2>2 DEF Held, WithThread
  <2>6. Succ(t[2]) = Succ(last)'
    BY <2>1, <2>2 DEF Held, Succ
  <2>7. Tally(Succ(t[2]))'
    <3>1. \A s \in Ring : N(s) \in Nat /\ N(s)' = IF s = t[2] THEN N(s) + 1 ELSE N(s)
      BY <1>4, ReleasedGrows
    <3>2. CASE t[2] = 1
      BY <2>2, <3>1, <3>2 DEF Tally, Succ, Ring
    <3>3. CASE t[2] = 2
      BY <2>2, <3>1, <3>3 DEF Tally, Succ, Ring
    <3>4. CASE t[2] = 3
      BY <2>2, <3>1, <3>4 DEF Tally, Succ, Ring
    <3> QED
      BY <1>1, <3>2, <3>3, <3>4 DEF Ring
  <2>8. Idle(Succ(t[2]))'
    BY <2>4, <2>5, <2>6 DEF Idle
  <2>9. \A s \in Ring : IsFiniteSet(Released(s))'
    BY <1>4, ReleasedGrows
  <2> QED
    BY <1>1, <2>1, <2>3, <2>7, <2>8, <2>9 DEF TurnInv
<1> QED
  BY <1>2, <1>3, <1>4 DEF Thread

LEMMA TurnInvariant == Spec => [](IInv /\ TurnInv)
<1>1. Init => TurnInv
  <2> SUFFICES ASSUME Init PROVE TurnInv
    OBVIOUS
  <2>1. ASSUME NEW s \in Ring PROVE Released(s) = {}
    BY RoundsAssumption DEF Init, Released, Threads
  <2>2. \A s \in Ring : IsFiniteSet(Released(s))
    BY <2>1, FS_EmptySet
  <2>3. Fresh
    BY DEF Init, Fresh
  <2> QED
    BY <2>2, <2>3 DEF TurnInv, Init
<1>2. IInv /\ TurnInv /\ [Next]_vars => TurnInv'
  <2> SUFFICES ASSUME IInv, TurnInv, [Next]_vars PROVE TurnInv'
    OBVIOUS
  <2>1. CASE UNCHANGED vars
    BY <2>1 DEF vars, TurnInv, Released, Fresh, Tally, N, Idle, Held, WithThread, Succ
  <2> QED
    BY <2>1, MainKeepsTurn, ThreadKeepsTurn DEF Next, Main
<1> QED
  BY <1>1, <1>2, IInvInvariant, PTL DEF Spec

(* However many runs of the program share the semaphores, and however they *)
(* overlap, there is one turn: in one semaphore or with one thread.        *)
THEOREM OneTurnAtATime == Spec => []OneTurn
<1>1. IInv /\ TurnInv => OneTurn
  <2> SUFFICES ASSUME IInv, TurnInv PROVE OneTurn
    OBVIOUS
  <2>1. ASSUME NEW s \in Ring, InSemaphore(s)
        PROVE  (\A r \in Ring : InSemaphore(r) => s = r) /\ \A t \in Threads : ~WithThread(t)
    <3>1. PICK k \in Ring : Idle(k)
      BY <2>1 DEF InSemaphore, TurnInv, Fresh, Held
    <3> QED
      BY <2>1, <3>1 DEF Idle, InSemaphore
  <2>2. ASSUME NEW t \in Threads, NEW u \in Threads, WithThread(t), WithThread(u)
        PROVE  t = u
    BY <2>2, WhoHasTheTurn DEF Held
  <2> QED
    BY <2>1, <2>2 DEF OneTurn
<1> QED
  BY <1>1, TurnInvariant, PTL

(* No release of any run is refused, and no run closes a semaphore that    *)
(* one of its threads may still use.                                       *)
THEOREM NoTurnIsLost == Spec => []NothingLost
<1>1. IInv /\ TurnInv => NothingLost
  <2> SUFFICES ASSUME IInv, TurnInv PROVE NothingLost
    OBVIOUS
  <2>1. ASSUME NEW t \in Threads, pc[t] \notin {"unborn", "done"} PROVE opened[t[1]] = Ring
    <3>1. t = <<t[1], t[2]>> /\ t[1] \in Procs /\ t[2] \in Ring /\ Lifecycle(t[1])
      BY DEF Threads, IInv
    <3>2. main[t[1]][1] \in {"create", "join"}
      <4>1. main[t[1]][1] \in Phases
        BY <3>1 DEF IInv, TypeOK
      <4> QED
        BY <2>1, <3>1, <4>1 DEF Lifecycle, Phases
    <3> QED
      BY <3>1, <3>2 DEF Lifecycle, IInv, TypeOK
  <2> QED
    BY <2>1 DEF NothingLost, TurnInv
<1> QED
  BY <1>1, TurnInvariant, PTL

-----------------------------------------------------------------------------
(* The turn is always where it is used.                                    *)

Working(p) == main[p][1] \in {"open", "create"} /\ main[p] # <<"open", 1>>

(* When a letter has no thread left that waits, all runs that have begun   *)
(* have released it as often as they ever will; the letter cannot have the *)
(* turn while another one's thread waits, which has released less.         *)
LEMMA TurnIsWanted ==
  ASSUME IInv, TurnInv, NEW w \in Threads, pc[w] = "wait",
         \A t \in Threads : ~WithThread(t), \A p \in Procs : ~Working(p)
  PROVE  \E t \in Threads : pc[t] = "wait" /\ count[t[2]] = 1
<1>1. PICK k \in Ring : Tally(k) /\ Idle(k)
  BY FreshThreads DEF TurnInv, Held
<1>2. count[k] = 1
  BY <1>1 DEF Idle
<1>3. SUFFICES ASSUME \A t \in Threads : t[2] = k => pc[t] # "wait"
               PROVE  FALSE
  BY <1>2
<1>4. ASSUME NEW q \in Procs, NEW r \in Ring
      PROVE  /\ i[<<q, r>>] \in Nat /\ i[<<q, k>>] \in Nat /\ i[<<q, r>>] <= i[<<q, k>>]
             /\ pc[<<q, r>>] = "wait" => i[<<q, k>>] = Rounds
  <2>1. <<q, r>> \in Threads /\ <<q, k>> \in Threads /\ <<q, k>>[2] = k
    BY DEF Threads
  <2>2. i[<<q, r>>] \in 0..Rounds /\ i[<<q, k>>] \in 0..Rounds
    BY <2>1 DEF IInv, TypeOK
  <2>3. Lifecycle(q) /\ main[q][1] \in Phases /\ main[q] = <<main[q][1], main[q][2]>>
    BY DEF IInv, TypeOK
  <2>4. CASE main[q][1] = "open"
    <3>1. pc[<<q, r>>] = "unborn" /\ pc[<<q, k>>] = "unborn"
      BY <2>3, <2>4 DEF Lifecycle
    <3> QED
      BY <2>1, <2>2, <3>1, RoundsAssumption DEF IInv, RoundsOK
  <2>5. CASE main[q][1] # "open"
    <3>1. main[q][1] \in {"join", "close", "ended"}
      BY <2>3, <2>5 DEF Working, Phases
    <3>2. pc[<<q, k>>] # "unborn"
      BY <2>3, <3>1 DEF Lifecycle
    <3>3. pc[<<q, k>>] = "done"
      BY <1>3, <2>1, <3>2 DEF IInv, TypeOK, WithThread
    <3> QED
      BY <2>1, <2>2, <3>3, RoundsAssumption DEF IInv, RoundsOK
  <2> QED
    BY <2>4, <2>5
<1>5. ASSUME NEW r \in Ring
      PROVE  /\ N(r) \in Nat /\ N(r) <= N(k)
             /\ N(r) = N(k) => Released(r) = Released(k)
  <2>1. ASSUME NEW x \in Released(r) PROVE x \in Released(k)
    <3>1. x[1] \in Procs /\ x[2] \in 1..Rounds /\ x[2] <= i[<<x[1], r>>] /\ x \in Procs \X (1..Rounds)
      BY <2>1 DEF Released
    <3>2. i[<<x[1], r>>] \in Nat /\ i[<<x[1], k>>] \in Nat /\ i[<<x[1], r>>] <= i[<<x[1], k>>]
      BY <1>4, <3>1
    <3>3. x[2] <= i[<<x[1], k>>]
      BY <3>1, <3>2, RoundsAssumption
    <3> QED
      BY <3>1, <3>3 DEF Released
  <2> QED
    BY <2>1, FS_Subset, FS_CardinalityType DEF N, TurnInv
<1>6. /\ N(1) \in Nat /\ N(2) \in Nat /\ N(3) \in Nat
      /\ N(1) <= N(k) /\ N(2) <= N(k) /\ N(3) <= N(k) /\ k \in {1, 2, 3}
  BY <1>5 DEF Ring
<1>7. N(1) = N(k) /\ N(2) = N(k) /\ N(3) = N(k)
  BY <1>1, <1>6 DEF Tally
<1>8. w = <<w[1], w[2]>> /\ w[1] \in Procs /\ w[2] \in Ring
  BY DEF Threads
<1>9. i[w] \in 0..Rounds /\ i[w] < Rounds
  BY DEF IInv, TypeOK, RoundsOK, Looping
<1>10. Released(w[2]) = Released(k)
  BY <1>5, <1>7, <1>8 DEF Ring
<1>11. <<w[1], Rounds>> \in Released(k)
  <2>1. i[<<w[1], k>>] = Rounds
    BY <1>4, <1>8
  <2>2. Rounds \in 1..Rounds
    BY <1>9, RoundsAssumption
  <2> QED
    BY <1>8, <2>1, <2>2 DEF Released
<1>12. Rounds <= i[w]
  BY <1>8, <1>10, <1>11 DEF Released
<1> QED
  BY <1>9, <1>12, RoundsAssumption

(* No set of runs ever comes to a standstill while a thread waits for its  *)
(* letter, for any number of rounds.                                       *)
THEOREM NobodyIsStuck == Spec => []SomebodyRuns
<1>1. IInv /\ TurnInv => SomebodyRuns
  BY TurnIsWanted DEF SomebodyRuns, Working
<1> QED
  BY <1>1, TurnInvariant, PTL

-----------------------------------------------------------------------------
(* All runs together print their letters in turn: the semaphores implement *)
(* Turns.                                                                  *)
THEOREM LettersTakeTurns == Spec => TakeTurns
<1>1. Init => T!Init
  BY DEF Init, T!Init
<1>2. IInv /\ TurnInv /\ [Next]_vars => [T!Next]_last
  <2> SUFFICES ASSUME IInv, TurnInv, [Next]_vars PROVE [T!Next]_last
    OBVIOUS
  <2>1. ASSUME NEW q \in Procs, Main(q) PROVE UNCHANGED last
    BY <2>1, MainKeepsTurn DEF Main
  <2> QED
    BY <2>1, ThreadKeepsTurn DEF Next, vars
<1> QED
  BY <1>1, <1>2, TurnInvariant, PTL DEF Spec, TakeTurns, T!Spec
=============================================================================

--------------------------- MODULE NcMonitorProofs ---------------------------
(***************************************************************************)
(* Proofs about NcMonitor, for any number of calling threads, check        *)
(* threads and routes.                                                     *)
(***************************************************************************)
EXTENDS NcMonitor, TLAPS

(* Type correctness: every field, call and thread of the monitor stays in  *)
(* its range.                                                              *)
THEOREM TypeCorrect == Spec => []TypeOK
<1>1. Init => TypeOK
  <2> SUFFICES ASSUME Init PROVE TypeOK
    OBVIOUS
  <2> USE DEF Init
  <2>1. /\ op \in [Callers -> Ops]
        /\ step \in [Callers -> Steps]
        /\ arg \in [Callers -> SUBSET Routes]
    BY DEF Ops, Steps
  <2>2. /\ pc \in [Checkers -> Pcs]
        /\ sysRoute \in [Checkers -> SUBSET Routes]
        /\ table \in [Checkers -> SUBSET Routes]
    BY DEF Pcs
  <2> QED
    BY <2>1, <2>2 DEF TypeOK
<1>2. TypeOK /\ [Next]_vars => TypeOK'
  <2> SUFFICES ASSUME TypeOK, [Next]_vars PROVE TypeOK'
    OBVIOUS
  <2> USE DEF TypeOK, Ops, Steps, fields, calls, threads, system
  <2>1. ASSUME NEW c \in Callers, Start(c) PROVE TypeOK'
    BY <2>1 DEF Start, Goto
  <2>2. ASSUME NEW c \in Callers, Stop(c) PROVE TypeOK'
    BY <2>2 DEF Stop, Goto
  <2>3. ASSUME NEW c \in Callers, UpdateRouteTable(c) PROVE TypeOK'
    BY <2>3 DEF UpdateRouteTable, Goto, Routes
  <2>4. ASSUME NEW c \in Callers, UpdateNetCardOptions(c) PROVE TypeOK'
    BY <2>4 DEF UpdateNetCardOptions, Goto, Routes
  <2>5. ASSUME NEW c \in Callers, ClearStopFlag(c) PROVE TypeOK'
    BY <2>5 DEF ClearStopFlag, Goto
  <2>6. ASSUME NEW c \in Callers, ClearSwitches(c) PROVE TypeOK'
    BY <2>6 DEF ClearSwitches, Goto
  <2>7. ASSUME NEW c \in Callers, BeginClearRoutes(c) PROVE TypeOK'
    BY <2>7 DEF BeginClearRoutes, BeginAccess, Goto
  <2>8. ASSUME NEW c \in Callers, EndClearRoutes(c) PROVE TypeOK'
    BY <2>8 DEF EndClearRoutes, Return, Goto
  <2>9. ASSUME NEW c \in Callers, Spawn(c) PROVE TypeOK'
    BY <2>9 DEF Spawn, Return, Goto, Pcs
  <2>10. ASSUME NEW c \in Callers, BeginInsert(c) PROVE TypeOK'
    BY <2>10 DEF BeginInsert, BeginAccess, Goto
  <2>11. ASSUME NEW c \in Callers, EndInsert(c) PROVE TypeOK'
    BY <2>11 DEF EndInsert, Goto
  <2>12. ASSUME NEW c \in Callers, SetSwitch(c) PROVE TypeOK'
    BY <2>12 DEF SetSwitch, Return, Goto
  <2>13. ASSUME NEW t \in Checkers, ThreadCheck(t) PROVE TypeOK'
    <3> USE DEF At, Pcs
    <3>1. CASE TakeMutex(t)
      BY <3>1 DEF TakeMutex
    <3>2. CASE BeginRound(t)
      BY <3>2 DEF BeginRound
    <3>3. CASE GetSysRouteTable(t)
      BY <3>3 DEF GetSysRouteTable
    <3>4. CASE BeginScan(t)
      BY <3>4 DEF BeginScan, BeginAccess
    <3>5. CASE EndScan(t)
      BY <3>5 DEF EndScan
    <3>6. CASE CheckCard(t)
      BY <3>6 DEF CheckCard
    <3>7. CASE RepairRoutes(t)
      BY <3>7 DEF RepairRoutes
    <3>8. CASE EndRound(t)
      BY <3>8 DEF EndRound
    <3> QED
      BY <2>13, <3>1, <3>2, <3>3, <3>4, <3>5, <3>6, <3>7, <3>8 DEF ThreadCheck
  <2>14. CASE Environment
    BY <2>14 DEF Environment, RouteLost, CardChanges, Crash
  <2>15. CASE UNCHANGED vars
    BY <2>15 DEF vars
  <2> QED
    BY <2>1, <2>2, <2>3, <2>4, <2>5, <2>6, <2>7, <2>8, <2>9, <2>10, <2>11, <2>12, <2>13,
       <2>14, <2>15 DEF Next, Call, Continue
<1> QED
  BY <1>1, <1>2, PTL DEF Spec

-----------------------------------------------------------------------------
(* The mutex is held exactly while a thread is in ThreadCheck's loop. *)
HeldInLoop ==
  /\ \A t \in Checkers : InLoop(t) => lock = {t}
  /\ lock # {} => \E t \in Checkers : InLoop(t)

LEMMA HeldInLoopInv == Spec => []HeldInLoop
<1>1. Init => HeldInLoop
  BY DEF Init, HeldInLoop, InLoop
<1>2. TypeOK /\ HeldInLoop /\ [Next]_vars => HeldInLoop'
  <2> SUFFICES ASSUME TypeOK, HeldInLoop, [Next]_vars PROVE HeldInLoop'
    OBVIOUS
  <2> USE DEF TypeOK, HeldInLoop, InLoop
  <2>1. ASSUME NEW t \in Checkers, ThreadCheck(t) PROVE HeldInLoop'
    BY <2>1 DEF ThreadCheck, At, Pcs, TakeMutex, BeginRound, GetSysRouteTable, BeginScan,
                EndScan, CheckCard, RepairRoutes, EndRound, threads
  <2>2. ASSUME NEW c \in Callers, Spawn(c) PROVE HeldInLoop'
    BY <2>2 DEF Spawn
  <2>3. CASE UNCHANGED <<lock, pc>>
    BY <2>3
  <2>4. ASSUME NEW c \in Callers, Call(c) \/ Continue(c), ~Spawn(c)
        PROVE  UNCHANGED <<lock, pc>>
    BY <2>4 DEF Call, Continue, Start, Stop, UpdateRouteTable, UpdateNetCardOptions,
                ClearStopFlag, ClearSwitches, BeginClearRoutes, EndClearRoutes, BeginInsert,
                EndInsert, SetSwitch, threads
  <2>5. ASSUME Environment \/ UNCHANGED vars PROVE UNCHANGED <<lock, pc>>
    BY <2>5 DEF Environment, RouteLost, CardChanges, Crash, vars, threads
  <2> QED
    BY <2>1, <2>2, <2>3, <2>4, <2>5 DEF Next
<1> QED
  BY <1>1, <1>2, TypeCorrect, PTL DEF Spec

(* Two check threads are never in the loop of ThreadCheck at once, however *)
(* often Start was called.                                                 *)
THEOREM MutualExclusion == Spec => []OneChecker
<1>1. HeldInLoop => OneChecker
  BY DEF HeldInLoop, OneChecker
<1> QED
  BY <1>1, HeldInLoopInv, PTL
-----------------------------------------------------------------------------
(* Which step belongs to which call, and what a card update inserts. *)
CallOK(c) ==
  /\ step[c] = "idle" => op[c] = "none"
  /\ step[c] \in {"flag", "switches", "routes", "clearing"} => op[c] \in {"Start", "Stop"}
  /\ step[c] = "spawn" => op[c] = "Start"
  /\ step[c] \in {"insert", "inserting"} => op[c] \in {"Table", "Card"}
  /\ op[c] = "Card" => arg[c] \subseteq CardRoutes

CallsOK == \A c \in Callers : CallOK(c)

(* What a step that is no caller's leaves alone. *)
LEMMA OthersKeepCalls ==
  ASSUME \/ \E t \in Checkers : ThreadCheck(t)
         \/ Environment
         \/ UNCHANGED vars
  PROVE  UNCHANGED <<fields, m_Route, calls>> /\ (raced => raced')
<1> USE DEF fields, calls
<1>1. ASSUME NEW t \in Checkers, ThreadCheck(t)
      PROVE  UNCHANGED <<fields, m_Route, calls>> /\ (raced => raced')
  <2>1. CASE TakeMutex(t) \/ BeginRound(t) \/ GetSysRouteTable(t)
    BY <2>1 DEF TakeMutex, BeginRound, GetSysRouteTable
  <2>2. CASE BeginScan(t)
    BY <2>2 DEF BeginScan, BeginAccess
  <2>3. CASE EndScan(t) \/ CheckCard(t)
    BY <2>3 DEF EndScan, CheckCard
  <2>4. CASE RepairRoutes(t) \/ EndRound(t)
    BY <2>4 DEF RepairRoutes, EndRound
  <2> QED
    BY <1>1, <2>1, <2>2, <2>3, <2>4 DEF ThreadCheck
<1>2. CASE Environment
  BY <1>2 DEF Environment, RouteLost, CardChanges, Crash
<1>3. CASE UNCHANGED vars
  BY <1>3 DEF vars
<1> QED
  BY <1>1, <1>2, <1>3

LEMMA CallsOKInv == Spec => []CallsOK
<1>1. Init => CallsOK
  BY DEF Init, CallsOK, CallOK
<1>2. TypeOK /\ CallsOK /\ [Next]_vars => CallsOK'
  <2> SUFFICES ASSUME TypeOK, CallsOK, [Next]_vars PROVE CallsOK'
    OBVIOUS
  <2>1. ASSUME NEW c \in Callers, Call(c) \/ Continue(c), NEW d \in Callers, d # c
        PROVE  op'[d] = op[d] /\ step'[d] = step[d] /\ arg'[d] = arg[d]
    BY <2>1 DEF TypeOK, Call, Continue, Start, Stop, UpdateRouteTable, UpdateNetCardOptions,
                ClearStopFlag, ClearSwitches, BeginClearRoutes, EndClearRoutes, Spawn,
                BeginInsert, EndInsert, SetSwitch, Return, Goto
  <2>2. ASSUME NEW c \in Callers, Call(c) PROVE CallOK(c)'
    BY <2>2 DEF TypeOK, CallsOK, CallOK, Call, Start, Stop, UpdateRouteTable,
                UpdateNetCardOptions, Goto
  <2>3. ASSUME NEW c \in Callers, Continue(c) PROVE CallOK(c)'
    <3> USE <2>3 DEF TypeOK, CallsOK, CallOK, Return, Goto
    <3>1. CASE ClearStopFlag(c) \/ ClearSwitches(c) \/ BeginClearRoutes(c)
      BY <3>1 DEF ClearStopFlag, ClearSwitches, BeginClearRoutes
    <3>2. CASE EndClearRoutes(c)
      BY <3>2 DEF EndClearRoutes
    <3>3. CASE Spawn(c)
      BY <3>3 DEF Spawn
    <3>4. CASE BeginInsert(c)
      BY <3>4 DEF BeginInsert
    <3>5. CASE EndInsert(c)
      BY <3>5 DEF EndInsert
    <3>6. CASE SetSwitch(c)
      BY <3>6 DEF SetSwitch
    <3> QED
      BY <3>1, <3>2, <3>3, <3>4, <3>5, <3>6 DEF Continue
  <2>4. ASSUME UNCHANGED calls PROVE CallsOK'
    BY <2>4 DEF CallsOK, CallOK, calls
  <2> QED
    <3>1. ASSUME NEW c \in Callers, Call(c) \/ Continue(c) PROVE CallsOK'
      BY <3>1, <2>1, <2>2, <2>3 DEF CallsOK, CallOK
    <3> QED
      BY <3>1, <2>4, OthersKeepCalls DEF Next
<1> QED
  BY <1>1, <1>2, TypeCorrect, PTL DEF Spec

-----------------------------------------------------------------------------
(* A check thread lives from its spawning until it leaves ThreadCheck. *)
Alive(t) == pc[t] \notin {"unborn", "done"}

(* A stop request is only ever pending between the two writes of a Stop. *)
StopPending == m_StopFlag => \E c \in Callers : op[c] = "Stop" /\ step[c] = "flag"

Watched == last = "Start" => StopUnderWay \/ \E t \in Checkers : Alive(t)

LEMMA WatchedInv == Spec => [](StopPending /\ Watched)
<1>1. Init => StopPending /\ Watched
  BY DEF Init, StopPending, Watched
<1>2. TypeOK /\ CallsOK /\ StopPending /\ Watched /\ [Next]_vars => (StopPending /\ Watched)'
  <2> SUFFICES ASSUME TypeOK, CallsOK, StopPending, Watched, [Next]_vars
               PROVE  (StopPending /\ Watched)'
    OBVIOUS
  <2> USE DEF StopPending, Watched, StopUnderWay, Alive, fields, calls, threads
  <2>1. ASSUME NEW c \in Callers, Call(c) PROVE (StopPending /\ Watched)'
    BY <2>1 DEF TypeOK, CallsOK, CallOK, Call, Start, Stop, UpdateRouteTable,
                UpdateNetCardOptions, Goto
  <2>2. ASSUME NEW c \in Callers, Continue(c) PROVE (StopPending /\ Watched)'
    <3> USE <2>2 DEF TypeOK, CallsOK, CallOK, Return, Goto
    <3>1. CASE ClearStopFlag(c) \/ ClearSwitches(c) \/ BeginClearRoutes(c)
      BY <3>1 DEF ClearStopFlag, ClearSwitches, BeginClearRoutes
    <3>2. CASE EndClearRoutes(c)
      BY <3>2 DEF EndClearRoutes
    <3>3. CASE Spawn(c)
      BY <3>3 DEF Spawn
    <3>4. CASE BeginInsert(c) \/ EndInsert(c)
      BY <3>4 DEF BeginInsert, EndInsert
    <3>5. CASE SetSwitch(c)
      BY <3>5 DEF SetSwitch
    <3> QED
      BY <3>1, <3>2, <3>3, <3>4, <3>5 DEF Continue
  <2>3. ASSUME NEW t \in Checkers, ThreadCheck(t) PROVE (StopPending /\ Watched)'
    <3>1. UNCHANGED <<m_StopFlag, op, step, last>>
      BY <2>3, OthersKeepCalls
    <3>2. CASE EndRound(t)
      BY <3>1, <3>2 DEF EndRound, At, TypeOK
    <3>3. CASE ~EndRound(t)
      <4>1. pc'[t] \notin {"unborn", "done"}
        BY <2>3, <3>3 DEF ThreadCheck, At, TypeOK, TakeMutex, BeginRound, GetSysRouteTable,
                          BeginScan, EndScan, CheckCard, RepairRoutes
      <4> QED
        BY <3>1, <4>1
    <3> QED
      BY <3>2, <3>3
  <2>4. CASE Environment \/ UNCHANGED vars
    <3>1. UNCHANGED <<m_StopFlag, op, step, last>>
      BY <2>4, OthersKeepCalls
    <3>2. UNCHANGED pc
      BY <2>4 DEF Environment, RouteLost, CardChanges, Crash, vars
    <3> QED
      BY <3>1, <3>2
  <2> QED
    BY <2>1, <2>2, <2>3, <2>4 DEF Next
<1> QED
  BY <1>1, <1>2, TypeCorrect, CallsOKInv, PTL DEF Spec

(* The thread Start spawned watches until a later Stop: an earlier stop    *)
(* request cannot reach it, because Start's Clear withdrew the request and *)
(* only a Stop that is still under way can have raised another; and if it  *)
(* waits for the mutex, another thread is in the loop or nobody holds it.  *)
THEOREM StartWatches == Spec => []StartedMeansWatched
<1>1. TypeOK /\ HeldInLoop /\ StopPending /\ Watched => StartedMeansWatched
  <2> SUFFICES ASSUME TypeOK, HeldInLoop, StopPending, Watched, last = "Start", ~StopUnderWay
               PROVE  /\ ~m_StopFlag
                      /\ \E t \in Checkers : InLoop(t) \/ (pc[t] = "lock" /\ lock = {})
    BY DEF StartedMeansWatched
  <2>1. ~m_StopFlag
    BY DEF StopPending, StopUnderWay
  <2>2. PICK t \in Checkers : Alive(t)
    BY DEF Watched
  <2>3. InLoop(t) \/ pc[t] = "lock"
    BY <2>2 DEF Alive, InLoop
  <2> QED
    BY <2>1, <2>3 DEF HeldInLoop
<1> QED
  BY <1>1, TypeCorrect, HeldInLoopInv, WatchedInv, PTL

-----------------------------------------------------------------------------
(* An issued route in the table whose check is switched off is on its way: *)
(* the update that inserted it has yet to turn the switch on, or the Clear *)
(* that turned it off has yet to empty the table.                          *)
IssuedInv ==
  ~raced /\ m_Route \cap TableRoutes # {} =>
    \/ m_bRouteCheckSwitch
    \/ \E c \in Callers : op[c] = "Table" /\ step[c] \in {"insert", "inserting"}
    \/ \E c \in Callers : step[c] \in {"routes", "clearing"}

LEMMA IssuedInvariant == Spec => []IssuedInv
<1>1. Init => IssuedInv
  BY DEF Init, IssuedInv
<1>2. TypeOK /\ CallsOK /\ IssuedInv /\ [Next]_vars => IssuedInv'
  <2> SUFFICES ASSUME TypeOK, CallsOK, IssuedInv, [Next]_vars PROVE IssuedInv'
    OBVIOUS
  <2> USE DEF IssuedInv, fields, calls
  <2>1. ASSUME NEW c \in Callers, Call(c) PROVE IssuedInv'
    BY <2>1 DEF TypeOK, CallsOK, CallOK, Call, Start, Stop, UpdateRouteTable,
                UpdateNetCardOptions, Goto
  <2>2. ASSUME NEW c \in Callers, Continue(c) PROVE IssuedInv'
    <3> USE <2>2 DEF TypeOK, CallsOK, CallOK, Return, Goto
    <3>1. CASE ClearStopFlag(c)
      BY <3>1 DEF ClearStopFlag
    <3>2. CASE ClearSwitches(c)
      BY <3>2 DEF ClearSwitches
    <3>3. CASE BeginClearRoutes(c)
      BY <3>3 DEF BeginClearRoutes, BeginAccess
    <3>4. CASE EndClearRoutes(c)
      BY <3>4 DEF EndClearRoutes
    <3>5. CASE Spawn(c)
      BY <3>5 DEF Spawn
    <3>6. CASE BeginInsert(c)
      BY <3>6 DEF BeginInsert, BeginAccess
    <3>7. CASE EndInsert(c)
      <4>1. PICK r \in arg[c] : m_Route' \in {m_Route \cup {r}} \cup (IF raced THEN {m_Route} ELSE {})
        BY <3>7 DEF EndInsert
      <4>2. /\ UNCHANGED <<m_bRouteCheckSwitch, raced, op>>
            /\ step' = [step EXCEPT ![c] = "insert"]
            /\ step[c] = "inserting"
        BY <3>7 DEF EndInsert
      <4>3. CASE op[c] = "Table"
        BY <4>2, <4>3
      <4>4. CASE op[c] = "Card"
        <5>1. r \notin TableRoutes
          BY <4>1, <4>4, RoutesAssumption
        <5>2. ~raced => m_Route' \cap TableRoutes = m_Route \cap TableRoutes
          BY <4>1, <5>1
        <5> QED
          BY <4>2, <5>2
      <4> QED
        BY <4>2, <4>3, <4>4
    <3>8. CASE SetSwitch(c)
      BY <3>8 DEF SetSwitch
    <3> QED
      BY <3>1, <3>2, <3>3, <3>4, <3>5, <3>6, <3>7, <3>8 DEF Continue
  <2>3. ASSUME \/ \E t \in Checkers : ThreadCheck(t)
               \/ Environment
               \/ UNCHANGED vars
        PROVE  IssuedInv'
    BY <2>3, OthersKeepCalls
  <2> QED
    BY <2>1, <2>2, <2>3 DEF Next
<1> QED
  BY <1>1, <1>2, TypeCorrect, CallsOKInv, PTL DEF Spec

(* No issued route is left in the table with its check switched off, for   *)
(* any number of threads in Start, Stop and the Update functions.          *)
THEOREM IssuedChecked == Spec => []IssuedRoutesAreChecked
<1>1. CallsOK /\ IssuedInv => IssuedRoutesAreChecked
  BY DEF IssuedInv, IssuedRoutesAreChecked, CallsOK, CallOK
<1> QED
  BY <1>1, CallsOKInv, IssuedInvariant, PTL
=============================================================================

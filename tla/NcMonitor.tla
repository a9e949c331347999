------------------------------ MODULE NcMonitor ------------------------------
(***************************************************************************)
(* The route monitor of NcDetection (class NcMonitor, NcQuery.h:224 and    *)
(* NcQuery.cpp:458-783).  Start clears the configuration and detaches a    *)
(* thread that runs ThreadCheck; Stop raises m_StopFlag and clears; the    *)
(* Update calls record the routes that were issued to the VNIC.  A check   *)
(* thread holds g_mutex_mointor_thread for its whole life and, every ten   *)
(* seconds, has the issued routes the system lost added again.             *)
(*                                                                         *)
(* Nothing but that mutex synchronises the check threads with the threads  *)
(* that call Start, Stop and Update, and they do not take it: a call is a  *)
(* sequence of steps here, one per shared field, and a library call on     *)
(* m_Route has a beginning and an end.  Two overlapping ones are a data    *)
(* race on an unordered_set, whose outcome is left open (raced).           *)
(*                                                                         *)
(* The instance is there from the beginning.  GetInstance makes it at the  *)
(* first call, with no lock (:458-468): two first calls at once can make   *)
(* two monitors, and what follows holds for each of them.                  *)
(***************************************************************************)
EXTENDS Naturals, FiniteSets

CONSTANTS Callers,      \* threads that call Start, Stop and the Update functions
          Checkers,     \* identities of ThreadCheck threads; bounds the calls of Start
          TableRoutes,  \* routes UpdateRouteTable issues
          CardRoutes    \* virtual-ip routes UpdateNetCardOptions issues

ASSUME RoutesAssumption == TableRoutes \cap CardRoutes = {}

Routes == TableRoutes \cup CardRoutes

VARIABLES
  m_StopFlag, m_bRouteCheckSwitch, m_bNetCardCheckSwitch, m_Route,
  lock,      \* holder of g_mutex_mointor_thread: {} or a singleton
  op,        \* the call each caller is in
  step,      \* how far that call has come
  arg,       \* the routes an Update call has still to insert
  pc,        \* where each check thread is in ThreadCheck
  sysRoute,  \* what GetSysRouteTable gave the thread
  table,     \* the missing routes checkRoute gave the thread
  sysTable,  \* the system's forwarding table, restricted to Routes
  cardUp,    \* is a VNIC connected?
  raced,     \* two accesses to m_Route have overlapped
  crashed,   \* the process died of it
  last       \* history: the last of Start and Stop to return

fields  == <<m_StopFlag, m_bRouteCheckSwitch, m_bNetCardCheckSwitch>>
calls   == <<op, step, arg, last>>
threads == <<lock, pc, sysRoute, table>>
system  == <<sysTable, cardUp>>
vars    == <<fields, m_Route, calls, threads, system, raced, crashed>>

Ops   == {"none", "Start", "Stop", "Table", "Card"}
Steps == {"idle", "flag", "switches", "routes", "clearing", "spawn", "insert", "inserting"}
Pcs   == {"unborn", "lock", "round", "check", "listed", "scanning", "card", "repair",
          "sleep", "done"}

TypeOK ==
  /\ m_StopFlag \in BOOLEAN
  /\ m_bRouteCheckSwitch \in BOOLEAN
  /\ m_bNetCardCheckSwitch \in BOOLEAN
  /\ m_Route \in SUBSET Routes
  /\ lock \in SUBSET Checkers
  /\ op \in [Callers -> Ops]
  /\ step \in [Callers -> Steps]
  /\ arg \in [Callers -> SUBSET Routes]
  /\ pc \in [Checkers -> Pcs]
  /\ sysRoute \in [Checkers -> SUBSET Routes]
  /\ table \in [Checkers -> SUBSET Routes]
  /\ sysTable \in SUBSET Routes
  /\ cardUp \in BOOLEAN
  /\ raced \in BOOLEAN
  /\ crashed \in BOOLEAN
  /\ last \in {"none", "Start", "Stop"}

(* A fresh NcMonitor: the member initialisers of NcQuery.h:304-317. *)
Init ==
  /\ m_StopFlag = FALSE
  /\ m_bRouteCheckSwitch = FALSE
  /\ m_bNetCardCheckSwitch = FALSE
  /\ m_Route = {}
  /\ lock = {}
  /\ op = [c \in Callers |-> "none"]
  /\ step = [c \in Callers |-> "idle"]
  /\ arg = [c \in Callers |-> {}]
  /\ pc = [t \in Checkers |-> "unborn"]
  /\ sysRoute = [t \in Checkers |-> {}]
  /\ table = [t \in Checkers |-> {}]
  /\ sysTable \in SUBSET Routes
  /\ cardUp \in BOOLEAN
  /\ raced = FALSE
  /\ crashed = FALSE
  /\ last = "none"

-----------------------------------------------------------------------------
(* Library calls on m_Route that are under way.  Every one but the check   *)
(* thread's iteration writes, and only one thread iterates, so any two of  *)
(* them conflict.                                                          *)
Accessing ==
  {c \in Callers : step[c] \in {"clearing", "inserting"}}
    \cup {t \in Checkers : pc[t] = "scanning"}

BeginAccess == raced' = (raced \/ Accessing # {})

Goto(c, s) == step' = [step EXCEPT ![c] = s]

Return(c) == Goto(c, "idle") /\ op' = [op EXCEPT ![c] = "none"]

-----------------------------------------------------------------------------
(* The callers.                                                            *)

(* Enough thread identities are left for every Start under way. *)
CanStart == Cardinality({t \in Checkers : pc[t] = "unborn"})
              > Cardinality({c \in Callers : op[c] = "Start"})

Start(c) ==
  /\ step[c] = "idle"
  /\ CanStart
  /\ op' = [op EXCEPT ![c] = "Start"]
  /\ Goto(c, "flag")
  /\ UNCHANGED <<fields, m_Route, arg, last, threads, system, raced, crashed>>

Stop(c) ==
  /\ step[c] = "idle"
  /\ m_StopFlag' = TRUE
  /\ op' = [op EXCEPT ![c] = "Stop"]
  /\ Goto(c, "flag")
  /\ UNCHANGED <<m_bRouteCheckSwitch, m_bNetCardCheckSwitch, m_Route, arg, last, threads,
                 system, raced, crashed>>

(* Clear, which Start and Stop both call: the fields in their order. *)

(* Mutant of ClearStopFlag: the stop request of an earlier Stop stays. *)
ClearStopFlagStuck(c) ==
  /\ step[c] = "flag"
  /\ Goto(c, "switches")
  /\ UNCHANGED <<fields, m_Route, op, arg, last, threads, system, raced, crashed>>

ClearStopFlag(c) ==
  /\ step[c] = "flag"
  /\ m_StopFlag' = FALSE
  /\ Goto(c, "switches")
  /\ UNCHANGED <<m_bRouteCheckSwitch, m_bNetCardCheckSwitch, m_Route, op, arg, last, threads,
                 system, raced, crashed>>

ClearSwitches(c) ==
  /\ step[c] = "switches"
  /\ m_bNetCardCheckSwitch' = FALSE
  /\ m_bRouteCheckSwitch' = FALSE
  /\ Goto(c, "routes")
  /\ UNCHANGED <<m_StopFlag, m_Route, op, arg, last, threads, system, raced, crashed>>

BeginClearRoutes(c) ==
  /\ step[c] = "routes"
  /\ Goto(c, "clearing")
  /\ BeginAccess
  /\ UNCHANGED <<fields, m_Route, op, arg, last, threads, system, crashed>>

(* After a race the set may keep any of its nodes. *)
EndClearRoutes(c) ==
  /\ step[c] = "clearing"
  /\ m_Route' \in (IF raced THEN SUBSET m_Route ELSE {{}})
  /\ IF op[c] = "Start"
     THEN Goto(c, "spawn") /\ UNCHANGED <<op, last>>
     ELSE Return(c) /\ last' = "Stop"
  /\ UNCHANGED <<fields, arg, threads, system, raced, crashed>>

(* The last two lines of Start: construct the thread and detach it. *)
Spawn(c) ==
  /\ step[c] = "spawn"
  /\ \E t \in Checkers : pc[t] = "unborn" /\ pc' = [pc EXCEPT ![t] = "lock"]
  /\ Return(c)
  /\ last' = "Start"
  /\ UNCHANGED <<fields, m_Route, arg, lock, sysRoute, table, system, raced, crashed>>

(* A table that does not parse, or is no array, issues no route. *)
UpdateRouteTable(c) ==
  /\ step[c] = "idle"
  /\ \E S \in SUBSET TableRoutes : arg' = [arg EXCEPT ![c] = S]
  /\ op' = [op EXCEPT ![c] = "Table"]
  /\ Goto(c, "insert")
  /\ UNCHANGED <<fields, m_Route, last, threads, system, raced, crashed>>

UpdateNetCardOptions(c) ==
  /\ step[c] = "idle"
  /\ \E r \in CardRoutes : arg' = [arg EXCEPT ![c] = {r}]
  /\ op' = [op EXCEPT ![c] = "Card"]
  /\ Goto(c, "insert")
  /\ UNCHANGED <<fields, m_Route, last, threads, system, raced, crashed>>

BeginInsert(c) ==
  /\ step[c] = "insert"
  /\ arg[c] # {}
  /\ Goto(c, "inserting")
  /\ BeginAccess
  /\ UNCHANGED <<fields, m_Route, op, arg, last, threads, system, crashed>>

(* After a race the node may be lost. *)
EndInsert(c) ==
  /\ step[c] = "inserting"
  /\ \E r \in arg[c] :
       /\ m_Route' \in {m_Route \cup {r}} \cup (IF raced THEN {m_Route} ELSE {})
       /\ arg' = [arg EXCEPT ![c] = @ \ {r}]
  /\ Goto(c, "insert")
  /\ UNCHANGED <<fields, op, last, threads, system, raced, crashed>>

(* Mutant of SetSwitch: both Update functions turn the card switch on. *)
SetSwitchCopied(c) ==
  /\ step[c] = "insert"
  /\ arg[c] = {}
  /\ m_bNetCardCheckSwitch' = TRUE
  /\ Return(c)
  /\ UNCHANGED <<m_StopFlag, m_bRouteCheckSwitch, m_Route, arg, last, threads, system, raced,
                 crashed>>

(* The switch comes after the routes. *)
SetSwitch(c) ==
  /\ step[c] = "insert"
  /\ arg[c] = {}
  /\ m_bRouteCheckSwitch' = (m_bRouteCheckSwitch \/ op[c] = "Table")
  /\ m_bNetCardCheckSwitch' = (m_bNetCardCheckSwitch \/ op[c] = "Card")
  /\ Return(c)
  /\ UNCHANGED <<m_StopFlag, m_Route, arg, last, threads, system, raced, crashed>>

-----------------------------------------------------------------------------
(* A check thread.                                                         *)

At(t, from, to) == pc[t] = from /\ pc' = [pc EXCEPT ![t] = to]

(* Mutant of TakeMutex: no lock_guard. *)
TakeNoMutex(t) ==
  /\ At(t, "lock", "round")
  /\ lock' = {t}
  /\ UNCHANGED <<fields, m_Route, calls, sysRoute, table, system, raced, crashed>>

TakeMutex(t) ==
  /\ At(t, "lock", "round")
  /\ lock = {}
  /\ lock' = {t}
  /\ UNCHANGED <<fields, m_Route, calls, sysRoute, table, system, raced, crashed>>

(* checkCardOptions is a stub that returns true, so the card switch leads  *)
(* nowhere; the route switch is read after it.                             *)
BeginRound(t) ==
  /\ At(t, "round", IF m_bRouteCheckSwitch THEN "check" ELSE "sleep")
  /\ UNCHANGED <<fields, m_Route, calls, lock, sysRoute, table, system, raced, crashed>>

(* An empty m_Route is correct.  GetSysRouteTable returns true with an     *)
(* empty set when its second GetIpForwardTable fails.                      *)
GetSysRouteTable(t) ==
  /\ At(t, "check", IF m_Route = {} THEN "sleep" ELSE "listed")
  /\ \E S \in {sysTable, {}} :
       sysRoute' = [sysRoute EXCEPT ![t] = IF m_Route = {} THEN @ ELSE S]
  /\ UNCHANGED <<fields, m_Route, calls, lock, table, system, raced, crashed>>

BeginScan(t) ==
  /\ At(t, "listed", "scanning")
  /\ BeginAccess
  /\ UNCHANGED <<fields, m_Route, calls, lock, sysRoute, table, system, crashed>>

(* Iterating a set another thread changed yields anything. *)
EndScan(t) ==
  /\ \E missing \in (IF raced THEN SUBSET Routes ELSE {m_Route \ sysRoute[t]}) :
       /\ At(t, "scanning", IF missing = {} THEN "sleep" ELSE "card")
       /\ table' = [table EXCEPT ![t] = missing]
  /\ sysRoute' = [sysRoute EXCEPT ![t] = {}]
  /\ UNCHANGED <<fields, m_Route, calls, lock, system, raced, crashed>>

(* Mutant of CheckCard: returns where the code continues. *)
CheckCardGivesUp(t) ==
  /\ At(t, "card", IF cardUp THEN "repair" ELSE "done")
  /\ lock' = IF cardUp THEN lock ELSE {}
  /\ UNCHANGED <<fields, m_Route, calls, sysRoute, table, system, raced, crashed>>

(* Without a connected VNIC: sleep 30 s, then `continue`, which goes to    *)
(* the loop's condition like the end of a round.                           *)
CheckCard(t) ==
  /\ At(t, "card", IF cardUp THEN "repair" ELSE "sleep")
  /\ table' = [table EXCEPT ![t] = IF cardUp THEN @ ELSE {}]
  /\ UNCHANGED <<fields, m_Route, calls, lock, sysRoute, system, raced, crashed>>

(* HandleEventRouteAdd succeeds or fails; ThreadCheck only logs which. *)
RepairRoutes(t) ==
  /\ At(t, "repair", "sleep")
  /\ sysTable' \in {sysTable \cup table[t], sysTable}
  /\ table' = [table EXCEPT ![t] = {}]
  /\ UNCHANGED <<fields, m_Route, calls, lock, sysRoute, cardUp, raced, crashed>>

(* while (!m_StopFlag); leaving ThreadCheck releases the lock_guard. *)
EndRound(t) ==
  /\ At(t, "sleep", IF m_StopFlag THEN "done" ELSE "round")
  /\ lock' = IF m_StopFlag THEN {} ELSE lock
  /\ UNCHANGED <<fields, m_Route, calls, sysRoute, table, system, raced, crashed>>

-----------------------------------------------------------------------------
(* The environment.                                                        *)

RouteLost(r) ==
  /\ r \in sysTable
  /\ sysTable' = sysTable \ {r}
  /\ UNCHANGED <<fields, m_Route, calls, threads, cardUp, raced, crashed>>

CardChanges ==
  /\ cardUp' = ~cardUp
  /\ UNCHANGED <<fields, m_Route, calls, threads, sysTable, raced, crashed>>

Crash ==
  /\ raced
  /\ crashed' = TRUE
  /\ UNCHANGED <<fields, m_Route, calls, threads, system, raced>>

-----------------------------------------------------------------------------
Call(c) == Start(c) \/ Stop(c) \/ UpdateRouteTable(c) \/ UpdateNetCardOptions(c)

Continue(c) ==
  \/ ClearStopFlag(c) \/ ClearSwitches(c) \/ BeginClearRoutes(c) \/ EndClearRoutes(c)
  \/ Spawn(c) \/ BeginInsert(c) \/ EndInsert(c) \/ SetSwitch(c)

ThreadCheck(t) ==
  \/ TakeMutex(t) \/ BeginRound(t) \/ GetSysRouteTable(t) \/ BeginScan(t) \/ EndScan(t)
  \/ CheckCard(t) \/ RepairRoutes(t) \/ EndRound(t)

Environment == (\E r \in Routes : RouteLost(r)) \/ CardChanges \/ Crash

Next ==
  /\ ~crashed
  /\ \/ \E c \in Callers : Call(c) \/ Continue(c)
     \/ \E t \in Checkers : ThreadCheck(t)
     \/ Environment

Spec == Init /\ [][Next]_vars

(* The scheduler runs every thread that can run: a call once made goes on, *)
(* a check thread goes on.  Nobody has to call, and the environment is     *)
(* free.                                                                   *)
Fairness ==
  /\ \A c \in Callers : WF_vars(~crashed /\ Continue(c))
  /\ \A t \in Checkers : WF_vars(~crashed /\ ThreadCheck(t))

FairSpec == Spec /\ Fairness

-----------------------------------------------------------------------------
InLoop(t) == pc[t] \notin {"unborn", "lock", "done"}

StopUnderWay == \E c \in Callers : op[c] = "Stop"

(* Two threads left behind by repeated Starts never check and repair at    *)
(* the same time: the mutex ThreadCheck takes before its loop.             *)
OneChecker == \A t, u \in Checkers : InLoop(t) /\ InLoop(u) => t = u

(* When Start was the last control call to return and no Stop is under     *)
(* way, the routes are watched: no stop request is pending, and some check *)
(* thread is in its loop or free to enter it.  So the new thread never     *)
(* sees the stop request of an earlier Stop, and no thread that ended left *)
(* the mutex locked, whichever calls overlapped.                           *)
StartedMeansWatched ==
  last = "Start" /\ ~StopUnderWay =>
    /\ ~m_StopFlag
    /\ \E t \in Checkers : InLoop(t) \/ (pc[t] = "lock" /\ lock = {})

(* A route recorded by UpdateRouteTable is never left unchecked: whenever  *)
(* no call is under way, the switch that makes ThreadCheck look at m_Route *)
(* is on.  It rests on the order of the writes: Clear resets the switch    *)
(* before the table, UpdateRouteTable sets it after the table.             *)
IssuedRoutesAreChecked ==
  /\ ~raced
  /\ \A c \in Callers : step[c] = "idle"
  /\ m_Route \cap TableRoutes # {}
  => m_bRouteCheckSwitch

(* Started, nobody in a control call, r issued and checked, a VNIC there. *)
Watching(r) ==
  /\ last = "Start"
  /\ \A c \in Callers : op[c] \notin {"Start", "Stop"}
  /\ m_bRouteCheckSwitch
  /\ r \in m_Route
  /\ cardUp
  /\ ~raced

(* While the monitor is started and a VNIC is connected, an issued route   *)
(* is again and again either in the system's table or about to be handed   *)
(* to HandleEventRouteAdd: the check thread never stops trying.            *)
RepairGoesOn ==
  \A r \in Routes :
    <>[]Watching(r) =>
      []<>(r \in sysTable \/ \E t \in Checkers : pc[t] = "repair" /\ r \in table[t])

(* NcQuery.h:238 says of Stop "stops the monitor thread": once Stop was    *)
(* the last control call to return, no check thread is left, or someone    *)
(* calls Start.                                                            *)
Stopped == last = "Stop" /\ \A c \in Callers : op[c] \notin {"Start", "Stop"}
StopStopsTheThread ==
  Stopped ~> (~Stopped \/ crashed \/ \A t \in Checkers : ~InLoop(t))
=============================================================================

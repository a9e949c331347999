------------------------------ MODULE NcStatus ------------------------------
(***************************************************************************)
(* The status reports of NcDetection (class NcQuery and the functions NCQ, *)
(* NcQuery.h:107-179, NcQuery.cpp:94-402), the recovery events they lead   *)
(* to (NcRecoveryEvent, NcQuery.cpp:404-456, 655-717), and the route       *)
(* monitor at the end of that line, an instance of NcMonitor.              *)
(*                                                                         *)
(* A report is a call that writes to the record of a module, to the master *)
(* status and to the status service, and then calls the registered         *)
(* handler.  What it writes is the same in all of them, the order is not:  *)
(* each function is the sequence of its writes.  A field holds the number  *)
(* of the report that wrote it; 0 is the constructor's Init.               *)
(*                                                                         *)
(* Nothing is locked.  Two calls into the NcQuery at once (mixed) race on  *)
(* a map and on strings, as two accesses to the monitor's set do (raced).  *)
(* What follows such a race is undefined, and the model ends there.        *)
(***************************************************************************)
EXTENDS Integers, FiniteSets, Sequences

CONSTANTS Threads,      \* threads that report and that start and stop the monitor
          Checkers,     \* identities of ThreadCheck threads
          TableRoutes,  \* routes a route table issues
          CardRoutes,   \* addresses the options of the card issue
          Codes,        \* status codes that are reported
          MaxReports    \* bounds the calls into the NcQuery

ASSUME ReportsAssumption == MaxReports \in Nat /\ Codes \subseteq Nat
ASSUME RoutesAssumption == TableRoutes \cap CardRoutes = {}

VARIABLES
  m_mapStatus,     \* module -> field -> the report that wrote it
  master,          \* m_nErrCode, m_state and the report m_Msg is from
  m_recoverHandle, \* is RecoverEvent registered?
  service,         \* module -> the report the status service heard last (external)
  reports,         \* all calls so far; the number of a report is its place
  cur,             \* the report each thread is making, or none
  todo,            \* the writes it has still to do
  mixed,           \* two calls into the NcQuery have overlapped
  delivered        \* history: table reports that found the monitor listening, and
                   \* were followed by no Start and no Stop

VARIABLES m_StopFlag, m_bRouteCheckSwitch, m_bNetCardCheckSwitch, m_Route, lock, op, step,
          arg, pc, sysRoute, table, sysTable, cardUp, raced, crashed, last

Mon == INSTANCE NcMonitor WITH Callers <- Threads

query   == <<m_mapStatus, master, service>>
calls   == <<reports, cur, todo, mixed>>
monitor == <<m_StopFlag, m_bRouteCheckSwitch, m_bNetCardCheckSwitch, m_Route, lock, op, step,
             arg, pc, sysRoute, table, sysTable, cardUp, raced, crashed, last>>
vars    == <<query, m_recoverHandle, calls, delivered, monitor>>

Modules == {"netcard", "ncopt", "ncip", "route"}  \* NcModuleList
Names   == Modules \cup {"repair"}
Fields  == {"status", "message", "extra"}  \* extra: options, routetable, error_module

Numbers == 0..MaxReports
None    == -1  \* no report: no thread's, no module's

Kinds == {"ip", "opt", "card", "event", "cardopt", "route", "clear"}
Report == [kind : Kinds, code : Codes \cup {0}, routes : SUBSET TableRoutes, hasRoute : BOOLEAN]
Writes == Fields \cup {"master", "service", "erase", "init", "callback"}

TypeOK ==
  /\ m_mapStatus \in [Names -> [Fields -> Numbers \cup {None}]]
  /\ master \in [code : Codes \cup {0}, state : {"R", "S", "E"}, msg : Numbers]
  /\ m_recoverHandle \in BOOLEAN
  /\ service \in [Names -> Numbers \cup {None}]
  /\ reports \in Seq(Report) /\ Len(reports) <= MaxReports
  /\ cur \in [Threads -> Numbers \cup {None}]
  /\ todo \in [Threads -> Seq(Writes)]
  /\ mixed \in BOOLEAN
  /\ delivered \in SUBSET Numbers

-----------------------------------------------------------------------------
(* The functions: what each writes, in its order.                          *)

(* Mutant of SetNcIPStatus: the handler is called when the map is written. *)
SetNcIPStatusEager == <<"status", "message", "service", "callback", "master">>

SetNcIPStatus       == <<"status", "message", "service", "master", "callback">>

(* Mutant of SetNcOptStatus: the message is forgotten. *)
SetNcOptStatusMute  == <<"status", "master", "service", "callback">>

SetNcOptStatus      == <<"status", "message", "master", "service", "callback">>
SetNetCardStatus    == <<"status", "message", "master", "service", "callback">>
SetEventRelt        == <<"extra", "status", "message", "master", "service">>
SetNetCardOptStatus == <<"extra", "callback">>
SetRouteStatus      == <<"status", "message", "extra", "master", "callback">>
Clear               == <<"erase", "init", "master">>

WritesOf(kind) ==
  CASE kind = "ip"      -> SetNcIPStatus
    [] kind = "opt"     -> SetNcOptStatus
    [] kind = "card"    -> SetNetCardStatus
    [] kind = "event"   -> SetEventRelt
    [] kind = "cardopt" -> SetNetCardOptStatus
    [] kind = "route"   -> SetRouteStatus
    [] kind = "clear"   -> Clear

(* The module whose record a report goes to: the card reports as ncip. *)
GetChdModuleName(kind) ==
  CASE kind \in {"ip", "card"} -> "ncip"
    [] kind = "opt"            -> "ncopt"
    [] kind = "cardopt"        -> "netcard"
    [] kind = "route"          -> "route"
    [] kind = "event"          -> "repair"

(* The module the handler is told of: the options report as ncip. *)
CallbackModule(r) ==
  CASE r.kind \in {"ip", "opt"} -> "ncip"
    [] r.kind = "card"          -> "netcard"
    [] r.kind = "cardopt"       -> "netcardopt"
    [] r.kind = "route"         -> IF r.hasRoute THEN "routetable" ELSE "route"

MasterState(code) == CASE code = 0 -> "R" [] code = 1 -> "S" [] OTHER -> "E"

(* What is in the map and with the status service after Init by call n:    *)
(* "0000", "Init" and wait, for the four modules of the list.              *)
InitialMap(n) ==
  [m \in Names |-> [f \in Fields |-> IF m \in Modules /\ f # "extra" THEN n ELSE None]]
InitialService(n) == [m \in Names |-> IF m \in Modules THEN n ELSE None]

Init ==
  /\ m_mapStatus = InitialMap(0)
  /\ master = [code |-> 0, state |-> "R", msg |-> 0]
  /\ m_recoverHandle = FALSE
  /\ service = InitialService(0)
  /\ reports = <<>>
  /\ cur = [c \in Threads |-> None]
  /\ todo = [c \in Threads |-> <<>>]
  /\ mixed = FALSE
  /\ delivered = {}
  /\ Mon!Init
  /\ sysTable = {} /\ cardUp = FALSE

-----------------------------------------------------------------------------
Idle(c) == cur[c] = None /\ step[c] = "idle"

Busy == {c \in Threads : cur[c] # None}

(* A result of the repair is only reported when it is an error; Clear is   *)
(* the one call that is not a report.                                      *)
BeginCall(c) ==
  /\ Idle(c)
  /\ Len(reports) < MaxReports
  /\ \E r \in Report :
       /\ r.kind = "event" => r.code # 0
       /\ r.kind = "clear" => r.code = 0
       /\ r.kind # "route" => ~r.hasRoute
       /\ ~r.hasRoute => r.routes = {}
       /\ reports' = Append(reports, r)
       /\ todo' = [todo EXCEPT ![c] = WritesOf(r.kind)]
  /\ cur' = [cur EXCEPT ![c] = Len(reports) + 1]
  /\ mixed' = (mixed \/ Busy # {})
  /\ UNCHANGED <<query, m_recoverHandle, delivered, monitor>>

(* The next write of thread c is w. *)
Does(c, w) ==
  /\ todo[c] # <<>> /\ Head(todo[c]) = w
  /\ todo' = [todo EXCEPT ![c] = Tail(@)]
  /\ UNCHANGED <<reports, cur, mixed>>

(* A record that is not there is made by the first write to it. *)
updateStatus(c) ==
  /\ \E f \in Fields :
       /\ Does(c, f)
       /\ m_mapStatus' = [m_mapStatus EXCEPT ![GetChdModuleName(reports[cur[c]].kind)][f] = cur[c]]
  /\ UNCHANGED <<master, service, m_recoverHandle, delivered, monitor>>

(* Mutant of updateMasterStatus: only an error becomes the master status. *)
updateMasterStatusOnError(c) ==
  /\ Does(c, "master")
  /\ LET code == reports[cur[c]].code
     IN  master' = IF code = 0 THEN master
                   ELSE [code |-> code, state |-> MasterState(code), msg |-> cur[c]]
  /\ UNCHANGED <<m_mapStatus, service, m_recoverHandle, delivered, monitor>>

(* The event sent to the core has the same contents. *)
updateMasterStatus(c) ==
  /\ Does(c, "master")
  /\ LET code == reports[cur[c]].code
     IN  master' = [code |-> code, state |-> MasterState(code), msg |-> cur[c]]
  /\ UNCHANGED <<m_mapStatus, service, m_recoverHandle, delivered, monitor>>

UpdateModuleStatus(c) ==
  /\ Does(c, "service")
  /\ service' = [service EXCEPT ![GetChdModuleName(reports[cur[c]].kind)] = cur[c]]
  /\ UNCHANGED <<m_mapStatus, master, m_recoverHandle, delivered, monitor>>

ClearMap(c) ==
  /\ Does(c, "erase")
  /\ m_mapStatus' = [m \in Names |-> [f \in Fields |-> None]]
  /\ UNCHANGED <<master, service, m_recoverHandle, delivered, monitor>>

(* InitService starts the service's list over. *)
InitModules(c) ==
  /\ Does(c, "init")
  /\ m_mapStatus' = InitialMap(cur[c])
  /\ service' = InitialService(cur[c])
  /\ UNCHANGED <<master, m_recoverHandle, delivered, monitor>>

RegisterRecoverEvent(c) ==
  /\ Idle(c)
  /\ m_recoverHandle' = TRUE
  /\ UNCHANGED <<query, calls, delivered, monitor>>

-----------------------------------------------------------------------------
(* The handler and what it leads to.                                       *)

Controlling == {c \in Threads : op[c] \in {"Start", "Stop"}}

(* Mutant of HandleUpdateRouteTable: the table goes into the set past      *)
(* UpdateRouteTable.                                                       *)
HandleUpdateRouteTableRaw(c, n) ==
  /\ m_Route' = m_Route \cup reports[n].routes
  /\ delivered' = IF Controlling = {} THEN delivered \cup {n} ELSE delivered
  /\ UNCHANGED <<m_StopFlag, m_bRouteCheckSwitch, m_bNetCardCheckSwitch, lock, op, step, arg,
                 pc, sysRoute, table, sysTable, cardUp, raced, crashed, last>>

HandleUpdateRouteTable(c, n) ==
  /\ Mon!UpdateRouteTable(c)
  /\ arg'[c] = reports[n].routes
  /\ delivered' = IF Controlling = {} THEN delivered \cup {n} ELSE delivered

(* Type 1, the index of the card, is commented out. *)
HandleUpdateNetCardOptions(c, n) ==
  /\ IF reports[n].code = 0 THEN Mon!UpdateNetCardOptions(c) ELSE UNCHANGED monitor
  /\ UNCHANGED delivered

(* The other handlers only log. *)
RecoverEvent(c, n) ==
  CASE CallbackModule(reports[n]) = "netcardopt" -> HandleUpdateNetCardOptions(c, n)
    [] CallbackModule(reports[n]) = "routetable" -> HandleUpdateRouteTable(c, n)
    [] OTHER -> UNCHANGED <<delivered, monitor>>

CallHandler(c) ==
  /\ Does(c, "callback")
  /\ IF m_recoverHandle THEN RecoverEvent(c, cur[c]) ELSE UNCHANGED <<delivered, monitor>>
  /\ UNCHANGED <<query, m_recoverHandle>>

EndCall(c) ==
  /\ cur[c] # None /\ todo[c] = <<>> /\ step[c] = "idle"
  /\ cur' = [cur EXCEPT ![c] = None]
  /\ UNCHANGED <<query, m_recoverHandle, reports, todo, mixed, delivered, monitor>>

(* HandleThreadStart and HandleThreadStop. *)
HandleThread(c) ==
  /\ Idle(c)
  /\ Mon!Start(c) \/ Mon!Stop(c)
  /\ delivered' = {}
  /\ UNCHANGED <<query, m_recoverHandle, calls>>

(* The monitor's own steps: a call that was begun, and its check threads.  *)
(* What the system does to routes and cards is left to NcMonitor: here the *)
(* table is empty and no card is connected, so that a check thread scans   *)
(* the set but has nothing repaired.                                       *)
MonitorGoesOn ==
  /\ (\E c \in Threads : Mon!Continue(c)) \/ (\E t \in Checkers : Mon!ThreadCheck(t))
  /\ UNCHANGED <<query, m_recoverHandle, calls, delivered>>

-----------------------------------------------------------------------------
Call(c) == BeginCall(c) \/ RegisterRecoverEvent(c) \/ HandleThread(c)

Continue(c) ==
  \/ updateStatus(c) \/ updateMasterStatus(c) \/ UpdateModuleStatus(c)
  \/ ClearMap(c) \/ InitModules(c) \/ CallHandler(c) \/ EndCall(c)

Next ==
  /\ ~mixed /\ ~raced
  /\ (\E c \in Threads : Call(c) \/ Continue(c)) \/ MonitorGoesOn

Spec == Init /\ [][Next]_vars

-----------------------------------------------------------------------------
(* The calls that write field f of module m, or the master status, or tell *)
(* the service of m.  Init is one of them.                                 *)
Touching(m, w) ==
  {0} \cup {n \in 1..Len(reports) :
     \/ reports[n].kind = "clear"
     \/ /\ \E k \in 1..Len(WritesOf(reports[n].kind)) : WritesOf(reports[n].kind)[k] = w
        /\ w = "master" \/ GetChdModuleName(reports[n].kind) = m}

Latest(S) == CHOOSE n \in S : \A k \in S : k <= n

(* Whatever was reported, in whatever order, and however the board was     *)
(* cleared in between: when no call is under way and none overlapped, the  *)
(* map shows each module's last report in both of its fields, the master   *)
(* status is that of the last call, in code, state and message, and the    *)
(* status service heard what the map shows, of every module but the route, *)
(* of which it is never told.                                              *)
StatusShowsLastReport ==
  ~mixed /\ Busy = {} =>
    /\ \A m \in Modules, f \in {"status", "message"} :
         m_mapStatus[m][f] = Latest(Touching(m, f))
    /\ LET n    == Latest(Touching("route", "master"))
           code == IF n = 0 THEN 0 ELSE reports[n].code
       IN  master = [code |-> code, state |-> MasterState(code), msg |-> n]
    /\ \A m \in Names \ {"route"} : service[m] = m_mapStatus[m]["message"]

(* A table of routes that was reported to a registered handler, with no    *)
(* Start or Stop of the monitor since, is what the monitor watches: its    *)
(* routes are in the set and the switch that makes ThreadCheck look at     *)
(* them is on, although threads start, stop and report at any time.        *)
RoutesReachMonitor ==
  ~raced /\ (\A c \in Threads : Idle(c)) =>
    \A n \in delivered : reports[n].routes \subseteq m_Route /\ m_bRouteCheckSwitch

(* The reports that are written out wherever they have to be, and those    *)
(* the handler was called for (or would have been, were there one).        *)
Left(n) == UNION {{todo[c][k] : k \in 1..Len(todo[c])} : c \in {t \in Threads : cur[t] = n}}

StatusReports == {n \in 1..Len(reports) : reports[n].kind \in {"ip", "opt", "card", "route"}}

Settled   == {n \in StatusReports : Left(n) \subseteq {"callback"}}
Recovered == {n \in StatusReports : "callback" \notin Left(n)}

(* In all four functions, whose orders differ, the handler is called when  *)
(* everything is written, and once for each report.                        *)
Board == INSTANCE Reporting WITH Reports <- 1..MaxReports,
                                 settled <- Settled, recovered <- Recovered
ReportsSettleFirst == Board!Spec
=============================================================================

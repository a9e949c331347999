------------------------------- MODULE Service -------------------------------
(***************************************************************************)
(* The service "MyService" (ServiceCallDll/SimpleService.cpp; the same     *)
(* functions, with an empty MyServiceWorker, are SimpleService's).         *)
(*                                                                         *)
(* MyServiceMain runs in a thread of its own, and MyServiceWorker in it:   *)
(* the worker loads a library into another process and waits, with no time *)
(* limit, for the thread it made there (external; it may never end).       *)
(* MyServiceHandlerEx runs in the control dispatcher's thread, one control *)
(* at a time.  Main and handler report through                             *)
(* ReportServiceStatus, which fills the global g_MyServiceStatus field by  *)
(* field and hands it to the service control manager: a report is four     *)
(* steps here, and nothing locks it.                                       *)
(*                                                                         *)
(* The manager (external) starts the process when the service is stopped,  *)
(* sends the controls the last report accepts, none while the service is   *)
(* stopped or about to start or stop, and marks it stopped when the        *)
(* process ends.  SHUTDOWN is never accepted, so it is never sent;         *)
(* INTERROGATE changes nothing.  Exit code and wait hint are always 0, as  *)
(* MyServiceInitialization always returns NO_ERROR.                        *)
(***************************************************************************)
EXTENDS Naturals

CONSTANT MaxCheckPoint  \* bound on the PAUSE and CONTINUE controls of one process

ASSUME BoundAssumption == MaxCheckPoint \in Nat

VARIABLES
  main,            \* where MyServiceMain is
  handler,         \* where MyServiceHandlerEx is
  control,         \* the control it handles
  report,          \* for each thread <<state, step>> of its report; step 0: none
  g_MyServiceStatus,
  dwCheckPoint,    \* the static counter of ReportServiceStatus
  g_hSvcStopEvent, \* "none" is NULL
  g_bPausedFlag,
  scm              \* the status the manager has

vars == <<main, handler, control, report, g_MyServiceStatus, dwCheckPoint, g_hSvcStopEvent,
          g_bPausedFlag, scm>>

States   == {"STOPPED", "START_PENDING", "STOP_PENDING", "RUNNING", "CONTINUE_PENDING",
             "PAUSE_PENDING"}
Controls == {"STOP", "PAUSE", "CONTINUE"}
CallersOfReport == {"main", "handler"}

Status == [dwCurrentState : States \cup {"zero"}, accepts : BOOLEAN, dwCheckPoint : Nat]

ZeroStatus == [dwCurrentState |-> "zero", accepts |-> FALSE, dwCheckPoint |-> 0]

TypeOK ==
  /\ main \in {"off", "create", "register", "start", "run", "work", "remote", "wait", "returned"}
  /\ handler \in {"idle", "report", "after"}
  /\ control \in Controls
  /\ report \in [CallersOfReport -> States \X (0..4)]
  /\ g_MyServiceStatus \in Status
  /\ dwCheckPoint \in Nat \ {0}
  /\ g_hSvcStopEvent \in {"none", "unset", "set"}
  /\ g_bPausedFlag \in BOOLEAN
  /\ scm \in Status

NoReport == <<"STOPPED", 0>>

(* Installed and not started. *)
Init ==
  /\ main = "off"
  /\ handler = "idle"
  /\ control = "STOP"
  /\ report = [c \in CallersOfReport |-> NoReport]
  /\ g_MyServiceStatus = ZeroStatus
  /\ dwCheckPoint = 1
  /\ g_hSvcStopEvent = "none"
  /\ g_bPausedFlag = FALSE
  /\ scm = [ZeroStatus EXCEPT !.dwCurrentState = "STOPPED"]

-----------------------------------------------------------------------------
(* ReportServiceStatus.                                                    *)

Reporting(c) == report[c][2] # 0

Begin(c, state) == ~Reporting(c) /\ report' = [report EXCEPT ![c] = <<state, 1>>]

At(c, step) ==
  /\ report[c][2] = step
  /\ report' = [report EXCEPT ![c] = IF step = 4 THEN NoReport ELSE <<@[1], step + 1>>]

WriteState(c) ==
  /\ At(c, 1)
  /\ g_MyServiceStatus' = [g_MyServiceStatus EXCEPT !.dwCurrentState = report[c][1]]
  /\ UNCHANGED <<main, handler, control, dwCheckPoint, g_hSvcStopEvent, g_bPausedFlag, scm>>

WriteControls(c) ==
  /\ At(c, 2)
  /\ g_MyServiceStatus' =
       [g_MyServiceStatus EXCEPT !.accepts = report[c][1] # "START_PENDING"]
  /\ UNCHANGED <<main, handler, control, dwCheckPoint, g_hSvcStopEvent, g_bPausedFlag, scm>>

(* Mutant of WriteCheckPoint: the counter is not counted up. *)
WriteSameCheckPoint(c) ==
  /\ At(c, 3)
  /\ g_MyServiceStatus' =
       [g_MyServiceStatus EXCEPT !.dwCheckPoint =
          IF report[c][1] \in {"RUNNING", "STOPPED"} THEN 0 ELSE dwCheckPoint]
  /\ UNCHANGED <<main, handler, control, dwCheckPoint, g_hSvcStopEvent, g_bPausedFlag, scm>>

(* Two increments at the same time may count as one. *)
WriteCheckPoint(c) ==
  /\ At(c, 3)
  /\ IF report[c][1] \in {"RUNNING", "STOPPED"}
     THEN /\ g_MyServiceStatus' = [g_MyServiceStatus EXCEPT !.dwCheckPoint = 0]
          /\ UNCHANGED dwCheckPoint
     ELSE /\ g_MyServiceStatus' = [g_MyServiceStatus EXCEPT !.dwCheckPoint = dwCheckPoint]
          /\ \/ dwCheckPoint' = dwCheckPoint + 1
             \/ \E d \in CallersOfReport \ {c} : report[d][2] = 3 /\ UNCHANGED dwCheckPoint
  /\ UNCHANGED <<main, handler, control, g_hSvcStopEvent, g_bPausedFlag, scm>>

SetServiceStatus(c) ==
  /\ At(c, 4)
  /\ scm' = g_MyServiceStatus
  /\ UNCHANGED <<main, handler, control, g_MyServiceStatus, dwCheckPoint, g_hSvcStopEvent,
                 g_bPausedFlag>>

ReportServiceStatus(c) ==
  WriteState(c) \/ WriteControls(c) \/ WriteCheckPoint(c) \/ SetServiceStatus(c)

-----------------------------------------------------------------------------
(* MyServiceMain.                                                          *)

(* Nobody looks whether the event could be created. *)
CreateEvent ==
  /\ main = "create"
  /\ main' = "register"
  /\ g_hSvcStopEvent' \in {"unset", "none"}
  /\ UNCHANGED <<handler, control, report, g_MyServiceStatus, dwCheckPoint, g_bPausedFlag, scm>>

RegisterServiceCtrlHandlerEx ==
  /\ main = "register"
  /\ main' \in {"start", "returned"}
  /\ UNCHANGED <<handler, control, report, g_MyServiceStatus, dwCheckPoint, g_hSvcStopEvent,
                 g_bPausedFlag, scm>>

ReportStartPending ==
  /\ main = "start"
  /\ main' = "run"
  /\ Begin("main", "START_PENDING")
  /\ UNCHANGED <<handler, control, g_MyServiceStatus, dwCheckPoint, g_hSvcStopEvent,
                 g_bPausedFlag, scm>>

ReportRunning ==
  /\ main = "run"
  /\ main' = "work"
  /\ Begin("main", "RUNNING")
  /\ UNCHANGED <<handler, control, g_MyServiceStatus, dwCheckPoint, g_hSvcStopEvent,
                 g_bPausedFlag, scm>>

(* Injecting the library starts with a sleep and either fails on the way   *)
(* or comes to the wait for the thread in the other process.  The empty    *)
(* worker of SimpleService always takes the first way.                     *)
MyServiceWorker ==
  /\ main = "work"
  /\ ~Reporting("main")
  /\ main' \in {"wait", "remote"}
  /\ UNCHANGED <<handler, control, report, g_MyServiceStatus, dwCheckPoint, g_hSvcStopEvent,
                 g_bPausedFlag, scm>>

(* A wait for NULL fails at once, and the service goes on to stop. *)
WaitAndReportStopped ==
  /\ main = "wait"
  /\ g_hSvcStopEvent \in {"set", "none"}
  /\ main' = "returned"
  /\ Begin("main", "STOPPED")
  /\ UNCHANGED <<handler, control, g_MyServiceStatus, dwCheckPoint, g_hSvcStopEvent,
                 g_bPausedFlag, scm>>

MyServiceMain ==
  CreateEvent \/ RegisterServiceCtrlHandlerEx \/ ReportStartPending \/ ReportRunning
    \/ MyServiceWorker \/ WaitAndReportStopped

-----------------------------------------------------------------------------
(* MyServiceHandlerEx.                                                     *)

PendingState(c) == CASE c = "STOP"     -> "STOP_PENDING"
                     [] c = "PAUSE"    -> "PAUSE_PENDING"
                     [] c = "CONTINUE" -> "CONTINUE_PENDING"

(* Mutant of ReportPending: the event is set before the report. *)
SignalThenReport ==
  /\ handler = "report"
  /\ handler' = "after"
  /\ Begin("handler", PendingState(control))
  /\ g_hSvcStopEvent' = IF control = "STOP" /\ g_hSvcStopEvent # "none" THEN "set"
                        ELSE g_hSvcStopEvent
  /\ UNCHANGED <<main, control, g_MyServiceStatus, dwCheckPoint, g_bPausedFlag, scm>>

ReportPending ==
  /\ handler = "report"
  /\ handler' = "after"
  /\ Begin("handler", PendingState(control))
  /\ UNCHANGED <<main, control, g_MyServiceStatus, dwCheckPoint, g_hSvcStopEvent,
                 g_bPausedFlag, scm>>

(* Mutant of Obey: a missing break, STOP falls through to PAUSE's case. *)
ObeyNoEvent ==
  /\ handler = "after"
  /\ ~Reporting("handler")
  /\ handler' = "idle"
  /\ g_bPausedFlag' = (control # "CONTINUE")
  /\ UNCHANGED <<main, control, report, g_MyServiceStatus, dwCheckPoint, g_hSvcStopEvent, scm>>

Obey ==
  /\ handler = "after"
  /\ ~Reporting("handler")
  /\ handler' = "idle"
  /\ g_hSvcStopEvent' = IF control = "STOP" /\ g_hSvcStopEvent # "none" THEN "set"
                        ELSE g_hSvcStopEvent
  /\ g_bPausedFlag' = IF control = "STOP" THEN g_bPausedFlag ELSE control = "PAUSE"
  /\ UNCHANGED <<main, control, report, g_MyServiceStatus, dwCheckPoint, scm>>

MyServiceHandlerEx == ReportPending \/ Obey

-----------------------------------------------------------------------------
(* The process the library is loaded into: the thread made there comes to  *)
(* its end, and the worker's wait with it.                                 *)
RemoteThreadEnds ==
  /\ main = "remote"
  /\ main' = "wait"
  /\ UNCHANGED <<handler, control, report, g_MyServiceStatus, dwCheckPoint, g_hSvcStopEvent,
                 g_bPausedFlag, scm>>

-----------------------------------------------------------------------------
(* The service control manager.                                            *)

(* A new process: globals and statics as initialised. *)
Start ==
  /\ main = "off"
  /\ main' = "create"
  /\ scm' = [ZeroStatus EXCEPT !.dwCurrentState = "START_PENDING"]
  /\ g_MyServiceStatus' = ZeroStatus
  /\ dwCheckPoint' = 1
  /\ g_hSvcStopEvent' = "none"
  /\ g_bPausedFlag' = FALSE
  /\ UNCHANGED <<handler, control, report>>

Control(c) ==
  /\ handler = "idle"
  /\ main \notin {"off", "create", "register"}
  /\ scm.accepts
  /\ scm.dwCurrentState \notin {"STOPPED", "START_PENDING", "STOP_PENDING"}
  /\ c = "STOP" \/ dwCheckPoint < MaxCheckPoint
  /\ handler' = "report"
  /\ control' = c
  /\ UNCHANGED <<main, report, g_MyServiceStatus, dwCheckPoint, g_hSvcStopEvent, g_bPausedFlag,
                 scm>>

(* The dispatcher returns, and with it the process. *)
Exit ==
  /\ main = "returned"
  /\ ~Reporting("main")
  /\ handler = "idle"
  /\ main' = "off"
  /\ scm' = [ZeroStatus EXCEPT !.dwCurrentState = "STOPPED"]
  /\ UNCHANGED <<handler, control, report, g_MyServiceStatus, dwCheckPoint, g_hSvcStopEvent,
                 g_bPausedFlag>>

-----------------------------------------------------------------------------
Next ==
  \/ MyServiceMain \/ RemoteThreadEnds \/ MyServiceHandlerEx
  \/ \E c \in CallersOfReport : ReportServiceStatus(c)
  \/ Start \/ Exit \/ \E c \in Controls : Control(c)

Spec == Init /\ [][Next]_vars

(* Both threads run when they can, and a process that is done ends.  The   *)
(* manager need neither start the service nor send anything, and the       *)
(* thread in the other process need never end.                             *)
FairSpec ==
  /\ Spec
  /\ WF_vars(MyServiceMain \/ ReportServiceStatus("main"))
  /\ WF_vars(MyServiceHandlerEx \/ ReportServiceStatus("handler"))
  /\ WF_vars(Exit)

-----------------------------------------------------------------------------
(* Was the stop event created?  Without it nothing below is certain: the   *)
(* service stops as soon as it runs, whatever control is being handled.    *)
HasEvent == main \in {"off", "create"} \/ g_hSvcStopEvent # "none"

(* The two threads are never in ReportServiceStatus together, although     *)
(* nothing locks it: no control comes before RUNNING was reported, none    *)
(* after STOP_PENDING, and the event is set after that report.             *)
ReportsDoNotOverlap == HasEvent => ~(Reporting("main") /\ Reporting("handler"))

(* main sleeps on the event with no time limit, and comes to it whenever   *)
(* its worker is done.  From the RUNNING report on the event is set        *)
(* exactly when the manager has heard of the stop and the handler is       *)
(* through with it: a stop that was acknowledged, be it while the worker   *)
(* runs, is not slept through, and none begins before it was, in whatever  *)
(* order reports, flag and event were written.                             *)
StopIsSignalled ==
  HasEvent /\ main \in {"work", "remote", "wait"} =>
    (g_hSvcStopEvent = "set" <=> scm.dwCurrentState = "STOP_PENDING" /\ handler = "idle")

Legal == {<<"STOPPED", "START_PENDING">>, <<"START_PENDING", "RUNNING">>,
          <<"START_PENDING", "START_PENDING">>, <<"START_PENDING", "STOPPED">>,
          <<"STOP_PENDING", "STOPPED">>, <<"STOPPED", "STOPPED">>}
           \cup {"RUNNING", "PAUSE_PENDING", "CONTINUE_PENDING"}
                  \X {"STOP_PENDING", "PAUSE_PENDING", "CONTINUE_PENDING"}

(* What the manager sees is the history the code means to give: after      *)
(* STOP_PENDING only STOPPED, after STOPPED only a start, never RUNNING    *)
(* after a stop was acknowledged.  The handler never follows PAUSE_PENDING *)
(* by PAUSED nor CONTINUE_PENDING by RUNNING, as a service should: these   *)
(* two are followed by the next control's state.                           *)
LegalReports ==
  [][HasEvent => <<scm.dwCurrentState, scm'.dwCurrentState>> \in Legal]_scm

(* Between two pending reports the check point grows, by which clients     *)
(* tell a service that makes progress from one that hangs.                 *)
CheckPointsGrow ==
  [][HasEvent /\ scm.dwCheckPoint # 0 /\ scm'.dwCheckPoint # 0
       => scm'.dwCheckPoint > scm.dwCheckPoint]_scm

(* A stop that was acknowledged is completed, provided that each thread    *)
(* the worker waits for in the other process ends.  Nothing in the code    *)
(* sees to that: the wait at InjectDll.cpp:237 has no time limit, and main *)
(* comes to the stop event only behind it.                                 *)
RemoteThreadsEnd == []<>(main # "remote")
StopCompletes ==
  RemoteThreadsEnd => (scm.dwCurrentState = "STOP_PENDING" ~> scm.dwCurrentState = "STOPPED")
=============================================================================

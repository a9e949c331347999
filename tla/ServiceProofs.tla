---------------------------- MODULE ServiceProofs ----------------------------
(***************************************************************************)
(* Proofs about Service, for any bound on the controls: the types, that    *)
(* the two threads' reports never overlap, and that the manager sees a     *)
(* legal history with growing check points.                                *)
(***************************************************************************)
EXTENDS Service, TLAPS

S  == scm.dwCurrentState
Up == {"RUNNING", "PAUSE_PENDING", "CONTINUE_PENDING"}

(* main has begun to report RUNNING and not yet STOPPED. *)
Serving == main \in {"work", "remote", "wait"}

USE DEF Serving

(* What a thread that reports is reporting. *)
Reported(c) ==
  IF c = "handler" THEN PendingState(control)
  ELSE IF main = "run" THEN "START_PENDING"
  ELSE IF Serving THEN "RUNNING" ELSE "STOPPED"

(* Holds with and without the stop event. *)
ThreadsInv ==
  /\ Reporting("handler") => handler = "after"
  /\ main \in {"off", "create", "register", "start"} => ~Reporting("main")
  /\ main \in {"off", "create"} => handler = "idle"
  /\ main = "off" => S = "STOPPED"
  /\ main = "create" => S = "START_PENDING"
  /\ \A c \in CallersOfReport : Reporting(c) => report[c][1] = Reported(c)

(* Where main is determines what the manager has seen. *)
MainInv ==
  /\ main \in {"register", "start", "run"} => S = "START_PENDING" /\ handler = "idle"
  /\ Serving => IF Reporting("main") THEN S = "START_PENDING" /\ handler = "idle"
                ELSE S \in Up \cup {"STOP_PENDING"}
  /\ main = "returned" => /\ handler = "idle"
                          /\ IF Reporting("main") THEN S = "STOP_PENDING"
                             ELSE S \in {"STOPPED", "START_PENDING"}

(* A control is handled while main works or waits; the event is set last. *)
HandlerInv ==
  /\ g_hSvcStopEvent = "set" => /\ main = "off" \/ Serving \/ main = "returned"
                                /\ Serving => S = "STOP_PENDING" /\ handler = "idle"
  /\ handler # "idle" => Serving
  /\ handler = "report" \/ Reporting("handler") => S \in Up
  /\ handler = "after" /\ ~Reporting("handler") => S = PendingState(control)
  /\ \A c \in CallersOfReport : report[c][2] \in 2..4 =>
       g_MyServiceStatus.dwCurrentState = report[c][1]

IInv == TypeOK /\ ThreadsInv /\ (HasEvent => MainInv /\ HandlerInv)

LEMMA PendingStates ==
  ASSUME NEW c \in Controls
  PROVE  PendingState(c) \in {"STOP_PENDING", "PAUSE_PENDING", "CONTINUE_PENDING"}
BY DEF Controls, PendingState

LEMMA TypeStep == ASSUME TypeOK, [Next]_vars PROVE TypeOK'
<1> USE DEF States, CallersOfReport, Controls
<1>1. ZeroStatus \in Status
  BY DEF ZeroStatus, Status
<1>2. ASSUME NEW c \in CallersOfReport, NEW s \in States, Begin(c, s)
      PROVE  report' \in [CallersOfReport -> States \X (0..4)]
  BY <1>2 DEF Begin, TypeOK
<1>3. ASSUME NEW c \in CallersOfReport, ReportServiceStatus(c) PROVE TypeOK'
  <2>1. report' \in [CallersOfReport -> States \X (0..4)]
    <3>1. PICK step \in 1..4 : At(c, step)
      BY <1>3 DEF ReportServiceStatus, WriteState, WriteControls, WriteCheckPoint,
                  SetServiceStatus
    <3>2. (IF step = 4 THEN NoReport ELSE <<report[c][1], step + 1>>) \in States \X (0..4)
      BY DEF TypeOK, NoReport
    <3> QED
      BY <3>1, <3>2 DEF At, TypeOK
  <2>2. CASE WriteState(c)
    BY <2>1, <2>2 DEF WriteState, TypeOK, Status
  <2>3. CASE WriteControls(c)
    <3>1. (report[c][1] # "START_PENDING") \in BOOLEAN
      OBVIOUS
    <3>2. g_MyServiceStatus' \in Status
      BY <2>3, <3>1 DEF WriteControls, TypeOK, Status
    <3> QED
      BY <2>1, <2>3, <3>2 DEF WriteControls, TypeOK
  <2>4. CASE WriteCheckPoint(c)
    BY <2>1, <2>4 DEF WriteCheckPoint, TypeOK, Status
  <2>5. CASE SetServiceStatus(c)
    BY <2>1, <2>5 DEF SetServiceStatus, TypeOK
  <2> QED
    BY <1>3, <2>2, <2>3, <2>4, <2>5 DEF ReportServiceStatus
<1>4. CASE MyServiceMain \/ RemoteThreadEnds
  BY <1>2, <1>4 DEF MyServiceMain, RemoteThreadEnds, CreateEvent, RegisterServiceCtrlHandlerEx,
     ReportStartPending, ReportRunning, MyServiceWorker, WaitAndReportStopped, TypeOK
<1>5. CASE ReportPending
  <2>1. report' \in [CallersOfReport -> States \X (0..4)]
    BY <1>2, <1>5, PendingStates DEF ReportPending, TypeOK
  <2> QED
    BY <1>5, <2>1 DEF ReportPending, TypeOK
<1>6. CASE Obey
  BY <1>6 DEF Obey, TypeOK
<1>7. CASE Start \/ Exit
  <2>1. scm' \in Status /\ g_MyServiceStatus' \in Status
    BY <1>1, <1>7 DEF Start, Exit, TypeOK, Status
  <2>2. CASE Start
    <3>1. dwCheckPoint' \in Nat \ {0}
      BY <2>2 DEF Start
    <3>2. g_bPausedFlag' \in BOOLEAN
      BY <2>2 DEF Start
    <3> QED
      BY <2>1, <2>2, <3>1, <3>2 DEF Start, TypeOK
  <2>3. CASE Exit
    BY <2>1, <2>3 DEF Exit, TypeOK
  <2> QED
    BY <1>7, <2>2, <2>3
<1>8. ASSUME NEW c \in Controls, Control(c) PROVE TypeOK'
  BY <1>8 DEF Control, TypeOK
<1>9. CASE UNCHANGED vars
  BY <1>9 DEF vars, TypeOK
<1> QED
  BY <1>3, <1>4, <1>5, <1>6, <1>7, <1>8, <1>9 DEF Next, MyServiceHandlerEx

-----------------------------------------------------------------------------
(* A report begins or goes a step further; the other thread's stays.       *)
LEMMA ReportKeepsIInv ==
  ASSUME IInv, TypeOK', NEW c \in CallersOfReport, ReportServiceStatus(c)
  PROVE  IInv'
<1> USE DEF CallersOfReport
<1>1. /\ UNCHANGED <<main, handler, control, g_hSvcStopEvent>>
      /\ Reporting(c)
      /\ report[c][2] \in 1..4
      /\ report'[c] = IF report[c][2] = 4 THEN NoReport ELSE <<report[c][1], report[c][2] + 1>>
      /\ \A d \in CallersOfReport : d # c => report'[d] = report[d]
  BY DEF ReportServiceStatus, WriteState, WriteControls, WriteCheckPoint, SetServiceStatus, At,
         Reporting, IInv, TypeOK
<1>2. \A d \in CallersOfReport : Reporting(d)' => Reporting(d) /\ report'[d][1] = report[d][1]
  BY <1>1 DEF Reporting, NoReport
<1>3. \A d \in CallersOfReport : Reported(d)' = Reported(d)
  BY <1>1 DEF Reported
<1>4. HasEvent' <=> HasEvent
  BY <1>1 DEF HasEvent
<1>5. c = "main" => main = "run" \/ Serving \/ main = "returned"
  BY <1>1 DEF IInv, TypeOK, ThreadsInv
<1>6. c = "handler" => handler = "after"
  BY <1>1 DEF IInv, ThreadsInv
<1>7. CASE report[c][2] # 4
  <2>1. scm' = scm
    BY <1>7 DEF ReportServiceStatus, WriteState, WriteControls, WriteCheckPoint,
                SetServiceStatus, At
  <2>2. Reporting(c)'
    BY <1>1, <1>7 DEF Reporting
  <2>3. \A d \in CallersOfReport : Reporting(d)' <=> Reporting(d)
    BY <1>1, <2>2 DEF Reporting
  <2>4. ThreadsInv'
    BY <1>1, <1>2, <1>3, <2>1, <2>3 DEF IInv, ThreadsInv, S
  <2>5. HasEvent => MainInv'
    BY <1>1, <2>1, <2>3 DEF IInv, MainInv, S
  <2>6. ASSUME HasEvent PROVE HandlerInv'
    <3>1. \A d \in CallersOfReport : d # c => ~Reporting(d)
      BY <1>1, <1>5, <1>6, <2>6 DEF IInv, MainInv, HandlerInv, Up
    <3>2. report'[c][2] \in 2..4 => g_MyServiceStatus'.dwCurrentState = report'[c][1]
      BY <1>1, <1>7, <2>6 DEF ReportServiceStatus, WriteState, WriteControls, WriteCheckPoint,
         SetServiceStatus, At, IInv, TypeOK, Status, HandlerInv
    <3>3. \A d \in CallersOfReport : report'[d][2] \in 2..4 =>
            g_MyServiceStatus'.dwCurrentState = report'[d][1]
      BY <1>1, <3>1, <3>2 DEF Reporting
    <3> QED
      BY <1>1, <2>1, <2>3, <2>6, <3>3 DEF IInv, HandlerInv, S
  <2> QED
    BY <1>4, <2>4, <2>5, <2>6 DEF IInv
<1>8. CASE report[c][2] = 4
  <2>1. scm' = g_MyServiceStatus /\ UNCHANGED g_MyServiceStatus
    BY <1>8 DEF ReportServiceStatus, WriteState, WriteControls, WriteCheckPoint,
                SetServiceStatus, At
  <2>2. ~Reporting(c)'
    BY <1>1, <1>8 DEF Reporting, NoReport
  <2>3. \A d \in CallersOfReport : d # c => (Reporting(d)' <=> Reporting(d))
    BY <1>1 DEF Reporting
  <2>4. ThreadsInv'
    BY <1>1, <1>2, <1>3, <1>5, <1>6, <2>2, <2>3 DEF IInv, ThreadsInv
  <2>5. ASSUME HasEvent PROVE MainInv' /\ HandlerInv'
    <3>1. MainInv /\ HandlerInv /\ ThreadsInv
      BY <2>5 DEF IInv
    <3>2. S' = Reported(c)
      BY <1>1, <1>8, <2>1, <3>1 DEF ThreadsInv, HandlerInv, S
    <3>3. \A d \in CallersOfReport : ~Reporting(d)'
      BY <1>1, <1>5, <1>6, <2>2, <2>3, <3>1 DEF MainInv, HandlerInv, Up
    <3>4. CASE c = "main"
      <4>1. handler = "idle" /\ (main = "run" \/ Serving \/ main = "returned")
        BY <1>1, <1>5, <3>1, <3>4 DEF MainInv
      <4>2. g_hSvcStopEvent = "set" => main = "returned"
        BY <1>1, <3>1, <3>4, <4>1 DEF MainInv, HandlerInv
      <4> QED
        BY <1>1, <3>2, <3>3, <3>4, <4>1, <4>2 DEF MainInv, HandlerInv, Reported, Up, Reporting
    <3>5. CASE c = "handler"
      <4>1. handler = "after" /\ Serving /\ S \in Up /\ ~Reporting("main")
        BY <1>1, <1>6, <3>1, <3>5 DEF HandlerInv, MainInv, Up
      <4>2. g_hSvcStopEvent # "set"
        BY <3>1, <4>1 DEF HandlerInv, Up
      <4>3. PendingState(control) \in {"STOP_PENDING", "PAUSE_PENDING", "CONTINUE_PENDING"}
        BY PendingStates DEF IInv, TypeOK
      <4> QED
        BY <1>1, <3>2, <3>3, <3>5, <4>1, <4>2, <4>3
           DEF MainInv, HandlerInv, Reported, Up, Reporting
    <3> QED
      BY <3>4, <3>5
  <2> QED
    BY <1>4, <2>4, <2>5 DEF IInv
<1> QED
  BY <1>7, <1>8

(* The worker comes to its wait or to its end. *)
LEMMA WorkKeepsIInv ==
  ASSUME IInv, TypeOK', MyServiceWorker \/ RemoteThreadEnds PROVE IInv'
<1>1. /\ Serving /\ Serving' /\ main' \in {"remote", "wait"}
      /\ UNCHANGED <<handler, control, report, g_MyServiceStatus, g_hSvcStopEvent, scm>>
  BY DEF MyServiceWorker, RemoteThreadEnds
<1>2. /\ \A c \in CallersOfReport : (Reporting(c)' <=> Reporting(c)) /\ Reported(c)' = Reported(c)
      /\ S' = S
  BY <1>1 DEF Reporting, Reported, S
<1>3. ThreadsInv'
  BY <1>1, <1>2 DEF IInv, ThreadsInv, CallersOfReport
<1>4. HasEvent' => HasEvent
  BY <1>1 DEF HasEvent
<1>5. ASSUME MainInv, HandlerInv PROVE MainInv' /\ HandlerInv'
  BY <1>1, <1>2, <1>5 DEF MainInv, HandlerInv, CallersOfReport
<1> QED
  BY <1>3, <1>4, <1>5 DEF IInv

(* MyServiceMain goes a step further. *)
LEMMA MainKeepsIInv == ASSUME IInv, TypeOK', MyServiceMain PROVE IInv'
<1> USE DEF CallersOfReport
<1>1. UNCHANGED <<handler, control, scm, g_MyServiceStatus>>
  BY DEF MyServiceMain, CreateEvent, RegisterServiceCtrlHandlerEx, ReportStartPending,
         ReportRunning, MyServiceWorker, WaitAndReportStopped
<1>2. /\ report'["handler"] = report["handler"]
      /\ Reporting("handler")' <=> Reporting("handler")
      /\ Reported("handler")' = Reported("handler")
  <2>1. report'["handler"] = report["handler"]
    BY DEF MyServiceMain, CreateEvent, RegisterServiceCtrlHandlerEx, ReportStartPending,
           ReportRunning, MyServiceWorker, WaitAndReportStopped, Begin, IInv, TypeOK
  <2> QED
    BY <1>1, <2>1 DEF Reporting, Reported
<1>3. CASE CreateEvent
  <2>1. /\ main = "create" /\ main' = "register" /\ report' = report
        /\ g_hSvcStopEvent' \in {"unset", "none"}
    BY <1>3 DEF CreateEvent
  <2>2. \A c \in CallersOfReport : ~Reporting(c)'
    BY <2>1, <1>2 DEF IInv, ThreadsInv, Reporting
  <2>3. ThreadsInv'
    BY <1>1, <2>1, <2>2 DEF IInv, ThreadsInv
  <2>4. MainInv' /\ HandlerInv'
    BY <1>1, <2>1, <2>2 DEF IInv, ThreadsInv, MainInv, HandlerInv, S, Reporting
  <2> QED
    BY <2>3, <2>4 DEF IInv
<1>4. CASE RegisterServiceCtrlHandlerEx
  <2>1. /\ main = "register" /\ main' \in {"start", "returned"}
        /\ UNCHANGED <<report, g_hSvcStopEvent>>
    BY <1>4 DEF RegisterServiceCtrlHandlerEx
  <2>2. ThreadsInv'
    BY <1>1, <1>2, <2>1 DEF IInv, ThreadsInv, Reporting
  <2>3. ASSUME HasEvent' PROVE MainInv' /\ HandlerInv'
    <3>1. HasEvent
      BY <2>1, <2>3 DEF HasEvent
    <3>2. MainInv /\ HandlerInv /\ ThreadsInv
      BY <3>1 DEF IInv
    <3>3. \A c \in CallersOfReport : ~Reporting(c) /\ ~Reporting(c)'
      BY <2>1, <3>2 DEF MainInv, ThreadsInv, Reporting
    <3> QED
      BY <1>1, <2>1, <3>2, <3>3 DEF MainInv, HandlerInv, S, Up, Reporting
  <2> QED
    BY <2>2, <2>3 DEF IInv
<1>5. CASE ReportStartPending \/ ReportRunning \/ WaitAndReportStopped
  <2>1. /\ <<main, main'>> \in {<<"start", "run">>, <<"run", "work">>, <<"wait", "returned">>}
        /\ g_hSvcStopEvent' = g_hSvcStopEvent
        /\ main = "wait" => g_hSvcStopEvent \in {"set", "none"}
        /\ ~Reporting("main") /\ report'["main"] = <<Reported("main")', 1>>
    BY <1>5 DEF ReportStartPending, ReportRunning, WaitAndReportStopped, Begin, IInv, TypeOK,
                Reported, Reporting
  <2>2. Reporting("main")'
    BY <2>1 DEF Reporting
  <2>3. ThreadsInv'
    BY <1>1, <1>2, <2>1, <2>2 DEF IInv, ThreadsInv, S
  <2>4. ASSUME HasEvent' PROVE MainInv' /\ HandlerInv'
    <3>1. HasEvent
      BY <2>1, <2>4 DEF HasEvent
    <3>2. MainInv /\ HandlerInv /\ ThreadsInv
      BY <3>1 DEF IInv
    <3>3. main = "wait" => g_hSvcStopEvent = "set"
      BY <2>1, <3>1 DEF HasEvent
    <3>4. handler = "idle" /\ ~Reporting("handler")
      BY <2>1, <3>2, <3>3 DEF MainInv, HandlerInv, ThreadsInv
    <3>5. MainInv'
      BY <1>1, <2>1, <2>2, <3>2, <3>3, <3>4 DEF MainInv, HandlerInv, S
    <3>6. HandlerInv'
      BY <1>1, <1>2, <2>1, <3>2, <3>3, <3>4 DEF HandlerInv, Reporting, S
    <3> QED
      BY <3>5, <3>6
  <2> QED
    BY <2>3, <2>4 DEF IInv
<1> QED
  BY <1>3, <1>4, <1>5, WorkKeepsIInv DEF MyServiceMain

(* MyServiceHandlerEx begins its report, and obeys when that was made. *)
LEMMA HandlerKeepsIInv == ASSUME IInv, TypeOK', MyServiceHandlerEx PROVE IInv'
<1> USE DEF CallersOfReport
<1>1. /\ UNCHANGED <<main, control, scm, g_MyServiceStatus>>
      /\ \/ g_hSvcStopEvent' = g_hSvcStopEvent
         \/ g_hSvcStopEvent' = "set" /\ g_hSvcStopEvent # "none"
  <2>1. CASE ReportPending
    BY <2>1 DEF ReportPending
  <2>2. CASE Obey
    BY <2>2 DEF Obey
  <2> QED
    BY <2>1, <2>2 DEF MyServiceHandlerEx
<1>2. HasEvent' <=> HasEvent
  BY <1>1 DEF HasEvent
<1>3. \A c \in CallersOfReport : Reported(c)' = Reported(c)
  BY <1>1 DEF Reported
<1>4. CASE ReportPending
  <2>1. /\ handler = "report" /\ handler' = "after" /\ ~Reporting("handler")
        /\ g_hSvcStopEvent' = g_hSvcStopEvent
        /\ report'["handler"] = <<Reported("handler"), 1>> /\ report'["main"] = report["main"]
    BY <1>4 DEF ReportPending, Begin, IInv, TypeOK, Reported
  <2>2. Reporting("handler")' /\ (Reporting("main")' <=> Reporting("main"))
    BY <2>1 DEF Reporting
  <2>3. ThreadsInv'
    BY <1>1, <1>3, <2>1, <2>2 DEF IInv, ThreadsInv, S
  <2>4. ASSUME HasEvent PROVE MainInv' /\ HandlerInv'
    BY <1>1, <2>1, <2>2, <2>4 DEF IInv, MainInv, HandlerInv, S, Reporting
  <2> QED
    BY <1>2, <2>3, <2>4 DEF IInv
<1>5. CASE Obey
  <2>1. /\ handler = "after" /\ handler' = "idle" /\ ~Reporting("handler") /\ report' = report
        /\ g_hSvcStopEvent' # g_hSvcStopEvent => control = "STOP"
    BY <1>5 DEF Obey
  <2>2. \A c \in CallersOfReport : Reporting(c)' <=> Reporting(c)
    BY <2>1 DEF Reporting
  <2>3. ThreadsInv'
    BY <1>1, <1>3, <2>1, <2>2 DEF IInv, ThreadsInv, S
  <2>4. ASSUME HasEvent PROVE MainInv' /\ HandlerInv'
    <3>1. MainInv /\ HandlerInv
      BY <2>4 DEF IInv
    <3>2. Serving /\ S = PendingState(control)
      BY <2>1, <3>1 DEF HandlerInv
    <3>3. g_hSvcStopEvent' = "set" => S = "STOP_PENDING"
      <4>1. CASE g_hSvcStopEvent = "set"
        BY <3>1, <3>2, <4>1 DEF HandlerInv
      <4>2. CASE g_hSvcStopEvent # "set"
        BY <2>1, <3>2, <4>2 DEF PendingState
      <4> QED
        BY <4>1, <4>2
    <3>4. MainInv'
      BY <1>1, <2>1, <2>2, <3>1, <3>2 DEF MainInv, S
    <3>5. HandlerInv'
      BY <1>1, <2>1, <2>2, <3>1, <3>2, <3>3 DEF HandlerInv, S
    <3> QED
      BY <3>4, <3>5
  <2> QED
    BY <1>2, <2>3, <2>4 DEF IInv
<1> QED
  BY <1>4, <1>5 DEF MyServiceHandlerEx

(* The manager starts the service, sends a control, or sees it end. *)
LEMMA ManagerKeepsIInv ==
  ASSUME IInv, TypeOK', Start \/ Exit \/ \E c \in Controls : Control(c)
  PROVE  IInv'
<1> USE DEF CallersOfReport
<1>1. report' = report
  BY DEF Start, Exit, Control
<1>2. CASE Start
  <2>1. /\ main = "off" /\ main' = "create" /\ handler = "idle" /\ handler' = handler
        /\ scm'.dwCurrentState = "START_PENDING" /\ g_hSvcStopEvent' = "none"
    BY <1>2 DEF Start, ZeroStatus, IInv, ThreadsInv
  <2>2. \A c \in CallersOfReport : ~Reporting(c)'
    BY <1>1, <2>1 DEF IInv, ThreadsInv, Reporting
  <2>3. ThreadsInv'
    BY <2>1, <2>2 DEF ThreadsInv, S
  <2>4. MainInv' /\ HandlerInv'
    BY <2>1, <2>2 DEF MainInv, HandlerInv, S, Reporting
  <2> QED
    BY <2>3, <2>4 DEF IInv
<1>3. CASE Exit
  <2>1. /\ main = "returned" /\ main' = "off" /\ handler = "idle" /\ handler' = handler
        /\ ~Reporting("main") /\ scm'.dwCurrentState = "STOPPED"
    BY <1>3 DEF Exit, ZeroStatus
  <2>2. \A c \in CallersOfReport : ~Reporting(c)'
    BY <1>1, <2>1 DEF IInv, ThreadsInv, Reporting
  <2> QED
    BY <2>1, <2>2 DEF IInv, ThreadsInv, MainInv, HandlerInv, S, Reporting
<1>4. ASSUME NEW c \in Controls, Control(c) PROVE IInv'
  <2>1. /\ handler = "idle" /\ handler' = "report"
        /\ main \notin {"off", "create", "register"}
        /\ S \notin {"STOPPED", "START_PENDING", "STOP_PENDING"}
        /\ UNCHANGED <<main, scm, g_MyServiceStatus, g_hSvcStopEvent>>
    BY <1>4 DEF Control, S
  <2>2. \A d \in CallersOfReport : Reporting(d)' <=> Reporting(d)
    BY <1>1 DEF Reporting
  <2>3. ~Reporting("handler") /\ Reported("main")' = Reported("main")
    BY <2>1 DEF IInv, ThreadsInv, Reported
  <2>4. ThreadsInv'
    BY <1>1, <2>1, <2>2, <2>3 DEF IInv, ThreadsInv, S
  <2>5. HasEvent' <=> HasEvent
    BY <2>1 DEF HasEvent
  <2>6. ASSUME HasEvent PROVE MainInv' /\ HandlerInv'
    <3>1. MainInv /\ HandlerInv
      BY <2>6 DEF IInv
    <3>2. Serving /\ S \in Up /\ ~Reporting("main")
      BY <2>1, <3>1 DEF MainInv, IInv, TypeOK
    <3>3. MainInv'
      BY <2>1, <2>2, <3>1, <3>2 DEF MainInv, S
    <3>4. HandlerInv'
      BY <1>1, <2>1, <2>2, <2>3, <3>1, <3>2 DEF HandlerInv, S
    <3> QED
      BY <3>3, <3>4
  <2> QED
    BY <2>4, <2>5, <2>6 DEF IInv
<1> QED
  BY <1>2, <1>3, <1>4

LEMMA InitIInv == ASSUME Init PROVE IInv
<1> USE DEF CallersOfReport
<1>1. /\ main = "off" /\ handler = "idle" /\ S = "STOPPED" /\ g_hSvcStopEvent = "none"
      /\ \A c \in CallersOfReport : ~Reporting(c) /\ report[c][2] = 0
  BY DEF Init, S, Reporting, NoReport, ZeroStatus
<1>2. TypeOK
  <2>1. ZeroStatus \in Status /\ scm \in Status
    BY DEF Init, ZeroStatus, Status, States
  <2>2. dwCheckPoint \in Nat \ {0}
    BY DEF Init
  <2>3. g_bPausedFlag \in BOOLEAN
    BY DEF Init
  <2> QED
    BY <2>1, <2>2, <2>3 DEF Init, TypeOK, NoReport, States, Controls
<1>3. ThreadsInv
  BY <1>1 DEF ThreadsInv
<1>4. MainInv /\ HandlerInv
  BY <1>1 DEF MainInv, HandlerInv
<1> QED
  BY <1>2, <1>3, <1>4 DEF IInv

LEMMA StepIInv == ASSUME IInv, [Next]_vars PROVE IInv'
<1>1. TypeOK'
  BY TypeStep DEF IInv
<1>2. CASE UNCHANGED vars
  BY <1>2 DEF vars, IInv, TypeOK, ThreadsInv, MainInv, HandlerInv, HasEvent, S, Reporting, Reported
<1> QED
  BY <1>1, <1>2, MainKeepsIInv, WorkKeepsIInv, HandlerKeepsIInv, ReportKeepsIInv, ManagerKeepsIInv
     DEF Next

LEMMA Inductive == Spec => []IInv
BY InitIInv, StepIInv, PTL DEF Spec

-----------------------------------------------------------------------------
(* Every variable stays in its range, whatever the bound on the controls. *)
THEOREM TypeCorrect == Spec => []TypeOK
<1>1. IInv => TypeOK
  BY DEF IInv
<1> QED
  BY <1>1, Inductive, PTL

(* MyServiceMain and MyServiceHandlerEx are never in the unlocked          *)
(* ReportServiceStatus together, in a process that has its stop event.     *)
THEOREM NoOverlap == Spec => []ReportsDoNotOverlap
<1>1. IInv => ReportsDoNotOverlap
  BY DEF IInv, ThreadsInv, MainInv, HandlerInv, ReportsDoNotOverlap, Up, TypeOK, CallersOfReport
<1> QED
  BY <1>1, Inductive, PTL

(* The manager sees a legal history: each status it is given may follow    *)
(* the one before.                                                         *)
THEOREM LegalHistory == Spec => LegalReports
<1> DEFINE Pair == <<scm.dwCurrentState, scm'.dwCurrentState>>
<1>1. ASSUME IInv, [Next]_vars, HasEvent, scm' # scm PROVE Pair \in Legal
  <2>1. CASE Start
    BY <1>1, <2>1 DEF Start, ZeroStatus, IInv, ThreadsInv, S, Legal
  <2>2. CASE Exit
    <3>1. scm'.dwCurrentState = "STOPPED" /\ scm.dwCurrentState \in {"STOPPED", "START_PENDING"}
      BY <1>1, <2>2 DEF Exit, ZeroStatus, IInv, MainInv, S
    <3> QED
      BY <3>1 DEF Legal
  <2>3. ASSUME NEW c \in CallersOfReport, SetServiceStatus(c) PROVE Pair \in Legal
    <3>1. MainInv /\ HandlerInv /\ ThreadsInv /\ Reporting(c)
      BY <1>1, <2>3 DEF IInv, SetServiceStatus, At, Reporting
    <3>2. scm'.dwCurrentState = Reported(c)
      BY <2>3, <3>1 DEF SetServiceStatus, At, ThreadsInv, HandlerInv
    <3>3. CASE c = "main"
      <4>1. main = "run" \/ Serving \/ main = "returned"
        BY <1>1, <3>1, <3>3 DEF ThreadsInv, IInv, TypeOK
      <4>2. <<S, Reported(c)>> \in {<<"START_PENDING", "START_PENDING">>,
                                    <<"START_PENDING", "RUNNING">>, <<"STOP_PENDING", "STOPPED">>}
        BY <3>1, <3>3, <4>1 DEF MainInv, Reported
      <4> QED
        BY <3>2, <4>2 DEF Legal, S
    <3>4. CASE c = "handler"
      <4>1. S \in Up /\ Reported(c) \in {"STOP_PENDING", "PAUSE_PENDING", "CONTINUE_PENDING"}
        BY <1>1, <3>1, <3>4, PendingStates DEF HandlerInv, Reported, IInv, TypeOK
      <4> QED
        BY <3>2, <4>1 DEF Legal, S, Up
    <3> QED
      BY <3>3, <3>4 DEF CallersOfReport
  <2> QED
    BY <1>1, <2>1, <2>2, <2>3 DEF Next, vars, RemoteThreadEnds, MyServiceMain, CreateEvent,
       RegisterServiceCtrlHandlerEx, ReportStartPending, ReportRunning, MyServiceWorker,
       WaitAndReportStopped, MyServiceHandlerEx, ReportPending, Obey, Control,
       ReportServiceStatus, WriteState, WriteControls, WriteCheckPoint
<1>2. IInv /\ [Next]_vars => [HasEvent => Pair \in Legal]_scm
  BY <1>1
<1> QED
  BY <1>2, Inductive, PTL DEF Spec, LegalReports

-----------------------------------------------------------------------------
(* The counter is ahead of the manager, and so is a status about to be     *)
(* handed over.                                                            *)
CInv ==
  /\ scm.dwCheckPoint < dwCheckPoint
  /\ \A c \in CallersOfReport : report[c][2] = 4 =>
       \/ g_MyServiceStatus.dwCheckPoint = 0
       \/ /\ scm.dwCheckPoint < g_MyServiceStatus.dwCheckPoint
          /\ g_MyServiceStatus.dwCheckPoint < dwCheckPoint

LEMMA StepCInv ==
  ASSUME IInv, IInv', [Next]_vars, HasEvent => CInv, HasEvent' PROVE CInv'
<1> USE DEF CallersOfReport
<1>0. /\ dwCheckPoint \in Nat \ {0} /\ scm.dwCheckPoint \in Nat
      /\ g_MyServiceStatus.dwCheckPoint \in Nat
  BY DEF IInv, TypeOK, Status
<1>1. CASE Start \/ Exit
  <2>1. scm'.dwCheckPoint = 0 /\ dwCheckPoint' \in Nat /\ dwCheckPoint' > 0
    <3>1. CASE Start
      BY <3>1 DEF Start, ZeroStatus
    <3>2. CASE Exit
      BY <3>2, <1>0 DEF Exit, ZeroStatus
    <3> QED
      BY <1>1, <3>1, <3>2
  <2>2. report' = report /\ main \in {"off", "returned"} /\ ~Reporting("main")
          /\ ~Reporting("handler")
    BY <1>1 DEF Start, Exit, IInv, ThreadsInv
  <2>3. \A c \in CallersOfReport : report'[c][2] # 4
    BY <2>2 DEF Reporting
  <2> QED
    BY <2>1, <2>3 DEF CInv
<1>2. CASE ~(Start \/ Exit)
  <2>1. HasEvent
    <3>1. CASE main \in {"off", "create"}
      BY <3>1 DEF HasEvent
    <3>2. CASE main \notin {"off", "create"}
      <4>1. CASE UNCHANGED vars
        BY <4>1 DEF vars, HasEvent
      <4>2. CASE ~UNCHANGED vars
        <5>1. main' # "off" /\ main' # "create"
          BY <1>2, <3>2, <4>2 DEF Next, RemoteThreadEnds, MyServiceMain, CreateEvent,
             RegisterServiceCtrlHandlerEx, ReportStartPending, ReportRunning, MyServiceWorker,
             WaitAndReportStopped, MyServiceHandlerEx, ReportPending, Obey, Control,
             ReportServiceStatus, WriteState, WriteControls, WriteCheckPoint, SetServiceStatus
        <5>2. g_hSvcStopEvent' # "none" => g_hSvcStopEvent # "none"
          BY <1>2, <3>2, <4>2 DEF Next, RemoteThreadEnds, MyServiceMain, CreateEvent,
             RegisterServiceCtrlHandlerEx, ReportStartPending, ReportRunning, MyServiceWorker,
             WaitAndReportStopped, MyServiceHandlerEx, ReportPending, Obey, Control,
             ReportServiceStatus, WriteState, WriteControls, WriteCheckPoint, SetServiceStatus
        <5> QED
          BY <5>1, <5>2 DEF HasEvent
      <4> QED
        BY <4>1, <4>2
    <3> QED
      BY <3>1, <3>2
  <2>2. CInv
    BY <2>1
  <2>3. ASSUME NEW c \in CallersOfReport, ReportServiceStatus(c) PROVE CInv'
    <3>1. /\ report[c][2] \in 1..4
          /\ report'[c] = IF report[c][2] = 4 THEN NoReport
                          ELSE <<report[c][1], report[c][2] + 1>>
          /\ \A d \in CallersOfReport : d # c => report'[d] = report[d]
      BY <2>3 DEF ReportServiceStatus, WriteState, WriteControls, WriteCheckPoint,
                  SetServiceStatus, At, IInv, TypeOK
    <3>2. \A d \in CallersOfReport : d # c => ~Reporting(d)
      BY <2>1, <3>1 DEF IInv, ThreadsInv, MainInv, HandlerInv, Up, Reporting, TypeOK
    <3>3. \A d \in CallersOfReport : d # c => report[d][2] = 0 /\ report'[d][2] = 0
      BY <3>1, <3>2 DEF Reporting
    <3>4. CASE WriteState(c) \/ WriteControls(c)
      <4>1. report'[c][2] # 4 /\ UNCHANGED <<scm, dwCheckPoint>>
        BY <3>1, <3>4 DEF WriteState, WriteControls, At
      <4> QED
        BY <2>2, <3>3, <4>1 DEF CInv
    <3>5. CASE WriteCheckPoint(c)
      <4>1. scm' = scm
        BY <3>5 DEF WriteCheckPoint
      <4>2. \/ g_MyServiceStatus'.dwCheckPoint = 0 /\ dwCheckPoint' = dwCheckPoint
            \/ /\ g_MyServiceStatus'.dwCheckPoint = dwCheckPoint
               /\ dwCheckPoint' = dwCheckPoint + 1
        BY <3>3, <3>5 DEF WriteCheckPoint, IInv, TypeOK, Status
      <4>3. scm.dwCheckPoint < dwCheckPoint
        BY <2>2 DEF CInv
      <4>4. /\ scm'.dwCheckPoint < dwCheckPoint'
            /\ \/ g_MyServiceStatus'.dwCheckPoint = 0
               \/ /\ scm'.dwCheckPoint < g_MyServiceStatus'.dwCheckPoint
                  /\ g_MyServiceStatus'.dwCheckPoint < dwCheckPoint'
        BY <1>0, <4>1, <4>2, <4>3
      <4> QED
        BY <4>4 DEF CInv
    <3>6. CASE SetServiceStatus(c)
      <4>1. /\ scm' = g_MyServiceStatus /\ dwCheckPoint' = dwCheckPoint /\ report[c][2] = 4
            /\ \A d \in CallersOfReport : report'[d][2] # 4
        BY <3>1, <3>3, <3>6 DEF SetServiceStatus, At, NoReport
      <4>2. \/ g_MyServiceStatus.dwCheckPoint = 0
            \/ g_MyServiceStatus.dwCheckPoint < dwCheckPoint
        BY <2>2, <4>1 DEF CInv
      <4>3. scm'.dwCheckPoint < dwCheckPoint'
        BY <1>0, <4>1, <4>2
      <4> QED
        BY <4>1, <4>3 DEF CInv
    <3> QED
      BY <2>3, <3>4, <3>5, <3>6 DEF ReportServiceStatus
  <2>4. CASE MyServiceMain \/ RemoteThreadEnds \/ MyServiceHandlerEx
               \/ (\E c \in Controls : Control(c)) \/ UNCHANGED vars
    <3>1. UNCHANGED <<scm, dwCheckPoint, g_MyServiceStatus>>
      BY <2>4 DEF MyServiceMain, RemoteThreadEnds, CreateEvent, RegisterServiceCtrlHandlerEx,
         ReportStartPending, ReportRunning, MyServiceWorker, WaitAndReportStopped,
         MyServiceHandlerEx, ReportPending, Obey, Control, vars
    <3>2. \A c \in CallersOfReport : report'[c] = report[c] \/ report'[c][2] = 1
      BY <2>4 DEF MyServiceMain, RemoteThreadEnds, CreateEvent, RegisterServiceCtrlHandlerEx,
         ReportStartPending, ReportRunning, MyServiceWorker, WaitAndReportStopped,
         MyServiceHandlerEx, ReportPending, Obey, Control, vars, Begin, IInv, TypeOK
    <3> QED
      BY <2>2, <3>1, <3>2 DEF CInv
  <2> QED
    BY <1>2, <2>3, <2>4 DEF Next
<1> QED
  BY <1>1, <1>2

(* The check point of two pending reports in a row grows, however many     *)
(* controls the service is sent.                                           *)
THEOREM CheckPointsIncrease == Spec => CheckPointsGrow
<1>1. Init => (HasEvent => CInv)
  BY DEF Init, CInv, CallersOfReport, NoReport, ZeroStatus
<1>2. IInv /\ IInv' /\ (HasEvent => CInv) /\ [Next]_vars => (HasEvent' => CInv')
  BY StepCInv
<1>3. Spec => [](HasEvent => CInv)
  BY <1>1, <1>2, Inductive, PTL DEF Spec
<1>4. ASSUME IInv, HasEvent => CInv, [Next]_vars, HasEvent, scm' # scm,
             scm.dwCheckPoint # 0, scm'.dwCheckPoint # 0
      PROVE  scm'.dwCheckPoint > scm.dwCheckPoint
  <2>1. ~Start /\ ~Exit
    BY <1>4 DEF Start, Exit, ZeroStatus
  <2>2. PICK c \in CallersOfReport : SetServiceStatus(c)
    BY <1>4, <2>1 DEF Next, vars, RemoteThreadEnds, MyServiceMain, CreateEvent,
       RegisterServiceCtrlHandlerEx, ReportStartPending, ReportRunning, MyServiceWorker,
       WaitAndReportStopped, MyServiceHandlerEx, ReportPending, Obey, Control,
       ReportServiceStatus, WriteState, WriteControls, WriteCheckPoint
  <2>3. scm' = g_MyServiceStatus /\ report[c][2] = 4
    BY <2>2 DEF SetServiceStatus, At
  <2>4. scm.dwCheckPoint < g_MyServiceStatus.dwCheckPoint
    BY <1>4, <2>3 DEF CInv
  <2>5. scm.dwCheckPoint \in Nat /\ g_MyServiceStatus.dwCheckPoint \in Nat
    BY <1>4 DEF IInv, TypeOK, Status
  <2> QED
    BY <2>3, <2>4, <2>5
<1>5. IInv /\ (HasEvent => CInv) /\ [Next]_vars =>
        [HasEvent /\ scm.dwCheckPoint # 0 /\ scm'.dwCheckPoint # 0
           => scm'.dwCheckPoint > scm.dwCheckPoint]_scm
  BY <1>4
<1> QED
  BY <1>3, <1>5, Inductive, PTL DEF Spec, CheckPointsGrow

-----------------------------------------------------------------------------
(* Whoever told the manager of the stop has set the event or is about to.  *)
SetInv ==
  Serving /\ S = "STOP_PENDING" /\ handler = "idle" => g_hSvcStopEvent = "set"

LEMMA SetStep ==
  ASSUME IInv, HasEvent => SetInv, [Next]_vars, HasEvent'
  PROVE  SetInv'
<1> SUFFICES ASSUME Serving', S' = "STOP_PENDING", handler' = "idle"
             PROVE  g_hSvcStopEvent' = "set"
  BY DEF SetInv, S
<1>1. ~Start /\ ~Exit /\ ~CreateEvent /\ ~RegisterServiceCtrlHandlerEx /\ ~ReportStartPending
      /\ ~WaitAndReportStopped /\ ~ReportPending /\ \A c \in Controls : ~Control(c)
  BY DEF Start, Exit, CreateEvent, RegisterServiceCtrlHandlerEx, ReportStartPending,
         WaitAndReportStopped, ReportPending, Control
<1>2. HasEvent
  BY <1>1 DEF HasEvent, Next, vars, RemoteThreadEnds, MyServiceMain, ReportRunning,
              MyServiceWorker, MyServiceHandlerEx, Obey, ReportServiceStatus, WriteState,
              WriteControls, WriteCheckPoint, SetServiceStatus
<1>3. MainInv /\ HandlerInv /\ ThreadsInv /\ SetInv
  BY <1>2 DEF IInv
<1>4. ~ReportRunning
  BY <1>3 DEF ReportRunning, MainInv, S
<1>5. CASE Obey
  <2>1. S = PendingState(control) /\ S = "STOP_PENDING" /\ control \in Controls
    BY <1>3, <1>5 DEF Obey, HandlerInv, S, IInv, TypeOK
  <2>2. control = "STOP"
    BY <2>1 DEF PendingState, Controls
  <2>3. g_hSvcStopEvent # "none"
    BY <1>2, <1>5 DEF HasEvent, Obey
  <2> QED
    BY <1>5, <2>2, <2>3 DEF Obey
<1>6. ASSUME NEW c \in CallersOfReport, SetServiceStatus(c) PROVE g_hSvcStopEvent' = "set"
  <2>1. /\ Serving /\ handler = "idle" /\ report[c][2] = 4 /\ Reporting(c)
        /\ g_MyServiceStatus.dwCurrentState = "STOP_PENDING"
    BY <1>6 DEF SetServiceStatus, At, S, Reporting
  <2>2. c = "main"
    BY <1>3, <2>1 DEF ThreadsInv, CallersOfReport
  <2>3. report[c][1] = "RUNNING" /\ g_MyServiceStatus.dwCurrentState = report[c][1]
    BY <1>3, <2>1, <2>2 DEF ThreadsInv, HandlerInv, Reported
  <2> QED
    BY <2>1, <2>3
<1>7. CASE Serving /\ UNCHANGED <<scm, handler, g_hSvcStopEvent>>
  BY <1>3, <1>7 DEF SetInv, S
<1> QED
  BY <1>1, <1>4, <1>5, <1>6, <1>7
     DEF Next, vars, RemoteThreadEnds, MyServiceMain, MyServiceWorker, MyServiceHandlerEx,
         ReportServiceStatus, WriteState, WriteControls, WriteCheckPoint

(* main is woken from its wait by the stops the manager has heard of, all  *)
(* of them and no others, for any number of controls before.               *)
THEOREM StopsAreSignalled == Spec => []StopIsSignalled
<1>1. Init => (HasEvent => SetInv)
  BY DEF Init, SetInv
<1>2. IInv /\ (HasEvent => SetInv) /\ [Next]_vars => (HasEvent' => SetInv')
  BY SetStep
<1>3. IInv /\ (HasEvent => SetInv) => StopIsSignalled
  BY DEF IInv, HandlerInv, SetInv, StopIsSignalled, S
<1> QED
  BY <1>1, <1>2, <1>3, Inductive, PTL DEF Spec
=============================================================================

--------------------------- MODULE NcStatusProofs ---------------------------
(***************************************************************************)
(* Proofs about NcStatus, for any threads, codes and number of reports:    *)
(* the types, that each function of NcQuery implements Reporting, what the *)
(* board shows when nobody reports, what reaches the monitor, and that it  *)
(* is the monitor of NcMonitor.                                            *)
(***************************************************************************)
EXTENDS NcStatus, SequenceTheorems, TLAPS

USE ReportsAssumption

(* A thread with something to write is making a report, and no other makes *)
(* the same; it writes everything once, and the handler comes last.        *)
CallsInv ==
  /\ \A c \in Threads : cur[c] # None => cur[c] \in 1..Len(reports)
  /\ \A c \in Threads : cur[c] = None => todo[c] = <<>>
  /\ \A c, d \in Threads : cur[c] = cur[d] /\ cur[c] # None => c = d
  /\ \A c \in Threads : \A k \in 1..Len(todo[c]) : todo[c][k] = "callback" => k = Len(todo[c])
  /\ \A c \in Threads : \A j, k \in 1..Len(todo[c]) : todo[c][j] = todo[c][k] => j = k

IInv == TypeOK /\ CallsInv

CallTypes ==
  /\ reports \in Seq(Report) /\ Len(reports) <= MaxReports
  /\ cur \in [Threads -> Numbers \cup {None}]
  /\ todo \in [Threads -> Seq(Writes)]

-----------------------------------------------------------------------------
(* The functions. *)

Items(s) == {s[k] : k \in 1..Len(s)}

LEMMA FunctionFacts ==
  ASSUME NEW kind \in Kinds
  PROVE  /\ WritesOf(kind) \in Seq(Writes)
         /\ \A k \in 1..Len(WritesOf(kind)) :
              WritesOf(kind)[k] = "callback" => k = Len(WritesOf(kind))
         /\ \A j, k \in 1..Len(WritesOf(kind)) : WritesOf(kind)[j] = WritesOf(kind)[k] => j = k
         /\ kind \in {"ip", "opt", "card", "route"} =>
              {"status", "callback"} \subseteq Items(WritesOf(kind))
<1>1. CASE kind = "ip"
  <2>1. WritesOf(kind) = <<"status", "message", "service", "master", "callback">>
    BY <1>1 DEF WritesOf, SetNcIPStatus
  <2> QED BY <2>1, 1 \in 1..5, 5 \in 1..5 DEF Writes, Fields, Items
<1>2. CASE kind = "opt"
  <2>1. WritesOf(kind) = <<"status", "message", "master", "service", "callback">>
    BY <1>2 DEF WritesOf, SetNcOptStatus
  <2> QED BY <2>1, 1 \in 1..5, 5 \in 1..5 DEF Writes, Fields, Items
<1>3. CASE kind = "card"
  <2>1. WritesOf(kind) = <<"status", "message", "master", "service", "callback">>
    BY <1>3 DEF WritesOf, SetNetCardStatus
  <2> QED BY <2>1, 1 \in 1..5, 5 \in 1..5 DEF Writes, Fields, Items
<1>4. CASE kind = "event"
  <2>1. WritesOf(kind) = <<"extra", "status", "message", "master", "service">>
    BY <1>4 DEF WritesOf, SetEventRelt
  <2>2. kind \notin {"ip", "opt", "card", "route"}
    BY <1>4
  <2> QED BY <2>1, <2>2 DEF Writes, Fields
<1>5. CASE kind = "cardopt"
  <2>1. WritesOf(kind) = <<"extra", "callback">>
    BY <1>5 DEF WritesOf, SetNetCardOptStatus
  <2>2. kind \notin {"ip", "opt", "card", "route"}
    BY <1>5
  <2> QED BY <2>1, <2>2 DEF Writes, Fields
<1>6. CASE kind = "route"
  <2>1. WritesOf(kind) = <<"status", "message", "extra", "master", "callback">>
    BY <1>6 DEF WritesOf, SetRouteStatus
  <2> QED BY <2>1, 1 \in 1..5, 5 \in 1..5 DEF Writes, Fields, Items
<1>7. CASE kind = "clear"
  <2>1. WritesOf(kind) = <<"erase", "init", "master">>
    BY <1>7 DEF WritesOf, Clear
  <2>2. kind \notin {"ip", "opt", "card", "route"}
    BY <1>7
  <2> QED BY <2>1, <2>2 DEF Writes, Fields
<1> QED
  BY <1>1, <1>2, <1>3, <1>4, <1>5, <1>6, <1>7 DEF Kinds

-----------------------------------------------------------------------------
(* Every step is one of four, as far as the calls are concerned.           *)
Quiet == UNCHANGED <<reports, cur, todo>>

Begins(c) ==
  /\ cur[c] = None /\ Len(reports) < MaxReports
  /\ \E r \in Report : reports' = Append(reports, r) /\ todo' = [todo EXCEPT ![c] = WritesOf(r.kind)]
  /\ cur' = [cur EXCEPT ![c] = Len(reports) + 1]

Writing(c) == \E w : Does(c, w)

Ends(c) ==
  /\ todo[c] = <<>> /\ cur' = [cur EXCEPT ![c] = None]
  /\ UNCHANGED <<reports, todo>>

LEMMA FourSteps ==
  ASSUME [Next]_vars
  PROVE  Quiet \/ \E c \in Threads : Begins(c) \/ Writing(c) \/ Ends(c)
<1>1. CASE UNCHANGED vars
  BY <1>1 DEF vars, calls, Quiet
<1>2. ASSUME NEW c \in Threads, BeginCall(c) PROVE Begins(c)
  BY <1>2 DEF BeginCall, Begins, Idle
<1>3. ASSUME NEW c \in Threads, RegisterRecoverEvent(c) \/ HandleThread(c) PROVE Quiet
  BY <1>3 DEF RegisterRecoverEvent, HandleThread, calls, Quiet
<1>4. ASSUME NEW c \in Threads, EndCall(c) PROVE Ends(c)
  BY <1>4 DEF EndCall, Ends
<1>5. ASSUME NEW c \in Threads,
             \/ updateStatus(c) \/ updateMasterStatus(c) \/ UpdateModuleStatus(c)
             \/ ClearMap(c) \/ InitModules(c) \/ CallHandler(c)
      PROVE  Writing(c)
  BY <1>5 DEF updateStatus, updateMasterStatus, UpdateModuleStatus, ClearMap, InitModules,
              CallHandler, Writing
<1>6. ASSUME MonitorGoesOn PROVE Quiet
  BY <1>6 DEF MonitorGoesOn, calls, Quiet
<1> QED
  BY <1>1, <1>2, <1>3, <1>4, <1>5, <1>6 DEF Next, Call, Continue

LEMMA TailFacts ==
  ASSUME NEW S, NEW s \in Seq(S), s # <<>>
  PROVE  /\ Tail(s) \in Seq(S) /\ Len(Tail(s)) = Len(s) - 1 /\ Len(s) \in Nat \ {0}
         /\ \A k \in 1..Len(Tail(s)) : k + 1 \in 1..Len(s) /\ Tail(s)[k] = s[k + 1]
         /\ Head(s) = s[1] /\ Items(s) = {Head(s)} \cup Items(Tail(s))
<1>1. /\ Tail(s) \in Seq(S) /\ Len(Tail(s)) = Len(s) - 1 /\ Len(s) \in Nat \ {0}
      /\ \A k \in 1..Len(Tail(s)) : k + 1 \in 1..Len(s) /\ Tail(s)[k] = s[k + 1]
      /\ Head(s) = s[1]
  BY HeadTailProperties, EmptySeq, LenProperties
<1>2. ASSUME NEW k \in 1..Len(s) PROVE s[k] = Head(s) \/ s[k] \in Items(Tail(s))
  <2>1. k = 1 \/ (k - 1 \in 1..Len(Tail(s)) /\ Tail(s)[k - 1] = s[k])
    BY <1>1
  <2> QED BY <1>1, <2>1 DEF Items
<1>3. Items(Tail(s)) \subseteq Items(s)
  BY <1>1 DEF Items
<1>4. Head(s) \in Items(s)
  BY <1>1, 1 \in 1..Len(s) DEF Items
<1> QED
  BY <1>1, <1>2, <1>3, <1>4 DEF Items
-----------------------------------------------------------------------------
(* Types. *)

LEMMA InitIInv == Init => IInv
<1> SUFFICES ASSUME Init PROVE IInv
  OBVIOUS
<1>1. InitialMap(0) \in [Names -> [Fields -> Numbers \cup {None}]]
  BY DEF InitialMap, Numbers, None
<1>2. InitialService(0) \in [Names -> Numbers \cup {None}]
  BY DEF InitialService, Numbers, None
<1>3. master \in [code : Codes \cup {0}, state : {"R", "S", "E"}, msg : Numbers]
  BY DEF Init, Numbers
<1>4. reports = <<>> /\ reports \in Seq(Report) /\ Len(reports) = 0
  BY DEF Init
<1>5. todo \in [Threads -> Seq(Writes)] /\ \A c \in Threads : todo[c] = <<>>
  BY DEF Init
<1>6. cur \in [Threads -> Numbers \cup {None}] /\ \A c \in Threads : cur[c] = None
  BY DEF Init
<1>7. m_recoverHandle \in BOOLEAN /\ mixed \in BOOLEAN /\ delivered \in SUBSET Numbers
  BY DEF Init
<1>8. TypeOK
  BY <1>1, <1>2, <1>3, <1>4, <1>5, <1>6, <1>7 DEF TypeOK, Init
<1>9. CallsInv
  BY <1>5, <1>6 DEF CallsInv
<1> QED
  BY <1>8, <1>9 DEF IInv

LEMMA CallTypesKept == ASSUME IInv, [Next]_vars PROVE CallTypes'
<1>1. CallTypes
  BY DEF IInv, TypeOK, CallTypes
<1>2. CASE Quiet
  BY <1>1, <1>2 DEF Quiet, CallTypes
<1>3. ASSUME NEW c \in Threads, Begins(c) PROVE CallTypes'
  <2>1. PICK r \in Report : reports' = Append(reports, r) /\ todo' = [todo EXCEPT ![c] = WritesOf(r.kind)]
    BY <1>3 DEF Begins
  <2>2. WritesOf(r.kind) \in Seq(Writes)
    BY FunctionFacts DEF Report
  <2>3. reports' \in Seq(Report) /\ Len(reports') = Len(reports) + 1 /\ Len(reports) \in Nat
    BY <1>1, <2>1, AppendProperties, LenProperties DEF CallTypes
  <2>4. Len(reports') <= MaxReports /\ Len(reports) + 1 \in Numbers
    BY <1>3, <2>3 DEF Begins, Numbers
  <2>5. cur' \in [Threads -> Numbers \cup {None}]
    BY <1>1, <1>3, <2>4 DEF Begins, CallTypes
  <2>6. todo' \in [Threads -> Seq(Writes)]
    BY <1>1, <2>1, <2>2 DEF CallTypes
  <2> QED BY <2>3, <2>4, <2>5, <2>6 DEF CallTypes
<1>4. ASSUME NEW c \in Threads, Writing(c) PROVE CallTypes'
  <2>1. todo[c] # <<>> /\ todo' = [todo EXCEPT ![c] = Tail(@)] /\ UNCHANGED <<reports, cur>>
    BY <1>4 DEF Writing, Does
  <2>2. Tail(todo[c]) \in Seq(Writes)
    BY <1>1, <2>1, TailFacts DEF CallTypes
  <2> QED BY <1>1, <2>1, <2>2 DEF CallTypes
<1>5. ASSUME NEW c \in Threads, Ends(c) PROVE CallTypes'
  BY <1>1, <1>5 DEF Ends, CallTypes
<1> QED
  BY <1>2, <1>3, <1>4, <1>5, FourSteps

(* A thread with something to write is making a report. *)
LEMMA CurOfWriter ==
  ASSUME IInv, NEW c \in Threads, todo[c] # <<>>
  PROVE  cur[c] \in 1..Len(reports) /\ cur[c] \in Numbers /\ reports[cur[c]] \in Report
<1>1. cur[c] \in 1..Len(reports)
  BY DEF IInv, CallsInv
<1>2. Len(reports) \in Nat /\ Len(reports) <= MaxReports
  BY DEF IInv, TypeOK
<1> QED
  BY <1>1, <1>2 DEF IInv, TypeOK, Numbers

LEMMA TypeKept == ASSUME IInv, [Next]_vars PROVE TypeOK'
<1>1. CallTypes' /\ TypeOK
  BY CallTypesKept DEF IInv
<1> SUFFICES /\ (m_mapStatus \in [Names -> [Fields -> Numbers \cup {None}]])'
             /\ (master \in [code : Codes \cup {0}, state : {"R", "S", "E"}, msg : Numbers])'
             /\ (service \in [Names -> Numbers \cup {None}])'
             /\ m_recoverHandle' \in BOOLEAN /\ mixed' \in BOOLEAN
             /\ delivered' \in SUBSET Numbers
  BY <1>1 DEF CallTypes, TypeOK
<1>2. CASE UNCHANGED vars
  BY <1>1, <1>2 DEF vars, query, calls, TypeOK
<1>3. ASSUME NEW c \in Threads, BeginCall(c)
      PROVE  mixed' \in BOOLEAN /\ UNCHANGED <<query, m_recoverHandle, delivered>>
  BY <1>1, <1>3 DEF BeginCall, TypeOK
<1>4. ASSUME NEW c \in Threads, RegisterRecoverEvent(c)
      PROVE  m_recoverHandle' \in BOOLEAN /\ UNCHANGED <<query, mixed, delivered>>
  BY <1>4 DEF RegisterRecoverEvent, calls
<1>5. ASSUME NEW c \in Threads, HandleThread(c)
      PROVE  delivered' = {} /\ UNCHANGED <<query, m_recoverHandle, mixed>>
  BY <1>5 DEF HandleThread, calls
<1>6. ASSUME NEW c \in Threads, updateStatus(c)
      PROVE  /\ m_mapStatus' \in [Names -> [Fields -> Numbers \cup {None}]]
             /\ UNCHANGED <<master, service, m_recoverHandle, mixed, delivered>>
  <2>1. PICK f \in Fields :
          /\ Does(c, f)
          /\ m_mapStatus' = [m_mapStatus EXCEPT ![GetChdModuleName(reports[cur[c]].kind)][f] = cur[c]]
    BY <1>6 DEF updateStatus
  <2>2. cur[c] \in Numbers
    BY <2>1, CurOfWriter DEF Does
  <2>3. m_mapStatus' \in [Names -> [Fields -> Numbers \cup {None}]]
    BY <1>1, <2>1, <2>2 DEF TypeOK
  <2> QED BY <1>6, <2>1, <2>3 DEF updateStatus, Does
<1>7. ASSUME NEW c \in Threads, updateMasterStatus(c)
      PROVE  /\ master' \in [code : Codes \cup {0}, state : {"R", "S", "E"}, msg : Numbers]
             /\ UNCHANGED <<m_mapStatus, service, m_recoverHandle, mixed, delivered>>
  <2>1. cur[c] \in Numbers /\ reports[cur[c]].code \in Codes \cup {0}
    BY <1>7, CurOfWriter DEF updateMasterStatus, Does, Report
  <2>2. MasterState(reports[cur[c]].code) \in {"R", "S", "E"}
    BY DEF MasterState
  <2> QED BY <1>7, <2>1, <2>2 DEF updateMasterStatus, Does
<1>8. ASSUME NEW c \in Threads, UpdateModuleStatus(c)
      PROVE  /\ service' \in [Names -> Numbers \cup {None}]
             /\ UNCHANGED <<m_mapStatus, master, m_recoverHandle, mixed, delivered>>
  <2>1. cur[c] \in Numbers
    BY <1>8, CurOfWriter DEF UpdateModuleStatus, Does
  <2> QED BY <1>1, <1>8, <2>1 DEF UpdateModuleStatus, Does, TypeOK
<1>9. ASSUME NEW c \in Threads, ClearMap(c)
      PROVE  /\ m_mapStatus' \in [Names -> [Fields -> Numbers \cup {None}]]
             /\ UNCHANGED <<master, service, m_recoverHandle, mixed, delivered>>
  BY <1>9 DEF ClearMap, Does
<1>10. ASSUME NEW c \in Threads, InitModules(c)
       PROVE  /\ m_mapStatus' \in [Names -> [Fields -> Numbers \cup {None}]]
              /\ service' \in [Names -> Numbers \cup {None}]
              /\ UNCHANGED <<master, m_recoverHandle, mixed, delivered>>
  <2>1. cur[c] \in Numbers
    BY <1>10, CurOfWriter DEF InitModules, Does
  <2> QED BY <1>10, <2>1 DEF InitModules, Does, InitialMap, InitialService
<1>11. ASSUME NEW c \in Threads, CallHandler(c)
       PROVE  delivered' \in SUBSET Numbers /\ UNCHANGED <<query, m_recoverHandle, mixed>>
  <2>1. cur[c] \in Numbers
    BY <1>11, CurOfWriter DEF CallHandler, Does
  <2>2. delivered' \in {delivered, delivered \cup {cur[c]}}
    BY <1>11 DEF CallHandler, RecoverEvent, HandleUpdateRouteTable, HandleUpdateNetCardOptions
  <2>3. delivered' \in SUBSET Numbers
    BY <1>1, <2>1, <2>2 DEF TypeOK
  <2> QED BY <1>11, <2>3 DEF CallHandler, Does
<1>12. ASSUME NEW c \in Threads, EndCall(c)
       PROVE  UNCHANGED <<query, m_recoverHandle, mixed, delivered>>
  BY <1>12 DEF EndCall
<1>13. ASSUME MonitorGoesOn PROVE UNCHANGED <<query, m_recoverHandle, mixed, delivered>>
  BY <1>13 DEF MonitorGoesOn, calls
<1> QED
  BY <1>1, <1>2, <1>3, <1>4, <1>5, <1>6, <1>7, <1>8, <1>9, <1>10, <1>11, <1>12, <1>13
     DEF Next, Call, Continue, TypeOK, query
-----------------------------------------------------------------------------
(* The calls. *)

LEMMA CallsKept == ASSUME IInv, [Next]_vars PROVE CallsInv'
<1>1. CallTypes /\ CallTypes' /\ CallsInv
  BY CallTypesKept DEF IInv, TypeOK, CallTypes
<1>2. Len(reports) \in Nat
  BY <1>1, LenProperties DEF CallTypes
<1>3. CASE Quiet
  BY <1>1, <1>3 DEF Quiet, CallsInv
<1>4. ASSUME NEW c \in Threads, Begins(c) PROVE CallsInv'
  <2>1. PICK r \in Report : reports' = Append(reports, r) /\ todo' = [todo EXCEPT ![c] = WritesOf(r.kind)]
    BY <1>4 DEF Begins
  <2>2. Len(reports') = Len(reports) + 1
    BY <1>1, <2>1, AppendProperties DEF CallTypes
  <2>3. cur' = [cur EXCEPT ![c] = Len(reports) + 1] /\ cur[c] = None
    BY <1>4 DEF Begins
  <2>4. ASSUME NEW d \in Threads, d # c PROVE cur'[d] = cur[d] /\ todo'[d] = todo[d]
    BY <1>1, <2>1, <2>3, <2>4 DEF CallTypes
  <2>5. cur'[c] = Len(reports) + 1 /\ todo'[c] = WritesOf(r.kind) /\ cur'[c] # None
    BY <1>1, <1>2, <2>1, <2>3 DEF CallTypes, None
  <2>6. \A d \in Threads : cur'[d] # None => cur'[d] \in 1..Len(reports')
    BY <1>1, <1>2, <2>2, <2>4, <2>5 DEF CallsInv
  <2>7. \A d \in Threads : cur'[d] = None => todo'[d] = <<>>
    BY <1>1, <2>4, <2>5 DEF CallsInv
  <2>8. \A d, e \in Threads : cur'[d] = cur'[e] /\ cur'[d] # None => d = e
    <3>1. \A d \in Threads : cur[d] # Len(reports) + 1
      BY <1>1, <1>2 DEF CallsInv, None
    <3> QED BY <1>1, <2>4, <2>5, <3>1 DEF CallsInv
  <2>9. \A d \in Threads : \A k \in 1..Len(todo'[d]) : todo'[d][k] = "callback" => k = Len(todo'[d])
    BY <1>1, <2>4, <2>5, FunctionFacts DEF CallsInv, Report
  <2>10. \A d \in Threads : \A j, k \in 1..Len(todo'[d]) : todo'[d][j] = todo'[d][k] => j = k
    BY <1>1, <2>4, <2>5, FunctionFacts DEF CallsInv, Report
  <2> QED BY <2>6, <2>7, <2>8, <2>9, <2>10 DEF CallsInv
<1>5. ASSUME NEW c \in Threads, Writing(c) PROVE CallsInv'
  <2>1. todo[c] # <<>> /\ todo' = [todo EXCEPT ![c] = Tail(@)] /\ UNCHANGED <<reports, cur>>
    BY <1>5 DEF Writing, Does
  <2>2. todo'[c] = Tail(todo[c]) /\ \A d \in Threads \ {c} : todo'[d] = todo[d]
    BY <1>1, <2>1 DEF CallTypes
  <2>3. /\ Len(Tail(todo[c])) = Len(todo[c]) - 1 /\ Len(todo[c]) \in Nat \ {0}
        /\ \A k \in 1..Len(Tail(todo[c])) : k + 1 \in 1..Len(todo[c]) /\ Tail(todo[c])[k] = todo[c][k + 1]
    BY <1>1, <2>1, TailFacts DEF CallTypes
  <2>4. \A d \in Threads : cur'[d] = None => todo'[d] = <<>>
    BY <1>1, <2>1, <2>2 DEF CallsInv
  <2>5. \A d \in Threads : \A k \in 1..Len(todo'[d]) : todo'[d][k] = "callback" => k = Len(todo'[d])
    <3>1. ASSUME NEW k \in 1..Len(todo'[c]), todo'[c][k] = "callback" PROVE k = Len(todo'[c])
      <4>1. k + 1 = Len(todo[c])
        BY <1>1, <2>2, <2>3, <3>1 DEF CallsInv
      <4> QED BY <2>2, <2>3, <4>1
    <3>2. ASSUME NEW d \in Threads \ {c}, NEW k \in 1..Len(todo'[d]), todo'[d][k] = "callback"
          PROVE  k = Len(todo'[d])
      <4>1. todo'[d] = todo[d]
        BY <2>2
      <4> QED BY <1>1, <3>2, <4>1 DEF CallsInv
    <3> QED BY <3>1, <3>2
  <2>6. \A d \in Threads : \A j, k \in 1..Len(todo'[d]) : todo'[d][j] = todo'[d][k] => j = k
    <3>1. ASSUME NEW j \in 1..Len(todo'[c]), NEW k \in 1..Len(todo'[c]), todo'[c][j] = todo'[c][k]
          PROVE  j = k
      <4>1. j + 1 = k + 1
        BY <1>1, <2>2, <2>3, <3>1 DEF CallsInv
      <4> QED BY <4>1
    <3> QED BY <1>1, <2>2, <3>1 DEF CallsInv
  <2> QED BY <1>1, <2>1, <2>4, <2>5, <2>6 DEF CallsInv
<1>6. ASSUME NEW c \in Threads, Ends(c) PROVE CallsInv'
  <2>1. cur'[c] = None /\ \A d \in Threads \ {c} : cur'[d] = cur[d]
    BY <1>1, <1>6 DEF Ends, CallTypes
  <2> QED BY <1>1, <1>6, <2>1 DEF Ends, CallsInv
<1> QED
  BY <1>3, <1>4, <1>5, <1>6, FourSteps

LEMMA Invariance == Spec => []IInv
<1>1. IInv /\ [Next]_vars => IInv'
  BY TypeKept, CallsKept DEF IInv
<1> QED
  BY InitIInv, <1>1, PTL DEF Spec

(* The map, the master status, the service's list and the calls keep their *)
(* types, whatever is reported and however the calls overlap.              *)
THEOREM TypeCorrect == Spec => []TypeOK
<1>1. IInv => TypeOK
  BY DEF IInv
<1> QED
  BY <1>1, Invariance, PTL

-----------------------------------------------------------------------------
(* Reports, and what is left of them. *)

LEMMA LeftMeans ==
  ASSUME NEW n
  PROVE  /\ \A w : w \in Left(n) <=> \E c \in Threads : cur[c] = n /\ w \in Items(todo[c])
         /\ \A w : w \in Left(n)' <=> \E c \in Threads : cur'[c] = n /\ w \in Items(todo[c])'
  BY DEF Left, Items

(* The steps but those that write leave every report as it was. *)
LEMMA QuietSteps ==
  ASSUME IInv, NEW c \in Threads, Quiet \/ Begins(c) \/ Ends(c)
  PROVE  Settled' = Settled /\ Recovered' = Recovered
<1>1. CallTypes /\ CallsInv
  BY DEF IInv, TypeOK, CallTypes
<1>2. CASE Quiet
  BY <1>2 DEF Quiet, Settled, Recovered, StatusReports, Left
<1>3. CASE Begins(c)
  <2>1. PICK r \in Report : reports' = Append(reports, r) /\ todo' = [todo EXCEPT ![c] = WritesOf(r.kind)]
    BY <1>3 DEF Begins
  <2>2. /\ Len(reports') = Len(reports) + 1 /\ Len(reports) \in Nat
        /\ \A n \in 1..Len(reports) : reports'[n] = reports[n]
        /\ reports'[Len(reports) + 1] = r
    BY <1>1, <2>1, AppendProperties, LenProperties DEF CallTypes
  <2>3. /\ cur'[c] = Len(reports) + 1 /\ todo'[c] = WritesOf(r.kind) /\ todo[c] = <<>>
        /\ \A d \in Threads \ {c} : cur'[d] = cur[d] /\ todo'[d] = todo[d]
    BY <1>1, <1>3, <2>1 DEF Begins, CallTypes, CallsInv
  <2>4. ASSUME NEW n \in 1..Len(reports) PROVE Left(n)' = Left(n)
    <3>1. n # cur'[c] /\ n # cur[c]
      BY <1>3, <2>2, <2>3 DEF Begins, None
    <3>2. \A w : w \in Left(n)' <=> w \in Left(n)
      BY <2>3, <3>1, LeftMeans DEF Items
    <3> QED BY <3>2
  <2>5. ASSUME NEW n, n = Len(reports) + 1, r.kind \in {"ip", "opt", "card", "route"}
        PROVE  "status" \in Left(n)' /\ "callback" \in Left(n)'
    <3>1. {"status", "callback"} \subseteq Items(WritesOf(r.kind))
      BY <2>5, FunctionFacts DEF Report
    <3>2. {"status", "callback"} \subseteq Items(todo[c])'
      BY <2>3, <3>1 DEF Items
    <3> QED BY <2>3, <2>5, <3>2, LeftMeans
  <2>6. Settled' = Settled
    <3>1. ASSUME NEW n PROVE n \in Settled' <=> n \in Settled
      <4>1. n \in Settled' <=> n \in StatusReports' /\ Left(n)' \subseteq {"callback"}
        BY DEF Settled
      <4>2. n \in Settled <=> n \in StatusReports /\ Left(n) \subseteq {"callback"}
        BY DEF Settled
      <4>3. CASE n \in 1..Len(reports)
        BY <2>2, <2>4, <4>1, <4>2, <4>3 DEF StatusReports
      <4>4. CASE n = Len(reports) + 1
        BY <2>2, <2>5, <4>1, <4>2, <4>4 DEF StatusReports
      <4>5. CASE n \notin 1..Len(reports) /\ n # Len(reports) + 1
        BY <2>2, <4>1, <4>2, <4>5 DEF StatusReports
      <4> QED BY <4>3, <4>4, <4>5
    <3> QED BY <3>1
  <2>7. Recovered' = Recovered
    <3>1. ASSUME NEW n PROVE n \in Recovered' <=> n \in Recovered
      <4>1. n \in Recovered' <=> n \in StatusReports' /\ "callback" \notin Left(n)'
        BY DEF Recovered
      <4>2. n \in Recovered <=> n \in StatusReports /\ "callback" \notin Left(n)
        BY DEF Recovered
      <4>3. CASE n \in 1..Len(reports)
        BY <2>2, <2>4, <4>1, <4>2, <4>3 DEF StatusReports
      <4>4. CASE n = Len(reports) + 1
        BY <2>2, <2>5, <4>1, <4>2, <4>4 DEF StatusReports
      <4>5. CASE n \notin 1..Len(reports) /\ n # Len(reports) + 1
        BY <2>2, <4>1, <4>2, <4>5 DEF StatusReports
      <4> QED BY <4>3, <4>4, <4>5
    <3> QED BY <3>1
  <2> QED BY <2>6, <2>7
<1>4. CASE Ends(c)
  <2>1. /\ cur'[c] = None /\ \A d \in Threads \ {c} : cur'[d] = cur[d]
        /\ Items(todo[c]) = {} /\ UNCHANGED <<reports, todo>>
    BY <1>1, <1>4 DEF Ends, CallTypes, Items
  <2>2. ASSUME NEW n \in StatusReports PROVE Left(n)' = Left(n)
    <3>1. n # None
      BY DEF StatusReports, None
    <3>2. ASSUME NEW d \in Threads, NEW w, w \in Items(todo[d])
          PROVE  cur'[d] = n <=> cur[d] = n
      BY <2>1, <3>1, <3>2
    <3>3. \A d \in Threads : Items(todo[d])' = Items(todo[d])
      BY <2>1 DEF Items
    <3>4. \A w : w \in Left(n)' <=> w \in Left(n)
      BY <3>2, <3>3, LeftMeans
    <3> QED BY <3>4
  <2>3. StatusReports' = StatusReports
    BY <2>1 DEF StatusReports
  <2> QED BY <2>2, <2>3 DEF Settled, Recovered
<1> QED
  BY <1>2, <1>3, <1>4
(* A write settles the report or not, and a call of the handler recovers   *)
(* what is settled: in every function it is the last thing left to do.     *)
LEMMA WritingSteps ==
  ASSUME IInv, NEW c \in Threads, Writing(c)
  PROVE  [Board!Next]_<<Settled, Recovered>>
<1>1. CallTypes /\ CallsInv
  BY DEF IInv, TypeOK, CallTypes
<1>2. PICK w : Does(c, w)
  BY DEF Writing
<1>3. todo[c] # <<>> /\ Head(todo[c]) = w /\ UNCHANGED <<reports, cur>>
  BY <1>2 DEF Does
<1>4. /\ todo[c] \in Seq(Writes) /\ todo'[c] = Tail(todo[c])
      /\ \A d \in Threads \ {c} : todo'[d] = todo[d]
  BY <1>1, <1>2 DEF CallTypes, Does
<1>5. PICK n \in 1..MaxReports : n = cur[c] /\ n \in 1..Len(reports)
  BY <1>1, <1>3, CurOfWriter DEF CallTypes, Numbers
<1>6. \A d \in Threads : cur[d] = n => d = c
  BY <1>1, <1>5 DEF CallsInv, None
<1>7. Items(todo[c]) = {w} \cup Items(Tail(todo[c]))
  BY <1>3, <1>4, TailFacts
<1>8. w \notin Items(Tail(todo[c])) /\ (w = "callback" => Items(Tail(todo[c])) = {})
  <2>1. /\ Len(Tail(todo[c])) = Len(todo[c]) - 1 /\ Len(todo[c]) \in Nat \ {0}
        /\ \A k \in 1..Len(Tail(todo[c])) : k + 1 \in 1..Len(todo[c]) /\ Tail(todo[c])[k] = todo[c][k + 1]
        /\ w = todo[c][1]
    BY <1>3, <1>4, TailFacts
  <2>2. ASSUME NEW k \in 1..Len(Tail(todo[c])) PROVE Tail(todo[c])[k] # w
    <3>1. 1 \in 1..Len(todo[c]) /\ k + 1 \in 1..Len(todo[c]) /\ k + 1 # 1
      BY <2>1
    <3> QED BY <1>1, <2>1, <3>1 DEF CallsInv
  <2>3. w = "callback" => Len(todo[c]) = 1
    <3>1. 1 \in 1..Len(todo[c])
      BY <2>1
    <3> QED BY <1>1, <2>1, <3>1 DEF CallsInv
  <2>4. w = "callback" => Len(Tail(todo[c])) = 0
    BY <2>1, <2>3
  <2>5. w = "callback" => Items(Tail(todo[c])) = {}
    BY <2>4 DEF Items
  <2> QED BY <2>2, <2>5 DEF Items
<1>9. Left(n) = Items(todo[c]) /\ Left(n)' = Items(Tail(todo[c]))
  <2>1. \A x : x \in Left(n) <=> x \in Items(todo[c])
    BY <1>5, <1>6, LeftMeans
  <2>2. Items(todo[c])' = Items(Tail(todo[c]))
    BY <1>4 DEF Items
  <2>3. \A x : x \in Left(n)' <=> x \in Items(Tail(todo[c]))
    BY <1>3, <1>5, <1>6, <2>2, LeftMeans
  <2> QED BY <2>1, <2>3
<1>10. ASSUME NEW k \in 1..Len(reports), k # n PROVE Left(k)' = Left(k)
  <2>1. cur[c] # k
    BY <1>5, <1>10
  <2>2. \A d \in Threads \ {c} : Items(todo[d])' = Items(todo[d])
    BY <1>4 DEF Items
  <2>3. \A x : x \in Left(k)' <=> x \in Left(k)
    BY <1>3, <2>1, <2>2, LeftMeans
  <2> QED BY <2>3
<1>11. StatusReports' = StatusReports
  BY <1>3 DEF StatusReports
<1>12. ASSUME NEW k, k # n
       PROVE  (k \in Settled' <=> k \in Settled) /\ (k \in Recovered' <=> k \in Recovered)
  BY <1>10, <1>11, <1>12 DEF Settled, Recovered, StatusReports
<1>13. CASE n \notin StatusReports
  <2>1. Settled' = Settled /\ Recovered' = Recovered
    BY <1>11, <1>12, <1>13 DEF Settled, Recovered
  <2> QED BY <2>1
<1>14. CASE n \in StatusReports /\ w = "callback"
  <2>1. Left(n) = {"callback"} /\ Left(n)' = {}
    BY <1>7, <1>8, <1>9, <1>14
  <2>2. n \in Settled /\ n \in Settled' /\ n \notin Recovered /\ n \in Recovered'
    BY <1>11, <1>14, <2>1 DEF Settled, Recovered
  <2>3. Settled' = Settled /\ Recovered' = Recovered \cup {n}
    BY <1>12, <2>2
  <2> QED BY <2>2, <2>3 DEF Board!Next, Board!Recover
<1>15. CASE n \in StatusReports /\ w # "callback"
  <2>1. n \notin Settled /\ (n \in Recovered' <=> n \in Recovered)
    BY <1>7, <1>8, <1>9, <1>11, <1>15 DEF Settled, Recovered
  <2>2. Recovered' = Recovered /\ Settled' \in {Settled, Settled \cup {n}}
    BY <1>12, <2>1
  <2> QED BY <2>1, <2>2 DEF Board!Next, Board!Settle
<1> QED
  BY <1>13, <1>14, <1>15

(* The functions of NcQuery implement Reporting: whatever the order of     *)
(* their writes, and with any number of threads and reports, the handler   *)
(* is called once for each report and only when all of it is written.      *)
THEOREM FunctionsImplementReporting == Spec => ReportsSettleFirst
<1>1. Init => Board!Init
  <2> SUFFICES ASSUME Init PROVE Settled = {} /\ Recovered = {}
    BY DEF Board!Init
  <2>1. StatusReports = {}
    BY DEF Init, StatusReports
  <2> QED BY <2>1 DEF Settled, Recovered
<1>2. IInv /\ [Next]_vars => [Board!Next]_<<Settled, Recovered>>
  <2> SUFFICES ASSUME IInv, [Next]_vars PROVE [Board!Next]_<<Settled, Recovered>>
    OBVIOUS
  <2>1. CASE Quiet
    BY <2>1 DEF Quiet, Settled, Recovered, StatusReports, Left
  <2>2. ASSUME NEW c \in Threads, Begins(c) \/ Ends(c) PROVE Settled' = Settled /\ Recovered' = Recovered
    BY <2>2, QuietSteps
  <2> QED BY <2>1, <2>2, WritingSteps, FourSteps
<1> QED
  BY <1>1, <1>2, Invariance, PTL DEF Spec, ReportsSettleFirst, Board!Spec
-----------------------------------------------------------------------------
(* What the board shows. *)

(* While no two calls have overlapped, the only call under way is the last *)
(* one.  A thread has only writes of its own function left, and the map    *)
(* that was erased is initialised next.                                    *)
OrderInv ==
  /\ ~mixed => \A c \in Threads : cur[c] # None => cur[c] = Len(reports)
  /\ \A c \in Threads : \A w \in Items(todo[c]) : w \in Items(WritesOf(reports[cur[c]].kind))
  /\ \A c \in Threads : \A k \in 1..Len(todo[c]) :
       todo[c][k] = "erase" => k + 1 \in 1..Len(todo[c]) /\ todo[c][k + 1] = "init"

(* The master status is always that of the call it has the message of.     *)
CodeOf(n) == IF n = 0 THEN 0 ELSE reports[n].code

MasterInv ==
  /\ master.msg \in 0..Len(reports)
  /\ master = [code |-> CodeOf(master.msg), state |-> MasterState(CodeOf(master.msg)),
               msg |-> master.msg]

(* A place of the board is a module and one of these writes, or any module *)
(* and the master status.                                                  *)
Places == {"status", "message", "service", "master"}

(* Report n writes to the place; somebody still has to.                    *)
Touches(n, m, w) ==
  \/ reports[n].kind = "clear"
  \/ /\ w \in Items(WritesOf(reports[n].kind))
     /\ w = "master" \/ GetChdModuleName(reports[n].kind) = m

Owes(c, m, w) ==
  IF w # "master" /\ reports[cur[c]].kind = "clear"
  THEN "init" \in Items(todo[c])
  ELSE w \in Items(todo[c]) /\ (w = "master" \/ GetChdModuleName(reports[cur[c]].kind) = m)

Owed(m, w) == \E c \in Threads : todo[c] # <<>> /\ Owes(c, m, w)

(* What a place holds after report n: Init leaves out the repair.          *)
Mark(n, m) == IF m = "repair" /\ (n = 0 \/ reports[n].kind = "clear") THEN None ELSE n

IsLast(n, m, w) == n \in Touching(m, w) /\ \A k \in Touching(m, w) : k <= n

Shows(v, m, w) == \E n \in 0..Len(reports) : IsLast(n, m, w) /\ v = Mark(n, m)

Right(v, m, w) == Owed(m, w) \/ Shows(v, m, w)

ShownInv ==
  ~mixed =>
    /\ \A m \in Names, f \in {"status", "message"} : Right(m_mapStatus[m][f], m, f)
    /\ \A m \in Names : Right(service[m], m, "service")
    /\ Right(master.msg, "route", "master")

BoardInv == IInv /\ OrderInv /\ MasterInv /\ ShownInv

LEMMA KindFacts ==
  ASSUME NEW kind \in Kinds
  PROVE  /\ kind # "clear" => /\ "erase" \notin Items(WritesOf(kind)) /\ "init" \notin Items(WritesOf(kind))
                              /\ GetChdModuleName(kind) \in Names
         /\ kind = "clear" => Items(WritesOf(kind)) = {"erase", "init", "master"}
         /\ kind # "clear" /\ GetChdModuleName(kind) # "route" =>
              ("service" \in Items(WritesOf(kind)) <=> "message" \in Items(WritesOf(kind)))
         /\ \A k \in 1..Len(WritesOf(kind)) : WritesOf(kind)[k] = "erase" =>
              k + 1 \in 1..Len(WritesOf(kind)) /\ WritesOf(kind)[k + 1] = "init"
<1>1. CASE kind = "ip"
  <2>1. WritesOf(kind) = <<"status", "message", "service", "master", "callback">>
        /\ GetChdModuleName(kind) = "ncip"
    BY <1>1 DEF WritesOf, SetNcIPStatus, GetChdModuleName
  <2> QED BY <1>1, <2>1, 2 \in 1..5, 3 \in 1..5 DEF Items, Names, Modules
<1>2. CASE kind = "opt"
  <2>1. WritesOf(kind) = <<"status", "message", "master", "service", "callback">>
        /\ GetChdModuleName(kind) = "ncopt"
    BY <1>2 DEF WritesOf, SetNcOptStatus, GetChdModuleName
  <2> QED BY <1>2, <2>1, 2 \in 1..5, 4 \in 1..5 DEF Items, Names, Modules
<1>3. CASE kind = "card"
  <2>1. WritesOf(kind) = <<"status", "message", "master", "service", "callback">>
        /\ GetChdModuleName(kind) = "ncip"
    BY <1>3 DEF WritesOf, SetNetCardStatus, GetChdModuleName
  <2> QED BY <1>3, <2>1, 2 \in 1..5, 4 \in 1..5 DEF Items, Names, Modules
<1>4. CASE kind = "event"
  <2>1. WritesOf(kind) = <<"extra", "status", "message", "master", "service">>
        /\ GetChdModuleName(kind) = "repair"
    BY <1>4 DEF WritesOf, SetEventRelt, GetChdModuleName
  <2> QED BY <1>4, <2>1, 3 \in 1..5, 5 \in 1..5 DEF Items, Names, Modules
<1>5. CASE kind = "cardopt"
  <2>1. WritesOf(kind) = <<"extra", "callback">> /\ GetChdModuleName(kind) = "netcard"
    BY <1>5 DEF WritesOf, SetNetCardOptStatus, GetChdModuleName
  <2> QED BY <1>5, <2>1 DEF Items, Names, Modules
<1>6. CASE kind = "route"
  <2>1. WritesOf(kind) = <<"status", "message", "extra", "master", "callback">>
        /\ GetChdModuleName(kind) = "route"
    BY <1>6 DEF WritesOf, SetRouteStatus, GetChdModuleName
  <2> QED BY <1>6, <2>1 DEF Items, Names, Modules
<1>7. CASE kind = "clear"
  <2>1. WritesOf(kind) = <<"erase", "init", "master">>
    BY <1>7 DEF WritesOf, Clear
  <2>2. Items(WritesOf(kind)) = {"erase", "init", "master"}
    BY <2>1, 1 \in 1..3, 2 \in 1..3, 3 \in 1..3 DEF Items
  <2> QED BY <1>7, <2>1, <2>2
<1> QED
  BY <1>1, <1>2, <1>3, <1>4, <1>5, <1>6, <1>7 DEF Kinds

LEMMA TouchingMeans ==
  ASSUME NEW m, NEW w
  PROVE  Touching(m, w) = {0} \cup {n \in 1..Len(reports) : Touches(n, m, w)}
BY DEF Touching, Touches, Items

(* While the calls stay apart, the one that writes is the last report, and *)
(* nobody else has anything to write.                                      *)
LEMMA LoneWriter ==
  ASSUME BoardInv, ~mixed, NEW c \in Threads, NEW x, Does(c, x)
  PROVE  /\ cur[c] = Len(reports) /\ cur[c] \in 1..Len(reports) /\ cur[c] \in Numbers
         /\ reports[cur[c]] \in Report
         /\ x \in Items(WritesOf(reports[cur[c]].kind))
         /\ Items(todo[c]) = {x} \cup Items(todo'[c]) /\ todo[c] # <<>>
         /\ todo'[c] = Tail(todo[c]) /\ todo[c] \in Seq(Writes)
         /\ \A d \in Threads \ {c} : todo'[d] = <<>> /\ todo[d] = <<>>
         /\ \A w : w \in Items(todo'[c]) => todo'[c] # <<>>
         /\ UNCHANGED <<reports, cur, mixed>>
<1>1. CallTypes /\ CallsInv /\ OrderInv /\ IInv
  BY DEF BoardInv, IInv, TypeOK, CallTypes
<1>2. todo[c] # <<>> /\ Head(todo[c]) = x /\ UNCHANGED <<reports, cur, mixed>>
  BY DEF Does
<1>3. todo[c] \in Seq(Writes) /\ todo'[c] = Tail(todo[c]) /\ \A d \in Threads \ {c} : todo'[d] = todo[d]
  BY <1>1 DEF CallTypes, Does
<1>4. Items(todo[c]) = {x} \cup Items(todo'[c])
  BY <1>2, <1>3, TailFacts
<1>5. cur[c] \in 1..Len(reports) /\ cur[c] \in Numbers /\ reports[cur[c]] \in Report
  BY <1>1, <1>2, CurOfWriter
<1>6. cur[c] # None
  BY <1>5 DEF Numbers, None
<1>7. cur[c] = Len(reports)
  BY <1>1, <1>6 DEF OrderInv
<1>8. ASSUME NEW d \in Threads \ {c} PROVE todo[d] = <<>>
  <2>1. cur[d] # None => cur[d] = cur[c]
    BY <1>1, <1>7 DEF OrderInv
  <2> QED BY <1>1, <1>6, <2>1 DEF CallsInv
<1>9. \A w : w \in Items(todo'[c]) => todo'[c] # <<>>
  BY DEF Items
<1> QED
  BY <1>1, <1>2, <1>3, <1>4, <1>5, <1>7, <1>8, <1>9 DEF OrderInv

-----------------------------------------------------------------------------
LEMMA OrderKept == ASSUME BoardInv, [Next]_vars PROVE OrderInv'
<1>1. CallTypes /\ CallTypes' /\ CallsInv /\ OrderInv /\ IInv
  BY CallTypesKept DEF BoardInv, IInv, TypeOK, CallTypes
<1>2. Len(reports) \in Nat
  BY <1>1, LenProperties DEF CallTypes
<1>3. mixed => mixed'
  <2>1. mixed => UNCHANGED vars
    BY DEF Next
  <2> QED BY <2>1 DEF vars, calls
<1>4. CASE Quiet
  BY <1>1, <1>3, <1>4 DEF Quiet, OrderInv, Items
<1>5. ASSUME NEW c \in Threads, BeginCall(c) PROVE OrderInv'
  <2>1. PICK r \in Report : reports' = Append(reports, r) /\ todo' = [todo EXCEPT ![c] = WritesOf(r.kind)]
    BY <1>5 DEF BeginCall
  <2>2. /\ Len(reports') = Len(reports) + 1
        /\ \A n \in 1..Len(reports) : reports'[n] = reports[n]
        /\ reports'[Len(reports) + 1] = r
    BY <1>1, <2>1, AppendProperties, LenProperties DEF CallTypes
  <2>3. /\ cur'[c] = Len(reports) + 1 /\ todo'[c] = WritesOf(r.kind)
        /\ \A d \in Threads \ {c} : cur'[d] = cur[d] /\ todo'[d] = todo[d]
    BY <1>1, <1>5, <2>1 DEF BeginCall, CallTypes
  <2>4. ~mixed' => \A d \in Threads : cur'[d] # None => cur'[d] = Len(reports')
    BY <1>5, <2>2, <2>3 DEF BeginCall, Busy
  <2>5. ASSUME NEW d \in Threads, NEW w \in Items(todo'[d])
        PROVE  w \in Items(WritesOf(reports'[cur'[d]].kind))
    <3>1. CASE d = c
      BY <2>2, <2>3, <2>5, <3>1
    <3>2. CASE d # c
      <4>1. todo[d] # <<>> /\ cur'[d] = cur[d]
        BY <2>3, <2>5, <3>2 DEF Items
      <4>2. reports'[cur'[d]] = reports[cur[d]]
        BY <1>1, <2>2, <4>1 DEF CallsInv
      <4> QED BY <1>1, <2>3, <2>5, <3>2, <4>2 DEF OrderInv
    <3> QED BY <3>1, <3>2
  <2>6. \A k \in 1..Len(todo'[c]) : todo'[c][k] = "erase" =>
          k + 1 \in 1..Len(todo'[c]) /\ todo'[c][k + 1] = "init"
    BY <2>3, KindFacts DEF Report
  <2>7. \A d \in Threads : \A k \in 1..Len(todo'[d]) : todo'[d][k] = "erase" =>
          k + 1 \in 1..Len(todo'[d]) /\ todo'[d][k + 1] = "init"
    BY <1>1, <2>3, <2>6 DEF OrderInv
  <2> QED BY <2>4, <2>5, <2>7 DEF OrderInv, Items
<1>6. ASSUME NEW c \in Threads, Writing(c) PROVE OrderInv'
  <2>1. todo[c] # <<>> /\ todo' = [todo EXCEPT ![c] = Tail(@)] /\ UNCHANGED <<reports, cur, mixed>>
    BY <1>6 DEF Writing, Does
  <2>2. todo[c] \in Seq(Writes) /\ todo'[c] = Tail(todo[c]) /\ \A d \in Threads \ {c} : todo'[d] = todo[d]
    BY <1>1, <2>1 DEF CallTypes
  <2>3. /\ Len(Tail(todo[c])) = Len(todo[c]) - 1 /\ Len(todo[c]) \in Nat \ {0}
        /\ \A k \in 1..Len(Tail(todo[c])) : k + 1 \in 1..Len(todo[c]) /\ Tail(todo[c])[k] = todo[c][k + 1]
        /\ Items(Tail(todo[c])) \subseteq Items(todo[c])
    BY <2>1, <2>2, TailFacts
  <2>4. \A d \in Threads : \A w \in Items(todo'[d]) : w \in Items(WritesOf(reports'[cur'[d]].kind))
    BY <1>1, <2>1, <2>2, <2>3 DEF OrderInv
  <2>5. ASSUME NEW k \in 1..Len(todo'[c]), todo'[c][k] = "erase"
        PROVE  k + 1 \in 1..Len(todo'[c]) /\ todo'[c][k + 1] = "init"
    <3>1. k + 1 + 1 \in 1..Len(todo[c]) /\ todo[c][k + 1 + 1] = "init"
      BY <1>1, <2>2, <2>3, <2>5 DEF OrderInv
    <3>2. k + 1 \in 1..Len(Tail(todo[c]))
      BY <2>2, <2>3, <3>1
    <3> QED BY <2>2, <2>3, <3>1, <3>2
  <2>6. \A d \in Threads : \A k \in 1..Len(todo'[d]) : todo'[d][k] = "erase" =>
          k + 1 \in 1..Len(todo'[d]) /\ todo'[d][k + 1] = "init"
    <3>1. ASSUME NEW d \in Threads \ {c}, NEW k \in 1..Len(todo'[d]), todo'[d][k] = "erase"
          PROVE  k + 1 \in 1..Len(todo'[d]) /\ todo'[d][k + 1] = "init"
      <4>1. todo'[d] = todo[d]
        BY <2>2
      <4> QED BY <1>1, <3>1, <4>1 DEF OrderInv
    <3> QED BY <2>5, <3>1
  <2> QED BY <1>1, <2>1, <2>4, <2>6 DEF OrderInv, Items
<1>7. ASSUME NEW c \in Threads, EndCall(c) PROVE OrderInv'
  <2>1. /\ cur'[c] = None /\ \A d \in Threads \ {c} : cur'[d] = cur[d]
        /\ todo[c] = <<>> /\ UNCHANGED <<reports, todo, mixed>>
    BY <1>1, <1>7 DEF EndCall, CallTypes
  <2>2. Items(todo[c]) = {} /\ \A d \in Threads : Items(todo[d])' = Items(todo[d])
    BY <2>1 DEF Items
  <2>3. \A d \in Threads : \A w \in Items(todo[d])' : w \in Items(WritesOf(reports'[cur'[d]].kind))
    BY <1>1, <2>1, <2>2 DEF OrderInv
  <2>4. ~mixed' => \A d \in Threads : cur'[d] # None => cur'[d] = Len(reports')
    BY <1>1, <2>1 DEF OrderInv
  <2> QED BY <1>1, <2>1, <2>3, <2>4 DEF OrderInv, Items
<1>8. ASSUME NEW c \in Threads, Call(c) \/ Continue(c)
      PROVE  Quiet \/ BeginCall(c) \/ Writing(c) \/ EndCall(c)
  BY <1>8 DEF Call, Continue, RegisterRecoverEvent, HandleThread, calls, Quiet, updateStatus,
              updateMasterStatus, UpdateModuleStatus, ClearMap, InitModules, CallHandler, Writing
<1>9. MonitorGoesOn => Quiet
  BY DEF MonitorGoesOn, calls, Quiet
<1>10. UNCHANGED vars => Quiet
  BY DEF vars, calls, Quiet
<1> QED
  BY <1>4, <1>5, <1>6, <1>7, <1>8, <1>9, <1>10 DEF Next

(* The reports are only added to. *)
LEMMA ReportsGrow ==
  ASSUME IInv, [Next]_vars
  PROVE  /\ Len(reports) \in Nat /\ Len(reports') \in Nat /\ Len(reports) <= Len(reports')
         /\ \A n \in 1..Len(reports) : reports'[n] = reports[n]
<1>1. CallTypes /\ Len(reports) \in Nat
  BY LenProperties DEF IInv, TypeOK, CallTypes
<1>2. ASSUME NEW c \in Threads, Begins(c)
      PROVE  Len(reports') = Len(reports) + 1 /\ \A n \in 1..Len(reports) : reports'[n] = reports[n]
  BY <1>1, <1>2, AppendProperties DEF CallTypes, Begins
<1>3. ASSUME NEW c \in Threads, Writing(c) \/ Ends(c) PROVE reports' = reports
  BY <1>3 DEF Writing, Does, Ends
<1> QED
  BY <1>1, <1>2, <1>3, FourSteps DEF Quiet

LEMMA MasterKept == ASSUME BoardInv, [Next]_vars PROVE MasterInv'
<1>1. IInv /\ MasterInv
  BY DEF BoardInv
<1>2. ASSUME master' = master PROVE MasterInv'
  <2>1. CodeOf(master.msg)' = CodeOf(master.msg)
    BY <1>1, <1>2, ReportsGrow DEF MasterInv, CodeOf
  <2>2. master.msg \in 0..Len(reports')
    BY <1>1, ReportsGrow DEF MasterInv
  <2> QED BY <1>1, <1>2, <2>1, <2>2 DEF MasterInv
<1>3. ASSUME NEW c \in Threads, updateMasterStatus(c) PROVE MasterInv'
  <2>1. /\ master' = [code |-> reports[cur[c]].code, state |-> MasterState(reports[cur[c]].code),
                      msg |-> cur[c]]
        /\ todo[c] # <<>> /\ reports' = reports /\ cur' = cur
    BY <1>3 DEF updateMasterStatus, Does
  <2>2. cur[c] \in 1..Len(reports) /\ Len(reports) \in Nat
    BY <1>1, <2>1, CurOfWriter, ReportsGrow
  <2>3. master'.msg = cur[c] /\ CodeOf(cur[c])' = reports[cur[c]].code
    BY <2>1, <2>2 DEF CodeOf
  <2>4. master' = [code |-> CodeOf(cur[c])', state |-> MasterState(CodeOf(cur[c])'), msg |-> cur[c]]
    BY <2>1, <2>3
  <2>5. CodeOf(master.msg)' = CodeOf(cur[c])'
    BY <2>1, <2>2, <2>3 DEF CodeOf
  <2> QED BY <2>1, <2>2, <2>3, <2>4, <2>5 DEF MasterInv
<1>4. ASSUME NEW c \in Threads, Call(c) \/ Continue(c), ~updateMasterStatus(c) PROVE master' = master
  BY <1>4 DEF Call, Continue, BeginCall, RegisterRecoverEvent, HandleThread, query, updateStatus,
              UpdateModuleStatus, ClearMap, InitModules, CallHandler, EndCall
<1>5. MonitorGoesOn \/ UNCHANGED vars => master' = master
  BY DEF MonitorGoesOn, vars, query
<1> QED
  BY <1>2, <1>3, <1>4, <1>5 DEF Next

-----------------------------------------------------------------------------
(* What a step that adds no report leaves as it was. *)
LEMMA SameReports ==
  ASSUME reports' = reports, NEW n, NEW m, NEW w
  PROVE  (IsLast(n, m, w)' <=> IsLast(n, m, w)) /\ Mark(n, m)' = Mark(n, m)
<1>1. Touching(m, w)' = Touching(m, w)
  BY DEF Touching
<1> QED
  BY <1>1 DEF IsLast, Mark

(* A write settles what it owed and no other place.                        *)
LEMMA WriteFacts ==
  ASSUME BoardInv, ~mixed, NEW c \in Threads, NEW x, Does(c, x), NEW m \in Names, NEW w \in Places
  PROVE  /\ Owed(m, w) => \/ Owed(m, w)'
                          \/ x = w /\ (w = "master" \/ GetChdModuleName(reports[cur[c]].kind) = m)
                          \/ x = "init" /\ w # "master"
         /\ x = w /\ (w = "master" \/ GetChdModuleName(reports[cur[c]].kind) = m) =>
              IsLast(cur[c], m, w)
         /\ x = "init" /\ w # "master" => IsLast(cur[c], m, w) /\ reports[cur[c]].kind = "clear"
         /\ x = "erase" /\ w # "master" => Owed(m, w)'
         /\ x \in Fields \cup {"service"} => reports[cur[c]].kind # "clear"
<1>1. /\ cur[c] = Len(reports) /\ cur[c] \in 1..Len(reports) /\ reports[cur[c]].kind \in Kinds
      /\ x \in Items(WritesOf(reports[cur[c]].kind))
      /\ Items(todo[c]) = {x} \cup Items(todo'[c]) /\ todo[c] # <<>> 
      /\ todo'[c] = Tail(todo[c]) /\ todo[c] \in Seq(Writes)
      /\ \A d \in Threads \ {c} : todo[d] = <<>>
      /\ UNCHANGED <<reports, cur, mixed>>
  BY LoneWriter DEF Report
<1>2. \A v : v \in Items(todo'[c]) => todo'[c] # <<>>
  BY LoneWriter
<1>3. Owed(m, w) => Owes(c, m, w)
  BY <1>1 DEF Owed
<1>4. Items(todo[c])' = Items(todo'[c])
  BY DEF Items
<1>5. Owes(c, m, w)' => Owed(m, w)'
  BY <1>2, <1>4 DEF Owed, Owes
<1>6. Owes(c, m, w) => \/ Owes(c, m, w)'
                       \/ x = w /\ (w = "master" \/ GetChdModuleName(reports[cur[c]].kind) = m)
                       \/ x = "init" /\ w # "master"
  BY <1>1, <1>4 DEF Owes
<1>7. Touches(cur[c], m, w) => IsLast(cur[c], m, w)
  BY <1>1, TouchingMeans DEF IsLast
<1>8. x \in {"init", "erase"} => reports[cur[c]].kind = "clear"
  BY <1>1, KindFacts
<1>9. x = "erase" => "init" \in Items(todo'[c])
  <2>1. Head(todo[c]) = x /\ 1 \in 1..Len(todo[c]) /\ Head(todo[c]) = todo[c][1]
    BY <1>1, TailFacts DEF Does
  <2>2. x = "erase" => 2 \in 1..Len(todo[c]) /\ todo[c][2] = "init"
    BY <2>1 DEF BoardInv, OrderInv
  <2>3. x = "erase" => "init" \in Items(todo[c])
    BY <2>2 DEF Items
  <2> QED BY <1>1, <2>3
<1>10. x \in Fields \cup {"service"} => reports[cur[c]].kind # "clear"
  BY <1>1, KindFacts DEF Fields
<1> QED
  BY <1>1, <1>3, <1>4, <1>5, <1>6, <1>7, <1>8, <1>9, <1>10 DEF Touches, Owes

(* A report that is begun owes every place it touches, and leaves the      *)
(* others as they were.                                                    *)
LEMMA BeginFacts ==
  ASSUME BoardInv, ~mixed, ~mixed', NEW c \in Threads, BeginCall(c), NEW m \in Names, NEW w \in Places
  PROVE  \/ Owed(m, w)'
         \/ /\ ~Owed(m, w)
            /\ \A n \in 0..Len(reports) : (IsLast(n, m, w)' <=> IsLast(n, m, w)) /\ Mark(n, m)' = Mark(n, m)
<1>1. CallTypes /\ CallsInv
  BY DEF BoardInv, IInv, TypeOK, CallTypes
<1>2. ~Owed(m, w)
  <2>1. \A d \in Threads : todo[d] = <<>>
    BY <1>1 DEF BeginCall, Busy, CallsInv
  <2> QED BY <2>1 DEF Owed
<1>3. PICK r \in Report : reports' = Append(reports, r) /\ todo' = [todo EXCEPT ![c] = WritesOf(r.kind)]
  BY DEF BeginCall
<1>4. /\ Len(reports') = Len(reports) + 1 /\ Len(reports) \in Nat
      /\ \A n \in 1..Len(reports) : reports'[n] = reports[n]
      /\ reports'[Len(reports) + 1] = r
  BY <1>1, <1>3, AppendProperties, LenProperties DEF CallTypes
<1>5. cur'[c] = Len(reports) + 1 /\ todo'[c] = WritesOf(r.kind)
  BY <1>1, <1>3 DEF BeginCall, CallTypes
<1>6. ASSUME NEW n \in 1..Len(reports) PROVE Touches(n, m, w)' <=> Touches(n, m, w)
  <2>1. reports'[n] = reports[n]
    BY <1>4
  <2> QED BY <2>1 DEF Touches, Items
<1> DEFINE Touched ==
      \/ r.kind = "clear"
      \/ w \in Items(WritesOf(r.kind)) /\ (w = "master" \/ GetChdModuleName(r.kind) = m)
<1>7. CASE Touched
  <2>1. Items(todo[c])' = Items(WritesOf(r.kind)) /\ reports'[cur'[c]] = r
    BY <1>4, <1>5 DEF Items
  <2>2. Owes(c, m, w)'
    BY <1>7, <2>1, KindFacts DEF Owes, Report
  <2>3. Items(todo[c])' # {}
    BY <2>2 DEF Owes
  <2>4. todo'[c] # <<>>
    BY <2>3 DEF Items
  <2> QED BY <2>2, <2>4 DEF Owed
<1>8. CASE ~Touched
  <2>1. ASSUME NEW k, k = Len(reports) + 1 PROVE ~Touches(k, m, w)'
    <3>1. reports'[k] = r
      BY <1>4, <2>1
    <3> QED BY <1>8, <3>1 DEF Touches, Items
  <2>2. Touching(m, w)' = {0} \cup {n \in 1..Len(reports') : Touches(n, m, w)'}
    BY DEF Touching, Touches, Items
  <2>3. Touching(m, w) = {0} \cup {n \in 1..Len(reports) : Touches(n, m, w)}
    BY TouchingMeans
  <2>4. \A k \in 1..Len(reports') : k \in 1..Len(reports) \/ k = Len(reports) + 1
    BY <1>4
  <2>5. Touching(m, w)' = Touching(m, w)
    BY <1>4, <1>6, <2>1, <2>2, <2>3, <2>4
  <2>6. ASSUME NEW n \in 0..Len(reports)
        PROVE  (IsLast(n, m, w)' <=> IsLast(n, m, w)) /\ Mark(n, m)' = Mark(n, m)
    BY <1>4, <2>5 DEF IsLast, Mark
  <2> QED BY <1>2, <2>6
<1> QED
  BY <1>7, <1>8

LEMMA ShownKept == ASSUME BoardInv, [Next]_vars PROVE ShownInv'
<1>1. IInv /\ TypeOK /\ MasterInv
  BY DEF BoardInv, IInv
<1>2. mixed => mixed'
  <2>1. mixed => UNCHANGED vars
    BY DEF Next
  <2> QED BY <2>1 DEF vars, calls
<1> SUFFICES ASSUME ~mixed, ~mixed' PROVE ShownInv'
  BY <1>2 DEF ShownInv
<1>3. /\ \A m \in Names, f \in {"status", "message"} : Right(m_mapStatus[m][f], m, f)
      /\ \A m \in Names : Right(service[m], m, "service")
      /\ Right(master.msg, "route", "master")
  BY DEF BoardInv, ShownInv
<1>4. "route" \in Names /\ {"status", "message", "service", "master"} \subseteq Places
  BY DEF Names, Modules, Places
(* A step that leaves the board and what is owed to it. *)
<1>5. ASSUME UNCHANGED <<query, reports>>,
             \A m \in Names, w \in Places : Owed(m, w) => Owed(m, w)'
      PROVE  ShownInv'
  <2>1. UNCHANGED <<m_mapStatus, master, service, reports>>
    BY <1>5 DEF query
  <2> QED BY <1>3, <1>4, <1>5, <2>1, SameReports DEF ShownInv, Right, Shows
<1>6. ASSUME UNCHANGED vars PROVE ShownInv'
  <2>1. UNCHANGED <<query, reports, cur, todo>>
    BY <1>6 DEF vars, calls
  <2> QED BY <1>5, <2>1 DEF Owed, Owes, Items
<1>7. ASSUME NEW c \in Threads, BeginCall(c) PROVE ShownInv'
  <2>1. UNCHANGED <<m_mapStatus, master, service>>
    BY <1>7 DEF BeginCall, query
  <2>2. \A n \in 0..Len(reports) : n \in 0..Len(reports')
    BY <1>1, ReportsGrow
  <2> QED BY <1>3, <1>4, <1>7, <2>1, <2>2, BeginFacts DEF ShownInv, Right, Shows
<1>8. ASSUME NEW c \in Threads, RegisterRecoverEvent(c) \/ HandleThread(c) PROVE ShownInv'
  <2>1. UNCHANGED <<query, reports, cur, todo>>
    BY <1>8 DEF RegisterRecoverEvent, HandleThread, calls
  <2> QED BY <1>5, <2>1 DEF Owed, Owes, Items
<1>9. ASSUME MonitorGoesOn PROVE ShownInv'
  <2>1. UNCHANGED <<query, reports, cur, todo>>
    BY <1>9 DEF MonitorGoesOn, calls
  <2> QED BY <1>5, <2>1 DEF Owed, Owes, Items
<1>10. ASSUME NEW c \in Threads, EndCall(c) PROVE ShownInv'
  <2>1. /\ \A d \in Threads \ {c} : cur'[d] = cur[d]
        /\ todo[c] = <<>> /\ UNCHANGED <<query, reports, todo>>
    BY <1>1, <1>10 DEF EndCall, TypeOK
  <2>2. ASSUME NEW m \in Names, NEW w \in Places, Owed(m, w) PROVE Owed(m, w)'
    <3>1. PICK d \in Threads : todo[d] # <<>> /\ Owes(d, m, w)
      BY <2>2 DEF Owed
    <3>2. cur'[d] = cur[d] /\ Items(todo[d])' = Items(todo[d]) /\ todo'[d] # <<>>
      BY <2>1, <3>1 DEF Items
    <3>3. Owes(d, m, w)'
      BY <2>1, <3>1, <3>2 DEF Owes
    <3> QED BY <3>2, <3>3 DEF Owed
  <2> QED BY <1>5, <2>1, <2>2
<1>11. ASSUME NEW c \in Threads, CallHandler(c) PROVE ShownInv'
  <2>1. Does(c, "callback") /\ UNCHANGED <<query, reports>>
    BY <1>11 DEF CallHandler, Does
  <2>2. ASSUME NEW m \in Names, NEW w \in Places, Owed(m, w) PROVE Owed(m, w)'
    BY <2>1, <2>2, WriteFacts DEF Places
  <2> QED BY <1>5, <2>1, <2>2
<1>12. ASSUME NEW c \in Threads, NEW x, Does(c, x)
       PROVE  /\ reports' = reports /\ cur[c] \in 0..Len(reports)
              /\ reports[cur[c]].kind # "clear" =>
                   Mark(cur[c], GetChdModuleName(reports[cur[c]].kind)) = cur[c]
  <2>1. reports' = reports /\ cur[c] \in 1..Len(reports)
    BY <1>12, LoneWriter
  <2> QED BY <2>1 DEF Mark
<1>13. ASSUME NEW c \in Threads, updateStatus(c) PROVE ShownInv'
  <2>1. PICK x \in Fields :
          /\ Does(c, x)
          /\ m_mapStatus' = [m_mapStatus EXCEPT ![GetChdModuleName(reports[cur[c]].kind)][x] = cur[c]]
    BY <1>13 DEF updateStatus
  <2>2. UNCHANGED <<master, service, reports>>
    BY <1>12, <1>13, <2>1 DEF updateStatus
  <2>3. x # "master" /\ x # "service" /\ x # "init" /\ reports[cur[c]].kind # "clear"
    BY <1>4, <2>1, WriteFacts DEF Fields
  <2>4. ASSUME NEW m \in Names, NEW f \in {"status", "message"}
        PROVE  Owed(m, f)' \/ \E n \in 0..Len(reports') : IsLast(n, m, f)' /\ m_mapStatus'[m][f] = Mark(n, m)'
    <3>1. m_mapStatus'[m][f] =
            IF m = GetChdModuleName(reports[cur[c]].kind) /\ f = x THEN cur[c] ELSE m_mapStatus[m][f]
      BY <1>1, <2>1 DEF TypeOK, Fields
    <3>2. CASE m = GetChdModuleName(reports[cur[c]].kind) /\ f = x
      <4>1. IsLast(cur[c], m, f) /\ Mark(cur[c], m) = cur[c] /\ cur[c] \in 0..Len(reports')
        BY <1>4, <1>12, <2>1, <2>3, <3>2, WriteFacts
      <4>2. \A n : (IsLast(n, m, f)' <=> IsLast(n, m, f)) /\ Mark(n, m)' = Mark(n, m)
        BY <2>2, SameReports
      <4>3. PICK n : n = cur[c]
        OBVIOUS
      <4> QED BY <3>1, <3>2, <4>1, <4>2, <4>3
    <3>3. CASE ~(m = GetChdModuleName(reports[cur[c]].kind) /\ f = x)
      <4>1. Owed(m, f) => Owed(m, f)'
        BY <1>4, <2>1, <2>3, <3>3, WriteFacts
      <4> QED BY <1>3, <2>2, <3>1, <3>3, <4>1, SameReports DEF Right, Shows
    <3> QED BY <3>2, <3>3
  <2>5. ASSUME NEW m \in Names
        PROVE  /\ Owed(m, "service") => Owed(m, "service")'
               /\ Owed(m, "master") => Owed(m, "master")'
    BY <1>4, <2>1, <2>3, WriteFacts
  <2> QED BY <1>3, <1>4, <2>2, <2>4, <2>5, SameReports DEF ShownInv, Right, Shows
<1>14. ASSUME NEW c \in Threads, updateMasterStatus(c) PROVE ShownInv'
  <2>1. Does(c, "master") /\ master'.msg = cur[c] /\ UNCHANGED <<m_mapStatus, service>>
    BY <1>14 DEF updateMasterStatus
  <2>2. reports' = reports /\ cur[c] \in 0..Len(reports')
    BY <1>12, <2>1
  <2>3. ASSUME NEW m \in Names, NEW w \in {"status", "message", "service"} PROVE Owed(m, w) => Owed(m, w)'
    BY <1>4, <2>1, <2>3, WriteFacts
  <2>4. PICK n : n = cur[c]
    OBVIOUS
  <2>5. IsLast(n, "route", "master")' /\ n \in 0..Len(reports') /\ master'.msg = Mark(n, "route")'
    <3>1. IsLast(n, "route", "master")
      BY <1>4, <2>1, <2>4, WriteFacts
    <3> QED BY <2>1, <2>2, <2>4, <3>1, SameReports DEF Mark
  <2>6. Right(master.msg, "route", "master")'
    BY <2>5 DEF Right, Shows
  <2> QED BY <1>3, <2>1, <2>2, <2>3, <2>6, SameReports DEF ShownInv, Right, Shows
<1>15. ASSUME NEW c \in Threads, UpdateModuleStatus(c) PROVE ShownInv'
  <2>1. /\ Does(c, "service") /\ UNCHANGED <<m_mapStatus, master>>
        /\ service' = [service EXCEPT ![GetChdModuleName(reports[cur[c]].kind)] = cur[c]]
    BY <1>15 DEF UpdateModuleStatus
  <2>2. reports' = reports /\ cur[c] \in 0..Len(reports')
    BY <1>12, <2>1
  <2>3. ASSUME NEW m \in Names, NEW w \in {"status", "message", "master"} PROVE Owed(m, w) => Owed(m, w)'
    BY <1>4, <2>1, <2>3, WriteFacts
  <2>4. reports[cur[c]].kind # "clear"
    BY <1>4, <2>1, WriteFacts
  <2>5. ASSUME NEW m \in Names
        PROVE  \/ Owed(m, "service")'
               \/ \E n \in 0..Len(reports') : IsLast(n, m, "service")' /\ service'[m] = Mark(n, m)'
    <3>1. service'[m] = IF m = GetChdModuleName(reports[cur[c]].kind) THEN cur[c] ELSE service[m]
      BY <1>1, <2>1 DEF TypeOK
    <3>2. CASE m = GetChdModuleName(reports[cur[c]].kind)
      <4>1. IsLast(cur[c], m, "service") /\ Mark(cur[c], m) = cur[c]
        BY <1>4, <1>12, <2>1, <2>4, <3>2, WriteFacts
      <4>2. \A n : (IsLast(n, m, "service")' <=> IsLast(n, m, "service")) /\ Mark(n, m)' = Mark(n, m)
        BY <2>2, SameReports
      <4>3. PICK n : n = cur[c]
        OBVIOUS
      <4> QED BY <2>2, <3>1, <3>2, <4>1, <4>2, <4>3
    <3>3. CASE m # GetChdModuleName(reports[cur[c]].kind)
      <4>1. Owed(m, "service") => Owed(m, "service")'
        BY <1>4, <2>1, <3>3, WriteFacts
      <4> QED BY <1>3, <2>2, <3>1, <3>3, <4>1, SameReports DEF Right, Shows
    <3> QED BY <3>2, <3>3
  <2> QED BY <1>3, <1>4, <2>1, <2>2, <2>3, <2>5, SameReports DEF ShownInv, Right, Shows
<1>16. ASSUME NEW c \in Threads, ClearMap(c) PROVE ShownInv'
  <2>1. Does(c, "erase") /\ UNCHANGED <<master, service>>
    BY <1>16 DEF ClearMap
  <2>2. reports' = reports
    BY <1>12, <2>1
  <2>3. \A m \in Names, w \in {"status", "message", "service"} : Owed(m, w)'
    BY <1>4, <2>1, WriteFacts
  <2>4. Owed("route", "master") => Owed("route", "master")'
    BY <1>4, <2>1, WriteFacts
  <2> QED BY <1>3, <2>1, <2>2, <2>3, <2>4, SameReports DEF ShownInv, Right, Shows
<1>17. ASSUME NEW c \in Threads, InitModules(c) PROVE ShownInv'
  <2>1. /\ Does(c, "init") /\ UNCHANGED master
        /\ m_mapStatus' = InitialMap(cur[c]) /\ service' = InitialService(cur[c])
    BY <1>17 DEF InitModules
  <2>2. PICK n : n = cur[c]
    OBVIOUS
  <2>3. reports' = reports /\ n \in 0..Len(reports') /\ n = cur[c]
    BY <1>12, <2>1, <2>2
  <2>4. ASSUME NEW m \in Names, NEW w \in {"status", "message", "service"}
        PROVE  IsLast(n, m, w)' /\ Mark(n, m)' = IF m \in Modules THEN n ELSE None
    <3>1. IsLast(n, m, w) /\ reports[n].kind = "clear"
      BY <1>4, <2>1, <2>3, <2>4, WriteFacts
    <3>2. Mark(n, m) = IF m \in Modules THEN n ELSE None
      BY <3>1 DEF Mark, Names, Modules
    <3> QED BY <2>3, <3>1, <3>2, SameReports
  <2>5. \A m \in Names, f \in {"status", "message"} :
          m_mapStatus'[m][f] = IF m \in Modules THEN n ELSE None
    BY <2>1, <2>3 DEF InitialMap, Fields
  <2>6. \A m \in Names : service'[m] = IF m \in Modules THEN n ELSE None
    BY <2>1, <2>3 DEF InitialService
  <2>7. Owed("route", "master") => Owed("route", "master")'
    BY <1>4, <2>1, WriteFacts
  <2> QED BY <1>3, <2>1, <2>3, <2>4, <2>5, <2>6, <2>7, SameReports DEF ShownInv, Right, Shows
<1> QED
  BY <1>6, <1>7, <1>8, <1>9, <1>10, <1>11, <1>13, <1>14, <1>15, <1>16, <1>17 DEF Next, Call, Continue

LEMMA InitBoardInv == Init => BoardInv
<1> SUFFICES ASSUME Init PROVE BoardInv
  OBVIOUS
<1>1. reports = <<>> /\ Len(reports) = 0 /\ \A c \in Threads : cur[c] = None /\ todo[c] = <<>>
  BY DEF Init
<1>2. OrderInv
  BY <1>1 DEF OrderInv, Items
<1>3. MasterInv
  BY <1>1 DEF Init, MasterInv, CodeOf, MasterState
<1>4. ASSUME NEW m, NEW w PROVE IsLast(0, m, w) /\ Mark(0, m) = IF m = "repair" THEN None ELSE 0
  BY <1>1 DEF IsLast, Touching, Mark
<1>5. ShownInv
  <2>1. ASSUME NEW m \in Names, NEW f \in {"status", "message"} PROVE m_mapStatus[m][f] = Mark(0, m)
    BY <1>4 DEF Init, InitialMap, Names, Modules, Fields
  <2>2. ASSUME NEW m \in Names PROVE service[m] = Mark(0, m)
    BY <1>4 DEF Init, InitialService, Names, Modules
  <2>3. master.msg = Mark(0, "route")
    BY <1>4 DEF Init
  <2>4. 0 \in 0..Len(reports)
    BY <1>1
  <2> QED BY <1>4, <2>1, <2>2, <2>3, <2>4 DEF ShownInv, Right, Shows
<1> QED
  BY <1>2, <1>3, <1>5, InitIInv DEF BoardInv

LEMMA BoardInvariance == Spec => []BoardInv
<1>1. BoardInv /\ [Next]_vars => BoardInv'
  BY TypeKept, CallsKept, OrderKept, MasterKept, ShownKept DEF BoardInv, IInv
<1> QED
  BY InitBoardInv, <1>1, PTL DEF Spec

LEMMA LatestIsLast ==
  ASSUME IInv, NEW m, NEW w, NEW n \in 0..Len(reports), IsLast(n, m, w)
  PROVE  Latest(Touching(m, w)) = n
<1>1. Touching(m, w) \subseteq Nat
  BY LenProperties DEF Touching, IInv, TypeOK
<1>2. ASSUME NEW k \in Touching(m, w), \A j \in Touching(m, w) : j <= k PROVE k = n
  BY <1>1, <1>2 DEF IsLast
<1> QED
  BY <1>2 DEF Latest, IsLast

(* Whatever is reported by any number of threads, in whatever order: when  *)
(* no call is under way and none overlapped another, the map, the master   *)
(* status and the status service show the last report of each module.      *)
THEOREM BoardShowsLastReport == Spec => []StatusShowsLastReport
<1>1. BoardInv => StatusShowsLastReport
  <2> SUFFICES ASSUME BoardInv, ~mixed, Busy = {} PROVE StatusShowsLastReport
    BY DEF StatusShowsLastReport
  <2>1. IInv /\ CallsInv /\ MasterInv
    BY DEF BoardInv, IInv
  <2>2. \A m, w : ~Owed(m, w)
    BY <2>1 DEF Busy, CallsInv, Owed
  <2>3. /\ \A m \in Names, f \in {"status", "message"} : Shows(m_mapStatus[m][f], m, f)
        /\ \A m \in Names : Shows(service[m], m, "service")
        /\ Shows(master.msg, "route", "master")
    BY <2>2 DEF BoardInv, ShownInv, Right
  <2>4. ASSUME NEW m \in Modules, NEW f \in {"status", "message"}
        PROVE  m_mapStatus[m][f] = Latest(Touching(m, f))
    <3>1. m \in Names /\ m # "repair"
      BY DEF Names, Modules
    <3> QED BY <2>1, <2>3, <3>1, LatestIsLast DEF Shows, Mark
  <2>5. master.msg = Latest(Touching("route", "master"))
    BY <2>1, <2>3, LatestIsLast DEF Shows, Mark
  <2>6. ASSUME NEW m \in Names \ {"route"} PROVE service[m] = m_mapStatus[m]["message"]
    <3>1. ASSUME NEW n \in 1..Len(reports) PROVE Touches(n, m, "service") <=> Touches(n, m, "message")
      <4>1. reports \in Seq(Report)
        BY <2>1 DEF IInv, TypeOK
      <4>2. reports[n] \in Report
        BY <4>1, ElementOfSeq
      <4>3. reports[n].kind \in Kinds
        BY <4>2 DEF Report
      <4> QED BY <4>3, KindFacts DEF Touches
    <3>2. Touching(m, "service") = Touching(m, "message")
      BY <3>1, TouchingMeans
    <3>3. PICK j \in 0..Len(reports) : IsLast(j, m, "service") /\ service[m] = Mark(j, m)
      BY <2>3 DEF Shows
    <3>4. PICK k \in 0..Len(reports) : IsLast(k, m, "message") /\ m_mapStatus[m]["message"] = Mark(k, m)
      BY <2>3 DEF Shows
    <3>5. j = k
      BY <2>1, <3>2, <3>3, <3>4, LatestIsLast
    <3> QED BY <3>3, <3>4, <3>5
  <2> QED BY <2>1, <2>4, <2>5, <2>6 DEF StatusShowsLastReport, MasterInv, CodeOf
<1> QED
  BY <1>1, BoardInvariance, PTL

-----------------------------------------------------------------------------
(* What is delivered to the monitor. *)

CallsMatch ==
  /\ op \in [Threads -> {"none", "Start", "Stop", "Table", "Card"}]
  /\ step \in [Threads -> Mon!Steps]
  /\ arg \in [Threads -> SUBSET (TableRoutes \cup CardRoutes)]
  /\ m_bRouteCheckSwitch \in BOOLEAN
  /\ \A c \in Threads : step[c] = "idle" <=> op[c] = "none"
  /\ \A c \in Threads : step[c] \in {"insert", "inserting"} <=> op[c] \in {"Table", "Card"}

(* A call of UpdateRouteTable that has still to insert what is missing of  *)
(* a table, or to turn the switch on.                                      *)
Inserting(c, n) == op[c] = "Table" /\ reports[n].routes \subseteq m_Route \cup arg[c]

Watched(n) == reports[n].routes \subseteq m_Route /\ m_bRouteCheckSwitch

(* Nothing that is delivered meets a Start or a Stop, so that nothing is   *)
(* taken out of the set while a table is on its way into it.               *)
DeliveredInv ==
  /\ delivered \subseteq 1..Len(reports)
  /\ delivered # {} => Controlling = {}
  /\ ~raced => \A n \in delivered : Watched(n) \/ \E c \in Threads : Inserting(c, n)

RouteInv == IInv /\ CallsMatch /\ DeliveredInv

LEMMA MatchKept == ASSUME IInv, CallsMatch, [Next]_vars PROVE CallsMatch'
<1> USE DEF CallsMatch, Mon!Steps, Mon!Goto, Mon!Return
<1>1. ASSUME UNCHANGED <<op, step, arg, m_bRouteCheckSwitch>> PROVE CallsMatch'
  BY <1>1
<1>2. ASSUME NEW c \in Threads, HandleThread(c) PROVE CallsMatch'
  <2>1. CASE Mon!Start(c)
    BY <2>1 DEF Mon!Start, Mon!fields
  <2>2. CASE Mon!Stop(c)
    BY <2>2 DEF Mon!Stop
  <2> QED BY <1>2, <2>1, <2>2 DEF HandleThread
<1>3. ASSUME NEW c \in Threads, CallHandler(c) PROVE CallsMatch'
  <2>1. CASE Mon!UpdateRouteTable(c)
    BY <2>1 DEF Mon!UpdateRouteTable, Mon!fields
  <2>2. CASE Mon!UpdateNetCardOptions(c)
    BY <2>2 DEF Mon!UpdateNetCardOptions, Mon!fields
  <2>3. CASE UNCHANGED monitor
    BY <1>1, <2>3 DEF monitor
  <2>4. \/ Mon!UpdateRouteTable(c) \/ Mon!UpdateNetCardOptions(c) \/ UNCHANGED monitor
    BY <1>3 DEF CallHandler, RecoverEvent, HandleUpdateRouteTable, HandleUpdateNetCardOptions
  <2> QED BY <2>1, <2>2, <2>3, <2>4
<1>4. ASSUME NEW c \in Threads, Mon!Continue(c) PROVE CallsMatch'
  <2> USE DEF Mon!fields
  <2>1. CASE Mon!ClearStopFlag(c)
    BY <2>1 DEF Mon!ClearStopFlag
  <2>2. CASE Mon!ClearSwitches(c)
    BY <2>2 DEF Mon!ClearSwitches
  <2>3. CASE Mon!BeginClearRoutes(c)
    BY <2>3 DEF Mon!BeginClearRoutes
  <2>4. CASE Mon!EndClearRoutes(c)
    BY <2>4 DEF Mon!EndClearRoutes
  <2>5. CASE Mon!Spawn(c)
    BY <2>5 DEF Mon!Spawn
  <2>6. CASE Mon!BeginInsert(c)
    BY <2>6 DEF Mon!BeginInsert
  <2>7. CASE Mon!EndInsert(c)
    BY <2>7 DEF Mon!EndInsert
  <2>8. CASE Mon!SetSwitch(c)
    BY <2>8 DEF Mon!SetSwitch
  <2> QED BY <1>4, <2>1, <2>2, <2>3, <2>4, <2>5, <2>6, <2>7, <2>8 DEF Mon!Continue
<1>5. ASSUME NEW t \in Checkers, Mon!ThreadCheck(t)
      PROVE  UNCHANGED <<op, step, arg, m_bRouteCheckSwitch>>
  BY <1>5 DEF Mon!ThreadCheck, Mon!TakeMutex, Mon!BeginRound, Mon!GetSysRouteTable, Mon!BeginScan,
              Mon!EndScan, Mon!CheckCard, Mon!RepairRoutes, Mon!EndRound, Mon!fields, Mon!calls
<1>6. ASSUME NEW c \in Threads, Call(c) \/ Continue(c), ~HandleThread(c), ~CallHandler(c)
      PROVE  UNCHANGED <<op, step, arg, m_bRouteCheckSwitch>>
  BY <1>6 DEF Call, Continue, BeginCall, RegisterRecoverEvent, updateStatus, updateMasterStatus,
              UpdateModuleStatus, ClearMap, InitModules, EndCall, monitor
<1>7. UNCHANGED vars => UNCHANGED <<op, step, arg, m_bRouteCheckSwitch>>
  BY DEF vars, monitor
<1> QED
  BY <1>1, <1>2, <1>3, <1>4, <1>5, <1>6, <1>7 DEF Next, MonitorGoesOn

LEMMA DeliveredKept == ASSUME RouteInv, [Next]_vars PROVE DeliveredInv'
<1>1. IInv /\ CallsMatch /\ DeliveredInv
  BY DEF RouteInv
<1>2. \A n \in delivered : n \in 1..Len(reports') /\ reports'[n] = reports[n]
  BY <1>1, ReportsGrow DEF DeliveredInv
<1>3. Next => ~raced
  BY DEF Next
(* A step that leaves the calls of the monitor, its set and its switch. *)
<1>4. ASSUME UNCHANGED <<delivered, op, arg, m_Route, m_bRouteCheckSwitch>>, raced => raced'
      PROVE  DeliveredInv'
  <2>1. Controlling' = Controlling
    BY <1>4 DEF Controlling
  <2>2. \A n \in delivered : Watched(n)' = Watched(n) /\ \A c \in Threads : Inserting(c, n)' = Inserting(c, n)
    BY <1>2, <1>4 DEF Watched, Inserting
  <2> QED BY <1>1, <1>2, <1>4, <2>1, <2>2 DEF DeliveredInv
<1>5. UNCHANGED vars => DeliveredInv'
  BY <1>4 DEF vars, monitor
<1>6. ASSUME NEW c \in Threads, HandleThread(c) PROVE DeliveredInv'
  BY <1>6 DEF HandleThread, DeliveredInv
<1>7. ASSUME NEW c \in Threads, Call(c) \/ Continue(c), ~HandleThread(c), ~CallHandler(c)
      PROVE  UNCHANGED <<delivered, monitor>>
  BY <1>7 DEF Call, Continue, BeginCall, RegisterRecoverEvent, updateStatus, updateMasterStatus,
              UpdateModuleStatus, ClearMap, InitModules, EndCall
<1>8. ASSUME NEW t \in Checkers, Mon!ThreadCheck(t), MonitorGoesOn, Next PROVE DeliveredInv'
  <2>1. UNCHANGED <<op, arg, m_Route, m_bRouteCheckSwitch>>
    BY <1>8 DEF Mon!ThreadCheck, Mon!TakeMutex, Mon!BeginRound, Mon!GetSysRouteTable, Mon!BeginScan,
                Mon!EndScan, Mon!CheckCard, Mon!RepairRoutes, Mon!EndRound, Mon!fields, Mon!calls
  <2>2. UNCHANGED delivered
    BY <1>8 DEF MonitorGoesOn
  <2> QED BY <1>3, <1>4, <1>8, <2>1, <2>2
<1>9. ASSUME NEW c \in Threads, Mon!Continue(c), MonitorGoesOn, Next PROVE DeliveredInv'
  <2>1. UNCHANGED <<delivered, reports>> /\ ~raced
    BY <1>3, <1>9 DEF MonitorGoesOn, calls
  <2>2. CASE delivered = {}
    BY <2>1, <2>2 DEF DeliveredInv
  <2>3. CASE delivered # {}
    <3>1. op[c] \notin {"Start", "Stop"}
      BY <1>1, <2>3 DEF DeliveredInv, Controlling
    <3>2. step[c] \in {"idle", "insert", "inserting"}
      BY <1>1, <3>1 DEF CallsMatch
    <3>3. Mon!BeginInsert(c) \/ Mon!EndInsert(c) \/ Mon!SetSwitch(c)
      BY <1>9, <3>2 DEF Mon!Continue, Mon!ClearStopFlag, Mon!ClearSwitches, Mon!BeginClearRoutes,
                        Mon!EndClearRoutes, Mon!Spawn
    <3>4. CASE Mon!BeginInsert(c)
      BY <1>4, <2>1, <3>4 DEF Mon!BeginInsert, Mon!fields
    <3>5. CASE Mon!EndInsert(c)
      <4>1. PICK r \in arg[c] : m_Route' = m_Route \cup {r} /\ arg' = [arg EXCEPT ![c] = @ \ {r}]
        BY <2>1, <3>5 DEF Mon!EndInsert
      <4>2. UNCHANGED <<op, m_bRouteCheckSwitch, raced>>
        BY <3>5 DEF Mon!EndInsert, Mon!fields
      <4>3. Controlling' = Controlling
        BY <4>2 DEF Controlling
      <4>4. ASSUME NEW n \in delivered, Watched(n) PROVE Watched(n)'
        BY <2>1, <4>1, <4>2, <4>4 DEF Watched
      <4>5. ASSUME NEW n \in delivered, NEW d \in Threads, Inserting(d, n) PROVE Inserting(d, n)'
        <5>1. m_Route \cup arg[d] \subseteq m_Route' \cup arg'[d]
          BY <1>1, <4>1 DEF CallsMatch
        <5> QED BY <2>1, <4>2, <4>5, <5>1 DEF Inserting
      <4> QED BY <1>1, <2>1, <4>2, <4>3, <4>4, <4>5 DEF DeliveredInv
    <3>6. CASE Mon!SetSwitch(c)
      <4>1. /\ arg[c] = {} /\ UNCHANGED <<m_Route, arg, raced>>
            /\ op' = [op EXCEPT ![c] = "none"]
            /\ m_bRouteCheckSwitch' = (m_bRouteCheckSwitch \/ op[c] = "Table")
        BY <3>6 DEF Mon!SetSwitch, Mon!Return
      <4>2. Controlling' \subseteq Controlling
        BY <1>1, <4>1 DEF Controlling, CallsMatch
      <4>3. ASSUME NEW n \in delivered, Watched(n) PROVE Watched(n)'
        BY <2>1, <4>1, <4>3 DEF Watched
      <4>4. ASSUME NEW n \in delivered, NEW d \in Threads, Inserting(d, n)
            PROVE  Inserting(d, n)' \/ Watched(n)'
        <5>1. CASE d = c
          BY <2>1, <4>1, <4>4, <5>1 DEF Inserting, Watched
        <5>2. CASE d # c
          BY <1>1, <2>1, <4>1, <4>4, <5>2 DEF Inserting, CallsMatch
        <5> QED BY <5>1, <5>2
      <4> QED BY <1>1, <2>1, <4>1, <4>2, <4>3, <4>4 DEF DeliveredInv
    <3> QED BY <3>3, <3>4, <3>5, <3>6
  <2> QED BY <2>2, <2>3
<1>10. ASSUME NEW c \in Threads, CallHandler(c), Next PROVE DeliveredInv'
  <2>1. reports' = reports /\ todo[c] # <<>> /\ ~raced
    BY <1>3, <1>10 DEF CallHandler, Does
  <2>2. cur[c] \in 1..Len(reports)
    BY <1>1, <2>1, CurOfWriter
  <2>3. CASE UNCHANGED <<delivered, monitor>>
    BY <1>4, <2>3 DEF monitor
  <2>4. CASE HandleUpdateNetCardOptions(c, cur[c]) /\ ~UNCHANGED monitor
    <3>1. Mon!UpdateNetCardOptions(c) /\ UNCHANGED delivered
      BY <2>4 DEF HandleUpdateNetCardOptions
    <3>2. /\ step[c] = "idle" /\ UNCHANGED <<m_Route, m_bRouteCheckSwitch, raced>>
          /\ op' = [op EXCEPT ![c] = "Card"]
          /\ \A d \in Threads \ {c} : arg'[d] = arg[d]
      BY <1>1, <3>1 DEF Mon!UpdateNetCardOptions, Mon!fields, CallsMatch
    <3>3. op[c] = "none" /\ \A d \in Threads \ {c} : op'[d] = op[d]
      BY <1>1, <3>2 DEF CallsMatch
    <3>4. Controlling' \subseteq Controlling
      BY <1>1, <3>2, <3>3 DEF Controlling, CallsMatch
    <3>5. ASSUME NEW n \in delivered PROVE Watched(n)' = Watched(n)
      BY <2>1, <3>2 DEF Watched
    <3>6. ASSUME NEW n \in delivered, NEW d \in Threads, Inserting(d, n) PROVE Inserting(d, n)'
      BY <2>1, <3>2, <3>3, <3>6 DEF Inserting
    <3> QED BY <1>1, <2>1, <3>1, <3>2, <3>4, <3>5, <3>6 DEF DeliveredInv
  <2>5. CASE HandleUpdateRouteTable(c, cur[c])
    <3>1. /\ step[c] = "idle" /\ UNCHANGED <<m_Route, m_bRouteCheckSwitch, raced>>
          /\ op' = [op EXCEPT ![c] = "Table"]
          /\ \A d \in Threads \ {c} : arg'[d] = arg[d]
          /\ arg'[c] = reports[cur[c]].routes
          /\ delivered' = IF Controlling = {} THEN delivered \cup {cur[c]} ELSE delivered
      BY <1>1, <2>5 DEF HandleUpdateRouteTable, Mon!UpdateRouteTable, Mon!fields, CallsMatch
    <3>2. op[c] = "none" /\ op'[c] = "Table" /\ \A d \in Threads \ {c} : op'[d] = op[d]
      BY <1>1, <3>1 DEF CallsMatch
    <3>3. Controlling' = Controlling
      BY <3>2 DEF Controlling
    <3>4. ASSUME NEW n \in delivered PROVE Watched(n)' = Watched(n)
      BY <2>1, <3>1 DEF Watched
    <3>5. ASSUME NEW n \in delivered, NEW d \in Threads, Inserting(d, n) PROVE Inserting(d, n)'
      BY <2>1, <3>1, <3>2, <3>5 DEF Inserting
    <3>6. ASSUME NEW n, n = cur[c] PROVE Inserting(c, n)'
      BY <2>1, <3>1, <3>2, <3>6 DEF Inserting
    <3>7. PICK n : n = cur[c]
      OBVIOUS
    <3>8. delivered' # {} => Controlling = {}
      BY <1>1, <3>1 DEF DeliveredInv
    <3>9. delivered' \subseteq delivered \cup {n}
      BY <3>1, <3>7
    <3>10. \A k \in delivered' : Watched(k)' \/ \E d \in Threads : Inserting(d, k)'
      BY <1>1, <2>1, <3>4, <3>5, <3>6, <3>7, <3>9 DEF DeliveredInv
    <3>11. delivered' \subseteq 1..Len(reports')
      BY <1>1, <2>1, <2>2, <3>7, <3>9 DEF DeliveredInv
    <3> QED BY <3>3, <3>8, <3>10, <3>11 DEF DeliveredInv
  <2>6. \/ UNCHANGED <<delivered, monitor>> \/ HandleUpdateRouteTable(c, cur[c])
        \/ HandleUpdateNetCardOptions(c, cur[c]) /\ UNCHANGED delivered
    BY <1>10 DEF CallHandler, RecoverEvent, HandleUpdateNetCardOptions
  <2> QED BY <2>3, <2>4, <2>5, <2>6
<1> QED
  BY <1>3, <1>4, <1>5, <1>6, <1>7, <1>8, <1>9, <1>10 DEF Next, MonitorGoesOn, monitor

LEMMA RouteInvariance == Spec => []RouteInv
<1>1. Init => RouteInv
  <2>1. Init => CallsMatch
    <3> SUFFICES ASSUME Init PROVE CallsMatch
      OBVIOUS
    <3>1. /\ op = [c \in Threads |-> "none"] /\ step = [c \in Threads |-> "idle"]
          /\ arg = [c \in Threads |-> {}] /\ m_bRouteCheckSwitch = FALSE
      BY DEF Init, Mon!Init
    <3> QED BY <3>1 DEF CallsMatch, Mon!Steps
  <2>2. Init => DeliveredInv
    BY DEF Init, DeliveredInv
  <2> QED BY <2>1, <2>2, InitIInv DEF RouteInv
<1>2. RouteInv /\ [Next]_vars => RouteInv'
  BY TypeKept, CallsKept, MatchKept, DeliveredKept DEF RouteInv, IInv
<1> QED
  BY <1>1, <1>2, PTL DEF Spec

(* However threads start, stop and report: a table of routes the handler   *)
(* was called with is in the monitor's set, and the switch is on, when no  *)
(* call is under way and nobody started or stopped the monitor since.      *)
THEOREM DeliveredRoutesWatched == Spec => []RoutesReachMonitor
<1>1. RouteInv => RoutesReachMonitor
  <2> SUFFICES ASSUME RouteInv, ~raced, \A c \in Threads : Idle(c), NEW n \in delivered
               PROVE  reports[n].routes \subseteq m_Route /\ m_bRouteCheckSwitch
    BY DEF RoutesReachMonitor
  <2>1. \A c \in Threads : ~Inserting(c, n)
    BY DEF RouteInv, CallsMatch, Inserting, Idle
  <2> QED BY <2>1 DEF RouteInv, DeliveredInv, Watched
<1> QED
  BY <1>1, RouteInvariance, PTL

-----------------------------------------------------------------------------
(* The monitor at the end of the line.  In NcMonitor its callers are any   *)
(* threads; here they are the threads that report, whose Update calls come *)
(* from RecoverEvent in the middle of a report.  What is proved of         *)
(* NcMonitor carries over once it is implemented here.                     *)
MonProofs == INSTANCE NcMonitorProofs WITH Callers <- Threads

(* Every step is a step of the monitor's caller or of its threads, or      *)
(* leaves the monitor alone.                                               *)
LEMMA StepsOfMonitor ==
  ASSUME [Next]_vars
  PROVE  \/ \E c \in Threads : Mon!Call(c) \/ Mon!Continue(c)
         \/ \E t \in Checkers : Mon!ThreadCheck(t)
         \/ UNCHANGED monitor
<1>1. ASSUME NEW c \in Threads, Call(c)
      PROVE  (\E d \in Threads : Mon!Call(d)) \/ UNCHANGED monitor
  <2>1. CASE BeginCall(c) \/ RegisterRecoverEvent(c)
    BY <2>1 DEF BeginCall, RegisterRecoverEvent
  <2>2. CASE HandleThread(c)
    BY <2>2 DEF HandleThread, Mon!Call
  <2> QED
    BY <1>1, <2>1, <2>2 DEF Call
<1>2. ASSUME NEW c \in Threads, CallHandler(c)
      PROVE  (\E d \in Threads : Mon!Call(d)) \/ UNCHANGED monitor
  <2>1. CASE m_recoverHandle
    <3>1. \/ HandleUpdateNetCardOptions(c, cur[c])
          \/ HandleUpdateRouteTable(c, cur[c])
          \/ UNCHANGED monitor
      BY <1>2, <2>1 DEF CallHandler, RecoverEvent
    <3> QED
      BY <3>1 DEF HandleUpdateNetCardOptions, HandleUpdateRouteTable, Mon!Call
  <2>2. CASE ~m_recoverHandle
    BY <1>2, <2>2 DEF CallHandler
  <2> QED
    BY <2>1, <2>2
<1>3. ASSUME NEW c \in Threads, Continue(c), ~CallHandler(c) PROVE UNCHANGED monitor
  BY <1>3 DEF Continue, updateStatus, updateMasterStatus, UpdateModuleStatus, ClearMap,
       InitModules, EndCall
<1>4. CASE MonitorGoesOn
  BY <1>4 DEF MonitorGoesOn
<1>5. CASE UNCHANGED vars
  BY <1>5 DEF vars
<1> QED
  BY <1>1, <1>2, <1>3, <1>4, <1>5 DEF Next

(* The model ends with the race that could lead to a crash. *)
LEMMA NoCrash == Spec => []~crashed
<1>1. Init => ~crashed
  BY DEF Init, Mon!Init
<1>2. ~crashed /\ [Next]_vars => ~crashed'
  <2> SUFFICES ASSUME [Next]_vars PROVE UNCHANGED crashed
    OBVIOUS
  <2> USE DEF monitor
  <2>1. ASSUME NEW c \in Threads, Mon!Call(c) \/ Mon!Continue(c) PROVE UNCHANGED crashed
    BY <2>1 DEF Mon!Call, Mon!Continue, Mon!Start, Mon!Stop, Mon!UpdateRouteTable,
         Mon!UpdateNetCardOptions, Mon!ClearStopFlag, Mon!ClearSwitches, Mon!BeginClearRoutes,
         Mon!EndClearRoutes, Mon!Spawn, Mon!BeginInsert, Mon!EndInsert, Mon!SetSwitch
  <2>2. ASSUME NEW t \in Checkers, Mon!ThreadCheck(t) PROVE UNCHANGED crashed
    BY <2>2 DEF Mon!ThreadCheck, Mon!TakeMutex, Mon!BeginRound, Mon!GetSysRouteTable,
         Mon!BeginScan, Mon!EndScan, Mon!CheckCard, Mon!RepairRoutes, Mon!EndRound
  <2> QED
    BY <2>1, <2>2, StepsOfMonitor
<1> QED
  BY <1>1, <1>2, PTL DEF Spec

(* The reports, the handler and the threads that control the monitor all   *)
(* use it as NcMonitor allows: each step of the whole is one step of the   *)
(* monitor or of one of its callers, or leaves all of it alone.            *)
THEOREM MonitorIsRefined == Spec => Mon!Spec
<1>1. Init => Mon!Init
  BY DEF Init
<1>2. ~crashed /\ [Next]_vars => [Mon!Next]_Mon!vars
  <2> SUFFICES ASSUME ~crashed, [Next]_vars PROVE [Mon!Next]_Mon!vars
    OBVIOUS
  <2>1. CASE UNCHANGED monitor
    BY <2>1 DEF monitor, Mon!vars, Mon!fields, Mon!calls, Mon!threads, Mon!system
  <2> QED
    BY <2>1, StepsOfMonitor DEF Mon!Next
<1> QED
  BY <1>1, <1>2, NoCrash, PTL DEF Spec, Mon!Spec

(* The instance the proofs are about is the instance NcStatus is built on. *)
LEMMA SameMonitor == Mon!Spec => MonProofs!Spec
<1> USE DEF Mon!fields, MonProofs!fields, Mon!calls, MonProofs!calls, Mon!threads,
            MonProofs!threads, Mon!system, MonProofs!system
<1>1. Mon!Init => MonProofs!Init
  BY DEF Mon!Init, MonProofs!Init, Mon!Routes, MonProofs!Routes
<1>2. ASSUME NEW c \in Threads, Mon!Call(c) PROVE MonProofs!Call(c)
  BY <1>2 DEF Mon!Call, MonProofs!Call, Mon!Start, MonProofs!Start, Mon!Stop, MonProofs!Stop,
      Mon!UpdateRouteTable, MonProofs!UpdateRouteTable, Mon!UpdateNetCardOptions,
      MonProofs!UpdateNetCardOptions, Mon!Goto, MonProofs!Goto, Mon!CanStart,
      MonProofs!CanStart, Mon!Cardinality, MonProofs!Cardinality
<1>3. ASSUME NEW c \in Threads, Mon!Continue(c) PROVE MonProofs!Continue(c)
  BY <1>3 DEF Mon!Continue, MonProofs!Continue, Mon!ClearStopFlag, MonProofs!ClearStopFlag,
      Mon!ClearSwitches, MonProofs!ClearSwitches, Mon!BeginClearRoutes,
      MonProofs!BeginClearRoutes, Mon!EndClearRoutes, MonProofs!EndClearRoutes, Mon!Spawn,
      MonProofs!Spawn, Mon!BeginInsert, MonProofs!BeginInsert, Mon!EndInsert,
      MonProofs!EndInsert, Mon!SetSwitch, MonProofs!SetSwitch, Mon!Goto, MonProofs!Goto,
      Mon!Return, MonProofs!Return, Mon!BeginAccess, MonProofs!BeginAccess, Mon!Accessing,
      MonProofs!Accessing
<1>4. ASSUME NEW t \in Checkers, Mon!ThreadCheck(t) PROVE MonProofs!ThreadCheck(t)
  BY <1>4 DEF Mon!ThreadCheck, MonProofs!ThreadCheck, Mon!TakeMutex, MonProofs!TakeMutex,
      Mon!BeginRound, MonProofs!BeginRound, Mon!GetSysRouteTable, MonProofs!GetSysRouteTable,
      Mon!BeginScan, MonProofs!BeginScan, Mon!EndScan, MonProofs!EndScan, Mon!CheckCard,
      MonProofs!CheckCard, Mon!RepairRoutes, MonProofs!RepairRoutes, Mon!EndRound,
      MonProofs!EndRound, Mon!At, MonProofs!At, Mon!Routes, MonProofs!Routes, Mon!BeginAccess, MonProofs!BeginAccess,
      Mon!Accessing, MonProofs!Accessing
<1>5. Mon!Environment => MonProofs!Environment
  BY DEF Mon!Environment, MonProofs!Environment, Mon!Routes, MonProofs!Routes, Mon!RouteLost,
      MonProofs!RouteLost, Mon!CardChanges, MonProofs!CardChanges, Mon!Crash, MonProofs!Crash
<1>6. [Mon!Next]_Mon!vars => [MonProofs!Next]_MonProofs!vars
  BY <1>2, <1>3, <1>4, <1>5 DEF Mon!Next, MonProofs!Next, Mon!vars, MonProofs!vars
<1> QED
  BY <1>1, <1>6, PTL DEF Mon!Spec, MonProofs!Spec

(* So one check thread at a time, a watch after every Start and a check of *)
(* every issued route are kept when the calls come from NcQuery's          *)
(* handler, for any number of reporting threads and of reports.            *)
THEOREM MonitorSafeInUse ==
  Spec => [](Mon!OneChecker /\ Mon!StartedMeansWatched /\ Mon!IssuedRoutesAreChecked)
<1>1. MonProofs!OneChecker => Mon!OneChecker
  BY DEF Mon!OneChecker, MonProofs!OneChecker, Mon!InLoop, MonProofs!InLoop
<1>2. MonProofs!StartedMeansWatched => Mon!StartedMeansWatched
  BY DEF Mon!StartedMeansWatched, MonProofs!StartedMeansWatched, Mon!InLoop, MonProofs!InLoop,
         Mon!StopUnderWay, MonProofs!StopUnderWay
<1>3. MonProofs!IssuedRoutesAreChecked => Mon!IssuedRoutesAreChecked
  BY DEF Mon!IssuedRoutesAreChecked, MonProofs!IssuedRoutesAreChecked
<1>4. /\ MonProofs!Spec => []MonProofs!OneChecker
      /\ MonProofs!Spec => []MonProofs!StartedMeansWatched
      /\ MonProofs!Spec => []MonProofs!IssuedRoutesAreChecked
  BY RoutesAssumption, MonProofs!MutualExclusion, MonProofs!StartWatches, MonProofs!IssuedChecked
<1> QED
  BY <1>1, <1>2, <1>3, <1>4, MonitorIsRefined, SameMonitor, PTL
=============================================================================

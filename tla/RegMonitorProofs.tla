--------------------------- MODULE RegMonitorProofs ---------------------------
(***************************************************************************)
(* Proofs about RegMonitor, for any number of sessions.                    *)
(***************************************************************************)
EXTENDS RegMonitor, TLAPS

(* Ending registrations keeps the kernel's part of the state well typed. *)
LEMMA FireType ==
  ASSUME NEW S \in SUBSET armed, signalled \in SUBSET Objects,
         armed \in SUBSET (Sessions \X Sessions), Fire(S)
  PROVE  /\ signalled' \in SUBSET Objects
         /\ armed' \in SUBSET (Sessions \X Sessions)
<1>1. \A reg \in S : <<"mon", reg[2]>> \in Objects
  BY DEF Objects
<1> QED
  BY <1>1 DEF Fire

LEMMA FinishType ==
  ASSUME NEW t \in Sessions, NEW from, TypeOK, Finish(t, from)
  PROVE  TypeOK'
<1>1. /\ signalled' \in SUBSET Objects
      /\ armed' \in SUBSET (Sessions \X Sessions)
  BY FireType DEF Finish, TypeOK
<1> QED
  BY <1>1 DEF Finish, At, TypeOK, Pcs, members, owner

(* Type correctness: handles, steps and events stay in their ranges. *)
THEOREM TypeCorrect == Spec => []TypeOK
<1> USE SessionsAssumption
<1>1. Init => TypeOK
  <2>1. <<<<"exit", NULL>>, <<"mon", NULL>>>> \in Events \X Events
    BY DEF Events, Handles, NULL
  <2>2. Init => /\ pc \in [Sessions -> Pcs]
                /\ hEventArray \in [Sessions -> Events \X Events]
    BY <2>1 DEF Init, Pcs
  <2>3. Init => /\ {m_hMonRegKey, m_hExitEvent, m_hMonEvent, m_hMonThread} \subseteq Handles
                /\ session \in 0..MaxSessions
    BY DEF Init, Handles
  <2> QED
    BY <2>2, <2>3 DEF Init, TypeOK
<1>2. TypeOK /\ [Next]_vars => TypeOK'
  <2> SUFFICES ASSUME TypeOK, [Next]_vars PROVE TypeOK'
    OBVIOUS
  <2> USE DEF members, owner, thread, kernel, StopSteps, StartSteps
  <2>1. CASE CallStart \/ CallStop
    BY <2>1 DEF CallStart, CallStop, TypeOK
  <2>2. CASE Owner
    <3>1. CASE SetExit
      <4>1. m_hExitEvent # NULL => <<"exit", m_hExitEvent>> \in Objects
        BY DEF TypeOK, Objects, Handles
      <4> QED
        BY <3>1, <4>1 DEF SetExit, TypeOK
    <3>2. CASE WaitThread \/ WaitTimesOut
      BY <3>2 DEF WaitThread, WaitTimesOut, TypeOK
    <3>3. CASE CloseThread \/ CloseExit \/ CloseMon
      BY <3>3 DEF CloseThread, CloseExit, CloseMon, TypeOK, Handles
    <3>4. CASE CloseKey
      <4>1. /\ signalled' \in SUBSET Objects
            /\ armed' \in SUBSET (Sessions \X Sessions)
        BY <3>4, FireType DEF CloseKey, TypeOK
      <4> QED
        BY <3>4, <4>1 DEF CloseKey, TypeOK, Handles
    <3>5. CASE OpenKey
      <4>1. session + 1 \in 1..MaxSessions
        BY <3>5 DEF OpenKey, TypeOK
      <4> QED
        BY <3>5, <4>1 DEF OpenKey, TypeOK, Handles, Sessions
    <3>6. CASE CreateExit \/ CreateMon
      BY <3>6 DEF CreateExit, CreateMon, Created, TypeOK, Handles, Sessions, NULL
    <3>7. CASE CreateThread
      <4>1. pc' \in [Sessions -> Pcs]
        BY <3>7 DEF CreateThread, TypeOK, Pcs
      <4>2. m_hMonThread' \in Handles
        BY <3>7 DEF CreateThread, Created, TypeOK, Handles, Sessions, NULL
      <4> QED
        BY <3>7, <4>1, <4>2 DEF CreateThread, TypeOK
    <3>8. CASE StartFails
      BY <3>8 DEF StartFails, TypeOK
    <3> QED
      BY <2>2, <3>1, <3>2, <3>3, <3>4, <3>5, <3>6, <3>7, <3>8 DEF Owner, OwnerGoesOn
  <2>3. ASSUME NEW t \in Sessions, RegMonFunction(t) PROVE TypeOK'
    <3>1. CASE Enter(t) \/ Reset(t) \/ WakeForChange(t)
      BY <3>1 DEF Enter, Reset, WakeForChange, At, TypeOK, Pcs
    <3>2. CASE Register(t)
      <4>1. <<"mon", m_hMonEvent>> \in Objects /\ <<t, m_hMonEvent>> \in Sessions \X Sessions
        BY <3>2 DEF Register, TypeOK, Objects, Handles
      <4> QED
        BY <3>2, <4>1 DEF Register, At, TypeOK, Pcs
    <3>3. CASE RegisterFails(t) \/ WaitFails(t) \/ WakeForExit(t)
      BY <3>3, FinishType DEF RegisterFails, WaitFails, WakeForExit
    <3>4. CASE Gather(t)
      <4>1. <<<<"exit", m_hExitEvent>>, <<"mon", m_hMonEvent>>>> \in Events \X Events
        BY DEF TypeOK, Events
      <4> QED
        BY <3>4, <4>1 DEF Gather, At, TypeOK, Pcs
    <3>5. CASE BeginWait(t)
      <4>1. hEventArray[t][1] \in Events /\ hEventArray[t][2] \in Events
        BY DEF TypeOK
      <4>2. \A e \in Events : Denotes(e) \subseteq Events
        BY DEF Denotes, Events, TypeOK
      <4>3. PICK e \in Events, f \in Events :
              hEventArray' = [hEventArray EXCEPT ![t] = <<e, f>>]
        BY <3>5, <4>1, <4>2 DEF BeginWait
      <4> QED
        BY <3>5, <4>3 DEF BeginWait, At, TypeOK, Pcs
    <3> QED
      BY <2>3, <3>1, <3>2, <3>3, <3>4, <3>5 DEF RegMonFunction
  <2>4. CASE Change
    <3>1. /\ signalled' \in SUBSET Objects
          /\ armed' \in SUBSET (Sessions \X Sessions)
      BY <2>4, FireType DEF Change, TypeOK
    <3> QED
      BY <2>4, <3>1 DEF Change, TypeOK
  <2>5. CASE UNCHANGED vars
    BY <2>5 DEF vars, TypeOK
  <2> QED
    BY <2>1, <2>2, <2>3, <2>4, <2>5 DEF Next
<1> QED
  BY <1>1, <1>2, PTL DEF Spec

-----------------------------------------------------------------------------
(* Who owns the handles.  Without a time-out a running thread owns all     *)
(* four members, and the owner is not past the wait of StopMonitor; while  *)
(* StartMonitor opens them they belong to the session being started.       *)
Owns(t) ==
  /\ m_hMonRegKey = t /\ m_hExitEvent = t /\ m_hMonEvent = t /\ m_hMonThread = t
  /\ step \in {"idle", "exit", "wait"}

OpenedSoFar ==
  /\ step \in {"createExit", "createMon", "createThread"} => m_hMonRegKey = session
  /\ step \in {"createMon", "createThread"} => m_hExitEvent = session
  /\ step = "createThread" => m_hMonEvent = session

(* What StopMonitor has closed is NULL until StartMonitor creates it, with  *)
(* or without a time-out: no start takes over a member that was left.      *)
Cleared ==
  /\ step \in {"closeExit", "closeMon", "closeKey", "openKey", "createExit", "createMon",
               "createThread"} => m_hMonThread = NULL
  /\ step \in {"closeMon", "closeKey", "openKey", "createExit"} => m_hExitEvent = NULL
  /\ step \in {"closeKey", "openKey", "createExit", "createMon"} => m_hMonEvent = NULL

HandlesInv ==
  /\ Cleared
  /\ ~timedOut => OpenedSoFar /\ \A t \in Sessions : Running(t) => Owns(t)

(* The thread member is NULL when StartMonitor comes to it. *)
LEMMA ThreadIsCreated ==
  ASSUME HandlesInv, CreateThread
  PROVE  m_hMonThread' = session /\ pc' = [pc EXCEPT ![session] = "entry"]
BY DEF HandlesInv, Cleared, CreateThread, Created

(* A step of a thread neither starts one nor touches the members. *)
LEMMA ThreadKeepsHandles ==
  ASSUME TypeOK, HandlesInv, NEW u \in Sessions, RegMonFunction(u)
  PROVE  HandlesInv'
<1>1. UNCHANGED <<members, owner, timedOut>>
  BY DEF RegMonFunction, Enter, Reset, Register, RegisterFails, Gather, BeginWait, WaitFails,
         WakeForChange, WakeForExit, Finish
<1>2. \A t \in Sessions : Running(t)' => Running(t)
  BY DEF RegMonFunction, Enter, Reset, Register, RegisterFails, Gather, BeginWait, WaitFails,
         WakeForChange, WakeForExit, Finish, At, Running, TypeOK
<1> QED
  BY <1>1, <1>2 DEF HandlesInv, Cleared, OpenedSoFar, Owns, members, owner

LEMMA OwnerClears == ASSUME Cleared, Owner PROVE Cleared'
BY DEF Owner, OwnerGoesOn, SetExit, WaitThread, WaitTimesOut, CloseThread, CloseExit, CloseMon,
       CloseKey, OpenKey, CreateExit, CreateMon, CreateThread, StartFails, StartSteps, members,
       Cleared

LEMMA OwnerKeepsHandles ==
  ASSUME TypeOK, HandlesInv, Owner
  PROVE  HandlesInv'
<1> USE DEF members, owner, thread, kernel
<1>0. Cleared /\ Cleared'
  BY OwnerClears DEF HandlesInv
<1> SUFFICES ASSUME ~timedOut' PROVE HandlesInv'
  BY <1>0 DEF HandlesInv
<1>1. ~timedOut
  BY DEF Owner, OwnerGoesOn, SetExit, WaitThread, WaitTimesOut, CloseThread, CloseExit, CloseMon, CloseKey,
         OpenKey, CreateExit, CreateMon, CreateThread, StartFails
<1>2. OpenedSoFar /\ \A t \in Sessions : Running(t) => Owns(t)
  BY <1>1 DEF HandlesInv
<1>3. CASE SetExit
  BY <1>0, <1>2, <1>3 DEF SetExit, HandlesInv, OpenedSoFar, Owns, Running
<1>4. CASE WaitThread
  <2>1. \A t \in Sessions : ~Running(t)
    BY <1>2, <1>4 DEF WaitThread, Owns, Running, Sessions, NULL
  <2> QED
    BY <1>0, <1>4, <2>1 DEF WaitThread, HandlesInv, OpenedSoFar, Running
<1>5. CASE WaitTimesOut
  BY <1>5 DEF WaitTimesOut
<1>6. CASE StartFails
  BY <1>0, <1>2, <1>6 DEF StartFails, StartSteps, HandlesInv, OpenedSoFar, Owns, Running
<1>7. ASSUME step \in {"thread", "closeExit", "closeMon", "closeKey", "openKey", "createExit",
                       "createMon", "createThread"}
      PROVE  \A t \in Sessions : ~Running(t)
  BY <1>2, <1>7 DEF Owns
<1>8. CASE CloseThread \/ CloseExit \/ CloseMon \/ CloseKey
  BY <1>0, <1>7, <1>8 DEF CloseThread, CloseExit, CloseMon, CloseKey, HandlesInv, OpenedSoFar, Running
<1>9. CASE OpenKey \/ CreateExit \/ CreateMon
  <2>1. OpenedSoFar'
    BY <1>0, <1>2, <1>9 DEF OpenKey, CreateExit, CreateMon, Created, Cleared, OpenedSoFar
  <2> QED
    BY <1>0, <1>7, <1>9, <2>1 DEF OpenKey, CreateExit, CreateMon, HandlesInv, Running
<1>10. CASE CreateThread
  <2>1. \A t \in Sessions : Running(t)' => t = session
    BY <1>7, <1>10 DEF CreateThread, Running, TypeOK
  <2>2. OpenedSoFar' /\ step' = "idle" /\ UNCHANGED session
    BY <1>10 DEF CreateThread, OpenedSoFar
  <2>3. /\ m_hMonRegKey' = session /\ m_hExitEvent' = session
        /\ m_hMonEvent' = session /\ m_hMonThread' = session
    BY <1>0, <1>2, <1>10 DEF CreateThread, Created, Cleared, OpenedSoFar
  <2> QED
    BY <1>0, <2>1, <2>2, <2>3 DEF HandlesInv, Owns
<1> QED
  BY <1>3, <1>4, <1>5, <1>6, <1>8, <1>9, <1>10 DEF Owner, OwnerGoesOn

LEMMA HandlesInvariant == Spec => []HandlesInv
<1> USE SessionsAssumption DEF members, owner, thread, kernel
<1>1. Init => HandlesInv
  BY DEF Init, HandlesInv, Cleared, OpenedSoFar, Running
<1>2. TypeOK /\ HandlesInv /\ [Next]_vars => HandlesInv'
  <2> SUFFICES ASSUME TypeOK, HandlesInv, [Next]_vars PROVE HandlesInv'
    OBVIOUS
  <2>1. CASE CallStart \/ CallStop
    BY <2>1 DEF CallStart, CallStop, HandlesInv, Cleared, OpenedSoFar, Owns, Running
  <2>2. CASE Owner
    BY <2>2, OwnerKeepsHandles
  <2>3. CASE Change
    BY <2>3 DEF Change, HandlesInv, Cleared, OpenedSoFar, Owns, Running
  <2>4. ASSUME NEW t \in Sessions, RegMonFunction(t) PROVE HandlesInv'
    BY <2>4, ThreadKeepsHandles
  <2>5. CASE UNCHANGED vars
    BY <2>5 DEF vars, HandlesInv, Cleared, OpenedSoFar, Owns, Running
  <2> QED
    BY <2>1, <2>2, <2>3, <2>4, <2>5 DEF Next
<1> QED
  BY <1>1, <1>2, TypeCorrect, PTL DEF Spec

(* No handle is closed or replaced under a running monitor thread as long  *)
(* as no StopMonitor gave up on its thread.                                *)
THEOREM HandlesAreSafe == Spec => []HandlesOutliveThread
<1>1. HandlesInv => HandlesOutliveThread
  BY DEF HandlesInv, Owns, HandlesOutliveThread
<1> QED
  BY <1>1, HandlesInvariant, PTL

-----------------------------------------------------------------------------
(* From the registration on, a change is either still to fire or already   *)
(* in the event.                                                           *)
Heard(t) == <<t, t>> \in armed \/ <<"mon", t>> \in signalled

WakeupInv ==
  ~timedOut => \A t \in Sessions : pc[t] \in {"gather", "gathered", "waiting"} => Heard(t)

(* Ending registrations loses no wake-up: what is no longer armed is set. *)
LEMMA FireHears ==
  ASSUME NEW S, Fire(S), NEW t \in Sessions, Heard(t)
  PROVE  Heard(t)'
<1>1. <<t, t>> \in S => <<"mon", t>> \in {<<"mon", reg[2]>> : reg \in S}
  OBVIOUS
<1> QED
  BY <1>1 DEF Fire, Heard

LEMMA ThreadKeepsWakeup ==
  ASSUME TypeOK, HandlesInv, WakeupInv, NEW u \in Sessions, RegMonFunction(u)
  PROVE  WakeupInv'
<1> USE DEF members, owner, thread, kernel
<1> SUFFICES ASSUME ~timedOut', NEW t \in Sessions, pc'[t] \in {"gather", "gathered", "waiting"}
             PROVE  Heard(t)'
  BY DEF WakeupInv
<1>1. ~timedOut
  BY DEF RegMonFunction, Enter, Reset, Register, RegisterFails, Gather, BeginWait, WaitFails,
         WakeForChange, WakeForExit, Finish
<1>2. Running(u) /\ (t # u => pc[t] = pc'[t])
  BY DEF RegMonFunction, Enter, Reset, Register, RegisterFails, Gather, BeginWait, WaitFails,
         WakeForChange, WakeForExit, Finish, At, Running, TypeOK
<1>3. m_hMonEvent = u
  BY <1>1, <1>2 DEF HandlesInv, Owns
<1>4. t # u => Heard(t) /\ m_hMonEvent = t
  BY <1>1, <1>2 DEF WakeupInv, HandlesInv, Owns, Running
<1>5. CASE t # u
  BY <1>3, <1>4, <1>5
<1>6. CASE t = u
  <2>1. CASE Register(u)
    BY <1>3, <1>6, <2>1 DEF Register, Heard
  <2>2. CASE Gather(u) \/ BeginWait(u)
    <3>1. Heard(u)
      BY <1>1, <2>2 DEF Gather, BeginWait, At, WakeupInv
    <3> QED
      BY <1>6, <2>2, <3>1 DEF Gather, BeginWait, Heard
  <2>3. pc'[u] \in {"reset", "register", "done"} \/ Register(u) \/ Gather(u) \/ BeginWait(u)
    BY DEF RegMonFunction, Enter, Reset, RegisterFails, WaitFails, WakeForChange, WakeForExit,
           Finish, At, TypeOK
  <2> QED
    BY <1>6, <2>1, <2>2, <2>3
<1> QED
  BY <1>5, <1>6

LEMMA OwnerKeepsWakeup ==
  ASSUME TypeOK, WakeupInv, Owner
  PROVE  WakeupInv'
<1> USE DEF members, owner, thread, kernel
<1> SUFFICES ASSUME ~timedOut', NEW t \in Sessions, pc'[t] \in {"gather", "gathered", "waiting"}
             PROVE  Heard(t)'
  BY DEF WakeupInv
<1>1. ~timedOut
  BY DEF Owner, OwnerGoesOn, SetExit, WaitThread, WaitTimesOut, CloseThread, CloseExit, CloseMon, CloseKey,
         OpenKey, CreateExit, CreateMon, CreateThread, StartFails
<1>2. pc'[t] = pc[t]
  <2>1. CASE CreateThread
    BY <2>1 DEF CreateThread, TypeOK
  <2> QED
    BY <2>1 DEF Owner, OwnerGoesOn, SetExit, WaitThread, WaitTimesOut, CloseThread, CloseExit, CloseMon,
                CloseKey, OpenKey, CreateExit, CreateMon, StartFails
<1>3. Heard(t)
  BY <1>1, <1>2 DEF WakeupInv
<1>4. CASE CloseKey
  BY <1>3, <1>4, FireHears DEF CloseKey
<1>5. CASE ~CloseKey
  BY <1>3, <1>5 DEF Owner, OwnerGoesOn, SetExit, WaitThread, WaitTimesOut, CloseThread, CloseExit, CloseMon,
                    OpenKey, CreateExit, CreateMon, CreateThread, StartFails, Heard
<1> QED
  BY <1>4, <1>5

LEMMA WakeupInvariant == Spec => []WakeupInv
<1> USE DEF members, owner, thread, kernel
<1>1. Init => WakeupInv
  BY DEF Init, WakeupInv
<1>2. TypeOK /\ HandlesInv /\ WakeupInv /\ [Next]_vars => WakeupInv'
  <2> SUFFICES ASSUME TypeOK, HandlesInv, WakeupInv, [Next]_vars PROVE WakeupInv'
    OBVIOUS
  <2>1. CASE CallStart \/ CallStop
    BY <2>1 DEF CallStart, CallStop, WakeupInv, Heard
  <2>2. CASE Owner
    BY <2>2, OwnerKeepsWakeup
  <2>3. CASE Change
    <3>1. \A t \in Sessions : Heard(t) => Heard(t)'
      BY <2>3, FireHears DEF Change
    <3> QED
      BY <2>3, <3>1 DEF Change, WakeupInv
  <2>4. ASSUME NEW t \in Sessions, RegMonFunction(t) PROVE WakeupInv'
    BY <2>4, ThreadKeepsWakeup
  <2>5. CASE UNCHANGED vars
    BY <2>5 DEF vars, WakeupInv, Heard
  <2> QED
    BY <2>1, <2>2, <2>3, <2>4, <2>5 DEF Next
<1> QED
  BY <1>1, <1>2, TypeCorrect, HandlesInvariant, PTL DEF Spec

(* A waiting monitor thread has every change before it or already in its   *)
(* event: none falls between the reset, the registration and the wait.     *)
THEOREM WakeupsAreKept == Spec => []NoLostWakeup
<1>1. WakeupInv => NoLostWakeup
  BY DEF WakeupInv, NoLostWakeup, Heard
<1> QED
  BY <1>1, WakeupInvariant, PTL

-----------------------------------------------------------------------------
(* What a thread waits for: the exit event of its own session, before its  *)
(* change event; and StopMonitor has set it when it waits.                 *)
OwnEvents(t) == <<<<"exit", t>>, <<"mon", t>>>>

ExitInv ==
  ~timedOut => \A t \in Sessions :
    /\ pc[t] \in {"gathered", "waiting"} => hEventArray[t] = OwnEvents(t)
    /\ step = "wait" /\ Running(t) => <<"exit", t>> \in signalled

(* An exit event that is set stays so. *)
LEMMA ExitStays ==
  ASSUME TypeOK, [Next]_vars, NEW t \in Sessions, <<"exit", t>> \in signalled
  PROVE  <<"exit", t>> \in signalled'
<1> USE DEF members, owner, thread, kernel
<1>1. CASE CallStart \/ CallStop
  BY <1>1 DEF CallStart, CallStop
<1>2. CASE Owner
  BY <1>2 DEF Owner, OwnerGoesOn, SetExit, WaitThread, WaitTimesOut, CloseThread, CloseExit,
              CloseMon, CloseKey, OpenKey, CreateExit, CreateMon, CreateThread, StartFails, Fire
<1>3. CASE Change
  BY <1>3 DEF Change, Fire
<1>4. ASSUME NEW u \in Sessions, RegMonFunction(u) PROVE <<"exit", t>> \in signalled'
  BY <1>4 DEF RegMonFunction, Enter, Reset, Register, RegisterFails, Gather, BeginWait, WaitFails,
              WakeForChange, WakeForExit, Finish, Fire
<1>5. CASE UNCHANGED vars
  BY <1>5 DEF vars
<1> QED
  BY <1>1, <1>2, <1>3, <1>4, <1>5 DEF Next

LEMMA ThreadKeepsExit ==
  ASSUME TypeOK, HandlesInv, ExitInv, NEW u \in Sessions, RegMonFunction(u)
  PROVE  ExitInv'
<1> USE DEF members, owner, thread, kernel
<1> SUFFICES ASSUME ~timedOut', NEW t \in Sessions
             PROVE  /\ pc'[t] \in {"gathered", "waiting"} => hEventArray'[t] = OwnEvents(t)
                    /\ step' = "wait" /\ Running(t)' => <<"exit", t>> \in signalled'
  BY DEF ExitInv, OwnEvents
<1>1. ~timedOut /\ step' = step
  BY DEF RegMonFunction, Enter, Reset, Register, RegisterFails, Gather, BeginWait, WaitFails,
         WakeForChange, WakeForExit, Finish
<1>2. Running(u) /\ (Running(t)' => Running(t))
  BY DEF RegMonFunction, Enter, Reset, Register, RegisterFails, Gather, BeginWait, WaitFails,
         WakeForChange, WakeForExit, Finish, At, Running, TypeOK
<1>3. step' = "wait" /\ Running(t)' => <<"exit", t>> \in signalled'
  BY <1>1, <1>2, ExitStays DEF ExitInv, Next
<1>4. Owns(u)
  BY <1>1, <1>2 DEF HandlesInv
<1>5. ASSUME pc'[t] \in {"gathered", "waiting"} PROVE hEventArray'[t] = OwnEvents(t)
  <2>1. CASE Gather(u)
    BY <1>1, <1>4, <1>5, <2>1 DEF Gather, At, Owns, ExitInv, OwnEvents, TypeOK
  <2>2. CASE BeginWait(u)
    <3>1. hEventArray[u] = OwnEvents(u)
      BY <1>1, <2>2 DEF BeginWait, At, ExitInv
    <3>2. Denotes(<<"exit", u>>) = {<<"exit", u>>} /\ Denotes(<<"mon", u>>) = {<<"mon", u>>}
      BY <1>4 DEF Denotes, Open, Owns, Sessions, NULL
    <3>3. hEventArray' = [hEventArray EXCEPT ![u] = OwnEvents(u)]
      <4>1. hEventArray[u][1] = <<"exit", u>> /\ hEventArray[u][2] = <<"mon", u>>
        BY <3>1 DEF OwnEvents
      <4>2. PICK e \in {<<"exit", u>>}, f \in {<<"mon", u>>} :
              hEventArray' = [hEventArray EXCEPT ![u] = <<e, f>>]
        BY <2>2, <3>2, <4>1, Zenon DEF BeginWait
      <4>3. <<e, f>> = OwnEvents(u)
        BY DEF OwnEvents
      <4> QED
        BY <4>2, <4>3
    <3>4. CASE t = u
      BY <3>3, <3>4 DEF TypeOK
    <3>5. CASE t # u
      BY <1>1, <1>5, <2>2, <3>3, <3>5 DEF BeginWait, At, ExitInv, TypeOK
    <3> QED BY <3>4, <3>5
  <2>3. CASE ~Gather(u) /\ ~BeginWait(u)
    <3>1. hEventArray' = hEventArray /\ pc[t] \in {"gathered", "waiting"}
      BY <1>5, <2>3 DEF RegMonFunction, Enter, Reset, Register, RegisterFails, WaitFails,
         WakeForChange, WakeForExit, Finish, At, TypeOK
    <3> QED BY <1>1, <3>1 DEF ExitInv
  <2> QED BY <2>1, <2>2, <2>3
<1> QED
  BY <1>3, <1>5

LEMMA OwnerKeepsExit ==
  ASSUME TypeOK, HandlesInv, ExitInv, Owner
  PROVE  ExitInv'
<1> USE DEF members, owner, thread, kernel
<1> SUFFICES ASSUME ~timedOut', NEW t \in Sessions
             PROVE  /\ pc'[t] \in {"gathered", "waiting"} => hEventArray'[t] = OwnEvents(t)
                    /\ step' = "wait" /\ Running(t)' => <<"exit", t>> \in signalled'
  BY DEF ExitInv, OwnEvents
<1>1. ~timedOut
  BY DEF Owner, OwnerGoesOn, SetExit, WaitThread, WaitTimesOut, CloseThread, CloseExit, CloseMon,
         CloseKey, OpenKey, CreateExit, CreateMon, CreateThread, StartFails
<1>2. hEventArray' = hEventArray /\ (pc'[t] \in {"gathered", "waiting"} => pc'[t] = pc[t])
  BY DEF Owner, OwnerGoesOn, SetExit, WaitThread, WaitTimesOut, CloseThread, CloseExit, CloseMon,
         CloseKey, OpenKey, CreateExit, CreateMon, CreateThread, StartFails, TypeOK
<1>3. ASSUME step' = "wait", Running(t)' PROVE <<"exit", t>> \in signalled'
  <2>1. SetExit /\ pc' = pc
    BY <1>3 DEF Owner, OwnerGoesOn, SetExit, WaitThread, WaitTimesOut, CloseThread, CloseExit,
         CloseMon, CloseKey, OpenKey, CreateExit, CreateMon, CreateThread, StartFails
  <2>2. m_hExitEvent = t /\ t # NULL
    BY <1>1, <1>3, <2>1 DEF HandlesInv, Owns, Running, Sessions, NULL
  <2> QED BY <2>1, <2>2 DEF SetExit
<1> QED
  BY <1>1, <1>2, <1>3 DEF ExitInv

LEMMA ExitInvariant == Spec => []ExitInv
<1> USE DEF members, owner, thread, kernel
<1>1. Init => ExitInv
  BY DEF Init, ExitInv, Running
<1>2. TypeOK /\ HandlesInv /\ ExitInv /\ [Next]_vars => ExitInv'
  <2> SUFFICES ASSUME TypeOK, HandlesInv, ExitInv, [Next]_vars PROVE ExitInv'
    OBVIOUS
  <2>1. CASE CallStart \/ CallStop
    BY <2>1 DEF CallStart, CallStop, ExitInv, OwnEvents
  <2>2. CASE Owner
    BY <2>2, OwnerKeepsExit
  <2>3. CASE Change
    BY <2>3, ExitStays DEF Change, ExitInv, OwnEvents, Running
  <2>4. ASSUME NEW t \in Sessions, RegMonFunction(t) PROVE ExitInv'
    BY <2>4, ThreadKeepsExit
  <2>5. CASE UNCHANGED vars
    BY <2>5 DEF vars, ExitInv, OwnEvents, Running
  <2> QED
    BY <2>1, <2>2, <2>3, <2>4, <2>5 DEF Next
<1> QED
  BY <1>1, <1>2, TypeCorrect, HandlesInvariant, PTL DEF Spec

(* A thread that StopMonitor waits for leaves its own wait for the exit    *)
(* event only, whatever changes come in: WaitForMultipleObjects returns    *)
(* the lowest index that is set.                                           *)
THEOREM ExitComesFirst == Spec => ExitEndsRounds
<1> USE DEF members, owner, thread, kernel
<1>1. ASSUME TypeOK, ExitInv, [Next]_vars, NEW t \in Sessions,
             ~timedOut, step = "wait", pc[t] = "waiting"
      PROVE  pc'[t] \in {"waiting", "done"}
  <2>1. hEventArray[t][1] \in signalled
    <3>1. <<"exit", t>> \in signalled /\ hEventArray[t] = OwnEvents(t)
      BY <1>1 DEF ExitInv, Running
    <3>2. OwnEvents(t)[1] = <<"exit", t>>
      BY DEF OwnEvents
    <3> QED
      BY <3>1, <3>2
  <2>2. CASE CallStart \/ CallStop \/ Change \/ UNCHANGED vars
    BY <1>1, <2>2 DEF CallStart, CallStop, Change, vars
  <2>3. CASE Owner
    BY <1>1, <2>3 DEF Owner, OwnerGoesOn, SetExit, WaitThread, WaitTimesOut, CloseThread,
         CloseExit, CloseMon, CloseKey, OpenKey, CreateExit, CreateMon, CreateThread, StartFails,
         StartSteps
  <2>4. ASSUME NEW u \in Sessions, RegMonFunction(u) PROVE pc'[t] \in {"waiting", "done"}
    BY <1>1, <2>1, <2>4 DEF RegMonFunction, Enter, Reset, Register, RegisterFails, Gather,
         BeginWait, WaitFails, WakeForChange, WakeForExit, Finish, At, TypeOK
  <2> QED
    BY <1>1, <2>2, <2>3, <2>4 DEF Next
<1>2. TypeOK /\ ExitInv /\ [Next]_vars =>
        [\A t \in Sessions :
           ~timedOut /\ step = "wait" /\ pc[t] = "waiting" => pc'[t] \in {"waiting", "done"}]_vars
  BY <1>1
<1> QED
  BY <1>2, TypeCorrect, ExitInvariant, PTL DEF Spec, ExitEndsRounds

-----------------------------------------------------------------------------
(* The owner and its threads implement KeyWatch.  What the mapping needs   *)
(* beside the invariants above: a session that has not begun was not asked *)
(* to end, and a registration that waits belongs to the thread that made   *)
(* it and its event is not set.                                            *)
Opening == step \in {"createExit", "createMon", "createThread"}

FreshInv ==
  /\ \A s \in Sessions : s > session => pc[s] = "unborn" /\ <<"exit", s>> \notin signalled
  /\ m_hExitEvent <= session
  /\ Opening => /\ session \in Sessions
                /\ pc[session] = "unborn"
                /\ <<"exit", session>> \notin signalled
  /\ m_hMonThread # NULL => pc[m_hMonThread] # "unborn"

Listens(t) == pc[t] \in {"gather", "gathered", "waiting"}

KernelInv ==
  ~timedOut =>
    /\ \A t, u \in Sessions : <<t, u>> \in armed =>
         t = u /\ Listens(t) /\ <<"mon", t>> \notin signalled
    /\ \A t \in Sessions : pc[t] = "register" => <<"mon", t>> \notin signalled

(* The exit events that are set are the ones StopMonitor set, and a thread *)
(* goes on from where it is.                                               *)
LEMMA ThreadMoves ==
  ASSUME TypeOK, NEW u \in Sessions, RegMonFunction(u)
  PROVE  /\ UNCHANGED <<members, owner, timedOut>>
         /\ \A t \in Sessions : <<"exit", t>> \in signalled' <=> <<"exit", t>> \in signalled
         /\ \A t \in Sessions : t # u => pc'[t] = pc[t]
         /\ Running(u)
         /\ pc'[u] # "unborn"
<1> USE DEF members, owner, thread, kernel
<1>1. CASE Reset(u) \/ Register(u)
  BY <1>1 DEF Reset, Register, At, TypeOK, Running
<1>2. CASE Enter(u) \/ Gather(u) \/ BeginWait(u) \/ WakeForChange(u)
  BY <1>2 DEF Enter, Gather, BeginWait, WakeForChange, At, TypeOK, Running
<1>3. ASSUME NEW from \in {"register", "gathered", "waiting"}, Finish(u, from)
      PROVE  /\ UNCHANGED <<members, owner, timedOut>>
             /\ \A t \in Sessions : <<"exit", t>> \in signalled' <=> <<"exit", t>> \in signalled
             /\ \A t \in Sessions : t # u => pc'[t] = pc[t]
             /\ Running(u)
             /\ pc'[u] # "unborn"
  BY <1>3 DEF Finish, Fire, At, TypeOK, Running
<1> QED
  BY <1>1, <1>2, <1>3 DEF RegMonFunction, RegisterFails, WaitFails, WakeForExit

LEMMA FreshInvariant == Spec => []FreshInv
<1> USE SessionsAssumption DEF members, owner, thread, kernel
<1>1. Init => FreshInv
  BY DEF Init, FreshInv, Opening, NULL
<1>2. TypeOK /\ HandlesInv /\ FreshInv /\ [Next]_vars => FreshInv'
  <2> SUFFICES ASSUME TypeOK, HandlesInv, FreshInv, [Next]_vars PROVE FreshInv'
    OBVIOUS
  <2>1. CASE CallStart \/ CallStop
    BY <2>1 DEF CallStart, CallStop, FreshInv, Opening
  <2>2. CASE Owner
    <3>1. CASE SetExit
      <4>1. m_hExitEvent <= session
        BY DEF FreshInv
      <4>2. \A s \in Sessions : s > session => <<"exit", s>> \notin signalled'
        BY <3>1, <4>1 DEF SetExit, FreshInv, TypeOK, Sessions, Handles, NULL
      <4> QED
        BY <3>1, <4>1, <4>2 DEF SetExit, FreshInv, Opening
    <3>2. CASE WaitThread \/ WaitTimesOut \/ CloseThread
      BY <3>2 DEF WaitThread, WaitTimesOut, CloseThread, FreshInv, Opening
    <3>3. CASE CloseExit \/ CloseMon \/ StartFails
      BY <3>3 DEF CloseExit, CloseMon, StartFails, FreshInv, Opening, TypeOK, NULL
    <3>4. CASE CloseKey
      <4>1. \A s \in Sessions : <<"exit", s>> \in signalled' => <<"exit", s>> \in signalled
        BY <3>4 DEF CloseKey, Fire
      <4> QED
        BY <3>4, <4>1 DEF CloseKey, FreshInv, Opening
    <3>5. CASE OpenKey
      <4>1. session + 1 \in Sessions /\ session + 1 > session
        BY <3>5 DEF OpenKey, TypeOK, Sessions
      <4>2. \A s \in Sessions : s > session + 1 => s > session
        BY DEF TypeOK, Sessions
      <4>3. m_hExitEvent <= session + 1
        BY DEF FreshInv, TypeOK, Handles, Sessions, NULL
      <4> QED
        BY <3>5, <4>1, <4>2, <4>3 DEF OpenKey, FreshInv, Opening
    <3>6. CASE CreateExit \/ CreateMon
      <4>1. session <= session
        BY DEF TypeOK
      <4> QED
        BY <3>6, <4>1 DEF CreateExit, CreateMon, Created, FreshInv, Opening
    <3>7. CASE CreateThread
      <4>1. /\ session \in Sessions
            /\ pc' = [pc EXCEPT ![session] = "entry"]
            /\ ~(session > session)
        BY <3>7, ThreadIsCreated DEF CreateThread, FreshInv, Opening, TypeOK
      <4>2. \A s \in Sessions : s > session => pc'[s] = pc[s]
        BY <4>1 DEF TypeOK
      <4>3. pc'[session] = "entry"
        BY <4>1 DEF TypeOK
      <4> QED
        BY <3>7, <4>1, <4>2, <4>3, ThreadIsCreated DEF CreateThread, FreshInv, Opening
    <3> QED
      BY <2>2, <3>1, <3>2, <3>3, <3>4, <3>5, <3>6, <3>7 DEF Owner, OwnerGoesOn
  <2>3. CASE Change
    <3>1. \A s \in Sessions : <<"exit", s>> \in signalled' => <<"exit", s>> \in signalled
      BY <2>3 DEF Change, Fire
    <3> QED
      BY <2>3, <3>1 DEF Change, FreshInv, Opening
  <2>4. ASSUME NEW u \in Sessions, RegMonFunction(u) PROVE FreshInv'
    <3>1. /\ UNCHANGED <<members, owner>>
          /\ \A t \in Sessions : <<"exit", t>> \in signalled' <=> <<"exit", t>> \in signalled
          /\ \A t \in Sessions : (pc'[t] = "unborn") <=> (pc[t] = "unborn")
      BY <2>4, ThreadMoves DEF Running
    <3>2. m_hMonThread \in Sessions \cup {NULL}
      BY DEF TypeOK, Handles
    <3> QED
      BY <3>1, <3>2 DEF FreshInv, Opening
  <2>5. CASE UNCHANGED vars
    BY <2>5 DEF vars, FreshInv, Opening
  <2> QED
    BY <2>1, <2>2, <2>3, <2>4, <2>5 DEF Next
<1> QED
  BY <1>1, <1>2, TypeCorrect, HandlesInvariant, PTL DEF Spec

(* Without a time-out only one thread runs, and it owns the key. *)
LEMMA OneRuns ==
  ASSUME HandlesInv, ~timedOut, NEW t \in Sessions, Running(t)
  PROVE  Owns(t) /\ \A u \in Sessions : Running(u) => u = t
BY DEF HandlesInv, Owns

(* No registration outlives its thread: the one a session made is armed    *)
(* only while that session listens.                                        *)
LEMMA ThreadKeepsKernel ==
  ASSUME TypeOK, HandlesInv, ExitInv, KernelInv, NEW u \in Sessions, RegMonFunction(u)
  PROVE  KernelInv'
<1> USE DEF members, owner, thread, kernel
<1> SUFFICES ASSUME ~timedOut' PROVE KernelInv'
  BY DEF KernelInv
<1>1. ~timedOut /\ Running(u) /\ \A t \in Sessions : t # u => pc'[t] = pc[t]
  BY ThreadMoves
<1>2. Owns(u) /\ \A t \in Sessions : Running(t) => t = u
  BY <1>1, OneRuns
<1>3. \A t \in Sessions : Running(t)' => t = u
  BY <1>1, <1>2 DEF Running
<1>4. /\ \A t, v \in Sessions : <<t, v>> \in armed =>
           t = u /\ v = u /\ Listens(u) /\ <<"mon", u>> \notin signalled
      /\ pc[u] = "register" => <<"mon", u>> \notin signalled
  BY <1>1, <1>2 DEF KernelInv, Running, Listens
<1>5. SUFFICES /\ \A t, v \in Sessions : <<t, v>> \in armed' =>
                    t = u /\ v = u /\ Listens(u)' /\ <<"mon", u>> \notin signalled'
               /\ pc'[u] = "register" => <<"mon", u>> \notin signalled'
  BY <1>3 DEF KernelInv, Running, Listens
<1>6. CASE Enter(u)
  BY <1>4, <1>6 DEF Enter, At, Listens, TypeOK
<1>7. CASE Reset(u)
  <2>1. <<"mon", u>> \notin signalled' /\ armed' = armed /\ pc[u] = "reset"
    BY <1>2, <1>7 DEF Reset, At, Owns
  <2> QED
    BY <1>4, <2>1 DEF Listens
<1>8. CASE Register(u)
  <2>1. pc[u] = "register" /\ pc'[u] = "gather" /\ m_hMonEvent = u
    BY <1>2, <1>8 DEF Register, At, Owns, TypeOK
  <2>2. \A t, v \in Sessions : <<t, v>> \notin armed
    BY <1>4, <2>1 DEF Listens
  <2> QED
    BY <1>4, <1>8, <2>1, <2>2 DEF Register, Listens
<1>9. CASE Gather(u) \/ BeginWait(u)
  <2>1. /\ Listens(u) /\ Listens(u)' /\ pc'[u] # "register"
        /\ UNCHANGED <<armed, signalled>>
    BY <1>9 DEF Gather, BeginWait, At, Listens, TypeOK
  <2> QED
    BY <1>4, <2>1
<1>10. CASE WakeForChange(u)
  <2>1. pc'[u] = "reset" /\ UNCHANGED <<armed, signalled>>
    BY <1>10 DEF WakeForChange, At, TypeOK
  <2>2. pc[u] = "waiting" /\ hEventArray[u][2] \in signalled
    BY <1>10 DEF WakeForChange, At
  <2>3. hEventArray[u] = OwnEvents(u)
    BY <1>1, <2>2 DEF ExitInv
  <2>4. <<"mon", u>> \in signalled
    BY <2>2, <2>3 DEF OwnEvents
  <2> QED
    BY <1>4, <2>1, <2>4
<1>11. ASSUME NEW from \in {"register", "gathered", "waiting"}, Finish(u, from)
       PROVE  /\ \A t, v \in Sessions : <<t, v>> \notin armed'
              /\ pc'[u] # "register"
  <2>1. pc'[u] = "done" /\ armed' = armed \ {reg \in armed : reg[1] = u}
    BY <1>11 DEF Finish, Fire, At, TypeOK
  <2>2. \A t, v \in Sessions : <<t, v>> \in armed => <<t, v>>[1] = u
    BY <1>4
  <2> QED
    BY <2>1, <2>2
<1> QED
  BY <1>6, <1>7, <1>8, <1>9, <1>10, <1>11
     DEF RegMonFunction, RegisterFails, WaitFails, WakeForExit

(* The registrations that fire are set and no longer armed; nothing else   *)
(* changes for the other sessions.                                         *)
LEMMA FireKeepsKernel ==
  ASSUME TypeOK, HandlesInv, KernelInv, ~timedOut, ~timedOut', UNCHANGED pc,
         NEW S \in SUBSET armed, Fire(S)
  PROVE  KernelInv'
<1>1. \A reg \in armed : /\ reg[1] \in Sessions /\ reg[2] \in Sessions
                         /\ reg = <<reg[1], reg[2]>>
  BY DEF TypeOK
<1>2. \A reg \in armed : reg = <<reg[1], reg[1]>> /\ Listens(reg[1])
  BY <1>1 DEF KernelInv
<1>3. ASSUME NEW t \in Sessions, NEW v \in Sessions, <<t, v>> \in armed'
      PROVE  t = v /\ Listens(t) /\ <<"mon", t>> \notin signalled'
  <2>1. <<t, v>> \in armed /\ <<t, v>> \notin S
    BY <1>3 DEF Fire
  <2>2. t = v /\ Listens(t) /\ <<"mon", t>> \notin signalled
    BY <2>1 DEF KernelInv
  <2>3. \A reg \in S : reg[2] # t
    BY <1>2, <2>1, <2>2
  <2> QED
    BY <2>2, <2>3 DEF Fire
<1>4. ASSUME NEW t \in Sessions, pc[t] = "register" PROVE <<"mon", t>> \notin signalled'
  <2>1. \A reg \in S : reg[2] # t
    BY <1>2, <1>4 DEF Listens
  <2> QED
    BY <1>4, <2>1 DEF Fire, KernelInv
<1> QED
  BY <1>3, <1>4 DEF KernelInv, Listens

LEMMA KernelInvariant == Spec => []KernelInv
<1> USE DEF members, owner, thread, kernel
<1>1. Init => KernelInv
  BY DEF Init, KernelInv
<1>2. TypeOK /\ HandlesInv /\ ExitInv /\ FreshInv /\ KernelInv /\ [Next]_vars => KernelInv'
  <2> SUFFICES ASSUME TypeOK, HandlesInv, ExitInv, FreshInv, KernelInv, [Next]_vars, ~timedOut'
               PROVE  KernelInv'
    BY DEF KernelInv
  <2>1. CASE CallStart \/ CallStop
    BY <2>1 DEF CallStart, CallStop, KernelInv, Listens
  <2>2. CASE Owner
    <3>1. CASE SetExit
      BY <3>1 DEF SetExit, KernelInv, Listens
    <3>2. CASE CloseKey
      BY <2>2, <3>2, FireKeepsKernel DEF CloseKey
    <3>3. CASE CreateThread
      <4>1. \A t \in Sessions : t # session => pc'[t] = pc[t]
        BY <3>3 DEF CreateThread, TypeOK
      <4>2. session \in Sessions /\ pc[session] = "unborn" /\ pc'[session] = "entry"
        BY <3>3, ThreadIsCreated DEF CreateThread, FreshInv, Opening, TypeOK
      <4> QED
        BY <3>3, <4>1, <4>2 DEF CreateThread, KernelInv, Listens
    <3>4. CASE ~SetExit /\ ~CloseKey /\ ~CreateThread
      <4>1. ~timedOut /\ UNCHANGED <<pc, armed, signalled>>
        BY <2>2, <3>4 DEF Owner, OwnerGoesOn, WaitThread, WaitTimesOut, CloseThread, CloseExit,
             CloseMon, OpenKey, CreateExit, CreateMon, StartFails
      <4> QED
        BY <4>1 DEF KernelInv, Listens
    <3> QED
      BY <3>1, <3>2, <3>3, <3>4
  <2>3. CASE Change
    BY <2>3, FireKeepsKernel DEF Change
  <2>4. ASSUME NEW u \in Sessions, RegMonFunction(u) PROVE KernelInv'
    BY <2>4, ThreadKeepsKernel
  <2>5. CASE UNCHANGED vars
    BY <2>5 DEF vars, KernelInv, Listens
  <2> QED
    BY <2>1, <2>2, <2>3, <2>4, <2>5 DEF Next
<1> QED
  BY <1>1, <1>2, TypeCorrect, HandlesInvariant, ExitInvariant, FreshInvariant, PTL DEF Spec

(* The mapping.  A step that changes what one session shows is a move of   *)
(* that session; one that changes nothing KeyWatch sees is a stutter.      *)
Shown == <<[t \in Sessions |-> Watch(t)], Asked, ~timedOut /\ pending>>

LEMMA MoveMaps ==
  ASSUME NEW t \in Sessions, NEW from, NEW to, Watch(t) \in from, Watch(t)' = to,
         \A u \in Sessions : u # t => Watch(u)' = Watch(u), Asked' = Asked
  PROVE  KW!Move(t, from, to)
BY DEF KW!Move

LEMMA StutterMaps ==
  ASSUME UNCHANGED <<timedOut, pending>>, Asked' = Asked,
         \A t \in Sessions : Watch(t)' = Watch(t)
  PROVE  UNCHANGED Shown
BY DEF Shown

(* What a session shows depends on its own place and its own events. *)
LEMMA SameShown ==
  ASSUME UNCHANGED timedOut, NEW t \in Sessions, pc'[t] = pc[t],
         <<"mon", t>> \in signalled' <=> <<"mon", t>> \in signalled,
         <<t, t>> \in armed' <=> <<t, t>> \in armed
  PROVE  Watch(t)' = Watch(t)
BY DEF Watch

(* A thread that runs keeps its session active. *)
LEMMA RunningActive ==
  ASSUME TypeOK, WakeupInv, ~timedOut, NEW t \in Sessions, Running(t)
  PROVE  Watch(t) \in {"busy", "listening", "told"}
<1>1. pc[t] \in {"entry", "reset", "register"} \/ Listens(t)
  BY DEF TypeOK, Pcs, Running, Listens
<1>2. CASE pc[t] \in {"entry", "reset", "register"}
  BY <1>2 DEF Watch
<1>3. CASE Listens(t)
  BY <1>3 DEF Watch, Listens, WakeupInv, Heard
<1> QED
  BY <1>1, <1>2, <1>3

LEMMA RestShown ==
  ASSUME UNCHANGED timedOut, NEW t \in Sessions, pc'[t] = pc[t], ~Listens(t)
  PROVE  Watch(t)' = Watch(t)
<1>1. CASE timedOut
  BY <1>1 DEF Watch
<1>2. CASE ~timedOut
  BY <1>2 DEF Watch, Listens
<1> QED
  BY <1>1, <1>2

LEMMA NobodyActive ==
  ASSUME TypeOK, ~timedOut, \A t \in Sessions : ~Running(t)
  PROVE  KW!Unwatched
<1>1. \A t \in Sessions : pc[t] \in {"unborn", "done"}
  BY DEF Running
<1>2. \A t \in Sessions : Watch(t) \in {"new", "gone"}
  BY <1>1 DEF Watch
<1> QED
  BY <1>2 DEF KW!Unwatched, KW!Active

LEMMA ThreadImplements ==
  ASSUME TypeOK, HandlesInv, WakeupInv, ExitInv, KernelInv, ~timedOut,
         NEW u \in Sessions, RegMonFunction(u)
  PROVE  [KW!Next]_Shown
<1> USE DEF members, owner, thread, kernel
<1>1. /\ ~timedOut' /\ timedOut' = timedOut
      /\ Asked' = Asked
      /\ \A t \in Sessions : t # u => pc'[t] = pc[t]
      /\ Running(u)
  BY ThreadMoves DEF Asked
<1>2. Owns(u) /\ \A t \in Sessions : Running(t) => t = u
  BY <1>1, OneRuns
<1>3. \A t \in Sessions : t # u => Watch(t)' = Watch(t)
  BY <1>1, <1>2, RestShown DEF Listens, Running
<1>4. CASE Enter(u) \/ Reset(u)
  <2>1. pc[u] \in {"entry", "reset"} /\ pc'[u] \in {"reset", "register"} /\ pending' = pending
    BY <1>4 DEF Enter, Reset, At, TypeOK
  <2>2. Watch(u) = "busy" /\ Watch(u)' = "busy"
    BY <1>1, <2>1 DEF Watch
  <2> QED
    BY <1>1, <1>3, <2>1, <2>2, StutterMaps
<1>5. CASE Register(u)
  <2>1. pc[u] = "register" /\ pc'[u] = "gather" /\ m_hMonEvent = u /\ pending' = FALSE
    BY <1>2, <1>5 DEF Register, At, Owns, TypeOK
  <2>2. Watch(u) = "busy"
    BY <1>1, <2>1 DEF Watch
  <2>3. Watch(u)' = IF <<"mon", u>> \in signalled' THEN "told"
                    ELSE IF <<u, u>> \in armed' THEN "listening" ELSE "deaf"
    BY <1>1, <2>1 DEF Watch
  <2>4. CASE pending
    <3>1. Watch(u)' = "told"
      BY <1>5, <2>1, <2>3, <2>4 DEF Register
    <3>2. KW!Move(u, {"busy"}, "told")
      BY <1>1, <1>3, <2>2, <3>1, MoveMaps
    <3> QED
      BY <1>1, <2>1, <2>4, <3>2 DEF KW!Next, KW!Listen
  <2>5. CASE ~pending
    <3>1. <<"mon", u>> \notin signalled
      BY <1>1, <2>1 DEF KernelInv
    <3>2. Watch(u)' = "listening"
      BY <1>5, <2>1, <2>3, <2>5, <3>1 DEF Register
    <3>3. KW!Move(u, {"busy"}, "listening")
      BY <1>1, <1>3, <2>2, <3>2, MoveMaps
    <3> QED
      BY <1>1, <2>1, <2>5, <3>3 DEF KW!Next, KW!Listen
  <2> QED
    BY <2>4, <2>5
<1>6. CASE Gather(u) \/ BeginWait(u)
  <2>1. /\ Listens(u) /\ Listens(u)' /\ UNCHANGED <<armed, signalled, pending>>
    BY <1>6 DEF Gather, BeginWait, At, Listens, TypeOK
  <2>2. Watch(u)' = Watch(u)
    BY <1>1, <2>1 DEF Watch, Listens
  <2> QED
    BY <1>1, <1>3, <2>1, <2>2, StutterMaps
<1>7. ASSUME Listens(u), pc[u] # "gather" PROVE hEventArray[u] = OwnEvents(u)
  BY <1>1, <1>7 DEF Listens, ExitInv
<1>8. OwnEvents(u)[1] = <<"exit", u>> /\ OwnEvents(u)[2] = <<"mon", u>>
  BY DEF OwnEvents
<1>9. CASE WakeForChange(u)
  <2>1. pc[u] = "waiting" /\ pc'[u] = "reset" /\ pending' = pending
    BY <1>9 DEF WakeForChange, At, TypeOK
  <2>2. <<"mon", u>> \in signalled /\ <<"exit", u>> \notin signalled
    BY <1>7, <1>8, <1>9, <2>1 DEF WakeForChange, Listens
  <2>3. Watch(u) = "told" /\ Watch(u)' = "busy" /\ u \notin Asked
    BY <1>1, <2>1, <2>2 DEF Watch, Asked
  <2>4. KW!Move(u, {"told"}, "busy")
    BY <1>1, <1>3, <2>3, MoveMaps
  <2> QED
    BY <1>1, <2>1, <2>3, <2>4 DEF KW!Next, KW!Notice
<1>10. CASE RegisterFails(u)
  <2>1. pc[u] = "register" /\ pc'[u] = "done" /\ pending' = pending
    BY <1>10 DEF RegisterFails, Finish, At, TypeOK
  <2>2. Watch(u) = "busy" /\ Watch(u)' = "gone"
    BY <1>1, <2>1 DEF Watch
  <2>3. /\ KW!Move(u, {"busy"}, "gone")
        /\ KW!Move(u, {"busy", "listening", "told"}, "gone")
    BY <1>1, <1>3, <2>2, MoveMaps
  <2> QED
    BY <1>1, <2>1, <2>3 DEF KW!Next, KW!End
<1>11. CASE WakeForExit(u)
  <2>1. pc[u] = "waiting" /\ pc'[u] = "done" /\ pending' = pending
    BY <1>11 DEF WakeForExit, Finish, At, TypeOK
  <2>2. u \in Asked
    BY <1>1, <1>7, <1>8, <1>11, <2>1 DEF WakeForExit, Listens, Asked
  <2>3. Watch(u) \in {"listening", "told"} /\ Watch(u)' = "gone"
    BY <1>1, <2>1 DEF Watch, WakeupInv, Heard
  <2>4. KW!Move(u, {"busy", "listening", "told"}, "gone")
    BY <1>1, <1>3, <2>3, MoveMaps
  <2> QED
    BY <1>1, <2>1, <2>2, <2>4 DEF KW!Next, KW!End
<1>12. CASE WaitFails(u)
  <2>1. hEventArray[u] = OwnEvents(u)
    BY <1>7, <1>12 DEF WaitFails, Finish, At, Listens
  <2>2. Open(<<"exit", u>>) /\ Open(<<"mon", u>>)
    BY <1>2 DEF Open, Owns, Sessions, NULL
  <2> QED
    BY <1>8, <1>12, <2>1, <2>2 DEF WaitFails
<1> QED
  BY <1>4, <1>5, <1>6, <1>9, <1>10, <1>11, <1>12 DEF RegMonFunction

LEMMA OwnerImplements ==
  ASSUME TypeOK, HandlesInv, WakeupInv, ExitInv, FreshInv, KernelInv, ~timedOut, Owner
  PROVE  [KW!Next]_Shown
<1> USE DEF members, owner, thread, kernel
<1>1. CASE SetExit
  <2>1. UNCHANGED <<timedOut, pending, pc, armed>>
    BY <1>1 DEF SetExit
  <2>2. \A t \in Sessions : Watch(t)' = Watch(t)
    BY <1>1, <2>1, SameShown DEF SetExit
  <2>3. CASE m_hExitEvent = NULL
    <3>1. Asked' = Asked
      BY <1>1, <2>1, <2>3 DEF SetExit, Asked
    <3> QED
      BY <2>1, <2>2, <3>1, StutterMaps
  <2>4. CASE m_hExitEvent # NULL
    <3>1. m_hExitEvent \in Sessions
      BY <2>4 DEF TypeOK, Handles
    <3>2. Asked' = Asked \cup {m_hExitEvent}
      BY <1>1, <2>1, <2>4, <3>1 DEF SetExit, Asked
    <3>3. Watch(m_hExitEvent) # "unknown"
      BY <3>1 DEF Watch, TypeOK, Pcs
    <3>4. KW!Ask(m_hExitEvent)
      BY <2>1, <2>2, <3>1, <3>2, <3>3 DEF KW!Ask
    <3> QED
      BY <3>1, <3>4 DEF KW!Next
  <2> QED
    BY <2>3, <2>4
<1>2. CASE WaitTimesOut
  <2> DEFINE t == m_hMonThread
  <2>1. t \in Sessions /\ Running(t) /\ step = "wait" /\ timedOut'
    BY <1>2 DEF WaitTimesOut, FreshInv, Running, TypeOK, Handles
  <2>2. t \in Asked
    BY <2>1 DEF ExitInv, Asked
  <2>4. Watch(t) \in {"busy", "listening", "told"}
    BY <2>1, RunningActive
  <2>5. Asked' = {} /\ \A u \in Sessions : Watch(u)' = "unknown"
    BY <2>1 DEF Asked, Watch
  <2>6. KW!GiveUp(t)
    BY <2>1, <2>2, <2>4, <2>5 DEF KW!GiveUp, KW!Active
  <2> QED
    BY <2>1, <2>6 DEF KW!Next
<1>3. CASE CloseKey
  <2>1. \A t \in Sessions : ~Running(t)
    BY <1>3 DEF CloseKey, HandlesInv, Owns
  <2>2. UNCHANGED <<timedOut, pc>> /\ pending' = FALSE
    BY <1>3 DEF CloseKey
  <2>3. \A t \in Sessions : Watch(t)' = Watch(t)
    BY <2>1, <2>2, RestShown DEF Running, Listens
  <2>4. Asked' = Asked
    BY <1>3 DEF CloseKey, Fire, Asked
  <2>5. KW!Forget
    BY <2>1, <2>2, <2>3, <2>4, NobodyActive DEF KW!Forget
  <2> QED
    BY <2>5 DEF KW!Next
<1>4. CASE CreateThread
  <2>1. PICK s \in Sessions : s = session
    BY <1>4 DEF CreateThread, FreshInv, Opening
  <2>2. /\ s \notin Asked
        /\ pc[s] = "unborn" /\ pc'[s] = "entry"
        /\ \A t \in Sessions : t # s => pc'[t] = pc[t]
        /\ UNCHANGED <<timedOut, pending, armed, signalled>>
    BY <1>4, <2>1, ThreadIsCreated DEF CreateThread, FreshInv, Opening, Asked, TypeOK
  <2>3. \A t \in Sessions : ~Running(t)
    BY <1>4 DEF CreateThread, HandlesInv, Owns
  <2>4. Watch(s) = "new" /\ Watch(s)' = "busy"
    BY <2>2 DEF Watch
  <2>5. Asked' = Asked /\ \A t \in Sessions : t # s => Watch(t)' = Watch(t)
    BY <2>2, SameShown DEF Asked
  <2>6. KW!Move(s, {"new"}, "busy")
    BY <2>4, <2>5, MoveMaps
  <2> QED
    BY <2>2, <2>3, <2>6, NobodyActive DEF KW!Next, KW!Begin
<1>5. CASE ~SetExit /\ ~WaitTimesOut /\ ~CloseKey /\ ~CreateThread
  <2>1. UNCHANGED <<timedOut, pending, pc, armed, signalled>>
    BY <1>5 DEF Owner, OwnerGoesOn, WaitThread, CloseThread, CloseExit, CloseMon, OpenKey,
         CreateExit, CreateMon, StartFails
  <2>2. Asked' = Asked /\ \A t \in Sessions : Watch(t)' = Watch(t)
    BY <2>1, SameShown DEF Asked
  <2> QED
    BY <2>1, <2>2, StutterMaps
<1> QED
  BY <1>1, <1>2, <1>3, <1>4, <1>5

(* Nothing is promised again after a time-out. *)
LEMMA TimeOutStays ==
  ASSUME timedOut, [Next]_vars
  PROVE  timedOut'
<1> USE DEF members, owner, thread, kernel
<1>1. CASE Owner
  BY <1>1 DEF Owner, OwnerGoesOn, SetExit, WaitThread, WaitTimesOut, CloseThread, CloseExit,
       CloseMon, CloseKey, OpenKey, CreateExit, CreateMon, CreateThread, StartFails
<1>2. ASSUME NEW u \in Sessions, RegMonFunction(u) PROVE timedOut'
  BY <1>2 DEF RegMonFunction, Enter, Reset, Register, RegisterFails, Gather, BeginWait, WaitFails,
       WakeForChange, WakeForExit, Finish
<1> QED
  BY <1>1, <1>2 DEF Next, CallStart, CallStop, Change, vars

LEMMA ChangeImplements ==
  ASSUME TypeOK, HandlesInv, WakeupInv, KernelInv, ~timedOut, Change
  PROVE  [KW!Next]_Shown
<1> DEFINE S == {reg \in armed : reg[2] = m_hMonRegKey}
<1> USE DEF members, owner, thread, kernel
<1>1. UNCHANGED <<timedOut, pc>> /\ Fire(S)
  BY DEF Change
<1>2. Asked' = Asked
  BY <1>1 DEF Fire, Asked
<1>3. \A reg \in armed : reg[1] \in Sessions /\ reg = <<reg[1], reg[1]>> /\ Listens(reg[1])
  <2>1. \A reg \in armed : reg[1] \in Sessions /\ reg[2] \in Sessions /\ reg = <<reg[1], reg[2]>>
    BY DEF TypeOK
  <2> QED
    BY <2>1 DEF KernelInv
<1>4. CASE S # {}
  <2>1. PICK reg \in armed : reg[2] = m_hMonRegKey
    BY <1>4
  <2> DEFINE t == reg[1]
  <2>2. t \in Sessions /\ reg = <<t, t>> /\ Listens(t)
    BY <1>3, <2>1
  <2>3. Running(t) /\ \A u \in Sessions : Running(u) => u = t
    BY <2>2, OneRuns DEF Listens, Running
  <2>4. \A u \in Sessions : u # t => Watch(u)' = Watch(u)
    BY <1>1, <2>3, RestShown DEF Listens, Running
  <2>5. Watch(t) = "listening"
    BY <2>1, <2>2 DEF KernelInv, Watch, Listens
  <2>6. <<"mon", t>> \in signalled'
    <3>1. reg \in S /\ reg[2] = t
      BY <2>1, <2>2
    <3> QED
      BY <1>1, <3>1 DEF Fire
  <2>7. Watch(t)' = "told"
    BY <1>1, <2>2, <2>6 DEF Watch, Listens
  <2>8. KW!Move(t, {"listening"}, "told")
    BY <1>2, <2>2, <2>4, <2>5, <2>7, MoveMaps
  <2>9. pending' = pending
    BY <2>1 DEF Change
  <2> QED
    BY <1>1, <2>2, <2>8, <2>9 DEF KW!Next, KW!Tell
<1>5. CASE S = {}
  <2>1. UNCHANGED <<armed, signalled>> /\ pending' \in {pending, TRUE}
    BY <1>1, <1>5 DEF Fire, Change
  <2>2. \A t \in Sessions : Watch(t)' = Watch(t)
    BY <1>1, <2>1, SameShown
  <2>3. \A t \in Sessions : Watch(t) # "listening"
    <3>1. SUFFICES ASSUME NEW t \in Sessions, Watch(t) = "listening" PROVE FALSE
      OBVIOUS
    <3>2. <<t, t>> \in armed /\ Listens(t)
      BY <3>1 DEF Watch, Listens, TypeOK, Pcs
    <3>3. m_hMonRegKey = t
      BY <3>2, OneRuns DEF Listens, Running, Owns
    <3> QED
      BY <1>5, <3>2, <3>3
  <2>4. \A t \in Sessions : Watch(t) # "unknown"
    BY DEF Watch, TypeOK, Pcs
  <2>5. CASE pending' = pending
    BY <1>1, <1>2, <2>2, <2>5, StutterMaps
  <2>6. CASE pending' = TRUE
    <3>1. KW!Keep
      BY <1>1, <1>2, <2>2, <2>3, <2>4, <2>6 DEF KW!Keep
    <3> QED
      BY <3>1 DEF KW!Next
  <2> QED
    BY <2>1, <2>5, <2>6
<1> QED
  BY <1>4, <1>5

(* Any number of starts and stops implements KeyWatch: the key has one     *)
(* session at a time, no change is missed from the registration on and     *)
(* none is reported that did not happen, and the exit event ends the       *)
(* session before any change, until a StopMonitor gives up on its thread.  *)
THEOREM MonitorImplementsKeyWatch == Spec => KeyIsWatched
<1> USE DEF members, owner, thread, kernel
<1>1. Init => KW!Init
  <2> SUFFICES ASSUME Init PROVE KW!Init
    OBVIOUS
  <2>1. \A t \in Sessions : Watch(t) = "new"
    BY DEF Init, Watch
  <2>2. Asked = {} /\ ~pending
    BY DEF Init, Asked
  <2> QED
    BY <2>1, <2>2 DEF KW!Init
<1>2. TypeOK /\ HandlesInv /\ WakeupInv /\ ExitInv /\ FreshInv /\ KernelInv /\ [Next]_vars
        => [KW!Next]_Shown
  <2> SUFFICES ASSUME TypeOK, HandlesInv, WakeupInv, ExitInv, FreshInv, KernelInv, [Next]_vars
               PROVE  [KW!Next]_Shown
    OBVIOUS
  <2>1. CASE timedOut
    <3>1. timedOut'
      BY <2>1, TimeOutStays
    <3> QED
      BY <2>1, <3>1 DEF Shown, Watch, Asked
  <2>2. CASE CallStart \/ CallStop \/ UNCHANGED vars
    <3>1. UNCHANGED <<timedOut, pending, pc, armed, signalled>>
      BY <2>2 DEF CallStart, CallStop, vars
    <3>2. Asked' = Asked /\ \A t \in Sessions : Watch(t)' = Watch(t)
      BY <3>1, SameShown DEF Asked
    <3> QED
      BY <3>1, <3>2, StutterMaps
  <2> QED
    BY <2>1, <2>2, OwnerImplements, ChangeImplements, ThreadImplements DEF Next
<1> QED
  BY <1>1, <1>2, TypeCorrect, HandlesInvariant, WakeupInvariant, ExitInvariant, FreshInvariant,
     KernelInvariant, PTL DEF Spec, KeyIsWatched, KW!Spec, Shown
=============================================================================

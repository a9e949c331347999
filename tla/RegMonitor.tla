----------------------------- MODULE RegMonitor -----------------------------
(***************************************************************************)
(* CRegMonitorClass (RegNotifyChangeKeyValue/CRegMonitorClass.cpp): one    *)
(* owner starts and stops the watching of a registry key; a thread per     *)
(* start registers for the next change and waits for it or for the exit    *)
(* event.  The two share the four handle members without a lock.           *)
(*                                                                         *)
(* A handle is named by the start (session) that opened it, 0 is NULL; a   *)
(* session's object is open while the member still holds it.  StopMonitor  *)
(* waits 2000 ms for the thread and then closes everything: here the wait  *)
(* may run out at any time (timedOut remembers it), after which the thread *)
(* can meet NULL, closed, recycled or a later session's handles.           *)
(***************************************************************************)
EXTENDS Naturals

CONSTANT MaxSessions  \* bound on the successful RegOpenKeyEx calls

ASSUME SessionsAssumption == MaxSessions \in Nat \ {0}

NULL     == 0
Sessions == 1..MaxSessions
Handles  == Sessions \cup {NULL}
Objects  == {"exit", "mon"} \X Sessions  \* the event objects
Events   == {"exit", "mon"} \X Handles   \* what an event member can hold

VARIABLES
  m_hMonRegKey, m_hExitEvent, m_hMonEvent, m_hMonThread,
  step,       \* where the owner is in StartMonitor or StopMonitor
  starting,   \* was the StopMonitor under way called first by StartMonitor?
  session,    \* sessions begun so far
  pc,         \* where each session's thread is in RegMonFunction
  hEventArray,\* the thread's copy of the two events
  signalled,  \* events that are set
  armed,      \* <<thread, session>>: a registration that has not fired
  pending,    \* a change the key handle keeps for the next registration
  timedOut    \* some StopMonitor gave up on its thread

members == <<m_hMonRegKey, m_hExitEvent, m_hMonEvent, m_hMonThread>>
owner   == <<step, starting, session>>
thread  == <<pc, hEventArray>>
kernel  == <<signalled, armed, pending>>
vars    == <<members, owner, thread, kernel, timedOut>>

StopSteps  == {"exit", "wait", "thread", "closeExit", "closeMon", "closeKey"}
StartSteps == {"openKey", "createExit", "createMon", "createThread"}
Pcs == {"unborn", "entry", "reset", "register", "gather", "gathered", "waiting", "done"}

TypeOK ==
  /\ m_hMonRegKey \in Handles
  /\ m_hExitEvent \in Handles
  /\ m_hMonEvent \in Handles
  /\ m_hMonThread \in Handles
  /\ step \in {"idle"} \cup StopSteps \cup StartSteps
  /\ starting \in BOOLEAN
  /\ session \in 0..MaxSessions
  /\ pc \in [Sessions -> Pcs]
  /\ hEventArray \in [Sessions -> Events \X Events]
  /\ signalled \in SUBSET Objects
  /\ armed \in SUBSET (Sessions \X Sessions)
  /\ pending \in BOOLEAN
  /\ timedOut \in BOOLEAN

(* The constructor. *)
Init ==
  /\ m_hMonRegKey = NULL
  /\ m_hExitEvent = NULL
  /\ m_hMonEvent = NULL
  /\ m_hMonThread = NULL
  /\ step = "idle"
  /\ starting = FALSE
  /\ session = 0
  /\ pc = [t \in Sessions |-> "unborn"]
  /\ hEventArray = [t \in Sessions |-> <<<<"exit", NULL>>, <<"mon", NULL>>>>]
  /\ signalled = {}
  /\ armed = {}
  /\ pending = FALSE
  /\ timedOut = FALSE

-----------------------------------------------------------------------------
(* The owner.                                                              *)

CallStart ==
  /\ step = "idle"
  /\ step' = "exit"
  /\ starting' = TRUE
  /\ UNCHANGED <<members, session, thread, kernel, timedOut>>

(* By the program or by the destructor. *)
CallStop ==
  /\ step = "idle"
  /\ step' = "exit"
  /\ starting' = FALSE
  /\ UNCHANGED <<members, session, thread, kernel, timedOut>>

SetExit ==
  /\ step = "exit"
  /\ step' = "wait"
  /\ signalled' = signalled \cup (IF m_hExitEvent = NULL THEN {}
                                  ELSE {<<"exit", m_hExitEvent>>})
  /\ UNCHANGED <<members, starting, session, thread, armed, pending, timedOut>>

(* Mutant of WaitThread: the thread is not waited for. *)
WaitNoThread ==
  /\ step = "wait"
  /\ step' = "thread"
  /\ UNCHANGED <<members, starting, session, thread, kernel, timedOut>>

WaitThread ==
  /\ step = "wait"
  /\ m_hMonThread # NULL => pc[m_hMonThread] = "done"
  /\ step' = "thread"
  /\ UNCHANGED <<members, starting, session, thread, kernel, timedOut>>

(* WAIT_TIMEOUT, which StopMonitor does not look at. *)
WaitTimesOut ==
  /\ step = "wait"
  /\ m_hMonThread # NULL
  /\ pc[m_hMonThread] # "done"
  /\ step' = "thread"
  /\ timedOut' = TRUE
  /\ UNCHANGED <<members, starting, session, thread, kernel>>

CloseThread ==
  /\ step = "thread"
  /\ step' = "closeExit"
  /\ m_hMonThread' = NULL
  /\ UNCHANGED <<m_hMonRegKey, m_hExitEvent, m_hMonEvent, starting, session, thread, kernel,
                 timedOut>>

(* Mutant of CloseExit: the member is left over for the next start. *)
CloseExitNot ==
  /\ step = "closeExit"
  /\ step' = "closeMon"
  /\ UNCHANGED <<members, starting, session, thread, kernel, timedOut>>

CloseExit ==
  /\ step = "closeExit"
  /\ step' = "closeMon"
  /\ m_hExitEvent' = NULL
  /\ UNCHANGED <<m_hMonRegKey, m_hMonEvent, m_hMonThread, starting, session, thread, kernel,
                 timedOut>>

CloseMon ==
  /\ step = "closeMon"
  /\ step' = "closeKey"
  /\ m_hMonEvent' = NULL
  /\ UNCHANGED <<m_hMonRegKey, m_hExitEvent, m_hMonThread, starting, session, thread, kernel,
                 timedOut>>

(* The registrations in S end: their events are set. *)
Fire(S) ==
  /\ signalled' = signalled \cup {<<"mon", reg[2]>> : reg \in S}
  /\ armed' = armed \ S

(* RegCloseKey ends the key's registrations. *)
CloseKey ==
  /\ step = "closeKey"
  /\ step' = IF starting THEN "openKey" ELSE "idle"
  /\ Fire({reg \in armed : reg[2] = m_hMonRegKey})
  /\ m_hMonRegKey' = NULL
  /\ pending' = FALSE
  /\ starting' = FALSE
  /\ UNCHANGED <<m_hExitEvent, m_hMonEvent, m_hMonThread, session, thread, timedOut>>

(* bRet = -1..-4: StopMonitor again, and then StartMonitor returns. *)
StartFails ==
  /\ step \in StartSteps
  /\ step' = "exit"
  /\ UNCHANGED <<members, starting, session, thread, kernel, timedOut>>

OpenKey ==
  /\ step = "openKey"
  /\ session < MaxSessions
  /\ step' = "createExit"
  /\ session' = session + 1
  /\ m_hMonRegKey' = session + 1
  /\ UNCHANGED <<m_hExitEvent, m_hMonEvent, m_hMonThread, starting, thread, kernel, timedOut>>

(* StartMonitor creates what is NULL and takes what it finds otherwise. *)
Created(member) == IF member = NULL THEN session ELSE member

CreateExit ==
  /\ step = "createExit"
  /\ step' = "createMon"
  /\ m_hExitEvent' = Created(m_hExitEvent)
  /\ UNCHANGED <<m_hMonRegKey, m_hMonEvent, m_hMonThread, starting, session, thread, kernel,
                 timedOut>>

CreateMon ==
  /\ step = "createMon"
  /\ step' = "createThread"
  /\ m_hMonEvent' = Created(m_hMonEvent)
  /\ UNCHANGED <<m_hMonRegKey, m_hExitEvent, m_hMonThread, starting, session, thread, kernel,
                 timedOut>>

CreateThread ==
  /\ step = "createThread"
  /\ step' = "idle"
  /\ m_hMonThread' = Created(m_hMonThread)
  /\ pc' = IF m_hMonThread = NULL THEN [pc EXCEPT ![session] = "entry"] ELSE pc
  /\ UNCHANGED <<m_hMonRegKey, m_hExitEvent, m_hMonEvent, starting, session, hEventArray, kernel,
                 timedOut>>

-----------------------------------------------------------------------------
(* The monitor thread: RegMonThread and RegMonFunction.                    *)

At(t, from, to) == pc[t] = from /\ pc' = [pc EXCEPT ![t] = to]

(* The three assertions: a release build goes on whatever they find. *)
Enter(t) ==
  /\ At(t, "entry", "reset")
  /\ UNCHANGED <<members, owner, hEventArray, kernel, timedOut>>

Reset(t) ==
  /\ At(t, "reset", "register")
  /\ signalled' = signalled \ {<<"mon", m_hMonEvent>>}
  /\ UNCHANGED <<members, owner, hEventArray, armed, pending, timedOut>>

(* Mutant of Register: the event is reset after the registration. *)
RegisterThenReset(t) ==
  /\ At(t, "register", "gather")
  /\ m_hMonRegKey # NULL /\ m_hMonEvent # NULL
  /\ armed' = IF pending THEN armed ELSE armed \cup {<<t, m_hMonEvent>>}
  /\ signalled' = signalled \ {<<"mon", m_hMonEvent>>}
  /\ pending' = FALSE
  /\ UNCHANGED <<members, owner, hEventArray, timedOut>>

(* RegNotifyChangeKeyValue, asynchronous.  A change the key handle kept    *)
(* fires at once.                                                          *)
Register(t) ==
  /\ At(t, "register", "gather")
  /\ m_hMonRegKey # NULL /\ m_hMonEvent # NULL
  /\ IF pending
     THEN signalled' = signalled \cup {<<"mon", m_hMonEvent>>} /\ UNCHANGED armed
     ELSE armed' = armed \cup {<<t, m_hMonEvent>>} /\ UNCHANGED signalled
  /\ pending' = FALSE
  /\ UNCHANGED <<members, owner, hEventArray, timedOut>>

(* A thread that ends ends its registrations. *)
Finish(t, from) ==
  /\ At(t, from, "done")
  /\ Fire({reg \in armed : reg[1] = t})
  /\ UNCHANGED <<members, owner, hEventArray, pending, timedOut>>

(* A NULL handle, or a key that cannot be watched any more. *)
RegisterFails(t) == Finish(t, "register")

Gather(t) ==
  /\ At(t, "gather", "gathered")
  /\ hEventArray' = [hEventArray EXCEPT ![t] = <<<<"exit", m_hExitEvent>>, <<"mon", m_hMonEvent>>>>]
  /\ UNCHANGED <<members, owner, kernel, timedOut>>

Open(e) == e[2] # NULL /\ e[2] = IF e[1] = "exit" THEN m_hExitEvent ELSE m_hMonEvent

(* A closed handle's value may by now name any event that is open. *)
Denotes(e) == IF Open(e) THEN {e}
              ELSE IF e[2] = NULL THEN {}
              ELSE {f \in {<<"exit", m_hExitEvent>>, <<"mon", m_hMonEvent>>} : Open(f)}

BeginWait(t) ==
  /\ At(t, "gathered", "waiting")
  /\ \E e \in Denotes(hEventArray[t][1]), f \in Denotes(hEventArray[t][2]) :
       hEventArray' = [hEventArray EXCEPT ![t] = <<e, f>>]
  /\ UNCHANGED <<members, owner, kernel, timedOut>>

(* WAIT_FAILED: some handle is not, or no longer, one. *)
WaitFails(t) ==
  /\ ~(Open(hEventArray[t][1]) /\ Open(hEventArray[t][2]))
  /\ Finish(t, "gathered")

(* Mutant of WakeForChange: the change is looked at before the exit. *)
WakeForChangeFirst(t) ==
  /\ At(t, "waiting", "reset")
  /\ hEventArray[t][2] \in signalled
  /\ UNCHANGED <<members, owner, hEventArray, kernel, timedOut>>

(* WAIT_OBJECT_0 + 1; the lower index wins when both are set. *)
WakeForChange(t) ==
  /\ At(t, "waiting", "reset")
  /\ hEventArray[t][2] \in signalled
  /\ hEventArray[t][1] \notin signalled
  /\ UNCHANGED <<members, owner, hEventArray, kernel, timedOut>>

WakeForExit(t) ==
  /\ hEventArray[t][1] \in signalled
  /\ Finish(t, "waiting")

-----------------------------------------------------------------------------
(* Somebody changes the watched key.  With no registration the key handle  *)
(* may keep the change or not.                                             *)
Change ==
  /\ m_hMonRegKey # NULL
  /\ Fire({reg \in armed : reg[2] = m_hMonRegKey})
  /\ pending' \in (IF \E reg \in armed : reg[2] = m_hMonRegKey THEN {pending}
                   ELSE {pending, TRUE})
  /\ UNCHANGED <<members, owner, thread, timedOut>>

OwnerGoesOn ==
  \/ SetExit \/ WaitThread
  \/ CloseThread \/ CloseExit \/ CloseMon \/ CloseKey
  \/ OpenKey \/ CreateExit \/ CreateMon \/ CreateThread \/ StartFails

Owner == OwnerGoesOn \/ WaitTimesOut

RegMonFunction(t) ==
  \/ Enter(t) \/ Reset(t) \/ Register(t) \/ RegisterFails(t) \/ Gather(t)
  \/ BeginWait(t) \/ WaitFails(t) \/ WakeForChange(t) \/ WakeForExit(t)

Next == CallStart \/ CallStop \/ Owner \/ Change \/ \E t \in Sessions : RegMonFunction(t)

Spec == Init /\ [][Next]_vars

(* Both threads keep running; nobody has to call or to change the key, and *)
(* no wait has to run out.                                                 *)
FairSpec ==
  Spec /\ WF_vars(OwnerGoesOn) /\ \A t \in Sessions : WF_vars(RegMonFunction(t))

-----------------------------------------------------------------------------
Running(t) == pc[t] \notin {"unborn", "done"}

(* As long as no 2000 ms wait has run out, a monitor thread only ever      *)
(* works with the handles of its own session: none is closed or replaced   *)
(* under it, so its three assertions hold and its waits are valid.         *)
HandlesOutliveThread ==
  ~timedOut => \A t \in Sessions :
    Running(t) => m_hMonRegKey = t /\ m_hExitEvent = t /\ m_hMonEvent = t

(* A thread that waits will be woken by the next change: its registration  *)
(* is still armed, or it has fired and the event is still set.  Resetting  *)
(* the event before registering is what makes it so.                       *)
NoLostWakeup ==
  ~timedOut => \A t \in Sessions :
    pc[t] = "waiting" => <<t, t>> \in armed \/ <<"mon", t>> \in signalled

(* Once StopMonitor waits for a thread, that thread begins no further      *)
(* round, however many changes are set beside the exit event: what is left *)
(* of the one it is in is all that StopMonitor's 2000 ms have to cover.    *)
ExitEndsRounds ==
  [][\A t \in Sessions :
       ~timedOut /\ step = "wait" /\ pc[t] = "waiting" => pc'[t] \in {"waiting", "done"}]_vars

(* What the owner can rely on.  From the registration on a session listens *)
(* until the change is in its event; with neither it would be deaf.        *)
Watch(t) ==
  IF timedOut THEN "unknown"
  ELSE CASE pc[t] = "unborn" -> "new"
         [] pc[t] \in {"entry", "reset", "register"} -> "busy"
         [] pc[t] \in {"gather", "gathered", "waiting"} ->
              IF <<"mon", t>> \in signalled THEN "told"
              ELSE IF <<t, t>> \in armed THEN "listening" ELSE "deaf"
         [] pc[t] = "done" -> "gone"

Asked == {t \in Sessions : ~timedOut /\ <<"exit", t>> \in signalled}

KW == INSTANCE KeyWatch WITH watch <- [t \in Sessions |-> Watch(t)],
                             asked <- Asked,
                             kept  <- ~timedOut /\ pending

(* Owner and threads together watch the key as KeyWatch says, as long as   *)
(* no 2000 ms wait has run out: one session at a time, told of each change *)
(* it listens for and of nothing else, and ended by the exit event before  *)
(* any change.                                                             *)
KeyIsWatched == KW!Spec

(* A thread that StopMonitor waits for ends, however often the key goes on *)
(* changing: the exit event comes first in the array.                      *)
StopEndsThread ==
  \A t \in Sessions :
    step = "wait" /\ m_hMonThread = t ~> pc[t] = "done" \/ timedOut

(* The assertions of CRegMonitorClass.cpp:128-130: a monitor thread begins *)
(* with all its handles open.                                              *)
AssertionsHold ==
  \A t \in Sessions :
    pc[t] = "entry" => m_hMonEvent # NULL /\ m_hMonRegKey # NULL /\ m_hExitEvent # NULL
=============================================================================

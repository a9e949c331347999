--------------------------- MODULE WorkPoolProofs ---------------------------
(***************************************************************************)
(* Proofs about WorkPool, for every number of users.                       *)
(***************************************************************************)
EXTENDS WorkPool, SequenceTheorems, TLAPS

Stopped == DestroySteps \cup {"ended"}  \* main polls no more

(* Where a task's callback is still to come or at work, the task is not    *)
(* done and is there, and so is the whole pool; main has the task in its   *)
(* vector, so that it does not stop polling.                               *)
CallbackInv ==
  \A u \in Users :
    /\ m_bDone[u] => pc[u] \in {"leaving", "done"}
    /\ UsesTask(u) => alive[u]
    /\ UsesTask(u) => pool[u] = "derived"
    /\ UsesTask(u) /\ step # "crashed" =>
         step \notin Stopped /\ \E k \in 1..Len(tasks) : tasks[k] = u

(* The users that main has not come to yet have no task, and the one it    *)
(* comes to has a pool when it gets one.                                   *)
BuildInv ==
  /\ step \in BuildSteps => \A u \in user..NumUsers : pc[u] = "none"
  /\ step = "work" => pool[user] = "derived"

(* What a callback found, and that nobody found weak gets lost on the way  *)
(* from main's vector to its report.                                       *)
ReportInv ==
  /\ \A u \in Users :
       /\ pc[u] = "user" => found # "inner"
       /\ pc[u] = "mark" \/ m_bDone[u] => (m_strPwd[u] <=> found # "none")
  /\ found = "none" => reported = {}
  /\ found # "none" =>
       \A u \in Users :
         \/ step \in BuildSteps /\ u >= user
         \/ step = "crashed"
         \/ u \in reported
         \/ step \notin Stopped /\ \E k \in 1..Len(tasks) : tasks[k] = u

IInv == TypeOK /\ CallbackInv /\ BuildInv /\ ReportInv

(* Erasing an element keeps all the others. *)
LEMMA Erased ==
  ASSUME NEW S, NEW s \in Seq(S), NEW i \in 1..Len(s)
  PROVE  /\ RemoveAt(s, i) \in Seq(S)
         /\ \A k \in 1..Len(s) : k # i =>
              \E j \in 1..Len(RemoveAt(s, i)) : RemoveAt(s, i)[j] = s[k]
<1> DEFINE a == SubSeq(s, 1, i - 1)
           b == SubSeq(s, i + 1, Len(s))
<1>0. Len(s) \in Nat /\ i \in Nat /\ i >= 1 /\ i <= Len(s) /\ \A k \in 1..Len(s) : s[k] \in S
  BY LenProperties, ElementOfSeq
<1>1. a \in Seq(S) /\ Len(a) = i - 1 /\ \A k \in 1..(i - 1) : a[k] = s[k]
  BY <1>0, SubSeqProperties
<1>2. b \in Seq(S) /\ Len(b) = Len(s) - i /\ \A k \in 1..(Len(s) - i) : b[k] = s[i + k]
  BY <1>0, SubSeqProperties
<1> HIDE DEF a, b
<1>c. /\ a \o b \in Seq(S)
      /\ Len(a \o b) = Len(a) + Len(b)
      /\ \A k \in 1..(Len(a) + Len(b)) : (a \o b)[k] = IF k <= Len(a) THEN a[k] ELSE b[k - Len(a)]
  BY <1>1, <1>2, ConcatProperties
<1>3. /\ Len(a \o b) = Len(s) - 1
      /\ \A k \in 1..(i - 1) : (a \o b)[k] = s[k]
      /\ \A k \in i..(Len(s) - 1) : (a \o b)[k] = s[k + 1]
  <2>1. Len(a) = i - 1 /\ Len(b) = Len(s) - i /\ Len(a) + Len(b) = Len(s) - 1
    BY <1>0, <1>1, <1>2
  <2>2. ASSUME NEW k \in 1..(i - 1) PROVE (a \o b)[k] = s[k]
    BY <1>0, <1>1, <1>c, <2>1
  <2>3. ASSUME NEW k \in i..(Len(s) - 1) PROVE (a \o b)[k] = s[k + 1]
    <3>1. /\ k \in 1..(Len(a) + Len(b)) /\ ~(k <= Len(a))
          /\ k - Len(a) \in 1..(Len(s) - i) /\ i + (k - Len(a)) = k + 1
      BY <1>0, <2>1
    <3> QED
      BY <1>2, <1>c, <3>1
  <2> QED
    BY <1>c, <2>1, <2>2, <2>3
<1>4. RemoveAt(s, i) = a \o b
  BY DEF RemoveAt, a, b
<1>5. ASSUME NEW k \in 1..Len(s), k # i
      PROVE  \E j \in 1..(Len(s) - 1) : (a \o b)[j] = s[k]
  <2>1. CASE k < i
    <3>1. k \in 1..(i - 1) /\ k \in 1..(Len(s) - 1)
      BY <1>0, <2>1
    <3> QED
      BY <1>3, <3>1
  <2>2. CASE k > i
    <3>1. k - 1 \in i..(Len(s) - 1) /\ k - 1 \in 1..(Len(s) - 1) /\ (k - 1) + 1 = k
      BY <1>0, <1>5, <2>2
    <3>2. (a \o b)[k - 1] = s[(k - 1) + 1]
      BY <1>3, <3>1
    <3>3. (a \o b)[k - 1] = s[k]
      BY <3>1, <3>2
    <3> QED
      BY <3>1, <3>3
  <2>3. k < i \/ k > i
    BY <1>0, <1>5
  <2> QED
    BY <2>1, <2>2, <2>3
<1> QED
  BY <1>c, <1>3, <1>4, <1>5

-----------------------------------------------------------------------------
LEMMA TypeStep == ASSUME TypeOK, [Next]_vars PROVE TypeOK'
<1>0. NumUsers \in Nat /\ NumUsers >= 1
  BY UsersAssumption
<1>1. CASE CreateThreadpool
  BY <1>1 DEF CreateThreadpool, TypeOK, objects, BuildSteps
<1>2. CASE SetLimits
  <2>1. m_pPool' \in [Users -> BOOLEAN]
    BY <1>2 DEF SetLimits, TypeOK
  <2> QED
    BY <1>2, <2>1 DEF SetLimits, TypeOK, objects, BuildSteps
<1>3. CASE CreateCleanupGroup
  <2>1. m_pPool' \in [Users -> BOOLEAN] /\ m_pCleanupGroup' \in [Users -> BOOLEAN]
    BY <1>3 DEF CreateCleanupGroup, TypeOK
  <2>2. step' \in {"work", "crashed"}
    BY <1>3 DEF CreateCleanupGroup
  <2>3. pool' \in [Users -> {"none", "derived", "base"}]
    BY <1>3 DEF CreateCleanupGroup, TypeOK
  <2> QED
    BY <1>3, <2>1, <2>2, <2>3 DEF CreateCleanupGroup, TypeOK, objects, BuildSteps
<1>4. CASE CreateWorkThread
  <2>1. step' \in {"pool", "poll"} /\ user' \in Users
    BY <1>0, <1>4 DEF CreateWorkThread, TypeOK, Users
  <2>2. tasks' \in Seq(Users)
    BY <1>4, AppendProperties DEF CreateWorkThread, TypeOK
  <2>3. /\ alive' \in [Users -> BOOLEAN] /\ m_pWork' \in [Users -> BOOLEAN]
        /\ pc' \in [Users -> {"none", "queued", "entered", "inner", "user", "mark", "leaving",
                              "done"}]
    BY <1>4 DEF CreateWorkThread, TypeOK
  <2> QED
    BY <1>4, <2>1, <2>2, <2>3 DEF CreateWorkThread, TypeOK, BuildSteps
<1>5. CASE ReportAndDelete
  <2>1. iter \in 1..Len(tasks) /\ tasks[iter] \in Users
    BY <1>5, LenProperties, ElementOfSeq DEF ReportAndDelete, TypeOK
  <2>2. tasks' \in Seq(Users)
    BY <1>5, <2>1, Erased DEF ReportAndDelete, TypeOK
  <2>3. reported' \in SUBSET Users /\ alive' \in [Users -> BOOLEAN]
    BY <1>5, <2>1 DEF ReportAndDelete, TypeOK
  <2> QED
    BY <1>5, <2>2, <2>3 DEF ReportAndDelete, TypeOK, handles
<1>6. CASE PassOver
  <2>1. iter' \in Nat \ {0}
    BY <1>6 DEF PassOver, TypeOK
  <2> QED
    BY <1>6, <2>1 DEF PassOver, TypeOK, handles, objects
<1>7. CASE EndOfVector
  BY <1>7 DEF EndOfVector, TypeOK, handles, objects, DestroySteps
<1>8. CASE DestroyDerived
  BY <1>8 DEF DestroyDerived, TypeOK, objects, DestroySteps
<1>9. CASE CancelCallbacks
  BY <1>9 DEF CancelCallbacks, TypeOK, handles, objects, DestroySteps
<1>10. CASE CloseThreadPools
  <2>1. user' \in Users
    BY <1>0, <1>10 DEF CloseThreadPools, TypeOK, Users
  <2>2. step' \in {"destroy", "ended", "crashed"}
    BY <1>10 DEF CloseThreadPools
  <2>3. /\ m_pWork' \in [Users -> BOOLEAN] /\ m_pPool' \in [Users -> BOOLEAN]
        /\ m_pCleanupGroup' \in [Users -> BOOLEAN]
    BY <1>10 DEF CloseThreadPools, TypeOK
  <2> QED
    BY <1>10, <2>1, <2>2, <2>3 DEF CloseThreadPools, TypeOK, objects, DestroySteps
<1>11. ASSUME NEW u \in Users, Callback(u) PROVE TypeOK'
  <2>1. pc' \in [Users -> {"none", "queued", "entered", "inner", "user", "mark", "leaving",
                           "done"}]
    BY <1>11 DEF Callback, BeginCallback, WorkThreadProcess, TryInnerDict, TryUserDict, MarkDone,
                 EndCallback, At, TypeOK
  <2>2. m_strPwd' \in [Users -> BOOLEAN] /\ m_bDone' \in [Users -> BOOLEAN]
    BY <1>11 DEF Callback, BeginCallback, WorkThreadProcess, TryInnerDict, TryUserDict, MarkDone,
                 EndCallback, TypeOK, objects
  <2>3. step' \in {step, "crashed"}
    BY <1>11 DEF Callback, BeginCallback, WorkThreadProcess, TryInnerDict, TryUserDict, MarkDone,
                 EndCallback, mains
  <2> QED
    BY <1>11, <2>1, <2>2, <2>3
       DEF Callback, BeginCallback, WorkThreadProcess, TryInnerDict, TryUserDict, MarkDone,
           EndCallback, TypeOK, mains, handles, objects
<1>12. CASE UNCHANGED vars
  BY <1>12 DEF vars, mains, handles, objects, TypeOK
<1> QED
  BY <1>1, <1>2, <1>3, <1>4, <1>5, <1>6, <1>7, <1>8, <1>9, <1>10, <1>11, <1>12 DEF Next, Main

-----------------------------------------------------------------------------
(* Each group of actions keeps the invariant.                              *)

LEMMA ConstructorKeepsIInv ==
  ASSUME IInv, TypeOK', CreateThreadpool \/ SetLimits \/ CreateCleanupGroup
  PROVE  IInv'
<1>1. /\ step \in {"pool", "limits", "group"}
      /\ step' \in {"limits", "group", "work", "crashed"}
      /\ UNCHANGED <<user, tasks, reported, pc, alive, m_bDone, m_strPwd, found>>
  BY DEF CreateThreadpool, SetLimits, CreateCleanupGroup, objects
<1>2. /\ \A u \in Users : pool[u] = "derived" => pool'[u] = "derived"
      /\ step' = "work" => pool'[user] = "derived"
  BY DEF CreateThreadpool, SetLimits, CreateCleanupGroup, IInv, TypeOK
<1>3. step \in BuildSteps /\ step \notin Stopped /\ step' \notin Stopped
        /\ step' \in BuildSteps \cup {"crashed"} /\ step # "crashed"
  BY <1>1 DEF BuildSteps, Stopped, DestroySteps
<1>4. CallbackInv'
  BY <1>1, <1>2, <1>3 DEF IInv, CallbackInv, UsesTask
<1>5. BuildInv'
  BY <1>1, <1>2, <1>3 DEF IInv, BuildInv
<1>6. ReportInv'
  BY <1>1, <1>3 DEF IInv, ReportInv
<1> QED
  BY <1>4, <1>5, <1>6 DEF IInv

LEMMA CreateWorkKeepsIInv == ASSUME IInv, TypeOK', CreateWorkThread PROVE IInv'
<1>0. NumUsers \in Nat /\ NumUsers >= 1
  BY UsersAssumption
<1>1. /\ step = "work" /\ user \in Users /\ pool[user] = "derived"
      /\ \/ user < NumUsers /\ step' = "pool" /\ user' = user + 1
         \/ user >= NumUsers /\ step' = "poll" /\ user' = 1
      /\ alive'[user] /\ \A u \in Users : u # user => alive'[u] = alive[u]
      /\ UNCHANGED <<reported, pool, m_bDone, m_strPwd, found>>
  BY <1>0 DEF CreateWorkThread, IInv, TypeOK, BuildInv, Users
<1>2. /\ pc[user] = "none" /\ pc'[user] \in {"none", "queued"}
      /\ \A u \in Users : u # user => pc'[u] = pc[u]
  BY <1>0, <1>1 DEF CreateWorkThread, IInv, TypeOK, BuildInv, BuildSteps, Users
<1>3. /\ \E k \in 1..Len(tasks') : tasks'[k] = user
      /\ \A u \in Users : (\E k \in 1..Len(tasks) : tasks[k] = u)
                          => \E k \in 1..Len(tasks') : tasks'[k] = u
  <2>1. /\ Len(tasks) \in Nat /\ Len(tasks') = Len(tasks) + 1
        /\ \A k \in 1..Len(tasks) : tasks'[k] = tasks[k]
        /\ tasks'[Len(tasks) + 1] = user
    BY AppendProperties, LenProperties DEF CreateWorkThread, IInv, TypeOK
  <2> QED
    BY <2>1
<1>4. step' \notin Stopped /\ step \notin Stopped /\ step' # "crashed" /\ step # "crashed"
        /\ step \in BuildSteps
  BY <1>1 DEF Stopped, DestroySteps, BuildSteps
<1>5. CallbackInv'
  <2> SUFFICES ASSUME NEW u \in Users
               PROVE  /\ m_bDone'[u] => pc'[u] \in {"leaving", "done"}
                      /\ UsesTask(u)' => alive'[u]
                      /\ UsesTask(u)' => pool'[u] = "derived"
                      /\ UsesTask(u)' /\ step' # "crashed" =>
                           /\ step' \notin Stopped
                           /\ \E k \in 1..Len(tasks') : tasks'[k] = u
    BY DEF CallbackInv
  <2>1. CASE u = user
    BY <1>1, <1>2, <1>3, <1>4, <2>1 DEF IInv, CallbackInv, UsesTask
  <2>2. CASE u # user
    BY <1>1, <1>2, <1>3, <1>4, <2>2 DEF IInv, CallbackInv, UsesTask
  <2> QED
    BY <2>1, <2>2
<1>6. BuildInv'
  <2>1. step' \in BuildSteps => user' = user + 1
    BY <1>1 DEF BuildSteps
  <2>2. ASSUME step' \in BuildSteps, NEW u \in user'..NumUsers PROVE pc'[u] = "none"
    <3>1. u # user /\ u \in user..NumUsers /\ u \in Users
      BY <1>0, <1>1, <2>1, <2>2 DEF Users
    <3> QED
      BY <1>2, <1>4, <3>1 DEF IInv, BuildInv
  <2>3. step' # "work"
    BY <1>1
  <2> QED
    BY <2>2, <2>3 DEF BuildInv
<1>7. ReportInv'
  <2>1. \A u \in Users :
          /\ pc'[u] = "user" => found' # "inner"
          /\ pc'[u] = "mark" \/ m_bDone'[u] => (m_strPwd'[u] <=> found' # "none")
    BY <1>1, <1>2 DEF IInv, ReportInv
  <2>2. ASSUME found # "none", NEW u \in Users, ~(step' \in BuildSteps /\ u >= user')
        PROVE  u \in reported \/ \E k \in 1..Len(tasks') : tasks'[k] = u
    <3>1. u = user \/ u < user
      BY <1>0, <1>1, <2>2 DEF Users, BuildSteps
    <3>2. CASE u = user
      BY <1>3, <3>2
    <3>3. CASE u < user
      <4>1. ~(u >= user)
        BY <1>0, <1>1, <3>3 DEF Users
      <4> QED
        BY <1>3, <1>4, <2>2, <4>1 DEF IInv, ReportInv
    <3> QED
      BY <3>1, <3>2, <3>3
  <2>3. found' # "none" =>
          \A u \in Users :
            \/ step' \in BuildSteps /\ u >= user'
            \/ step' = "crashed"
            \/ u \in reported'
            \/ step' \notin Stopped /\ \E k \in 1..Len(tasks') : tasks'[k] = u
    BY <1>1, <1>4, <2>2
  <2>4. found' = "none" => reported' = {}
    BY <1>1 DEF IInv, ReportInv
  <2> QED
    BY <2>1, <2>3, <2>4 DEF ReportInv
<1> QED
  BY <1>5, <1>6, <1>7 DEF IInv

LEMMA PollKeepsIInv ==
  ASSUME IInv, TypeOK', ReportAndDelete \/ PassOver \/ EndOfVector
  PROVE  IInv'
<1>1. step = "poll" /\ UNCHANGED <<user, pool, pc, m_bDone, m_strPwd, found>>
  BY DEF ReportAndDelete, PassOver, EndOfVector, handles, objects
<1>2. step \notin Stopped /\ step \notin BuildSteps /\ step # "crashed"
  BY <1>1 DEF Stopped, DestroySteps, BuildSteps
<1>3. CASE ReportAndDelete
  <2> DEFINE t == tasks[iter]
  <2>1. iter \in 1..Len(tasks) /\ t \in Users
    BY <1>3, LenProperties, ElementOfSeq DEF ReportAndDelete, IInv, TypeOK
  <2>2. \A u \in Users : u # t /\ (\E k \in 1..Len(tasks) : tasks[k] = u)
          => \E k \in 1..Len(tasks') : tasks'[k] = u
    <3>1. \A k \in 1..Len(tasks) : k # iter =>
            \E j \in 1..Len(tasks') : tasks'[j] = tasks[k]
      BY <1>3, <2>1, Erased DEF ReportAndDelete, IInv, TypeOK
    <3> QED
      BY <3>1
  <2>3. m_bDone[t] /\ step' = step
    BY <1>3 DEF ReportAndDelete
  <2>4. ~UsesTask(t)
    BY <2>1, <2>3 DEF IInv, CallbackInv, UsesTask
  <2>5. \A u \in Users : u # t => alive'[u] = alive[u]
    BY <1>3 DEF ReportAndDelete, IInv, TypeOK
  <2>6. CallbackInv'
    BY <1>1, <1>2, <2>2, <2>3, <2>4, <2>5 DEF IInv, CallbackInv, UsesTask
  <2>7. BuildInv'
    BY <1>1, <1>2, <2>3 DEF IInv, BuildInv
  <2>8. found # "none" <=> m_strPwd[t]
    BY <2>1, <2>3 DEF IInv, ReportInv
  <2>9. /\ found = "none" => reported' = reported
        /\ found # "none" => reported' = reported \cup {t}
    BY <1>3, <2>8 DEF ReportAndDelete
  <2>10. ReportInv'
    BY <1>1, <1>2, <2>2, <2>3, <2>9 DEF IInv, ReportInv
  <2> QED
    BY <2>6, <2>7, <2>10 DEF IInv
<1>4. CASE PassOver
  <2>1. UNCHANGED <<step, tasks, reported, alive>>
    BY <1>4 DEF PassOver, objects
  <2> QED
    BY <1>1, <2>1 DEF IInv, CallbackInv, BuildInv, ReportInv, UsesTask
<1>5. CASE EndOfVector
  <2>1. /\ UNCHANGED <<tasks, reported, alive>>
        /\ step' = step \/ (step' = "destroy" /\ Len(tasks) = 0)
    BY <1>5, EmptySeq DEF EndOfVector, objects
  <2>2. CASE step' = step
    BY <1>1, <2>1, <2>2 DEF IInv, CallbackInv, BuildInv, ReportInv, UsesTask
  <2>3. CASE step' = "destroy" /\ Len(tasks) = 0
    <3>1. ~\E k \in 1..Len(tasks) : TRUE
      BY <2>3
    <3>2. \A u \in Users : ~UsesTask(u)
      BY <1>2, <3>1 DEF IInv, CallbackInv
    <3>3. CallbackInv'
      BY <1>1, <2>1, <3>2 DEF IInv, CallbackInv, UsesTask
    <3>4. BuildInv'
      BY <2>3 DEF BuildInv, BuildSteps
    <3>5. ReportInv'
      BY <1>1, <1>2, <2>1, <3>1 DEF IInv, ReportInv
    <3> QED
      BY <3>3, <3>4, <3>5 DEF IInv
  <2> QED
    BY <2>1, <2>2, <2>3
<1> QED
  BY <1>3, <1>4, <1>5

LEMMA DestroyKeepsIInv ==
  ASSUME IInv, TypeOK', DestroyDerived \/ CancelCallbacks \/ CloseThreadPools
  PROVE  IInv'
<1>1. /\ step \in {"destroy", "cancel", "join"}
      /\ step' \in {"destroy", "cancel", "join", "ended", "crashed"}
      /\ UNCHANGED <<tasks, reported, alive, m_bDone, m_strPwd, found>>
  BY DEF DestroyDerived, CancelCallbacks, CloseThreadPools, objects
<1>2. step \in Stopped /\ step' \in Stopped \cup {"crashed"} /\ step # "crashed"
        /\ step \notin BuildSteps /\ step' \notin BuildSteps /\ step' # "work"
  BY <1>1 DEF Stopped, DestroySteps, BuildSteps
<1>3. \A u \in Users : ~UsesTask(u)
  BY <1>2 DEF IInv, CallbackInv
<1>4. pc' = pc
  <2>1. CASE CancelCallbacks
    <3>1. pc[user] # "queued"
      BY <1>3 DEF IInv, TypeOK, UsesTask
    <3> QED
      BY <2>1, <3>1 DEF CancelCallbacks, IInv, TypeOK
  <2>2. CASE DestroyDerived \/ CloseThreadPools
    BY <2>2 DEF DestroyDerived, CloseThreadPools
  <2> QED
    BY <2>1, <2>2
<1>5. CallbackInv'
  BY <1>1, <1>3, <1>4 DEF IInv, CallbackInv, UsesTask
<1>6. BuildInv'
  BY <1>2 DEF BuildInv
<1>7. ReportInv'
  BY <1>1, <1>2, <1>4 DEF IInv, ReportInv
<1> QED
  BY <1>5, <1>6, <1>7 DEF IInv

LEMMA CallbackKeepsIInv ==
  ASSUME IInv, TypeOK', step # "crashed", NEW u \in Users, Callback(u)
  PROVE  IInv'
<1>1. UNCHANGED <<user, tasks, reported, pool, alive, found>>
  BY DEF Callback, BeginCallback, WorkThreadProcess, TryInnerDict, TryUserDict, MarkDone,
         EndCallback, mains, handles, objects
<1>b. \A v \in Users : v # u => pc'[v] = pc[v]
  BY DEF Callback, BeginCallback, WorkThreadProcess, TryInnerDict, TryUserDict, MarkDone,
         EndCallback, At, IInv, TypeOK
<1>c. \A v \in Users : v # u => m_bDone'[v] = m_bDone[v] /\ m_strPwd'[v] = m_strPwd[v]
  BY DEF Callback, BeginCallback, WorkThreadProcess, TryInnerDict, TryUserDict, MarkDone,
         EndCallback, objects, IInv, TypeOK
<1>2. /\ pc[u] # "none" /\ pc'[u] # "none"
      /\ UsesTask(u)' => UsesTask(u)
      /\ m_bDone[u] => pc[u] \in {"leaving", "done"}
  BY DEF Callback, BeginCallback, WorkThreadProcess, TryInnerDict, TryUserDict, MarkDone,
         EndCallback, At, IInv, TypeOK, CallbackInv, UsesTask
<1>3. step' = step
  <2>1. CASE WorkThreadProcess(u)
    <3>1. pool[u] = "derived"
      BY <2>1 DEF WorkThreadProcess, At, IInv, CallbackInv, UsesTask
    <3> QED
      BY <2>1, <3>1 DEF WorkThreadProcess
  <2>2. CASE ~WorkThreadProcess(u)
    BY <2>2 DEF Callback, BeginCallback, TryInnerDict, TryUserDict, MarkDone, EndCallback, mains
  <2> QED
    BY <2>1, <2>2
<1>4. m_bDone'[u] => pc'[u] \in {"leaving", "done"}
  <2>1. CASE MarkDone(u)
    BY <2>1 DEF MarkDone, At, IInv, TypeOK
  <2>2. CASE ~MarkDone(u)
    <3>1. m_bDone' = m_bDone
      BY <2>2 DEF Callback, BeginCallback, WorkThreadProcess, TryInnerDict, TryUserDict,
                  EndCallback, objects
    <3>2. pc[u] \in {"leaving", "done"} => pc'[u] \in {"leaving", "done"}
      BY <2>2 DEF Callback, BeginCallback, WorkThreadProcess, TryInnerDict, TryUserDict,
                  EndCallback, At, IInv, TypeOK
    <3> QED
      BY <1>2, <3>1, <3>2
  <2> QED
    BY <2>1, <2>2
<1>5. CallbackInv'
  <2> SUFFICES ASSUME NEW v \in Users
               PROVE  /\ m_bDone'[v] => pc'[v] \in {"leaving", "done"}
                      /\ UsesTask(v)' => alive'[v]
                      /\ UsesTask(v)' => pool'[v] = "derived"
                      /\ UsesTask(v)' /\ step' # "crashed" =>
                           /\ step' \notin Stopped
                           /\ \E k \in 1..Len(tasks') : tasks'[k] = v
    BY DEF CallbackInv
  <2>1. UsesTask(v)' => UsesTask(v)
    BY <1>b, <1>2 DEF UsesTask
  <2>2. m_bDone'[v] => pc'[v] \in {"leaving", "done"}
    BY <1>b, <1>c, <1>4 DEF IInv, CallbackInv
  <2> QED
    BY <1>1, <1>3, <2>1, <2>2 DEF IInv, CallbackInv
<1>6. BuildInv'
  <2>1. \A v \in Users : pc[v] = "none" => pc'[v] = "none"
    BY <1>b, <1>2
  <2>2. user \in Nat /\ NumUsers \in Nat /\ user >= 1
    BY UsersAssumption DEF IInv, TypeOK, Users
  <2>3. \A v \in user..NumUsers : v \in Users
    BY <2>2 DEF Users
  <2> QED
    BY <1>1, <1>3, <2>1, <2>3 DEF IInv, BuildInv
<1>7. /\ pc'[u] = "user" => found # "inner"
      /\ pc'[u] = "mark" \/ m_bDone'[u] => (m_strPwd'[u] <=> found # "none")
  <2>1. CASE TryInnerDict(u)
    <3>1. ~m_bDone[u] /\ m_bDone' = m_bDone
      BY <1>2, <2>1 DEF TryInnerDict, At
    <3>2. m_strPwd'[u] <=> found = "inner"
      BY <2>1 DEF TryInnerDict, IInv, TypeOK
    <3>3. pc'[u] = IF found = "inner" THEN "mark" ELSE "user"
      BY <2>1 DEF TryInnerDict, At, IInv, TypeOK
    <3> QED
      BY <3>1, <3>2, <3>3
  <2>2. CASE TryUserDict(u)
    <3>1. found # "inner" /\ found \in {"inner", "user", "none"} /\ pc'[u] = "mark"
      BY <2>2 DEF TryUserDict, At, IInv, ReportInv, TypeOK
    <3>2. m_strPwd'[u] <=> found = "user"
      BY <2>2 DEF TryUserDict, IInv, TypeOK
    <3> QED
      BY <3>1, <3>2
  <2>3. CASE MarkDone(u)
    <3>1. pc[u] = "mark" /\ pc'[u] = "leaving" /\ m_strPwd' = m_strPwd
      BY <2>3 DEF MarkDone, At, IInv, TypeOK
    <3> QED
      BY <3>1 DEF IInv, ReportInv
  <2>4. CASE BeginCallback(u) \/ WorkThreadProcess(u) \/ EndCallback(u)
    <3>1. pc'[u] \notin {"user", "mark"} /\ m_strPwd' = m_strPwd /\ m_bDone' = m_bDone
      BY <2>4 DEF BeginCallback, WorkThreadProcess, EndCallback, At, objects, IInv, TypeOK
    <3> QED
      BY <3>1 DEF IInv, ReportInv
  <2> QED
    BY <2>1, <2>2, <2>3, <2>4 DEF Callback
<1>8. ReportInv'
  <2>1. ASSUME NEW v \in Users
        PROVE  /\ pc'[v] = "user" => found' # "inner"
               /\ pc'[v] = "mark" \/ m_bDone'[v] => (m_strPwd'[v] <=> found' # "none")
    <3>1. CASE v = u
      BY <1>1, <1>7, <3>1
    <3>2. CASE v # u
      BY <1>1, <1>b, <1>c, <3>2 DEF IInv, ReportInv
    <3> QED
      BY <3>1, <3>2
  <2>2. /\ found' = "none" => reported' = {}
        /\ found' # "none" =>
             \A v \in Users :
               \/ step' \in BuildSteps /\ v >= user'
               \/ step' = "crashed"
               \/ v \in reported'
               \/ step' \notin Stopped /\ \E k \in 1..Len(tasks') : tasks'[k] = v
    BY <1>1, <1>3 DEF IInv, ReportInv
  <2> QED
    BY <2>1, <2>2 DEF ReportInv
<1> QED
  BY <1>5, <1>6, <1>8 DEF IInv

LEMMA InitIInv == ASSUME Init PROVE IInv
<1>0. NumUsers \in Nat /\ 1 \in Users
  BY UsersAssumption DEF Users
<1>1. TypeOK
  <2>1. tasks \in Seq(Users) /\ Len(tasks) = 0
    BY EmptySeq DEF Init
  <2>2. /\ [u \in Users |-> FALSE] \in [Users -> BOOLEAN]
        /\ iter \in Nat \ {0}
    BY DEF Init
  <2> QED
    BY <1>0, <2>1, <2>2 DEF Init, TypeOK, BuildSteps
<1>2. /\ step = "pool" /\ user = 1 /\ reported = {}
      /\ \A u \in Users : pc[u] = "none" /\ ~m_bDone[u]
  BY DEF Init
<1>3. CallbackInv
  BY <1>2 DEF CallbackInv, UsesTask
<1>4. BuildInv
  BY <1>0, <1>2 DEF BuildInv, Users
<1>5. ReportInv
  <2>1. step \in BuildSteps /\ \A u \in Users : u >= user
    BY <1>0, <1>2 DEF BuildSteps, Users
  <2> QED
    BY <1>2, <2>1 DEF ReportInv
<1> QED
  BY <1>1, <1>3, <1>4, <1>5 DEF IInv

LEMMA StepIInv == ASSUME IInv, [Next]_vars PROVE IInv'
<1>1. TypeOK'
  BY TypeStep DEF IInv
<1>2. CASE UNCHANGED vars
  BY <1>2 DEF vars, mains, handles, objects, IInv, TypeOK, CallbackInv, BuildInv, ReportInv,
              UsesTask
<1>3. CASE Next
  BY <1>1, <1>3, ConstructorKeepsIInv, CreateWorkKeepsIInv, PollKeepsIInv, DestroyKeepsIInv,
     CallbackKeepsIInv DEF Next, Main
<1> QED
  BY <1>2, <1>3

LEMMA Inductive == Spec => []IInv
BY InitIInv, StepIInv, PTL DEF Spec

-----------------------------------------------------------------------------
(* Every variable stays in its range, whatever the number of users. *)
THEOREM TypeCorrect == Spec => []TypeOK
<1>1. IInv => TypeOK
  BY DEF IInv
<1> QED
  BY <1>1, Inductive, PTL

(* A task is deleted only when its callback has used it for the last time. *)
THEOREM TasksAreSafe == Spec => []TasksOutliveCallbacks
<1>1. IInv => TasksOutliveCallbacks
  BY DEF IInv, CallbackInv, TasksOutliveCallbacks
<1> QED
  BY <1>1, Inductive, PTL

(* A pool is destroyed only when its callback has made its virtual call. *)
THEOREM NoPureCall == Spec => []NoPureVirtualCall
<1>1. IInv => NoPureVirtualCall
  BY DEF IInv, CallbackInv, NoPureVirtualCall, UsesTask, Dispatches
<1> QED
  BY <1>1, Inductive, PTL

(* Every weak password is reported, and no other. *)
THEOREM AllReported == Spec => []WeakAreReported
<1>1. ASSUME IInv, step \in Stopped
      PROVE  reported = IF found = "none" THEN {} ELSE Users
  <2>1. step \notin BuildSteps /\ step # "crashed"
    BY <1>1 DEF Stopped, DestroySteps, BuildSteps
  <2>2. reported \subseteq Users
    BY <1>1 DEF IInv, TypeOK
  <2>3. found # "none" => \A u \in Users : u \in reported
    BY <1>1, <2>1 DEF IInv, ReportInv
  <2>4. found = "none" => reported = {}
    BY <1>1 DEF IInv, ReportInv
  <2> QED
    BY <2>2, <2>3, <2>4
<1>2. IInv => WeakAreReported
  BY <1>1 DEF WeakAreReported, Stopped
<1> QED
  BY <1>2, Inductive, PTL

-----------------------------------------------------------------------------
(* A submitted task is done or has its callback before it.                 *)

PollInv ==
  /\ PolledTaskIsComing
  /\ step \in BuildSteps => \A u \in user..NumUsers : ~m_pWork[u]

LEMMA CreateWorkKeepsPollInv == ASSUME IInv, PollInv, CreateWorkThread PROVE PollInv'
<1>0. NumUsers \in Nat /\ NumUsers >= 1 /\ user \in Nat /\ user \in Users /\ user <= NumUsers
  BY UsersAssumption DEF IInv, TypeOK, Users
<1>1. /\ step \in BuildSteps /\ UNCHANGED m_bDone /\ ~m_pWork[user]
      /\ step' \in BuildSteps => user' = user + 1
      /\ \A u \in Users : u # user => /\ alive'[u] = alive[u] /\ m_pWork'[u] = m_pWork[u]
                                     /\ pc'[u] = pc[u]
      /\ m_pWork'[user] => pc'[user] = "queued"
  BY <1>0 DEF CreateWorkThread, BuildSteps, PollInv, IInv, TypeOK, Users
<1>2. ASSUME NEW u \in Users, alive'[u], m_pWork'[u] PROVE m_bDone'[u] \/ UsesTask(u)'
  <2>1. CASE u = user
    BY <1>1, <1>2, <2>1 DEF UsesTask
  <2>2. CASE u # user
    BY <1>1, <1>2, <2>2 DEF PollInv, PolledTaskIsComing, UsesTask
  <2> QED
    BY <2>1, <2>2
<1>3. ASSUME step' \in BuildSteps, NEW u \in user'..NumUsers PROVE ~m_pWork'[u]
  <2>1. u \in user..NumUsers /\ u # user /\ u \in Users
    BY <1>0, <1>1, <1>3 DEF Users
  <2> QED
    BY <1>1, <2>1 DEF PollInv
<1> QED
  BY <1>2, <1>3 DEF PollInv, PolledTaskIsComing

LEMMA CallbackKeepsPollInv ==
  ASSUME IInv, PollInv, NEW u \in Users, Callback(u)
  PROVE  PollInv'
<1>1. UNCHANGED <<user, alive, m_pWork>> /\ step' \in {step, "crashed"}
  BY DEF Callback, BeginCallback, WorkThreadProcess, TryInnerDict, TryUserDict, MarkDone,
         EndCallback, mains, handles, objects
<1>2. ASSUME NEW v \in Users, v # u PROVE pc'[v] = pc[v] /\ m_bDone'[v] = m_bDone[v]
  BY <1>2 DEF Callback, BeginCallback, WorkThreadProcess, TryInnerDict, TryUserDict, MarkDone,
              EndCallback, At, objects, IInv, TypeOK
<1>3. m_bDone[u] \/ UsesTask(u) => m_bDone'[u] \/ UsesTask(u)'
  <2>1. CASE MarkDone(u)
    BY <2>1 DEF MarkDone, IInv, TypeOK
  <2>2. CASE ~MarkDone(u)
    BY <2>2 DEF Callback, BeginCallback, WorkThreadProcess, TryInnerDict, TryUserDict,
                EndCallback, At, objects, IInv, TypeOK, UsesTask
  <2> QED
    BY <2>1, <2>2
<1>4. PolledTaskIsComing'
  BY <1>1, <1>2, <1>3 DEF PollInv, PolledTaskIsComing, UsesTask
<1> QED
  BY <1>1, <1>4 DEF PollInv, BuildSteps

LEMMA StepPollInv == ASSUME IInv, PollInv, [Next]_vars PROVE PollInv'
<1>1. CASE CreateThreadpool \/ SetLimits \/ CreateCleanupGroup
  <2>1. step \in BuildSteps /\ UNCHANGED <<user, alive, m_pWork, m_bDone, pc>>
    BY <1>1 DEF CreateThreadpool, SetLimits, CreateCleanupGroup, objects, BuildSteps
  <2> QED
    BY <2>1 DEF PollInv, PolledTaskIsComing, UsesTask
<1>2. CASE CreateWorkThread
  BY <1>2, CreateWorkKeepsPollInv
<1>3. CASE ReportAndDelete \/ PassOver \/ EndOfVector
  <2>1. UNCHANGED <<m_pWork, m_bDone, pc>> /\ step' \notin BuildSteps
    BY <1>3 DEF ReportAndDelete, PassOver, EndOfVector, handles, objects, BuildSteps
  <2>2. \A u \in Users : alive'[u] => alive[u]
    BY <1>3 DEF ReportAndDelete, PassOver, EndOfVector, objects, IInv, TypeOK
  <2> QED
    BY <2>1, <2>2 DEF PollInv, PolledTaskIsComing, UsesTask
<1>4. CASE DestroyDerived \/ CancelCallbacks \/ CloseThreadPools
  <2>1. UNCHANGED <<alive, m_bDone>> /\ step \in Stopped \ {"ended"} /\ step' \notin BuildSteps
    BY <1>4 DEF DestroyDerived, CancelCallbacks, CloseThreadPools, objects, BuildSteps, Stopped,
                DestroySteps
  <2>2. \A u \in Users : m_pWork'[u] => m_pWork[u]
    BY <1>4 DEF DestroyDerived, CancelCallbacks, CloseThreadPools, handles, IInv, TypeOK
  <2>3. \A u \in Users : ~UsesTask(u)
    BY <2>1 DEF IInv, CallbackInv, Stopped, DestroySteps
  <2> QED
    BY <2>1, <2>2, <2>3 DEF PollInv, PolledTaskIsComing
<1>5. ASSUME NEW u \in Users, Callback(u) PROVE PollInv'
  BY <1>5, CallbackKeepsPollInv
<1>6. CASE UNCHANGED vars
  BY <1>6 DEF vars, mains, handles, objects, PollInv, PolledTaskIsComing, UsesTask
<1> QED
  BY <1>1, <1>2, <1>3, <1>4, <1>5, <1>6 DEF Next, Main

(* Every task that main polls for was marked done or is about to be, for   *)
(* every number of users.                                                  *)
THEOREM PolledTasksCome == Spec => []PolledTaskIsComing
<1>1. Init => PollInv
  BY DEF Init, PollInv, PolledTaskIsComing, Users
<1>2. PollInv => PolledTaskIsComing
  BY DEF PollInv
<1> QED
  BY <1>1, <1>2, StepPollInv, Inductive, PTL DEF Spec
=============================================================================

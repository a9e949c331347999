------------------------- MODULE ProcessChainProofs -------------------------
(***************************************************************************)
(* Proofs about ProcessChain.                                              *)
(***************************************************************************)
EXTENDS ProcessChain, FiniteSetTheorems, TLAPS

-----------------------------------------------------------------------------
(* Loops.  Induction over the natural numbers in terms of sets, from the   *)
(* least number that a set leaves out.                                     *)

LEMMA Induction ==
  ASSUME NEW S, S \subseteq Nat, 0 \in S, \A n \in S : n + 1 \in S
  PROVE  S = Nat
<1> SUFFICES ASSUME Nat \ S # {} PROVE FALSE
  OBVIOUS
<1> DEFINE R == OpToRel(<, Nat)
<1>1. PICK n \in Nat \ S : \A m \in Nat \ S : <<m, n>> \notin R
  <2>1. IsWellFoundedOn(R, Nat) /\ Nat \ S \subseteq Nat
    BY NatLessThanWellFounded
  <2> HIDE DEF R
  <2> QED
    BY <2>1, WFMin
<1>2. n - 1 \in Nat \ S
  <2>1. n \in Nat /\ n # 0
    OBVIOUS
  <2>2. n - 1 \in Nat /\ (n - 1) + 1 = n
    BY <2>1
  <2> QED
    BY <2>2
<1>3. <<n - 1, n>> \in R
  BY <1>2 DEF OpToRel
<1> QED
  BY <1>1, <1>2, <1>3

(* The states of n rounds of a loop. *)
IsRun(r, F, s, n) == r = [m \in 0..n |-> IF m = 0 THEN s ELSE F[r[m - 1]]]

LEMMA RunsExist ==
  ASSUME NEW S, NEW F \in [S -> S], NEW s \in S, NEW n \in Nat
  PROVE  \E r \in [0..n -> S] : IsRun(r, F, s, n)
<1> DEFINE Good == {k \in Nat : \E r \in [0..k -> S] : IsRun(r, F, s, k)}
<1>1. 0 \in Good
  <2> DEFINE r == [m \in 0..0 |-> s]
  <2>1. r \in [0..0 -> S] /\ IsRun(r, F, s, 0)
    BY DEF IsRun
  <2> QED
    BY <2>1
<1>2. ASSUME NEW k \in Good PROVE k + 1 \in Good
  <2>1. k \in Nat /\ \E r \in [0..k -> S] : IsRun(r, F, s, k)
    OBVIOUS
  <2>2. PICK r \in [0..k -> S] : IsRun(r, F, s, k)
    BY <2>1
  <2> DEFINE q == [m \in 0..(k + 1) |-> IF m = k + 1 THEN F[r[k]] ELSE r[m]]
  <2>3. q \in [0..(k + 1) -> S]
    <3> SUFFICES ASSUME NEW m \in 0..(k + 1) PROVE (IF m = k + 1 THEN F[r[k]] ELSE r[m]) \in S
      OBVIOUS
    <3>1. k \in 0..k /\ (m # k + 1 => m \in 0..k)
      BY <2>1
    <3> QED
      BY <3>1
  <2>4. ASSUME NEW m \in 0..(k + 1)
        PROVE  q[m] = IF m = 0 THEN s ELSE F[q[m - 1]]
    <3>1. CASE m = k + 1
      <4>1. m # 0 /\ m - 1 = k /\ k \in 0..(k + 1) /\ k # k + 1
        BY <2>1, <3>1
      <4> QED
        BY <3>1, <4>1
    <3>2. CASE m # k + 1
      <4>1. m \in 0..k /\ (m # 0 => m - 1 \in 0..(k + 1) /\ m - 1 # k + 1)
        BY <2>1, <3>2
      <4>2. r[m] = IF m = 0 THEN s ELSE F[r[m - 1]]
        BY <2>2, <4>1 DEF IsRun
      <4> QED
        BY <3>2, <4>1, <4>2
    <3> QED
      BY <3>1, <3>2
  <2>5. IsRun(q, F, s, k + 1)
    BY <2>4 DEF IsRun
  <2> HIDE DEF q
  <2> QED
    BY <2>1, <2>3, <2>5
<1> HIDE DEF Good
<1>3. Good \subseteq Nat
  BY DEF Good
<1>4. Good = Nat
  BY <1>1, <1>2, <1>3, Induction
<1> QED
  BY <1>4 DEF Good

LEMMA RunsAgree ==
  ASSUME NEW F, NEW s, NEW n \in Nat, NEW k \in Nat, n <= k,
         NEW r, IsRun(r, F, s, n), NEW q, IsRun(q, F, s, k)
  PROVE  \A m \in 0..n : r[m] = q[m]
<1> DEFINE Good == {m \in Nat : m <= n => r[m] = q[m]}
<1>1. 0 \in Good
  BY DEF IsRun
<1>2. ASSUME NEW m \in Good PROVE m + 1 \in Good
  <2> SUFFICES ASSUME m + 1 <= n PROVE r[m + 1] = q[m + 1]
    OBVIOUS
  <2>1. m \in Nat /\ r[m] = q[m]
    OBVIOUS
  <2>2. m + 1 \in 0..n /\ m + 1 \in 0..k /\ m + 1 # 0 /\ (m + 1) - 1 = m
    BY <2>1
  <2>3. r[m + 1] = F[r[m]]
    BY <2>2 DEF IsRun
  <2>4. q[m + 1] = F[q[m]]
    BY <2>2 DEF IsRun
  <2> QED
    BY <2>1, <2>3, <2>4
<1> HIDE DEF Good
<1>3. Good \subseteq Nat
  BY DEF Good
<1>4. Good = Nat
  BY <1>1, <1>2, <1>3, Induction
<1> QED
  BY <1>4 DEF Good

(* A loop starts with its state and applies its function once a round. *)
LEMMA IterateRuns ==
  ASSUME NEW S, NEW F \in [S -> S], NEW s \in S
  PROVE  /\ Iterate(F, s, 0) = s
         /\ \A n \in Nat : /\ Iterate(F, s, n) \in S
                           /\ Iterate(F, s, n + 1) = F[Iterate(F, s, n)]
<1>1. ASSUME NEW n \in Nat, NEW r \in [0..n -> S], IsRun(r, F, s, n)
      PROVE  Iterate(F, s, n) = r[n]
  <2> DEFINE g == CHOOSE g : g = [m \in 0..n |-> IF m = 0 THEN s ELSE F[g[m - 1]]]
  <2>1. r = [m \in 0..n |-> IF m = 0 THEN s ELSE F[r[m - 1]]]
    BY <1>1 DEF IsRun
  <2>2. g = [m \in 0..n |-> IF m = 0 THEN s ELSE F[g[m - 1]]]
    BY ONLY <2>1
  <2>3. Iterate(F, s, n) = g[n]
    BY DEF Iterate
  <2> HIDE DEF g
  <2>4. IsRun(g, F, s, n)
    BY <2>2 DEF IsRun
  <2>5. n <= n /\ n \in 0..n
    OBVIOUS
  <2> QED
    BY <1>1, <2>3, <2>4, <2>5, RunsAgree
<1>2. Iterate(F, s, 0) = s
  <2>1. 0 \in Nat /\ 0 \in 0..0
    OBVIOUS
  <2>2. PICK r \in [0..0 -> S] : IsRun(r, F, s, 0)
    BY <2>1, RunsExist
  <2>3. r[0] = s
    BY <2>1, <2>2 DEF IsRun
  <2> QED
    BY <1>1, <2>1, <2>2, <2>3
<1>3. ASSUME NEW n \in Nat
      PROVE  Iterate(F, s, n) \in S /\ Iterate(F, s, n + 1) = F[Iterate(F, s, n)]
  <2>1. n + 1 \in Nat /\ n <= n + 1 /\ n \in 0..n /\ n + 1 \in 0..(n + 1) /\ n + 1 # 0
        /\ (n + 1) - 1 = n
    OBVIOUS
  <2>2. PICK r \in [0..n -> S] : IsRun(r, F, s, n)
    BY RunsExist
  <2>3. PICK q \in [0..(n + 1) -> S] : IsRun(q, F, s, n + 1)
    BY <2>1, RunsExist
  <2>4. r[n] = q[n]
    BY <2>1, <2>2, <2>3, RunsAgree
  <2>5. q[n + 1] = F[q[n]]
    BY <2>1, <2>3 DEF IsRun
  <2>6. Iterate(F, s, n) = r[n] /\ Iterate(F, s, n + 1) = q[n + 1] /\ r[n] \in S
    BY <1>1, <2>1, <2>2, <2>3
  <2> QED
    BY <2>4, <2>5, <2>6
<1> QED
  BY <1>2, <1>3

-----------------------------------------------------------------------------
(* What the system answers, and what the search and the level come to in   *)
(* any tree.                                                               *)

LEMMA StartTime ==
  ASSUME TypeOK, NEW pid
  PROVE  /\ Opened(pid) \subseteq alive
         /\ \A a \in Opened(pid) : procs[a].pid = pid
         /\ GetProcStartTime(pid) = 0 <=> Opened(pid) = {}
         /\ GetProcStartTime(pid) # 0 => GetProcStartTime(pid) \in Opened(pid)
         /\ GetProcStartTime(pid) \in 0..Len(procs)
         /\ GetProcStartTime(pid) \in Starts \cup {0}
<1>1. Opened(pid) \subseteq alive /\ \A a \in Opened(pid) : procs[a].pid = pid
  BY DEF Opened, Owner
<1>2. alive \subseteq 1..Len(procs) /\ Len(procs) \in Nat /\ Len(procs) <= MaxProcs
  BY DEF TypeOK
<1>3. CASE Opened(pid) = {}
  BY <1>1, <1>2, <1>3 DEF GetProcStartTime
<1>4. CASE Opened(pid) # {}
  <2>1. GetProcStartTime(pid) \in Opened(pid)
    BY <1>4 DEF GetProcStartTime
  <2>2. GetProcStartTime(pid) \in 1..Len(procs)
    BY <1>1, <1>2, <2>1
  <2>3. GetProcStartTime(pid) \in Starts /\ GetProcStartTime(pid) # 0
    BY <1>2, <2>2, BoundsAssumption DEF Starts
  <2> QED
    BY <1>1, <1>2, <1>4, <2>1, <2>2, <2>3
<1> QED
  BY <1>1, <1>3, <1>4

(* A tree as the program builds it. *)
IsTree(T) ==
  /\ T \in [DOMAIN T -> Records]
  /\ DOMAIN T \subseteq Keys
  /\ \A k \in DOMAIN T : k[1] # 0

LEMMA LinkType ==
  ASSUME NEW T, IsTree(T), NEW k \in DOMAIN T
  PROVE  /\ Link(T, k) \in Keys /\ T[k].root \in Keys
         /\ Link(T, k)[1] = T[k].parent /\ Link(T, k)[2] = T[k].parentStart
         /\ T[k].stop \in BOOLEAN /\ T[k].level \in 0..Guard
         /\ k \in Keys /\ k = <<k[1], k[2]>> /\ k[1] # 0
<1>1. T[k] \in Records /\ k \in Keys /\ k[1] # 0
  BY DEF IsTree
<1> QED
  BY <1>1 DEF Records, Keys, Link

LEMMA RoundType ==
  ASSUME NEW T, IsTree(T)
  PROVE  Round(T) \in [Search -> Search]
<1> SUFFICES ASSUME NEW s \in Search
             PROVE  Round(T)[s] \in Search
  BY DEF Round
<1>1. s.at \in Keys /\ s.last \in Keys /\ s.root \in Keys
  BY DEF Search
<1>2. \A r \in Keys : [s EXCEPT !.root = r] \in Search
  BY DEF Search
<1>3. s.at \in DOMAIN T => /\ T[s.at].root \in Keys
                           /\ [s EXCEPT !.at = Link(T, s.at), !.last = s.at] \in Search
  BY <1>1, LinkType DEF Search
<1> QED
  BY <1>1, <1>2, <1>3 DEF Round

(* Where the search begins for the record at k, and its state in round n.  *)
Begin(T, k) == [at |-> Link(T, k), last |-> k, root |-> NoKey]
Found(T, k, n) == Iterate(Round(T), Begin(T, k), n)

LEMMA NoKeyType == NoKey \in Keys /\ NoKey[1] = 0
BY DEF NoKey, Keys

LEMMA FoundSteps ==
  ASSUME NEW T, IsTree(T), NEW k \in DOMAIN T
  PROVE  /\ Found(T, k, 0) = Begin(T, k)
         /\ \A n \in Nat : /\ Found(T, k, n) \in Search
                           /\ Found(T, k, n + 1) = Round(T)[Found(T, k, n)]
<1>1. Begin(T, k) \in Search
  BY LinkType, NoKeyType DEF Begin, Search
<1>2. Round(T) \in [Search -> Search]
  BY RoundType
<1> QED
  BY <1>1, <1>2, IterateRuns DEF Found

(* The search does not leave a set of keys that has with each record those *)
(* its search goes on to and the root it can inherit.                      *)
LEMMA SearchStays ==
  ASSUME NEW T, IsTree(T), NEW k \in DOMAIN T,
         NEW S, S \subseteq Keys, k \in S, Link(T, k) \in S,
         \A x \in S \cap DOMAIN T : T[x].parentStart # 0 => Link(T, x) \in S,
         \A x \in S \cap DOMAIN T : T[x].root # NoKey => T[x].root \in S
  PROVE  RootFor(T, k) \in S /\ RootFor(T, k) # NoKey
<1> DEFINE st(n) == Found(T, k, n)
<1> DEFINE Good == {n \in Nat : /\ st(n).at \in S
                                /\ st(n).last \in S \cap DOMAIN T
                                /\ st(n).root \in S \cup {NoKey}}
<1>1. 0 \in Good
  BY FoundSteps DEF Begin
<1>2. ASSUME NEW n \in Good PROVE n + 1 \in Good
  <2> DEFINE s == st(n)
  <2>1. n \in Nat /\ s \in Search /\ st(n + 1) = Round(T)[s]
    BY FoundSteps
  <2>2. s.at \in S /\ s.last \in S \cap DOMAIN T /\ s.root \in S \cup {NoKey}
    OBVIOUS
  <2> HIDE DEF s
  <2>3. \A r : LET e == [s EXCEPT !.root = r] IN e.at = s.at /\ e.last = s.last /\ e.root = r
    BY <2>1 DEF Search
  <2>4. \A a, l : LET e == [s EXCEPT !.at = a, !.last = l]
                  IN  e.at = a /\ e.last = l /\ e.root = s.root
    BY <2>1 DEF Search
  <2> DEFINE e == Round(T)[s]
  <2>5. e.at \in S /\ e.last \in S \cap DOMAIN T /\ e.root \in S \cup {NoKey}
    BY <2>1, <2>2, <2>3, <2>4 DEF Round
  <2> QED
    BY <2>1, <2>5 DEF s
<1> HIDE DEF Good
<1>3. Good \subseteq Nat
  BY DEF Good
<1>4. Guard \in Good
  BY <1>1, <1>2, <1>3, Induction, BoundsAssumption
<1>5. RootFor(T, k) = IF st(Guard).root # NoKey THEN st(Guard).root ELSE st(Guard).last
  BY DEF RootFor, Found, Begin
<1>6. st(Guard).last[1] # 0
  BY <1>4 DEF Good, IsTree
<1> QED
  BY <1>4, <1>5, <1>6, NoKeyType DEF Good

LEMMA RootForType ==
  ASSUME NEW T, IsTree(T), NEW k \in DOMAIN T
  PROVE  RootFor(T, k) \in Keys /\ RootFor(T, k) # NoKey
BY SearchStays, LinkType DEF IsTree

(* The climb to the level. *)
Climbing == [at : Keys, level : Nat]
Climbed(T, k, n) == Iterate(Climb(T), [at |-> k, level |-> 0], n)

LEMMA ClimbedSteps ==
  ASSUME NEW T, IsTree(T), NEW k \in DOMAIN T
  PROVE  /\ Climbed(T, k, 0) = [at |-> k, level |-> 0]
         /\ \A n \in Nat : /\ Climbed(T, k, n) \in Climbing
                           /\ Climbed(T, k, n + 1) = Climb(T)[Climbed(T, k, n)]
<1>1. [at |-> k, level |-> 0] \in Climbing
  BY LinkType DEF Climbing
<1>2. Climb(T) \in [Climbing -> Climbing]
  <2> SUFFICES ASSUME NEW s \in Climbing PROVE Climb(T)[s] \in Climbing
    BY DEF Climb, Climbing
  <2>1. s.level + 1 \in Nat
    BY DEF Climbing
  <2> QED
    BY <2>1, LinkType DEF Climb, Climbing
<1> QED
  BY <1>1, <1>2, IterateRuns DEF Climbed

LEMMA LevelType ==
  ASSUME NEW T, IsTree(T), NEW k \in DOMAIN T
  PROVE  LinkLevel(T, k) \in 0..Guard
<1> DEFINE Good == {n \in Nat : Climbed(T, k, n).level <= n}
<1>1. 0 \in Good
  BY ClimbedSteps
<1>2. ASSUME NEW n \in Good PROVE n + 1 \in Good
  <2> DEFINE s == Climbed(T, k, n)
  <2>1. n \in Nat /\ s \in Climbing /\ Climbed(T, k, n + 1) = Climb(T)[s] /\ s.level <= n
    BY ClimbedSteps
  <2> HIDE DEF s
  <2>2. s.level \in Nat /\ Climb(T)[s].level \in {s.level, s.level + 1}
    BY <2>1 DEF Climb, Climbing
  <2> QED
    BY <2>1, <2>2
<1> HIDE DEF Good
<1>3. Good \subseteq Nat
  BY DEF Good
<1>4. Guard \in Good /\ Guard \in Nat
  BY <1>1, <1>2, <1>3, Induction, BoundsAssumption
<1>5. Climbed(T, k, Guard).level \in Nat
  BY <1>4, ClimbedSteps DEF Climbing
<1>6. LinkLevel(T, k) = Climbed(T, k, Guard).level
  BY DEF LinkLevel, Climbed
<1> QED
  BY <1>4, <1>5, <1>6 DEF Good

-----------------------------------------------------------------------------
(* The inductive invariant.                                                *)

(* An id belongs to one process at a time. *)
SystemInv == \A a, b \in alive : procs[a].pid = procs[b].pid => a = b

(* The tree is finite, and its keys name processes there have been. *)
TreeInv ==
  /\ IsFiniteSet(DOMAIN g_ProcessTree)
  /\ \A k \in DOMAIN g_ProcessTree : k[1] \in Pids /\ k[2] \in 0..Len(procs)

(* While the tree is built from a snapshot it has each id once. *)
SnapshotInv ==
  /\ step \in {"add", "link", "built"} =>
       \A j, k \in DOMAIN g_ProcessTree : j[1] = k[1] => j = k
  /\ step = "add" =>
       /\ \A a, b \in todo : procs[a].pid = procs[b].pid => a = b
       /\ \A k \in DOMAIN g_ProcessTree :
            /\ g_ProcessTree[k].root = NoKey
            /\ \A a \in todo : procs[a].pid # k[1]

(* A parent's start time that was not there when the record was made will  *)
(* be, if ever, that of a younger process.                                 *)
LateInv ==
  \A k \in DOMAIN g_ProcessTree :
    g_ProcessTree[k].parentStart = 0 => \A a \in Opened(g_ProcessTree[k].parent) : k[2] < a

BaseInv == TypeOK /\ SystemInv /\ TreeInv /\ SnapshotInv /\ LateInv

(* A record whose link will not change any more. *)
Frozen(T, x) == x \in DOMAIN T /\ (T[x].root # NoKey \/ T[x].parentStart # 0)

(* r is reached from k along such links: it is in every set of keys that   *)
(* has k and, with each record, the one its link leads to.                 *)
Reach(T, k, r) ==
  \A S \in SUBSET Keys :
    k \in S /\ (\A x \in S : Frozen(T, x) => Link(T, x) \in S) => r \in S

RootInv ==
  \A k \in DOMAIN g_ProcessTree :
    g_ProcessTree[k].root # NoKey => Reach(g_ProcessTree, k, g_ProcessTree[k].root)

(* A root that was set is already the nearest stop process. *)
NearestInv ==
  step \in {"add", "link", "built"} =>
    \A k \in DOMAIN g_ProcessTree, n \in 0..Guard :
      g_ProcessTree[k].root # NoKey /\ Nearest(k, n) => g_ProcessTree[k].root = Ancestor(k, n)

LEMMA OldTree == TypeOK /\ TreeInv => IsTree(g_ProcessTree)
BY PidsAssumption DEF TypeOK, TreeInv, IsTree

LEMMA ProcessType ==
  ASSUME TypeOK, NEW a \in 1..Len(procs)
  PROVE  /\ procs[a].pid \in Pids /\ procs[a].parent \in Pids \cup {0} /\ procs[a].stop \in BOOLEAN
         /\ procs[a].pid # 0
<1>1. procs[a] \in Process
  BY DEF TypeOK
<1> QED
  BY <1>1, PidsAssumption DEF Process

LEMMA RecordType ==
  ASSUME TypeOK, NEW stop \in BOOLEAN, NEW parent \in Pids \cup {0}
  PROVE  LET r == Record(stop, parent)
         IN  /\ r \in Records /\ r.stop = stop /\ r.parent = parent /\ r.root = NoKey
             /\ r.parentStart = 0 => Opened(parent) = {}
             /\ r.parentStart # 0 => parent # 0 /\ r.parentStart = GetProcStartTime(parent)
<1> DEFINE r == Record(stop, parent)
<1>1. 0 \in 0..Guard
  BY BoundsAssumption
<1>2. GetProcStartTime(parent) \in Starts \cup {0} /\ NoKey \in Keys
  BY StartTime, NoKeyType
<1>3. r \in Records
  BY <1>1, <1>2 DEF Record, Records
<1>4. parent = 0 => Opened(parent) = {}
  <2>1. \A a \in alive : procs[a].pid # 0
    BY ProcessType DEF TypeOK
  <2> QED
    BY <2>1 DEF Opened, Owner
<1> QED
  BY <1>3, <1>4, StartTime DEF Record

LEMMA ExtendedTree ==
  ASSUME NEW T, IsTree(T), NEW k \in Keys, k[1] # 0, NEW r \in Records,
         NEW V, V = Extended(T, k, r)
  PROVE  /\ IsTree(V) /\ DOMAIN V = DOMAIN T \cup {k} /\ V[k] = r
         /\ \A j \in DOMAIN T : j # k => V[j] = T[j]
BY DEF Extended, IsTree

(* The record at k when its parent's start time has been looked for. *)
Dated(T, k) ==
  [T EXCEPT ![k].parentStart = IF T[k].parentStart = 0 /\ T[k].parent # 0
                               THEN GetProcStartTime(T[k].parent) ELSE T[k].parentStart]

LEMMA DatedTree ==
  ASSUME TypeOK, NEW T, IsTree(T), NEW k \in DOMAIN T
  PROVE  LET U == Dated(T, k)
         IN  /\ IsTree(U) /\ DOMAIN U = DOMAIN T
             /\ \A j \in DOMAIN T : j # k => U[j] = T[j]
             /\ U[k].stop = T[k].stop /\ U[k].parent = T[k].parent
             /\ U[k].root = T[k].root /\ U[k].level = T[k].level
             /\ U[k].parentStart = IF T[k].parentStart = 0 /\ T[k].parent # 0
                                   THEN GetProcStartTime(T[k].parent) ELSE T[k].parentStart
<1> DEFINE start == IF T[k].parentStart = 0 /\ T[k].parent # 0
                    THEN GetProcStartTime(T[k].parent) ELSE T[k].parentStart
<1>1. T[k] \in Records
  BY DEF IsTree
<1>2. start \in Starts \cup {0}
  BY <1>1, StartTime DEF Records
<1> HIDE DEF start
<1>3. Dated(T, k) = [T EXCEPT ![k] = [T[k] EXCEPT !.parentStart = start]]
  BY DEF Dated, start
<1>4. [T[k] EXCEPT !.parentStart = start] \in Records
  BY <1>1, <1>2 DEF Records
<1>5. /\ [T[k] EXCEPT !.parentStart = start].stop = T[k].stop
      /\ [T[k] EXCEPT !.parentStart = start].parent = T[k].parent
      /\ [T[k] EXCEPT !.parentStart = start].root = T[k].root
      /\ [T[k] EXCEPT !.parentStart = start].level = T[k].level
      /\ [T[k] EXCEPT !.parentStart = start].parentStart = start
  BY <1>1 DEF Records
<1> QED
  BY <1>3, <1>4, <1>5 DEF IsTree, start

(* The record at k with the root r. *)
Rooted(T, k, r) == [T EXCEPT ![k].root = r]

LEMMA RootedTree ==
  ASSUME NEW T, IsTree(T), NEW k \in DOMAIN T, NEW r \in Keys,
         NEW V, V = Rooted(T, k, r)
  PROVE  /\ IsTree(V) /\ DOMAIN V = DOMAIN T
         /\ \A j \in DOMAIN T : j # k => V[j] = T[j]
         /\ V[k].stop = T[k].stop /\ V[k].parent = T[k].parent
         /\ V[k].parentStart = T[k].parentStart /\ V[k].level = T[k].level
         /\ V[k].root = r
<1>1. T[k] \in Records
  BY DEF IsTree
<1>2. V = [T EXCEPT ![k] = [T[k] EXCEPT !.root = r]]
  BY DEF Rooted
<1>3. [T[k] EXCEPT !.root = r] \in Records
  BY <1>1 DEF Records
<1>4. /\ [T[k] EXCEPT !.root = r].stop = T[k].stop
      /\ [T[k] EXCEPT !.root = r].parent = T[k].parent
      /\ [T[k] EXCEPT !.root = r].parentStart = T[k].parentStart
      /\ [T[k] EXCEPT !.root = r].level = T[k].level
      /\ [T[k] EXCEPT !.root = r].root = r
  BY <1>1 DEF Records
<1> QED
  BY <1>2, <1>3, <1>4 DEF IsTree

(* SetProcessRootInfo: only the record at k changes. *)
LEMMA LinkedTree ==
  ASSUME TypeOK, NEW T, IsTree(T), NEW k \in DOMAIN T
  PROVE  LET U == Dated(T, k)
             V == SetProcessRootInfo(T, k)
         IN  /\ IsTree(V) /\ DOMAIN V = DOMAIN T
             /\ \A j \in DOMAIN T : j # k => V[j] = T[j]
             /\ V[k].stop = T[k].stop /\ V[k].parent = T[k].parent
             /\ V[k].parentStart = U[k].parentStart
             /\ V[k].root = RootFor(U, k) /\ V[k].root # NoKey
<1> DEFINE U == Dated(T, k)
<1>1. IsTree(U) /\ k \in DOMAIN U
  BY DatedTree
<1>2. RootFor(U, k) \in Keys /\ RootFor(U, k) # NoKey
  BY <1>1, RootForType
<1>3. SetProcessRootInfo(T, k) = Rooted(U, k, RootFor(U, k))
  BY DEF SetProcessRootInfo, Dated, Rooted
<1>4. /\ DOMAIN U = DOMAIN T
      /\ \A j \in DOMAIN T : j # k => U[j] = T[j]
      /\ U[k].stop = T[k].stop /\ U[k].parent = T[k].parent
  BY DatedTree
<1> DEFINE V == SetProcessRootInfo(T, k)
<1> HIDE DEF U
<1>5. /\ IsTree(V) /\ DOMAIN V = DOMAIN U
      /\ \A j \in DOMAIN U : j # k => V[j] = U[j]
      /\ V[k].stop = U[k].stop /\ V[k].parent = U[k].parent
      /\ V[k].parentStart = U[k].parentStart /\ V[k].root = RootFor(U, k)
  <2> DEFINE r == RootFor(U, k)
  <2>1. r \in Keys /\ V = Rooted(U, k, r)
    BY <1>2, <1>3
  <2> HIDE DEF r, V
  <2>2. /\ IsTree(V) /\ DOMAIN V = DOMAIN U
        /\ \A j \in DOMAIN U : j # k => V[j] = U[j]
        /\ V[k].stop = U[k].stop /\ V[k].parent = U[k].parent
        /\ V[k].parentStart = U[k].parentStart /\ V[k].root = r
    BY <1>1, <2>1, RootedTree
  <2> QED
    BY <2>2 DEF r
<1> HIDE DEF V
<1>6. /\ IsTree(V) /\ DOMAIN V = DOMAIN T
      /\ \A j \in DOMAIN T : j # k => V[j] = T[j]
      /\ V[k].stop = T[k].stop /\ V[k].parent = T[k].parent
      /\ V[k].parentStart = U[k].parentStart
      /\ V[k].root = RootFor(U, k) /\ V[k].root # NoKey
  BY <1>2, <1>4, <1>5
<1> QED
  BY <1>6 DEF U, V

(* A step that leaves the system alone and makes the tree V of this one. *)
LEMMA NewTree ==
  ASSUME BaseInv, UNCHANGED system, IsTree(g_ProcessTree'),
         step' \in {"menu", "add", "link", "built", "print"},
         todo' \subseteq 1..Len(procs),
         {shown', current'} \subseteq (IF step' = "print" THEN DOMAIN g_ProcessTree' ELSE {NoKey}),
         IsFiniteSet(DOMAIN g_ProcessTree'),
         \A k \in DOMAIN g_ProcessTree' : k[1] \in Pids /\ k[2] \in 0..Len(procs)
  PROVE  TypeOK' /\ SystemInv' /\ TreeInv'
<1>1. procs' = procs /\ alive' = alive
  BY DEF system
<1> QED
  BY <1>1 DEF BaseInv, TypeOK, SystemInv, TreeInv, IsTree

LEMMA AddKeepsBase == BaseInv /\ AddRecord => BaseInv'
<1> SUFFICES ASSUME BaseInv, AddRecord PROVE BaseInv'
  OBVIOUS
<1>1. PICK a \in todo :
        /\ g_ProcessTree' = Extended(g_ProcessTree,
                              <<procs[a].pid, GetProcStartTime(procs[a].pid)>>,
                              Record(procs[a].stop, procs[a].parent))
        /\ todo' = todo \ {a}
        /\ step' = IF todo = {a} THEN "link" ELSE "add"
  BY DEF AddRecord
<1> DEFINE k == <<procs[a].pid, GetProcStartTime(procs[a].pid)>>
           r == Record(procs[a].stop, procs[a].parent)
           T == g_ProcessTree
<1>2. step = "add" /\ UNCHANGED <<system, shown, current>> /\ procs' = procs /\ alive' = alive
  BY DEF AddRecord, system
<1>3. a \in 1..Len(procs) /\ TypeOK /\ IsTree(T)
  BY OldTree DEF BaseInv, TypeOK
<1>4. /\ k \in Keys /\ k[1] = procs[a].pid /\ k[1] \in Pids /\ k[1] # 0
      /\ k[2] \in 0..Len(procs)
  BY <1>3, ProcessType, StartTime DEF Keys
<1>5. /\ r \in Records /\ r.parent = procs[a].parent /\ r.root = NoKey
      /\ r.parentStart = 0 => Opened(r.parent) = {}
  BY <1>3, ProcessType, RecordType
<1> HIDE DEF k, r
<1>6. /\ T' = Extended(T, k, r) /\ IsTree(T') /\ DOMAIN T' = DOMAIN T \cup {k} /\ T'[k] = r
      /\ \A j \in DOMAIN T : j # k => T'[j] = T[j]
  <2>1. T' = Extended(T, k, r)
    BY <1>1 DEF k, r
  <2>2. IsTree(T) /\ k \in Keys /\ k[1] # 0 /\ r \in Records
    BY <1>3, <1>4, <1>5
  <2> QED
    BY <2>1, <2>2, ExtendedTree
<1>7. TypeOK' /\ SystemInv' /\ TreeInv'
  <2>1. IsFiniteSet(DOMAIN T')
    BY <1>6, FS_AddElement DEF BaseInv, TreeInv
  <2>2. \A j \in DOMAIN T' : j[1] \in Pids /\ j[2] \in 0..Len(procs)
    BY <1>4, <1>6 DEF BaseInv, TreeInv
  <2>3. /\ todo' \subseteq 1..Len(procs)
        /\ {shown', current'} \subseteq {NoKey} /\ step' \in {"link", "add"}
    BY <1>1, <1>2 DEF BaseInv, TypeOK
  <2> QED
    BY <1>2, <1>6, <2>1, <2>2, <2>3, NewTree
<1>8. SnapshotInv'
  <2>1. \A j \in DOMAIN T : j[1] # k[1]
    BY <1>2, <1>4 DEF BaseInv, SnapshotInv
  <2>2. \A i, j \in DOMAIN T' : i[1] = j[1] => i = j
    BY <1>2, <1>6, <2>1 DEF BaseInv, SnapshotInv
  <2>3. \A b \in todo' : b \in todo /\ procs[b].pid # k[1]
    BY <1>1, <1>2, <1>4 DEF BaseInv, SnapshotInv
  <2>4. \A j \in DOMAIN T' : T'[j].root = NoKey /\ \A b \in todo' : procs[b].pid # j[1]
    BY <1>2, <1>5, <1>6, <2>3 DEF BaseInv, SnapshotInv
  <2>5. \A b, c \in todo' : procs[b].pid = procs[c].pid => b = c
    BY <1>2, <2>3 DEF BaseInv, SnapshotInv
  <2> QED
    BY <1>2, <2>2, <2>4, <2>5 DEF SnapshotInv
<1>9. LateInv'
  BY <1>2, <1>5, <1>6 DEF BaseInv, LateInv, Opened, Owner
<1> QED
  BY <1>7, <1>8, <1>9 DEF BaseInv

(* A record that gets its root keeps its own late link: if the parent's    *)
(* start time is not found now either, nobody has the id.                  *)
LEMMA LinkKeepsLate ==
  ASSUME BaseInv, UNCHANGED system, NEW T, IsTree(T), NEW k \in DOMAIN T,
         g_ProcessTree' = SetProcessRootInfo(T, k),
         \A j \in DOMAIN T : j # k /\ T[j].parentStart = 0 =>
                               \A a \in Opened(T[j].parent) : j[2] < a,
         T[k].parentStart = 0 => \A a \in Opened(T[k].parent) : k[2] < a
  PROVE  LateInv'
<1> DEFINE V == SetProcessRootInfo(T, k)
<1>1. /\ DOMAIN V = DOMAIN T /\ \A j \in DOMAIN T : j # k => V[j] = T[j]
      /\ V[k].parent = T[k].parent /\ V[k].parentStart = Dated(T, k)[k].parentStart
  BY LinkedTree DEF BaseInv
<1>2. Dated(T, k)[k].parentStart =
        IF T[k].parentStart = 0 /\ T[k].parent # 0
        THEN GetProcStartTime(T[k].parent) ELSE T[k].parentStart
  BY DatedTree DEF BaseInv
<1>3. Opened(0) = {}
  <2>1. \A a \in alive : procs[a].pid # 0
    BY ProcessType DEF BaseInv, TypeOK
  <2> QED
    BY <2>1 DEF Opened, Owner
<1> HIDE DEF V
<1>4. V[k].parentStart = 0 => T[k].parentStart = 0
  BY <1>1, <1>2, <1>3, StartTime DEF BaseInv
<1>5. \A j \in DOMAIN V : V[j].parentStart = 0 => \A a \in Opened(V[j].parent) : j[2] < a
  BY <1>1, <1>4
<1> QED
  BY <1>5 DEF V, LateInv, system, Opened, Owner

LEMMA LinkKeepsBase == BaseInv /\ LinkRecord => BaseInv'
<1> SUFFICES ASSUME BaseInv, LinkRecord PROVE BaseInv'
  OBVIOUS
<1> DEFINE T == g_ProcessTree
<1>1. PICK k \in Unlinked : T' = IF T[k].stop THEN Rooted(T, k, k) ELSE SetProcessRootInfo(T, k)
  BY DEF LinkRecord, Rooted
<1>2. step = "link" /\ UNCHANGED <<system, step, todo, shown, current>>
  BY DEF LinkRecord
<1>3. TypeOK /\ IsTree(T) /\ k \in DOMAIN T /\ k \in Keys
  BY OldTree, LinkType DEF BaseInv, Unlinked
<1>4. IsTree(T') /\ DOMAIN T' = DOMAIN T
  <2>1. CASE T[k].stop
    BY <1>1, <1>3, <2>1, RootedTree
  <2>2. CASE ~T[k].stop
    BY <1>1, <1>3, <2>2, LinkedTree
  <2> QED
    BY <2>1, <2>2
<1>5. TypeOK' /\ SystemInv' /\ TreeInv'
  BY <1>2, <1>4, NewTree DEF BaseInv, TypeOK, TreeInv
<1>6. SnapshotInv'
  BY <1>2, <1>4 DEF BaseInv, SnapshotInv
<1>7. LateInv'
  <2>1. CASE T[k].stop
    <3>1. \A j \in DOMAIN T : T'[j].parent = T[j].parent /\ T'[j].parentStart = T[j].parentStart
      BY <1>1, <1>3, <2>1, RootedTree
    <3> QED
      BY <1>2, <1>4, <3>1 DEF BaseInv, LateInv, system, Opened, Owner
  <2>2. CASE ~T[k].stop
    BY <1>1, <1>2, <1>3, <2>2, LinkKeepsLate DEF BaseInv, LateInv
  <2> QED
    BY <2>1, <2>2
<1> QED
  BY <1>5, <1>6, <1>7 DEF BaseInv

(* The third pass changes only levels. *)
LEMMA LevelsTree ==
  ASSUME BaseInv, SetLevels
  PROVE  /\ IsTree(g_ProcessTree') /\ DOMAIN g_ProcessTree' = DOMAIN g_ProcessTree
         /\ \A k \in DOMAIN g_ProcessTree :
              /\ g_ProcessTree'[k].stop = g_ProcessTree[k].stop
              /\ g_ProcessTree'[k].parent = g_ProcessTree[k].parent
              /\ g_ProcessTree'[k].parentStart = g_ProcessTree[k].parentStart
              /\ g_ProcessTree'[k].root = g_ProcessTree[k].root
              /\ g_ProcessTree'[k].level = IF g_ProcessTree[k].root[1] = k[1] THEN 0
                                           ELSE LinkLevel(g_ProcessTree, k)
<1> DEFINE T == g_ProcessTree
           lev(k) == IF T[k].root[1] = k[1] THEN 0 ELSE LinkLevel(T, k)
<1>1. IsTree(T)
  BY OldTree DEF BaseInv
<1>2. T' = [k \in DOMAIN T |-> [T[k] EXCEPT !.level = lev(k)]]
  BY DEF SetLevels
<1>3. ASSUME NEW k \in DOMAIN T
      PROVE  /\ T'[k] \in Records
             /\ T'[k].stop = T[k].stop /\ T'[k].parent = T[k].parent
             /\ T'[k].parentStart = T[k].parentStart /\ T'[k].root = T[k].root
             /\ T'[k].level = lev(k)
  <2>1. lev(k) \in 0..Guard
    BY <1>1, LevelType, BoundsAssumption
  <2> HIDE DEF lev
  <2>2. T[k] \in Records /\ T'[k] = [T[k] EXCEPT !.level = lev(k)]
    BY <1>1, <1>2 DEF IsTree
  <2> QED
    BY <2>1, <2>2 DEF Records
<1>4. T' \in [DOMAIN T -> Records] /\ DOMAIN T' = DOMAIN T
  BY <1>2, <1>3
<1> QED
  BY <1>1, <1>3, <1>4 DEF IsTree

LEMMA LevelsKeepBase == BaseInv /\ SetLevels => BaseInv'
<1> SUFFICES ASSUME BaseInv, SetLevels PROVE BaseInv'
  OBVIOUS
<1>1. step = "link" /\ step' = "built" /\ UNCHANGED <<system, todo, shown, current>>
  BY DEF SetLevels
<1>2. TypeOK' /\ SystemInv' /\ TreeInv'
  BY <1>1, LevelsTree, NewTree DEF BaseInv, TypeOK, TreeInv
<1>3. SnapshotInv'
  BY <1>1, LevelsTree DEF BaseInv, SnapshotInv
<1>4. LateInv'
  BY <1>1, LevelsTree DEF BaseInv, LateInv, system, Opened, Owner
<1> QED
  BY <1>2, <1>3, <1>4 DEF BaseInv

LEMMA ByPidKeepsBase == BaseInv /\ FindProcessChainByPid => BaseInv'
<1> SUFFICES ASSUME BaseInv, FindProcessChainByPid PROVE BaseInv'
  OBVIOUS
<1> DEFINE T == g_ProcessTree
<1>1. PICK pid \in Pids :
        LET start == GetProcStartTime(pid)
            k     == <<pid, start>>
        IN  /\ start # 0
            /\ StartPrinting(k)
            /\ T' = IF k \in DOMAIN T THEN T
                    ELSE SetProcessRootInfo(
                           Extended(T, k, Record(procs[start].stop, procs[start].parent)), k)
  BY DEF FindProcessChainByPid
<1> DEFINE start == GetProcStartTime(pid)
           k == <<pid, start>>
           r == Record(procs[start].stop, procs[start].parent)
<1>2. /\ start # 0 /\ step' = "print" /\ shown' = k /\ current' = k
      /\ T' = IF k \in DOMAIN T THEN T ELSE SetProcessRootInfo(Extended(T, k, r), k)
      /\ UNCHANGED <<system, todo>> /\ procs' = procs /\ alive' = alive
  BY <1>1 DEF FindProcessChainByPid, StartPrinting, system
<1>3. TypeOK /\ IsTree(T) /\ todo \subseteq 1..Len(procs)
  BY OldTree DEF BaseInv, TypeOK
<1>4. /\ start \in 1..Len(procs) /\ start \in Starts
      /\ pid # 0
  BY <1>2, <1>3, StartTime, PidsAssumption
<1>5. k \in Keys /\ k[1] \in Pids /\ k[1] # 0 /\ k[2] \in 0..Len(procs)
  BY <1>4 DEF Keys
<1>6. r \in Records /\ (r.parentStart = 0 => Opened(r.parent) = {})
  BY <1>3, <1>4, ProcessType, RecordType
<1> HIDE DEF start, k, r
<1> PICK E : E = Extended(T, k, r)
  OBVIOUS
<1>7. /\ IsTree(E) /\ DOMAIN E = DOMAIN T \cup {k} /\ E[k] = r
      /\ \A j \in DOMAIN T : j # k => E[j] = T[j]
  <2>1. IsTree(T) /\ k \in Keys /\ k[1] # 0 /\ r \in Records
    BY <1>3, <1>5, <1>6
  <2>2. IsTree(E)
    BY <2>1, ExtendedTree
  <2> QED
    BY <2>2 DEF Extended
<1>8. IsTree(T') /\ DOMAIN T' = DOMAIN T \cup {k}
  <2>1. CASE k \in DOMAIN T
    BY <1>2, <1>3, <2>1
  <2>2. CASE k \notin DOMAIN T
    BY <1>2, <1>3, <1>7, <2>2, LinkedTree
  <2> QED
    BY <2>1, <2>2
<1>9. TypeOK' /\ SystemInv' /\ TreeInv'
  <2>1. IsFiniteSet(DOMAIN T')
    BY <1>8, FS_AddElement DEF BaseInv, TreeInv
  <2>2. \A j \in DOMAIN T' : j[1] \in Pids /\ j[2] \in 0..Len(procs)
    BY <1>5, <1>8 DEF BaseInv, TreeInv
  <2>3. {shown', current'} \subseteq DOMAIN T'
    BY <1>2, <1>8
  <2> QED
    BY <1>2, <1>3, <1>8, <2>1, <2>2, <2>3, NewTree
<1>10. SnapshotInv'
  BY <1>2 DEF SnapshotInv
<1>11. LateInv'
  <2>1. CASE k \in DOMAIN T
    BY <1>2, <2>1 DEF BaseInv, LateInv, Opened, Owner
  <2>2. CASE k \notin DOMAIN T
    <3>1. \A j \in DOMAIN E : j # k /\ E[j].parentStart = 0 =>
                                \A a \in Opened(E[j].parent) : j[2] < a
      BY <1>7 DEF BaseInv, LateInv
    <3>2. E[k].parentStart = 0 => \A a \in Opened(E[k].parent) : k[2] < a
      BY <1>6, <1>7
    <3>3. k \in DOMAIN E /\ g_ProcessTree' = SetProcessRootInfo(E, k) /\ UNCHANGED system
      BY <1>2, <1>7, <2>2
    <3> QED
      BY <1>7, <3>1, <3>2, <3>3, LinkKeepsLate
  <2> QED
    BY <2>1, <2>2
<1> QED
  BY <1>9, <1>10, <1>11 DEF BaseInv

LEMMA EmptyTree ==
  g_ProcessTree = <<>> =>
    DOMAIN g_ProcessTree = {} /\ IsTree(g_ProcessTree) /\ IsFiniteSet(DOMAIN g_ProcessTree)
<1> SUFFICES ASSUME g_ProcessTree = <<>> PROVE DOMAIN g_ProcessTree = {} /\ IsTree(g_ProcessTree) /\ IsFiniteSet(DOMAIN g_ProcessTree)
  OBVIOUS
<1>1. DOMAIN g_ProcessTree = {}
  OBVIOUS
<1>2. g_ProcessTree \in [{} -> Records]
  OBVIOUS
<1> QED
  BY <1>1, <1>2, FS_EmptySet DEF IsTree

LEMMA SnapshotKeepsBase == BaseInv /\ BuildProcessTreeSnapshot => BaseInv'
<1> SUFFICES ASSUME BaseInv, BuildProcessTreeSnapshot PROVE BaseInv'
  OBVIOUS
<1>1. /\ step \in {"menu", "built"} /\ UNCHANGED <<system, shown, current>>
      /\ procs' = procs /\ alive' = alive
      /\ \/ step' = "add" /\ todo' = alive
         \/ step' = "menu" /\ todo' = todo
  BY DEF BuildProcessTreeSnapshot, AtMenu, system
<1>2. /\ DOMAIN g_ProcessTree' = {} /\ IsTree(g_ProcessTree')
      /\ IsFiniteSet(DOMAIN g_ProcessTree')
  <2>1. g_ProcessTree' = <<>>
    BY DEF BuildProcessTreeSnapshot
  <2>2. DOMAIN g_ProcessTree' = {} /\ g_ProcessTree' \in [{} -> Records]
    BY <2>1
  <2> QED
    BY <2>2, FS_EmptySet DEF IsTree
<1>3. todo' \subseteq 1..Len(procs) /\ {shown', current'} \subseteq {NoKey}
  BY <1>1 DEF BaseInv, TypeOK
<1>4. TypeOK' /\ SystemInv' /\ TreeInv'
  BY <1>1, <1>2, <1>3, NewTree
<1>5. SnapshotInv'
  BY <1>1, <1>2 DEF BaseInv, SnapshotInv, SystemInv
<1>6. LateInv'
  BY <1>2 DEF LateInv
<1> QED
  BY <1>4, <1>5, <1>6 DEF BaseInv

LEMMA PrintKeepsBase ==
  BaseInv /\ (FindProcessChain \/ PrintProcessChain) => BaseInv'
<1> SUFFICES ASSUME BaseInv, FindProcessChain \/ PrintProcessChain PROVE BaseInv'
  OBVIOUS
<1>1. /\ UNCHANGED <<system, g_ProcessTree, todo>> /\ procs' = procs /\ alive' = alive
      /\ \/ /\ step' = "print"
            /\ {shown', current'} \subseteq DOMAIN g_ProcessTree
         \/ step' = "menu" /\ shown' = NoKey /\ current' = NoKey
  BY DEF FindProcessChain, PrintProcessChain, StartPrinting, system, BaseInv, TypeOK
<1>2. IsTree(g_ProcessTree')
  BY <1>1, OldTree DEF BaseInv
<1>3. TypeOK' /\ SystemInv' /\ TreeInv'
  BY <1>1, <1>2, NewTree DEF BaseInv, TypeOK, TreeInv
<1>4. SnapshotInv'
  BY <1>1 DEF SnapshotInv
<1>5. LateInv'
  BY <1>1 DEF BaseInv, LateInv, Opened, Owner
<1> QED
  BY <1>3, <1>4, <1>5 DEF BaseInv

(* A new process is younger than all there have been. *)
LEMMA SystemKeepsBase == BaseInv /\ (StartProcess \/ EndProcess) => BaseInv'
<1> SUFFICES ASSUME BaseInv, StartProcess \/ EndProcess PROVE BaseInv'
  OBVIOUS
<1>1. UNCHANGED <<g_ProcessTree, step, todo, shown, current>>
  BY DEF StartProcess, EndProcess, program
<1>2. CASE StartProcess
  <2> DEFINE new == Len(procs) + 1
  <2>1. PICK k \in alive, pid \in Pids, stop \in BOOLEAN :
          /\ Owner(pid) = {}
          /\ procs' = Append(procs, [pid |-> pid, parent |-> procs[k].pid, stop |-> stop])
    BY <1>2 DEF StartProcess
  <2>2. Len(procs) < MaxProcs /\ alive' = alive \cup {new}
    BY <1>2 DEF StartProcess
  <2>3. procs \in Seq(Process) /\ alive \subseteq 1..Len(procs) /\ Len(procs) \in Nat
    BY DEF BaseInv, TypeOK
  <2>4. [pid |-> pid, parent |-> procs[k].pid, stop |-> stop] \in Process
    BY <2>3, ProcessType DEF Process, BaseInv
  <2>5. /\ procs' \in Seq(Process) /\ Len(procs') = new /\ procs'[new].pid = pid
        /\ \A a \in 1..Len(procs) : procs'[a] = procs[a]
    BY <2>1, <2>3, <2>4
  <2>6. TypeOK'
    <3>1. Len(procs') <= MaxProcs /\ alive' \in SUBSET (1..Len(procs')) /\ todo' \in SUBSET (1..Len(procs'))
      BY <1>1, <2>2, <2>3, <2>5, BoundsAssumption DEF BaseInv, TypeOK
    <3> QED
      BY <1>1, <2>5, <3>1 DEF BaseInv, TypeOK
  <2>7. \A a \in alive : procs'[a] = procs[a] /\ procs[a].pid # pid /\ a # new
    BY <2>1, <2>3, <2>5 DEF Owner
  <2>8. SystemInv'
    BY <2>2, <2>5, <2>7 DEF BaseInv, SystemInv
  <2>9. TreeInv'
    BY <1>1, <2>3, <2>5 DEF BaseInv, TreeInv
  <2>10. \A a \in todo : procs'[a] = procs[a]
    BY <2>5 DEF BaseInv, TypeOK
  <2>11. SnapshotInv'
    BY <1>1, <2>10 DEF BaseInv, SnapshotInv
  <2>12. LateInv'
    <3>1. \A q : \A a \in Opened(q)' : a \in Opened(q) \/ a = new
      BY <2>2, <2>7 DEF Opened, Owner
    <3>2. \A j \in DOMAIN g_ProcessTree : j[2] < new
      BY <2>3 DEF BaseInv, TreeInv
    <3> QED
      BY <1>1, <3>1, <3>2 DEF BaseInv, LateInv
  <2> QED
    BY <2>6, <2>8, <2>9, <2>11, <2>12 DEF BaseInv
<1>3. CASE EndProcess
  <2>1. procs' = procs /\ alive' \subseteq alive
    BY <1>3 DEF EndProcess
  <2>2. TypeOK' /\ SystemInv' /\ TreeInv' /\ SnapshotInv'
    BY <1>1, <2>1 DEF BaseInv, TypeOK, SystemInv, TreeInv, SnapshotInv
  <2>3. LateInv'
    <3>1. \A q : Opened(q)' \subseteq Opened(q)
      BY <2>1 DEF Opened, Owner
    <3> QED
      BY <1>1, <3>1 DEF BaseInv, LateInv
  <2> QED
    BY <2>2, <2>3 DEF BaseInv
<1> QED
  BY <1>2, <1>3

LEMMA BaseInvariant == Spec => []BaseInv
<1>1. Init => BaseInv
  <2> SUFFICES ASSUME Init PROVE BaseInv
    OBVIOUS
  <2>1. PICK p \in Process : p.parent = 0 /\ procs = <<p>>
    BY DEF Init
  <2>2. procs \in Seq(Process) /\ Len(procs) = 1 /\ alive = {1} /\ todo = {} /\ step = "menu"
        /\ shown = NoKey /\ current = NoKey
    BY <2>1 DEF Init
  <2>3. /\ DOMAIN g_ProcessTree = {} /\ IsTree(g_ProcessTree)
        /\ IsFiniteSet(DOMAIN g_ProcessTree)
    BY EmptyTree DEF Init
  <2>4. TypeOK
    <3>1. Len(procs) <= MaxProcs
      BY <2>2, BoundsAssumption
    <3> QED
      BY <2>2, <2>3, <3>1 DEF TypeOK, IsTree
  <2>5. SystemInv /\ TreeInv /\ SnapshotInv /\ LateInv
    BY <2>2, <2>3 DEF SystemInv, TreeInv, SnapshotInv, LateInv
  <2> QED
    BY <2>4, <2>5 DEF BaseInv
<1>2. BaseInv /\ [Next]_vars => BaseInv'
  <2> SUFFICES ASSUME BaseInv, [Next]_vars PROVE BaseInv'
    OBVIOUS
  <2>1. CASE UNCHANGED vars
    BY <2>1 DEF vars, system, program, BaseInv, TypeOK, SystemInv, TreeInv, SnapshotInv,
                LateInv, Opened, Owner
  <2> QED
    BY <2>1, AddKeepsBase, LinkKeepsBase, LevelsKeepBase, SnapshotKeepsBase, ByPidKeepsBase,
       PrintKeepsBase, SystemKeepsBase DEF Next, Build, Choose
<1> QED
  BY <1>1, <1>2, PTL DEF Spec

(* Types: the loops stay within the keys and the guard, and the chain that *)
(* is printed is always one of records in the tree.                        *)
THEOREM TypeCorrect == Spec => []TypeOK
<1>1. BaseInv => TypeOK
  BY DEF BaseInv
<1> QED
  BY <1>1, BaseInvariant, PTL

-----------------------------------------------------------------------------
(* Roots stay on the line.                                                 *)

(* What is reached stays reached, as long as no frozen link changes. *)
LEMMA ReachKept ==
  ASSUME NEW T, NEW V, \A x : Frozen(T, x) => Frozen(V, x) /\ Link(V, x) = Link(T, x),
         NEW k, NEW r, Reach(T, k, r)
  PROVE  Reach(V, k, r)
BY DEF Reach

LEMMA LinkReaches ==
  ASSUME TypeOK, NEW T, IsTree(T), NEW k \in DOMAIN T, T[k].root = NoKey,
         \A j \in DOMAIN T : T[j].root # NoKey => Reach(T, j, T[j].root),
         NEW V, V = SetProcessRootInfo(T, k)
  PROVE  \A j \in DOMAIN V : V[j].root # NoKey => Reach(V, j, V[j].root)
<1> PICK U : U = Dated(T, k)
  OBVIOUS
<1>1. /\ IsTree(U) /\ DOMAIN U = DOMAIN T
      /\ \A j \in DOMAIN T : j # k => U[j] = T[j]
      /\ U[k].parent = T[k].parent /\ U[k].root = NoKey
      /\ T[k].parentStart # 0 => U[k].parentStart = T[k].parentStart
  BY DatedTree
<1>2. /\ IsTree(V) /\ DOMAIN V = DOMAIN T
      /\ \A j \in DOMAIN T : j # k => V[j] = T[j]
      /\ V[k].parent = T[k].parent /\ V[k].parentStart = U[k].parentStart
      /\ V[k].root = RootFor(U, k) /\ V[k].root # NoKey
  BY LinkedTree
<1>3. \A x : Frozen(T, x) => Frozen(V, x) /\ Link(V, x) = Link(T, x)
  BY <1>1, <1>2 DEF Frozen, Link
<1>4. ASSUME NEW j \in DOMAIN V, j # k, V[j].root # NoKey PROVE Reach(V, j, V[j].root)
  BY <1>2, <1>3, <1>4, ReachKept
<1>5. Reach(V, k, V[k].root)
  <2> SUFFICES ASSUME NEW S \in SUBSET Keys, k \in S,
                      \A x \in S : Frozen(V, x) => Link(V, x) \in S
               PROVE  RootFor(U, k) \in S
    BY <1>2 DEF Reach
  <2>1. Link(U, k) \in S
    BY <1>1, <1>2 DEF Frozen, Link
  <2>2. \A x \in S \cap DOMAIN U : U[x].parentStart # 0 => Link(U, x) \in S
    BY <1>1, <1>2 DEF Frozen, Link
  <2>3. \A x \in S \cap DOMAIN U : U[x].root # NoKey => U[x].root \in S
    <3> SUFFICES ASSUME NEW x \in S \cap DOMAIN U, U[x].root # NoKey PROVE U[x].root \in S
      OBVIOUS
    <3>1. x \in DOMAIN V /\ x # k /\ U[x].root = V[x].root
      BY <1>1, <1>2
    <3>2. Reach(V, x, V[x].root)
      BY <1>4, <3>1
    <3> QED
      BY <3>1, <3>2 DEF Reach
  <2> QED
    BY <1>1, <2>1, <2>2, <2>3, SearchStays
<1> QED
  BY <1>2, <1>4, <1>5

(* The keys above k, and what is n links above it. *)
Above(T, k, n) == Iterate(Up(T), k, n)

LEMMA AboveSteps ==
  ASSUME NEW T, IsTree(T), NEW k \in Keys
  PROVE  /\ Above(T, k, 0) = k
         /\ \A n \in Nat : /\ Above(T, k, n) \in Keys
                           /\ Above(T, k, n + 1) = Up(T)[Above(T, k, n)]
<1>1. Up(T) \in [Keys -> Keys]
  BY LinkType DEF Up
<1> QED
  BY <1>1, IterateRuns DEF Above

LEMMA UpSteps ==
  ASSUME NEW T, NEW j \in Keys
  PROVE  Up(T)[j] = IF j \in DOMAIN T THEN Link(T, j) ELSE j
BY DEF Up

(* The same key twice on a line: from there on the line repeats itself. *)
LEMMA LineRepeats ==
  ASSUME NEW T, IsTree(T), NEW k \in Keys, NEW a \in Nat, NEW b \in Nat,
         Above(T, k, a) = Above(T, k, b)
  PROVE  \A n \in Nat : Above(T, k, a + n) = Above(T, k, b + n)
<1> DEFINE Good == {n \in Nat : Above(T, k, a + n) = Above(T, k, b + n)}
<1>1. 0 \in Good
  BY Z3
<1>2. ASSUME NEW n \in Good PROVE n + 1 \in Good
  <2>1. n \in Nat /\ a + n \in Nat /\ b + n \in Nat
        /\ a + (n + 1) = (a + n) + 1 /\ b + (n + 1) = (b + n) + 1
    OBVIOUS
  <2>2. Above(T, k, a + n) = Above(T, k, b + n)
    OBVIOUS
  <2>3. /\ Above(T, k, (a + n) + 1) = Up(T)[Above(T, k, a + n)]
        /\ Above(T, k, (b + n) + 1) = Up(T)[Above(T, k, b + n)]
    BY <2>1, AboveSteps
  <2>4. Above(T, k, a + (n + 1)) = Above(T, k, b + (n + 1))
    BY <2>1, <2>2, <2>3
  <2> QED
    BY <2>1, <2>4
<1> HIDE DEF Good
<1>3. Good \subseteq Nat
  BY DEF Good
<1>4. Good = Nat
  BY <1>1, <1>2, <1>3, Induction
<1> QED
  BY <1>4 DEF Good

(* A line is closed: it leaves the tree or repeats itself within as many   *)
(* links as the tree has records.                                          *)
LEMMA LineClosed ==
  ASSUME IsTree(g_ProcessTree), IsFiniteSet(DOMAIN g_ProcessTree), NEW k \in Keys,
         NEW x \in Line(k), x \in DOMAIN g_ProcessTree
  PROVE  Link(g_ProcessTree, x) \in Line(k)
<1> DEFINE T == g_ProcessTree
           A(n) == Above(T, k, n)
<1>1. Size \in Nat
  BY FS_CardinalityType DEF Size
<1>2. Line(k) = {A(n) : n \in 0..Size}
  BY DEF Line, Ancestor, Above
<1>3. PICK n \in 0..Size : x = A(n)
  BY <1>2
<1>4. A(n + 1) = Link(T, x)
  <2>1. n \in Nat /\ A(n) \in Keys /\ A(n + 1) = Up(T)[A(n)]
    BY <1>1, <1>3, AboveSteps
  <2>2. Up(T)[A(n)] = Link(T, A(n))
    BY <1>3, <2>1, UpSteps
  <2> QED
    BY <1>3, <2>1, <2>2
<1> HIDE DEF A
<1>5. CASE n < Size
  <2>1. n + 1 \in 0..Size
    BY <1>1, <1>5
  <2> QED
    BY <1>2, <1>4, <2>1
<1>6. CASE n = Size
  <2>1. ASSUME NEW m \in 0..Size PROVE A(m) \in DOMAIN T
    <3> SUFFICES ASSUME A(m) \notin DOMAIN T PROVE FALSE
      OBVIOUS
    <3>1. m \in Nat /\ m + 1 \in Nat /\ A(m) \in Keys /\ A(m + 1) = Up(T)[A(m)]
      BY <1>1, AboveSteps DEF A
    <3>2. A(m + 1) = A(m)
      BY <3>1, UpSteps
    <3> DEFINE Good == {i \in Nat : A(m + i) = A(m)}
    <3>3. 0 \in Good
      BY <3>1, Z3
    <3>4. ASSUME NEW i \in Good PROVE i + 1 \in Good
      <4>1. i \in Nat /\ A(m + i) = A(m)
        OBVIOUS
      <4>2. m + i \in Nat /\ (m + i) + 1 = m + (i + 1)
        BY <3>1, <4>1
      <4>3. A((m + i) + 1) = Up(T)[A(m + i)]
        BY <4>2, AboveSteps DEF A
      <4>4. A(m + (i + 1)) = A(m)
        BY <3>1, <3>2, <4>1, <4>2, <4>3
      <4> QED
        BY <4>1, <4>4
    <3> HIDE DEF Good
    <3>5. Good \subseteq Nat
      BY DEF Good
    <3>6. Good = Nat
      BY <3>3, <3>4, <3>5, Induction
    <3>7. Size - m \in Nat /\ m + (Size - m) = Size
      BY <1>1
    <3>8. A(m + (Size - m)) = A(m)
      BY <3>6, <3>7 DEF Good
    <3> QED
      BY <1>3, <1>6, <3>7, <3>8
  <2>2. PICK a \in 0..Size, b \in 0..Size : a < b /\ A(a) = A(b)
    <3> DEFINE f == [m \in 0..Size |-> A(m)]
    <3>1. f \in [0..Size -> DOMAIN T]
      BY <2>1
    <3>2. IsFiniteSet(0..Size) /\ Cardinality(0..Size) = Size + 1
      BY <1>1, FS_Interval
    <3>3. Cardinality(DOMAIN T) < Cardinality(0..Size)
      BY <1>1, <3>2 DEF Size
    <3> HIDE DEF f
    <3>4. PICK a \in 0..Size, b \in 0..Size : a # b /\ f[a] = f[b]
      BY <3>1, <3>2, <3>3, FS_PigeonHole
    <3>5. A(a) = A(b)
      BY <3>4 DEF f
    <3> QED
      BY <1>1, <3>4, <3>5
  <2> DEFINE i == Size + 1 - b
  <2>3. i \in Nat /\ b + i = Size + 1 /\ a + i \in 0..Size /\ a \in Nat /\ b \in Nat
    BY <1>1, <2>2
  <2>4. A(a + i) = A(b + i)
    <3> HIDE DEF i
    <3>1. k \in Keys /\ IsTree(T) /\ Above(T, k, a) = Above(T, k, b)
      BY <2>2 DEF A
    <3> QED
      BY <2>3, <3>1, LineRepeats DEF A
  <2>5. A(Size + 1) \in Line(k)
    BY <1>2, <2>3, <2>4
  <2> QED
    BY <1>4, <1>6, <2>5
<1> QED
  BY <1>1, <1>3, <1>5, <1>6

LEMMA ReachOnLine ==
  ASSUME IsTree(g_ProcessTree), IsFiniteSet(DOMAIN g_ProcessTree),
         NEW k \in DOMAIN g_ProcessTree, NEW r, Reach(g_ProcessTree, k, r)
  PROVE  r \in Line(k)
<1>1. k \in Keys /\ Size \in Nat
  BY FS_CardinalityType DEF IsTree, Size
<1>2. Line(k) \subseteq Keys /\ k \in Line(k)
  <2>1. \A n \in 0..Size : Above(g_ProcessTree, k, n) \in Keys
    BY <1>1, AboveSteps
  <2>2. 0 \in 0..Size /\ Above(g_ProcessTree, k, 0) = k
    BY <1>1, AboveSteps
  <2> QED
    BY <2>1, <2>2 DEF Line, Ancestor, Above
<1>3. \A x \in Line(k) : Frozen(g_ProcessTree, x) => Link(g_ProcessTree, x) \in Line(k)
  BY <1>1, LineClosed DEF Frozen
<1> QED
  BY <1>2, <1>3 DEF Reach

(* A step that leaves tree and system alone, or looks at the tree only. *)
LEMMA RootStep == BaseInv /\ RootInv /\ [Next]_vars => RootInv'
<1> SUFFICES ASSUME BaseInv, RootInv, [Next]_vars PROVE RootInv'
  OBVIOUS
<1> DEFINE T == g_ProcessTree
<1>1. TypeOK /\ IsTree(T)
  BY OldTree DEF BaseInv
<1>2. CASE AddRecord
  <2>1. PICK k \in todo :
          T' = Extended(T, <<procs[k].pid, GetProcStartTime(procs[k].pid)>>,
                        Record(procs[k].stop, procs[k].parent))
    BY <1>2 DEF AddRecord
  <2>2. step = "add"
    BY <1>2 DEF AddRecord
  <2>3. \A j \in DOMAIN T' : T'[j].root = NoKey
    BY <2>1, <2>2 DEF BaseInv, SnapshotInv, Extended, Record
  <2> QED
    BY <2>3 DEF RootInv
<1>3. CASE LinkRecord
  <2>1. PICK k \in Unlinked : T' = IF T[k].stop THEN Rooted(T, k, k) ELSE SetProcessRootInfo(T, k)
    BY <1>3 DEF LinkRecord, Rooted
  <2>2. k \in DOMAIN T /\ T[k].root = NoKey /\ k \in Keys /\ k # NoKey
    BY <1>1, <2>1, LinkType, NoKeyType DEF Unlinked
  <2>3. CASE T[k].stop
    <3>1. /\ DOMAIN T' = DOMAIN T /\ \A j \in DOMAIN T : j # k => T'[j] = T[j]
          /\ T'[k].parent = T[k].parent /\ T'[k].parentStart = T[k].parentStart
          /\ T'[k].root = k
      BY <1>1, <2>1, <2>2, <2>3, RootedTree
    <3>2. \A x : Frozen(T, x) => Frozen(T', x) /\ Link(T', x) = Link(T, x)
      BY <2>2, <3>1 DEF Frozen, Link
    <3>3. \A j \in DOMAIN T : j # k /\ T[j].root # NoKey => Reach(T', j, T[j].root)
      BY <3>2, ReachKept DEF RootInv
    <3>4. Reach(T', k, k)
      BY DEF Reach
    <3> QED
      BY <3>1, <3>3, <3>4 DEF RootInv
  <2>4. CASE ~T[k].stop
    BY <1>1, <2>1, <2>2, <2>4, LinkReaches DEF RootInv
  <2> QED
    BY <2>3, <2>4
<1>4. CASE SetLevels
  <2>1. \A x : Frozen(T, x) => Frozen(T', x) /\ Link(T', x) = Link(T, x)
    BY <1>4, LevelsTree DEF Frozen, Link
  <2>2. \A j \in DOMAIN T : T[j].root # NoKey => Reach(T', j, T[j].root)
    BY <2>1, ReachKept DEF RootInv
  <2> QED
    BY <1>4, <2>2, LevelsTree DEF RootInv
<1>5. CASE FindProcessChainByPid
  <2>1. PICK pid \in Pids :
          LET start == GetProcStartTime(pid)
              k     == <<pid, start>>
          IN  /\ start # 0
              /\ T' = IF k \in DOMAIN T THEN T
                      ELSE SetProcessRootInfo(
                             Extended(T, k, Record(procs[start].stop, procs[start].parent)), k)
    BY <1>5 DEF FindProcessChainByPid
  <2> DEFINE start == GetProcStartTime(pid)
             k == <<pid, start>>
             r == Record(procs[start].stop, procs[start].parent)
  <2>2. start # 0 /\ T' = IF k \in DOMAIN T THEN T ELSE SetProcessRootInfo(Extended(T, k, r), k)
    BY <2>1
  <2>3. start \in 1..Len(procs) /\ start \in Starts /\ pid # 0
    BY <1>1, <2>2, StartTime, PidsAssumption
  <2>4. k \in Keys /\ k[1] # 0
    BY <2>3 DEF Keys
  <2>5. r \in Records /\ r.root = NoKey
    BY <1>1, <2>3, ProcessType, RecordType
  <2> HIDE DEF start, k, r
  <2>6. CASE k \in DOMAIN T
    BY <2>2, <2>6 DEF RootInv
  <2>7. CASE k \notin DOMAIN T
    <3> PICK E : E = Extended(T, k, r)
      OBVIOUS
    <3>1. IsTree(E)
      BY <1>1, <2>4, <2>5, ExtendedTree
    <3>2. /\ DOMAIN E = DOMAIN T \cup {k} /\ E[k].root = NoKey
          /\ \A j \in DOMAIN T : E[j] = T[j]
      BY <2>5, <2>7 DEF Extended
    <3>3. \A x : Frozen(T, x) => Frozen(E, x) /\ Link(E, x) = Link(T, x)
      BY <3>2 DEF Frozen, Link
    <3>4. \A j \in DOMAIN E : E[j].root # NoKey => Reach(E, j, E[j].root)
      BY <3>2, <3>3, ReachKept DEF RootInv
    <3>5. T' = SetProcessRootInfo(E, k) /\ k \in DOMAIN E
      BY <2>2, <2>7, <3>2
    <3> QED
      BY <1>1, <3>1, <3>2, <3>4, <3>5, LinkReaches DEF RootInv
  <2> QED
    BY <2>6, <2>7
<1>6. CASE BuildProcessTreeSnapshot
  <2>1. T' = <<>>
    BY <1>6 DEF BuildProcessTreeSnapshot
  <2>2. DOMAIN T' = {}
    BY <2>1
  <2> QED
    BY <2>2 DEF RootInv
<1>7. CASE UNCHANGED g_ProcessTree
  BY <1>7 DEF RootInv
<1>8. FindProcessChain \/ PrintProcessChain \/ StartProcess \/ EndProcess \/ UNCHANGED vars
        => UNCHANGED g_ProcessTree
  BY DEF FindProcessChain, PrintProcessChain, StartProcess, EndProcess, vars, program
<1> QED
  BY <1>2, <1>3, <1>4, <1>5, <1>6, <1>7, <1>8 DEF Next, Build, Choose

(* Whatever ids are used again, and however long the lines are: a root is  *)
(* on the line of its record.                                              *)
THEOREM RootsOnLine == Spec => []RootOnLine
<1>1. Init => RootInv
  BY EmptyTree DEF Init, RootInv
<1>2. BaseInv /\ RootInv => RootOnLine
  BY OldTree, ReachOnLine DEF BaseInv, TreeInv, RootInv, RootOnLine
<1> QED
  BY <1>1, <1>2, BaseInvariant, RootStep, PTL DEF Spec

-----------------------------------------------------------------------------
(* The nearest stop process.                                               *)

Top(T, x) == T[x].stop \/ T[x].parent = 0

(* What Nearest says, of any tree. *)
Near(T, k, n) ==
  /\ \A m \in 0..n : Above(T, k, m) \in DOMAIN T
  /\ Top(T, Above(T, k, n))
  /\ \A m \in 0..(n - 1) : ~Top(T, Above(T, k, m))
  /\ \A m \in 1..(n - 1) : T[Above(T, k, m)].parentStart \in 1..(Above(T, k, m)[2] - 1)

LEMMA NearestIsNear ==
  /\ \A k, n : Nearest(k, n) <=> Near(g_ProcessTree, k, n)
  /\ \A k, n : Ancestor(k, n) = Above(g_ProcessTree, k, n)
BY DEF Nearest, Near, Top, Ancestor, Above

(* The links above a key that is m links up. *)
LEMMA AboveSum ==
  ASSUME NEW T, IsTree(T), NEW k \in Keys, NEW m \in Nat
  PROVE  \A i \in Nat : Above(T, Above(T, k, m), i) = Above(T, k, m + i)
<1> DEFINE Good == {i \in Nat : Above(T, Above(T, k, m), i) = Above(T, k, m + i)}
<1>1. Above(T, k, m) \in Keys
  BY AboveSteps
<1>2. 0 \in Good
  BY <1>1, AboveSteps, m + 0 = m
<1>3. ASSUME NEW i \in Good PROVE i + 1 \in Good
  <2>1. i \in Nat /\ m + i \in Nat /\ i + 1 \in Nat /\ (m + i) + 1 = m + (i + 1)
    OBVIOUS
  <2>2. Above(T, Above(T, k, m), i) = Above(T, k, m + i)
    OBVIOUS
  <2>3. Above(T, Above(T, k, m), i + 1) = Up(T)[Above(T, Above(T, k, m), i)]
    BY <1>1, <2>1, AboveSteps
  <2>4. Above(T, k, (m + i) + 1) = Up(T)[Above(T, k, m + i)]
    BY <2>1, AboveSteps
  <2>5. Above(T, Above(T, k, m), i + 1) = Above(T, k, m + (i + 1))
    BY <2>1, <2>2, <2>3, <2>4
  <2> QED
    BY <2>1, <2>5
<1> HIDE DEF Good
<1>4. Good \subseteq Nat
  BY DEF Good
<1>5. Good = Nat
  BY <1>2, <1>3, <1>4, Induction
<1> QED
  BY <1>5 DEF Good

LEMMA NearSuffix ==
  ASSUME NEW T, IsTree(T), NEW k \in Keys, NEW n \in Nat, Near(T, k, n), NEW m \in 0..n
  PROVE  /\ Near(T, Above(T, k, m), n - m) /\ n - m \in Nat /\ n - m <= n
         /\ Above(T, Above(T, k, m), n - m) = Above(T, k, n)
<1> DEFINE x == Above(T, k, m)
<1>1. m \in Nat /\ n - m \in Nat /\ n - m <= n /\ m + (n - m) = n
  OBVIOUS
<1>2. \A i \in Nat : Above(T, x, i) = Above(T, k, m + i)
  BY <1>1, AboveSum
<1> HIDE DEF x
<1>3. Above(T, x, n - m) = Above(T, k, n)
  BY <1>1, <1>2
<1>4. \A i \in 0..(n - m) : i \in Nat /\ m + i \in 0..n
  BY <1>1
<1>5. \A i \in 0..((n - m) - 1) : i \in Nat /\ m + i \in 0..(n - 1)
  BY <1>1
<1>6. \A i \in 1..((n - m) - 1) : i \in Nat /\ m + i \in 1..(n - 1)
  BY <1>1
<1>7. Near(T, x, n - m)
  <2>1. \A i \in 0..(n - m) : Above(T, x, i) \in DOMAIN T
    BY <1>2, <1>4 DEF Near
  <2>2. Top(T, Above(T, x, n - m))
    BY <1>3 DEF Near
  <2>3. \A i \in 0..((n - m) - 1) : ~Top(T, Above(T, x, i))
    BY <1>2, <1>5 DEF Near
  <2>4. \A i \in 1..((n - m) - 1) : T[Above(T, x, i)].parentStart \in 1..(Above(T, x, i)[2] - 1)
    BY <1>2, <1>6 DEF Near
  <2> QED
    BY <2>1, <2>2, <2>3, <2>4 DEF Near
<1> QED
  BY <1>1, <1>3, <1>7 DEF x

(* One link up on the way to the top. *)
LEMMA NearStep ==
  ASSUME NEW T, IsTree(T), NEW k \in Keys, NEW n \in Nat, Near(T, k, n), NEW m \in 0..(n - 1)
  PROVE  /\ m \in Nat /\ m + 1 \in 0..n
         /\ Above(T, k, m) \in DOMAIN T /\ Above(T, k, m + 1) \in DOMAIN T
         /\ Above(T, k, m + 1) = Link(T, Above(T, k, m))
         /\ Above(T, k, m) # Above(T, k, n)
<1>1. m \in Nat /\ m \in 0..n /\ m + 1 \in 0..n
  OBVIOUS
<1>2. Above(T, k, m) \in DOMAIN T /\ Above(T, k, m + 1) \in DOMAIN T
  BY <1>1 DEF Near
<1>3. Above(T, k, m) \in Keys /\ Above(T, k, m + 1) = Up(T)[Above(T, k, m)]
  BY <1>1, AboveSteps
<1>4. Above(T, k, m + 1) = Link(T, Above(T, k, m))
  BY <1>2, <1>3, UpSteps
<1>5. Above(T, k, m) # Above(T, k, n)
  BY DEF Near
<1> QED
  BY <1>1, <1>2, <1>4, <1>5

(* T and V have the same links, but for that of x if T has none and that   *)
(* of V is not to an elder.                                                *)
Relinked(T, V, x) ==
  /\ DOMAIN V = DOMAIN T
  /\ \A y \in DOMAIN T :
       /\ V[y].stop = T[y].stop /\ V[y].parent = T[y].parent
       /\ \/ V[y].parentStart = T[y].parentStart
          \/ y = x /\ T[y].parentStart = 0 /\ V[y].parentStart \notin 1..(y[2] - 1)

(* The links above another record than x are then the same up to the top.  *)
LEMMA NearKept ==
  ASSUME NEW T, IsTree(T), NEW V, IsTree(V), NEW x, Relinked(T, V, x),
         NEW j \in Keys, j # x \/ Link(T, x) = Link(V, x), NEW n \in Nat, Near(V, j, n)
  PROVE  Near(T, j, n) /\ Above(T, j, n) = Above(V, j, n)
<1> DEFINE Good == {m \in Nat : m <= n => Above(T, j, m) = Above(V, j, m)}
<1>1. 0 \in Good
  BY AboveSteps
<1>2. ASSUME NEW m \in Good PROVE m + 1 \in Good
  <2> SUFFICES ASSUME m + 1 <= n PROVE Above(T, j, m + 1) = Above(V, j, m + 1)
    BY <1>2
  <2> DEFINE y == Above(V, j, m)
  <2>1. m \in 0..(n - 1) /\ m \in Nat /\ Above(T, j, m) = y
    BY <1>2
  <2>2. y \in DOMAIN V /\ Above(V, j, m + 1) = Link(V, y) /\ y \in Keys
    BY <2>1, NearStep, AboveSteps
  <2>3. y = x => m # 0 \/ Link(T, x) = Link(V, x)
    BY AboveSteps
  <2>4. m # 0 => V[y].parentStart \in 1..(y[2] - 1)
    <3>1. m # 0 => m \in 1..(n - 1)
      BY <2>1
    <3> QED
      BY <3>1 DEF Near
  <2>5. Above(T, j, m + 1) = Up(T)[y]
    BY <2>1, AboveSteps
  <2> HIDE DEF y
  <2>6. Link(T, y) = Link(V, y)
    <3>1. CASE y # x
      BY <2>2, <3>1 DEF Relinked, Link
    <3>2. CASE y = x /\ m # 0
      BY <2>2, <2>4, <3>2 DEF Relinked, Link
    <3>3. CASE y = x /\ m = 0
      BY <2>3, <3>3
    <3> QED
      BY <3>1, <3>2, <3>3
  <2>7. Up(T)[y] = Link(T, y)
    BY <2>2, UpSteps DEF Relinked
  <2> QED
    BY <2>2, <2>5, <2>6, <2>7
<1> HIDE DEF Good
<1>3. Good \subseteq Nat
  BY DEF Good
<1>4. Good = Nat
  BY <1>1, <1>2, <1>3, Induction
<1>5. \A m \in 0..n : Above(T, j, m) = Above(V, j, m)
  BY <1>4 DEF Good
<1>6. \A m \in 0..n : Above(T, j, m) \in DOMAIN T
  BY <1>5 DEF Near, Relinked
<1>7. \A y \in DOMAIN T : Top(T, y) <=> Top(V, y)
  BY DEF Top, Relinked
<1>8. \A m \in 1..(n - 1) : T[Above(T, j, m)].parentStart \in 1..(Above(T, j, m)[2] - 1)
  <2> SUFFICES ASSUME NEW m \in 1..(n - 1), NEW y, y = Above(T, j, m)
               PROVE  T[y].parentStart \in 1..(y[2] - 1)
    OBVIOUS
  <2>1. m \in 0..n
    OBVIOUS
  <2>2. y \in DOMAIN T /\ V[y].parentStart \in 1..(y[2] - 1)
    BY <1>5, <1>6, <2>1 DEF Near
  <2> QED
    BY <2>2 DEF Relinked
<1>9. n \in 0..n /\ \A m \in 0..(n - 1) : m \in 0..n
  OBVIOUS
<1>10. Top(T, Above(T, j, n)) /\ \A m \in 0..(n - 1) : ~Top(T, Above(T, j, m))
  BY <1>5, <1>6, <1>7, <1>9 DEF Near
<1> QED
  BY <1>5, <1>6, <1>8, <1>9, <1>10 DEF Near

(* The roots there are in T are the nearest, those within the guard. *)
RootsNear(T) ==
  \A k \in DOMAIN T, n \in 0..Guard : T[k].root # NoKey /\ Near(T, k, n) => T[k].root = Above(T, k, n)

(* The search comes to the top, or to a record that has its root from there. *)
LEMMA SearchFindsNearest ==
  ASSUME NEW T, IsTree(T), RootsNear(T), NEW k \in DOMAIN T, ~T[k].stop, T[k].root = NoKey,
         NEW n \in 0..Guard, Near(T, k, n)
  PROVE  RootFor(T, k) = Above(T, k, n)
<1> DEFINE A(m) == Above(T, k, m)
           st(m) == Found(T, k, m)
<1>1. n \in Nat /\ Guard \in Nat /\ k \in Keys /\ n \in 0..n
  BY BoundsAssumption, LinkType
<1>2. A(0) = k /\ A(n) \in DOMAIN T /\ A(n) # NoKey /\ A(n)[1] # 0
  BY <1>1, AboveSteps, NoKeyType DEF Near, IsTree
<1>3. RootFor(T, k) = IF st(Guard).root # NoKey THEN st(Guard).root ELSE st(Guard).last
  BY DEF RootFor, Found, Begin
<1>4. CASE n = 0
  <2>1. T[k].parent = 0
    BY <1>2, <1>4 DEF Near, Top
  <2> DEFINE Good == {m \in Nat : st(m) = Begin(T, k)}
  <2>2. 0 \in Good
    BY FoundSteps
  <2>3. ASSUME NEW m \in Good PROVE m + 1 \in Good
    <3>1. m \in Nat /\ st(m) \in Search /\ st(m + 1) = Round(T)[st(m)] /\ st(m) = Begin(T, k)
      BY FoundSteps
    <3>2. Begin(T, k).at[1] = 0
      BY <2>1, LinkType DEF Begin
    <3> HIDE DEF st
    <3>3. st(m + 1) = Begin(T, k)
      BY <3>1, <3>2 DEF Round
    <3> QED
      BY <3>1, <3>3
  <2> HIDE DEF Good
  <2>4. Good \subseteq Nat
    BY DEF Good
  <2>5. Guard \in Good
    BY <1>1, <2>2, <2>3, <2>4, Induction
  <2>6. st(Guard).root = NoKey /\ st(Guard).last = k
    BY <2>5 DEF Good, Begin
  <2> QED
    BY <1>2, <1>3, <1>4, <2>6
<1>5. CASE n # 0
  <2> DEFINE Good == {m \in Nat : \/ st(m).root = A(n)
                                  \/ m < n /\ st(m).root = NoKey /\ st(m).at = A(m + 1)}
  <2>1. 0 \in Good
    <3>1. 0 \in 0..(n - 1) /\ 0 < n
      BY <1>1, <1>5
    <3>2. A(0 + 1) = Link(T, A(0))
      BY <1>1, <3>1, NearStep
    <3>3. st(0).root = NoKey /\ st(0).at = A(0 + 1)
      BY <1>2, <3>2, FoundSteps DEF Begin
    <3> QED
      BY <3>1, <3>3
  <2>2. ASSUME NEW m \in Good PROVE m + 1 \in Good
    <3>a. m \in Nat /\ (st(m).root = A(n) \/ (m < n /\ st(m).root = NoKey /\ st(m).at = A(m + 1)))
      OBVIOUS
    <3>b. st(m) \in Search /\ st(m + 1) = Round(T)[st(m)]
      BY <3>a, FoundSteps
    <3> PICK s : s = st(m)
      OBVIOUS
    <3>1. /\ m \in Nat /\ s \in Search /\ st(m + 1) = Round(T)[s]
          /\ s.root = A(n) \/ (m < n /\ s.root = NoKey /\ s.at = A(m + 1))
      BY ONLY <3>a, <3>b, s = st(m)
    <3>2. \A r : LET e == [s EXCEPT !.root = r] IN e.root = r
      BY <3>1 DEF Search
    <3>3. \A a, l : LET e == [s EXCEPT !.at = a, !.last = l] IN e.at = a /\ e.root = s.root
      BY <3>1 DEF Search
    <3>4. CASE s.root = A(n)
      <4>1. Round(T)[s] = s
        BY <1>2, <3>1, <3>4 DEF Round
      <4> QED
        BY <3>1, <3>4, <4>1
    <3>5. CASE m < n /\ s.root = NoKey /\ s.at = A(m + 1)
      <4> PICK y : y = A(m + 1)
        OBVIOUS
      <4>1. m + 1 \in 0..n /\ m + 1 \in Nat
        BY <1>1, <3>1, <3>5
      <4>2. y \in DOMAIN T /\ y[1] # 0
        BY <4>1 DEF Near, IsTree
      <4>3. CASE Top(T, y)
        <5>1. m + 1 = n
          <6>1. m + 1 # n => m + 1 \in 0..(n - 1)
            BY <1>1, <4>1
          <6> QED
            BY <4>3, <6>1 DEF Near
        <5>2. T[y].root # NoKey => T[y].root = y
          <6>1. Near(T, y, n - n) /\ Above(T, y, n - n) = A(n) /\ n - n = 0 /\ 0 \in 0..Guard
            BY <1>1, <5>1, NearSuffix
          <6> QED
            BY <4>2, <5>1, <6>1 DEF RootsNear
        <5>3. Round(T)[s].root = y
          BY <3>1, <3>2, <3>5, <4>2, <4>3, <5>2 DEF Round, Top
        <5> QED
          BY <3>1, <4>1, <5>1, <5>3
      <4>4. CASE ~Top(T, y) /\ T[y].root # NoKey
        <5>1. /\ Near(T, y, n - (m + 1)) /\ Above(T, y, n - (m + 1)) = A(n)
              /\ n - (m + 1) \in 0..Guard
          <6>1. /\ Near(T, y, n - (m + 1)) /\ Above(T, y, n - (m + 1)) = A(n)
                /\ n - (m + 1) \in Nat /\ n - (m + 1) <= n
            BY <1>1, <4>1, NearSuffix
          <6> QED
            BY <1>1, <6>1
        <5>2. T[y].root = A(n)
          BY <4>2, <4>4, <5>1 DEF RootsNear
        <5>3. Round(T)[s].root = T[y].root
          BY <3>1, <3>2, <3>5, <4>2, <4>4 DEF Round, Top
        <5> QED
          BY <3>1, <4>1, <5>2, <5>3
      <4>5. CASE ~Top(T, y) /\ T[y].root = NoKey
        <5>1. m + 1 # n
          BY <4>5 DEF Near
        <5>2. m + 1 \in 0..(n - 1) /\ m + 1 \in 1..(n - 1) /\ m + 1 < n
          BY <1>1, <3>1, <4>1, <5>1
        <5>3. A((m + 1) + 1) = Link(T, y)
          BY <1>1, <5>2, NearStep
        <5>4. T[y].parentStart # 0
          <6>1. T[y].parentStart \in 1..(y[2] - 1)
            BY <5>2 DEF Near
          <6>2. y[2] \in Nat
            BY <4>2, BoundsAssumption DEF IsTree, Keys, Starts
          <6> QED
            BY <6>1, <6>2
        <5>5. Round(T)[s].root = NoKey /\ Round(T)[s].at = Link(T, y)
          BY <3>1, <3>3, <3>5, <4>2, <4>5, <5>4 DEF Round, Top
        <5> QED
          BY <3>1, <4>1, <5>2, <5>3, <5>5
      <4> QED
        BY <4>3, <4>4, <4>5
    <3> QED
      BY <3>1, <3>4, <3>5
  <2> HIDE DEF Good
  <2>3. Good \subseteq Nat
    BY DEF Good
  <2>4. Guard \in Good
    BY <1>1, <2>1, <2>2, <2>3, Induction
  <2>5. ~(Guard < n)
    BY <1>1
  <2> QED
    BY <1>2, <1>3, <2>4, <2>5 DEF Good
<1> QED
  BY <1>4, <1>5

(* A record gets its root, or is its own. *)
LEMMA LinkKeepsNear ==
  ASSUME BaseInv, NEW k \in DOMAIN g_ProcessTree, ~g_ProcessTree[k].stop,
         g_ProcessTree[k].root = NoKey, RootsNear(g_ProcessTree)
  PROVE  RootsNear(SetProcessRootInfo(g_ProcessTree, k))
<1> PICK T : T = g_ProcessTree
  OBVIOUS
<1> PICK U : U = Dated(T, k)
  OBVIOUS
<1> PICK V : V = SetProcessRootInfo(T, k)
  OBVIOUS
<1>1. TypeOK /\ IsTree(T) /\ k \in DOMAIN T /\ RootsNear(T)
  BY OldTree DEF BaseInv
<1>2. /\ IsTree(U) /\ DOMAIN U = DOMAIN T
      /\ \A j \in DOMAIN T : j # k => U[j] = T[j]
      /\ U[k].stop = T[k].stop /\ U[k].parent = T[k].parent /\ U[k].root = NoKey
      /\ U[k].parentStart = IF T[k].parentStart = 0 /\ T[k].parent # 0
                            THEN GetProcStartTime(T[k].parent) ELSE T[k].parentStart
  BY <1>1, DatedTree
<1>3. /\ IsTree(V) /\ DOMAIN V = DOMAIN T
      /\ \A j \in DOMAIN T : j # k => V[j] = T[j]
      /\ V[k].stop = T[k].stop /\ V[k].parent = T[k].parent /\ V[k].parentStart = U[k].parentStart
      /\ V[k].root = RootFor(U, k)
  BY <1>1, LinkedTree
<1>4. Relinked(T, U, k)
  <2>1. T[k].parentStart = 0 => U[k].parentStart \notin 1..(k[2] - 1)
    <3> SUFFICES ASSUME T[k].parentStart = 0, U[k].parentStart # 0
                 PROVE  U[k].parentStart \notin 1..(k[2] - 1)
      OBVIOUS
    <3> PICK a : a = U[k].parentStart
      OBVIOUS
    <3>1. a = GetProcStartTime(T[k].parent) /\ a # 0
      BY <1>2
    <3>2. a \in Opened(T[k].parent) /\ a \in 0..Len(procs)
      BY <1>1, <3>1, StartTime
    <3>3. k[2] < a
      BY <1>1, <3>2 DEF BaseInv, LateInv
    <3>4. k[2] \in Nat /\ a \in Nat
      BY <1>1, <3>2, BoundsAssumption DEF IsTree, Keys, Starts
    <3> QED
      BY <3>3, <3>4
  <2> QED
    BY <1>2, <2>1 DEF Relinked
<1>5. Relinked(U, V, k) /\ Link(U, k) = Link(V, k)
  BY <1>2, <1>3 DEF Relinked, Link
<1>6. RootsNear(U)
  <2> SUFFICES ASSUME NEW j \in DOMAIN U, NEW n \in 0..Guard, U[j].root # NoKey, Near(U, j, n)
               PROVE  U[j].root = Above(U, j, n)
    BY DEF RootsNear
  <2>1. j \in DOMAIN T /\ j # k /\ T[j].root = U[j].root /\ j \in Keys /\ n \in Nat
    BY <1>2, BoundsAssumption DEF IsTree
  <2>2. Near(T, j, n) /\ Above(T, j, n) = Above(U, j, n)
    BY <1>1, <1>2, <1>4, <2>1, NearKept
  <2> QED
    BY <1>1, <2>1, <2>2 DEF RootsNear
<1>7. RootsNear(V)
  <2> SUFFICES ASSUME NEW j \in DOMAIN V, NEW n \in 0..Guard, V[j].root # NoKey, Near(V, j, n)
               PROVE  V[j].root = Above(V, j, n)
    BY DEF RootsNear
  <2>1. j \in DOMAIN U /\ j \in Keys /\ n \in Nat /\ k \in DOMAIN U /\ ~U[k].stop
    BY <1>1, <1>2, <1>3, BoundsAssumption DEF IsTree
  <2>2. Near(U, j, n) /\ Above(U, j, n) = Above(V, j, n)
    BY <1>2, <1>3, <1>5, <2>1, NearKept
  <2>3. CASE j = k
    <3>1. RootFor(U, k) = Above(U, k, n)
      BY <1>2, <1>6, <2>1, <2>2, <2>3, SearchFindsNearest
    <3> QED
      BY <1>3, <2>2, <2>3, <3>1
  <2>4. CASE j # k
    BY <1>2, <1>3, <1>6, <2>1, <2>2, <2>4 DEF RootsNear
  <2> QED
    BY <2>3, <2>4
<1> QED
  BY <1>7

LEMMA StopIsNear ==
  ASSUME NEW T, IsTree(T), RootsNear(T), NEW k \in DOMAIN T, Top(T, k)
  PROVE  RootsNear(Rooted(T, k, k))
<1> PICK V : V = Rooted(T, k, k)
  OBVIOUS
<1>1. /\ IsTree(V) /\ DOMAIN V = DOMAIN T /\ k \in Keys
      /\ \A j \in DOMAIN T : j # k => V[j] = T[j]
      /\ V[k].stop = T[k].stop /\ V[k].parent = T[k].parent
      /\ V[k].parentStart = T[k].parentStart /\ V[k].root = k
  <2>1. k \in Keys
    BY LinkType
  <2> QED
    BY <2>1, RootedTree
<1>2. Relinked(T, V, k) /\ Link(T, k) = Link(V, k)
  BY <1>1 DEF Relinked, Link
<1>3. RootsNear(V)
  <2> SUFFICES ASSUME NEW j \in DOMAIN V, NEW n \in 0..Guard, V[j].root # NoKey, Near(V, j, n)
               PROVE  V[j].root = Above(V, j, n)
    BY DEF RootsNear
  <2>1. j \in DOMAIN T /\ j \in Keys /\ n \in Nat
    BY <1>1, BoundsAssumption DEF IsTree
  <2>2. Near(T, j, n) /\ Above(T, j, n) = Above(V, j, n)
    BY <1>1, <1>2, <2>1, NearKept
  <2>3. CASE j = k
    <3>1. n # 0 => 0 \in 0..(n - 1)
      BY <2>1
    <3>2. Above(T, k, 0) = k
      BY <1>1, AboveSteps
    <3>3. n = 0
      BY <2>2, <2>3, <3>1, <3>2 DEF Near
    <3> QED
      BY <1>1, <2>2, <2>3, <3>2, <3>3
  <2>4. CASE j # k
    BY <1>1, <2>1, <2>2, <2>4 DEF RootsNear
  <2> QED
    BY <2>3, <2>4
<1> QED
  BY <1>3

LEMMA NearestStep == BaseInv /\ NearestInv /\ [Next]_vars => NearestInv'
<1> SUFFICES ASSUME BaseInv, NearestInv, [Next]_vars PROVE NearestInv'
  OBVIOUS
<1> DEFINE T == g_ProcessTree
           Building == step \in {"add", "link", "built"}
<1>1. /\ Building => RootsNear(T)
      /\ (Building' => RootsNear(T')) => NearestInv'
  <2>1. NearestInv <=> (Building => RootsNear(T))
    BY NearestIsNear DEF NearestInv, RootsNear
  <2>2. NearestInv' <=> (Building' => RootsNear(T'))
    BY DEF NearestInv, RootsNear, Nearest, Near, Top, Ancestor, Above
  <2> QED
    BY <2>1, <2>2
<1>2. TypeOK /\ IsTree(T)
  BY OldTree DEF BaseInv
<1>3. CASE AddRecord
  <2>1. PICK k \in todo :
          T' = Extended(T, <<procs[k].pid, GetProcStartTime(procs[k].pid)>>,
                        Record(procs[k].stop, procs[k].parent))
    BY <1>3 DEF AddRecord
  <2>2. step = "add"
    BY <1>3 DEF AddRecord
  <2>3. \A j \in DOMAIN T' : T'[j].root = NoKey
    BY <2>1, <2>2 DEF BaseInv, SnapshotInv, Extended, Record
  <2> QED
    BY <1>1, <2>3 DEF RootsNear
<1>4. CASE LinkRecord
  <2>1. PICK k \in Unlinked : T' = IF T[k].stop THEN Rooted(T, k, k) ELSE SetProcessRootInfo(T, k)
    BY <1>4 DEF LinkRecord, Rooted
  <2>2. k \in DOMAIN T /\ T[k].root = NoKey /\ RootsNear(T)
    BY <1>1, <1>4 DEF Unlinked, LinkRecord
  <2>3. RootsNear(T')
    BY <1>2, <2>1, <2>2, LinkKeepsNear, StopIsNear DEF Top
  <2> QED
    BY <1>1, <2>3
<1>5. CASE SetLevels
  <2>1. RootsNear(T) /\ IsTree(T') /\ DOMAIN T' = DOMAIN T
    BY <1>1, <1>5, LevelsTree DEF SetLevels
  <2>2. \A j \in DOMAIN T : Relinked(T, T', j) /\ Link(T, j) = Link(T', j) /\ T'[j].root = T[j].root
    BY <1>5, LevelsTree DEF Relinked, Link
  <2>3. RootsNear(T')
    <3> SUFFICES ASSUME NEW j \in DOMAIN T', NEW n \in 0..Guard, T'[j].root # NoKey, Near(T', j, n)
                 PROVE  T'[j].root = Above(T', j, n)
      BY DEF RootsNear
    <3>1. j \in DOMAIN T /\ j \in Keys /\ n \in Nat
      BY <1>2, <2>1, BoundsAssumption DEF IsTree
    <3>2. Near(T, j, n) /\ Above(T, j, n) = Above(T', j, n)
      BY <1>2, <2>1, <2>2, <3>1, NearKept
    <3> QED
      BY <2>1, <2>2, <3>1, <3>2 DEF RootsNear
  <2> QED
    BY <1>1, <2>3
<1>6. CASE BuildProcessTreeSnapshot
  <2>1. T' = <<>>
    BY <1>6 DEF BuildProcessTreeSnapshot
  <2>2. DOMAIN T' = {}
    BY <2>1
  <2> QED
    BY <1>1, <2>2 DEF RootsNear
<1>7. CASE ~Building'
  BY <1>1, <1>7
<1>8. CASE UNCHANGED <<g_ProcessTree, step>>
  BY <1>1, <1>8
<1>9. ASSUME \/ FindProcessChain \/ FindProcessChainByPid \/ PrintProcessChain
             \/ StartProcess \/ EndProcess \/ UNCHANGED vars
      PROVE  ~Building' \/ UNCHANGED <<g_ProcessTree, step>>
  BY <1>9 DEF FindProcessChain, FindProcessChainByPid, StartPrinting, PrintProcessChain,
         StartProcess, EndProcess, vars, program
<1> QED
  BY <1>3, <1>4, <1>5, <1>6, <1>7, <1>8, <1>9 DEF Next, Build, Choose

(* The level counts the links to the nearest stop process. *)
LEMMA LevelIsNear ==
  ASSUME NEW T, IsTree(T), RootsNear(T), NEW k \in DOMAIN T,
         \A j \in DOMAIN T : T[j].root # NoKey,
         \A i, j \in DOMAIN T : i[1] = j[1] => i = j,
         NEW n \in 0..Guard, Near(T, k, n)
  PROVE  (IF T[k].root[1] = k[1] THEN 0 ELSE LinkLevel(T, k)) = n
<1> DEFINE A(m) == Above(T, k, m)
           st(m) == Climbed(T, k, m)
<1>1. n \in Nat /\ Guard \in Nat /\ k \in Keys /\ n \in 0..n
  BY BoundsAssumption, LinkType
<1>2. A(0) = k /\ A(n) \in DOMAIN T /\ T[k].root = A(n)
  BY <1>1, AboveSteps DEF Near, RootsNear
<1>3. ASSUME NEW m \in 0..n PROVE T[A(m)].root = A(n)
  <2>1. /\ Near(T, A(m), n - m) /\ Above(T, A(m), n - m) = A(n)
        /\ n - m \in Nat /\ n - m <= n
    BY <1>1, NearSuffix
  <2>2. n - m \in 0..Guard /\ A(m) \in DOMAIN T
    BY <1>1, <2>1 DEF Near
  <2> HIDE DEF A
  <2> QED
    BY <2>1, <2>2 DEF RootsNear
<1>4. ASSUME NEW m \in 0..(n - 1)
      PROVE  /\ A(m) \in DOMAIN T /\ A(m + 1) = Link(T, A(m)) /\ A(m)[1] # A(n)[1]
             /\ m \in 0..n
  <2>1. m \in 0..n /\ A(m) \in DOMAIN T /\ A(m + 1) = Link(T, A(m)) /\ A(m) # A(n)
    BY <1>1, NearStep
  <2> QED
    BY <1>2, <2>1
<1>5. CASE n = 0
  BY <1>2, <1>5
<1>6. CASE n # 0
  <2> DEFINE Good == {m \in Nat : \/ m <= n /\ st(m).at = A(m) /\ st(m).level = m
                                  \/ st(m).at = A(n) /\ st(m).level = n}
  <2>1. 0 \in Good
    BY <1>1, <1>2, ClimbedSteps
  <2>2. ASSUME NEW m \in Good PROVE m + 1 \in Good
    <3>1. /\ m \in Nat
          /\ \/ m <= n /\ st(m).at = A(m) /\ st(m).level = m
             \/ st(m).at = A(n) /\ st(m).level = n
      OBVIOUS
    <3>2. st(m) \in Climbing /\ st(m + 1) = Climb(T)[st(m)]
      BY <3>1, ClimbedSteps
    <3> PICK s : s = st(m)
      OBVIOUS
    <3>3. /\ s \in [at : Keys, level : Nat] /\ st(m + 1) = Climb(T)[s]
          /\ \/ m <= n /\ s.at = A(m) /\ s.level = m
             \/ s.at = A(n) /\ s.level = n
      BY ONLY <3>1, <3>2, s = st(m) DEF Climbing
    <3>4. CASE s.at = A(n) /\ s.level = n
      <4>1. T[A(n)].root = A(n)
        BY <1>1, <1>3
      <4>2. Climb(T)[s] = s
        BY <1>2, <3>3, <3>4, <4>1 DEF Climb
      <4> QED
        BY <3>1, <3>3, <3>4, <4>2
    <3>5. CASE m <= n /\ m # n /\ s.at = A(m) /\ s.level = m
      <4>1. m \in 0..(n - 1) /\ m + 1 <= n /\ m + 1 \in Nat
        BY <1>1, <3>1, <3>5
      <4>2. /\ A(m) \in DOMAIN T /\ A(m + 1) = Link(T, A(m)) /\ A(m)[1] # A(n)[1]
            /\ T[A(m)].root = A(n)
        BY <1>3, <1>4, <4>1
      <4> HIDE DEF A
      <4>3. Climb(T)[s] = [at |-> A(m + 1), level |-> m + 1]
        BY <3>3, <3>5, <4>2 DEF Climb
      <4> QED
        BY <3>1, <3>3, <4>1, <4>3
    <3> QED
      BY <3>3, <3>4, <3>5
  <2> HIDE DEF Good
  <2>3. Good \subseteq Nat
    BY DEF Good
  <2>4. Guard \in Good
    BY <1>1, <2>1, <2>2, <2>3, Induction
  <2>5. st(Guard).level = n
    BY <1>1, <2>4 DEF Good
  <2>6. LinkLevel(T, k) = st(Guard).level
    BY DEF LinkLevel, Climbed
  <2>7. T[k].root[1] # k[1]
    <3>1. 0 \in 0..(n - 1)
      BY <1>1, <1>6
    <3> QED
      BY <1>2, <1>4, <3>1
  <2> QED
    BY <2>5, <2>6, <2>7
<1> QED
  BY <1>5, <1>6


(* Once the tree is built, the root of every record is the nearest stop    *)
(* process above it, or the topmost process, and its level the number of   *)
(* links to there, in whatever order the records were linked, whatever     *)
(* processes came and went meanwhile and whose ids they used.              *)
THEOREM RootsAreNearest == Spec => []RootIsNearestStop
<1>1. Init => NearestInv /\ RootIsNearestStop
  BY DEF Init, NearestInv, RootIsNearestStop
<1>2. BaseInv /\ NearestInv /\ RootIsNearestStop /\ [Next]_vars => RootIsNearestStop'
  <2> SUFFICES ASSUME BaseInv, NearestInv, RootIsNearestStop, [Next]_vars, step' = "built"
               PROVE  RootIsNearestStop'
    BY DEF RootIsNearestStop
  <2> DEFINE T == g_ProcessTree
  <2>1. CASE SetLevels
    <3>1. IsTree(T) /\ step = "link" /\ Unlinked = {}
      BY <2>1, OldTree DEF BaseInv, SetLevels
    <3>2. RootsNear(T)
      BY <3>1, NearestIsNear DEF NearestInv, RootsNear
    <3>3. IsTree(T') /\ DOMAIN T' = DOMAIN T
      BY <2>1, LevelsTree
    <3>4. ASSUME NEW k \in DOMAIN T', NEW n \in 0..Guard, Near(T', k, n)
          PROVE  T'[k].root = Above(T', k, n) /\ T'[k].level = n
      <4>1. k \in DOMAIN T /\ k \in Keys /\ n \in Nat
        BY <3>1, <3>3, BoundsAssumption DEF IsTree
      <4>2. /\ Relinked(T, T', k) /\ Link(T, k) = Link(T', k) /\ T'[k].root = T[k].root
            /\ T'[k].level = IF T[k].root[1] = k[1] THEN 0 ELSE LinkLevel(T, k)
        BY <2>1, <4>1, LevelsTree DEF Relinked, Link
      <4>3. Near(T, k, n) /\ Above(T, k, n) = Above(T', k, n)
        BY <3>1, <3>3, <3>4, <4>1, <4>2, NearKept
      <4>4. \A j \in DOMAIN T : T[j].root # NoKey
        BY <3>1 DEF Unlinked
      <4>5. \A i, j \in DOMAIN T : i[1] = j[1] => i = j
        BY <3>1 DEF BaseInv, SnapshotInv
      <4>6. (IF T[k].root[1] = k[1] THEN 0 ELSE LinkLevel(T, k)) = n
        BY <3>1, <3>2, <4>1, <4>3, <4>4, <4>5, LevelIsNear
      <4>7. T[k].root = Above(T, k, n)
        BY <3>2, <4>1, <4>3, <4>4 DEF RootsNear
      <4> QED
        BY <4>2, <4>3, <4>6, <4>7
    <3>5. RootIsNearestStop' <=>
            (step' = "built" =>
               \A k \in DOMAIN T', n \in 0..Guard :
                 Near(T', k, n) => T'[k].root = Above(T', k, n) /\ T'[k].level = n)
      BY DEF RootIsNearestStop, Nearest, Near, Top, Ancestor, Above
    <3> QED
      BY <3>4, <3>5
  <2>2. CASE UNCHANGED <<g_ProcessTree, step>>
    BY <2>2 DEF RootIsNearestStop, Nearest, Ancestor
  <2>3. [Next]_vars => SetLevels \/ UNCHANGED <<g_ProcessTree, step>>
    BY DEF Next, Build, Choose, AddRecord, LinkRecord, BuildProcessTreeSnapshot, FindProcessChain,
           FindProcessChainByPid, StartPrinting, PrintProcessChain, StartProcess, EndProcess,
           vars, program
  <2> QED
    BY <2>1, <2>2, <2>3
<1> QED
  BY <1>1, <1>2, BaseInvariant, NearestStep, PTL DEF Spec

-----------------------------------------------------------------------------
(* Printing.                                                               *)

(* What is n links up from the record one link up is n + 1 links up.       *)
LEMMA LowerFromParent ==
  ASSUME IsTree(g_ProcessTree), NEW k \in Keys, NEW n \in Nat, AtHeight(k, n + 1)
  PROVE  AtHeight(Ancestor(k, 1), n)
<1>1. \A m \in Nat : Ancestor(Ancestor(k, 1), m) = Ancestor(k, m + 1)
  BY AboveSum DEF Ancestor, Above
<1>2. \A m \in 0..n : m + 1 \in 0..(n + 1)
  OBVIOUS
<1>3. \A m \in 1..n : m + 1 \in 1..(n + 1)
  OBVIOUS
<1> QED
  BY <1>1, <1>2, <1>3 DEF AtHeight

(* Where the start times are known PrintProcessChain follows the links the *)
(* tree was built with, one a round, whatever the system does meanwhile.   *)
THEOREM PrintingGoesUp == Spec => PrintingClimbs
<1>1. ASSUME BaseInv, [Next]_vars, current' # current, NEW n \in 0..Size,
             step = "print", step' = "print", AtHeight(current, n)
      PROVE  n > 0 /\ AtHeight(current', n - 1)
  <2> DEFINE record == g_ProcessTree[current]
  <2>1. PrintProcessChain
    BY <1>1 DEF Next, vars, program, system, Build, Choose, AddRecord, LinkRecord, SetLevels,
                BuildProcessTreeSnapshot, AtMenu, FindProcessChain, FindProcessChainByPid,
                StartProcess, EndProcess
  <2>2. IsTree(g_ProcessTree) /\ current \in DOMAIN g_ProcessTree /\ current \in Keys
    BY <1>1, OldTree DEF BaseInv, TypeOK
  <2>3. /\ record.parent # 0
        /\ current' = <<record.parent, IF record.parentStart = 0 THEN GetProcStartTime(record.parent)
                                       ELSE record.parentStart>>
    BY <1>1, <2>1 DEF PrintProcessChain
  <2>4. n \in Nat /\ Ancestor(current, 0) = current
    BY <2>2, AboveSteps DEF Ancestor, Above
  <2>5. n > 0
    BY <1>1, <2>3, <2>4 DEF AtHeight
  <2>6. Ancestor(current, 1) = <<record.parent, record.parentStart>>
    <3>1. Ancestor(current, 0 + 1) = Up(g_ProcessTree)[current]
      BY <2>2, <2>4, AboveSteps DEF Ancestor, Above
    <3> QED
      BY <2>2, <3>1 DEF Up, Link
  <2>7. record.parentStart # 0
    BY <1>1, <2>4, <2>5, <2>6 DEF AtHeight
  <2>8. current' = Ancestor(current, 1) /\ n - 1 \in Nat /\ (n - 1) + 1 = n
    BY <2>3, <2>4, <2>5, <2>6, <2>7
  <2> QED
    BY <1>1, <2>2, <2>5, <2>8, LowerFromParent
<1>2. BaseInv /\ [Next]_vars =>
        [\A n \in 0..Size : step = "print" /\ step' = "print" /\ AtHeight(current, n) =>
           n > 0 /\ AtHeight(current', n - 1)]_current
  BY <1>1
<1> QED
  BY <1>2, BaseInvariant, PTL DEF Spec, PrintingClimbs
=============================================================================

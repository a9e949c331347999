---------------------------- MODULE ProcessChain ----------------------------
(***************************************************************************)
(* The process tree of ProcessChainDemo/ProcessChainDemo.cpp: a snapshot   *)
(* of the system's processes, keyed by process id and start time, the      *)
(* search for the root of each, its level, and the printing of a chain.    *)
(*                                                                         *)
(* The snapshot has ids only.  Start times, and what is not in the tree,   *)
(* are asked for by id later on, while processes go on starting and        *)
(* ending and ids are used again: a parent's start time can be that of a   *)
(* process which is no ancestor, and the links can form a cycle.  The      *)
(* system's processes are part of the model; a process is named by its     *)
(* start time, its place in procs.                                         *)
(***************************************************************************)
EXTENDS Naturals, Sequences, FiniteSets

CONSTANTS Pids,      \* process ids; 0 is none
          Sealed,    \* ids of processes that OpenProcess cannot open
          MaxProcs,  \* bound on the processes the system ever starts
          Guard      \* bound of the guarded loops, 100 in the source

ASSUME PidsAssumption == Pids \subseteq Nat \ {0} /\ Sealed \subseteq Pids
ASSUME BoundsAssumption == {MaxProcs, Guard} \subseteq Nat \ {0}

VARIABLES
  procs, alive,  \* the processes started so far, and those that run
  g_ProcessTree, \* from keys to records; a root of NoKey is none yet
  step,          \* what the program is doing
  todo,          \* entries of the snapshot still to be added
  shown, current \* the record whose chain is printed, and how far it is

system  == <<procs, alive>>
program == <<g_ProcessTree, step, todo, shown, current>>
vars    == <<system, program>>

Starts  == 1..MaxProcs
Process == [pid : Pids, parent : Pids \cup {0}, stop : BOOLEAN]
NoKey   == <<0, 0>>
Keys    == (Pids \cup {0}) \X (Starts \cup {0})
Records == [stop : BOOLEAN, parent : Pids \cup {0}, parentStart : Starts \cup {0},
            root : Keys, level : 0..Guard]

(* Types; what is printed is a record of the tree, as the loop of          *)
(* PrintProcessChain needs it to be.                                       *)
TypeOK ==
  /\ procs \in Seq(Process) /\ Len(procs) <= MaxProcs
  /\ alive \in SUBSET (1..Len(procs))
  /\ DOMAIN g_ProcessTree \subseteq Keys
  /\ g_ProcessTree \in [DOMAIN g_ProcessTree -> Records]
  /\ step \in {"menu", "add", "link", "built", "print"}
  /\ todo \in SUBSET (1..Len(procs))
  /\ {shown, current} \subseteq (IF step = "print" THEN DOMAIN g_ProcessTree ELSE {NoKey})

Init ==
  /\ \E p \in Process : p.parent = 0 /\ procs = <<p>>
  /\ alive = {1}
  /\ g_ProcessTree = <<>>
  /\ step = "menu"
  /\ todo = {}
  /\ shown = NoKey
  /\ current = NoKey

-----------------------------------------------------------------------------
(* What the system answers about a process id.                             *)

Owner(pid) == {k \in alive : procs[k].pid = pid}
Opened(pid) == IF pid \in Sealed THEN {} ELSE Owner(pid)

(* 0 when the process is gone or cannot be opened. *)
GetProcStartTime(pid) ==
  IF Opened(pid) = {} THEN 0 ELSE CHOOSE k \in Opened(pid) : TRUE

(* The name of the process that has the id now: that of a stop process, or *)
(* none at all?                                                            *)
StopOrNoName(pid) == \A k \in Opened(pid) : procs[k].stop

-----------------------------------------------------------------------------
(* Lookup and search.  T is the tree.                                      *)

Link(T, k) == <<T[k].parent, T[k].parentStart>>

(* What n rounds of a loop make of its state s, each applying F.           *)
Iterate(F, s, n) ==
  LET after[m \in 0..n] == IF m = 0 THEN s ELSE F[after[m - 1]]
  IN  after[n]

(* The loop of SetProcessRootInfo: the key it looks at, the last valid     *)
(* ancestor, and the root once it has found one, which ends it.            *)
Search == [at : Keys, last : Keys, root : Keys]

(* Mutant of Round: no look for a stop process. *)
RoundPastStop(T) ==
  [s \in Search |->
     IF s.root # NoKey \/ s.at[1] = 0 THEN s
     ELSE IF s.at \notin DOMAIN T
       THEN [s EXCEPT !.root = IF StopOrNoName(s.at[1]) THEN s.at ELSE s.last]
     ELSE IF T[s.at].root # NoKey THEN [s EXCEPT !.root = T[s.at].root]
     ELSE IF 0 \in {T[s.at].parent, T[s.at].parentStart} THEN [s EXCEPT !.root = s.at]
     ELSE [s EXCEPT !.at = Link(T, s.at), !.last = s.at]]

(* One round of it. *)
Round(T) ==
  [s \in Search |->
     IF s.root # NoKey \/ s.at[1] = 0 THEN s
     ELSE IF s.at \notin DOMAIN T
       THEN [s EXCEPT !.root = IF StopOrNoName(s.at[1]) THEN s.at ELSE s.last]
     ELSE IF T[s.at].stop THEN [s EXCEPT !.root = s.at]
     ELSE IF T[s.at].root # NoKey THEN [s EXCEPT !.root = T[s.at].root]
     ELSE IF 0 \in {T[s.at].parent, T[s.at].parentStart} THEN [s EXCEPT !.root = s.at]
     ELSE [s EXCEPT !.at = Link(T, s.at), !.last = s.at]]

(* The root for the record at key k, which is its own last ancestor first. *)
RootFor(T, k) ==
  LET end == Iterate(Round(T), [at |-> Link(T, k), last |-> k, root |-> NoKey], Guard)
  IN  IF end.root # NoKey THEN end.root ELSE end.last

(* Mutant of SetProcessRootInfo: the start time that was found is not kept. *)
SetRootOnly(T, k) ==
  LET start == IF T[k].parentStart = 0 /\ T[k].parent # 0
               THEN GetProcStartTime(T[k].parent) ELSE T[k].parentStart
  IN  [T EXCEPT ![k].root = RootFor([T EXCEPT ![k].parentStart = start], k)]

(* SetProcessRootInfo for the record at key k, which it changes in place.  *)
SetProcessRootInfo(T, k) ==
  LET start == IF T[k].parentStart = 0 /\ T[k].parent # 0
               THEN GetProcStartTime(T[k].parent) ELSE T[k].parentStart
      U     == [T EXCEPT ![k].parentStart = start]
  IN  [U EXCEPT ![k].root = RootFor(U, k)]

(* The level of the record at key k: the links from it to a record that is *)
(* its own root, by process id, or to where there is none.                 *)
Climb(T) ==
  [s \in [at : Keys, level : Nat] |->
     IF s.at \notin DOMAIN T THEN s
     ELSE IF T[s.at].root[1] = s.at[1] THEN s
     ELSE [at |-> Link(T, s.at), level |-> s.level + 1]]

LinkLevel(T, k) == Iterate(Climb(T), [at |-> k, level |-> 0], Guard).level

Extended(T, k, r) == [j \in DOMAIN T \cup {k} |-> IF j = k THEN r ELSE T[j]]

Record(stop, parent) ==
  [stop |-> stop, parent |-> parent,
   parentStart |-> IF parent = 0 THEN 0 ELSE GetProcStartTime(parent),
   root |-> NoKey, level |-> 0]

-----------------------------------------------------------------------------
(* Choice 1, and the beginning of main.                                    *)

AtMenu == step \in {"menu", "built"}

BuildProcessTreeSnapshot ==
  /\ AtMenu
  /\ g_ProcessTree' = <<>>
  /\ \/ step' = "add" /\ todo' = alive
     \/ step' = "menu" /\ UNCHANGED todo  \* there is no snapshot
  /\ UNCHANGED <<system, shown, current>>

(* One entry of the snapshot: id, parent and name are those of the         *)
(* snapshot, both start times those of now.                                *)
AddRecord ==
  /\ step = "add"
  /\ \E k \in todo :
       /\ \A j \in todo : k <= j
       /\ g_ProcessTree' = Extended(g_ProcessTree,
                             <<procs[k].pid, GetProcStartTime(procs[k].pid)>>,
                             Record(procs[k].stop, procs[k].parent))
       /\ todo' = todo \ {k}
       /\ step' = IF todo = {k} THEN "link" ELSE "add"
  /\ UNCHANGED <<system, shown, current>>

Unlinked == {k \in DOMAIN g_ProcessTree : g_ProcessTree[k].root = NoKey}
Before(j, k) == j[1] < k[1] \/ (j[1] = k[1] /\ j[2] <= k[2])

(* The second pass, in the order of the keys. *)
LinkRecord ==
  /\ step = "link"
  /\ \E k \in Unlinked :
       /\ \A j \in Unlinked : Before(k, j)
       /\ g_ProcessTree' = IF g_ProcessTree[k].stop
                           THEN [g_ProcessTree EXCEPT ![k].root = k]
                           ELSE SetProcessRootInfo(g_ProcessTree, k)
  /\ UNCHANGED <<system, step, todo, shown, current>>

(* The third pass. *)
SetLevels ==
  /\ step = "link"
  /\ Unlinked = {}
  /\ g_ProcessTree' = [k \in DOMAIN g_ProcessTree |->
                         [g_ProcessTree[k] EXCEPT
                            !.level = IF g_ProcessTree[k].root[1] = k[1] THEN 0
                                      ELSE LinkLevel(g_ProcessTree, k)]]
  /\ step' = "built"
  /\ UNCHANGED <<system, todo, shown, current>>

-----------------------------------------------------------------------------
(* Choices 3, 4 and 5.                                                     *)

StartPrinting(k) == step' = "print" /\ shown' = k /\ current' = k

(* One of the records whose name matches. *)
FindProcessChain ==
  /\ AtMenu
  /\ \E k \in DOMAIN g_ProcessTree : StartPrinting(k)
  /\ UNCHANGED <<system, g_ProcessTree, todo>>

(* A process that is not in the tree gets there, with its root. *)
FindProcessChainByPid ==
  /\ AtMenu
  /\ \E pid \in Pids :
       LET start == GetProcStartTime(pid)
           k     == <<pid, start>>
       IN  /\ start # 0
           /\ StartPrinting(k)
           /\ g_ProcessTree' =
                IF k \in DOMAIN g_ProcessTree THEN g_ProcessTree
                ELSE SetProcessRootInfo(
                       Extended(g_ProcessTree, k,
                                Record(procs[start].stop, procs[start].parent)), k)
  /\ UNCHANGED <<system, todo>>

(* Mutant of PrintProcessChain: every round looks from the same record. *)
PrintSameRecord ==
  /\ step = "print"
  /\ LET record == g_ProcessTree[shown]
         parent == <<record.parent, record.parentStart>>
         ends   == \/ record.parent = 0
                   \/ parent \notin DOMAIN g_ProcessTree
                   \/ parent[1] = record.root[1]
     IN  IF ends THEN step' = "menu" /\ shown' = NoKey /\ current' = NoKey
                 ELSE current' = parent /\ UNCHANGED <<step, shown>>
  /\ UNCHANGED <<system, g_ProcessTree, todo>>

(* Mutant of PrintProcessChain: the start time is always asked for anew. *)
PrintCurrentOwner ==
  /\ step = "print"
  /\ LET record == g_ProcessTree[current]
         parent == <<record.parent, GetProcStartTime(record.parent)>>
         ends   == \/ record.parent = 0
                   \/ parent \notin DOMAIN g_ProcessTree
                   \/ parent[1] = g_ProcessTree[shown].root[1]
     IN  IF ends THEN step' = "menu" /\ shown' = NoKey /\ current' = NoKey
                 ELSE current' = parent /\ UNCHANGED <<step, shown>>
  /\ UNCHANGED <<system, g_ProcessTree, todo>>

(* One round of the loop of PrintProcessChain, which has no guard. *)
PrintProcessChain ==
  /\ step = "print"
  /\ LET record == g_ProcessTree[current]
         start  == IF record.parentStart = 0 THEN GetProcStartTime(record.parent)
                   ELSE record.parentStart
         parent == <<record.parent, start>>
         ends   == \/ record.parent = 0
                   \/ parent \notin DOMAIN g_ProcessTree
                   \/ parent[1] = g_ProcessTree[shown].root[1]
     IN  IF ends THEN step' = "menu" /\ shown' = NoKey /\ current' = NoKey
                 ELSE current' = parent /\ UNCHANGED <<step, shown>>
  /\ UNCHANGED <<system, g_ProcessTree, todo>>

-----------------------------------------------------------------------------
(* The system: an id is used again once its process has ended.             *)

StartProcess ==
  /\ Len(procs) < MaxProcs
  /\ \E k \in alive, pid \in Pids, stop \in BOOLEAN :
       /\ Owner(pid) = {}
       /\ procs' = Append(procs, [pid |-> pid, parent |-> procs[k].pid, stop |-> stop])
  /\ alive' = alive \cup {Len(procs) + 1}
  /\ UNCHANGED program

(* The program itself runs. *)
EndProcess ==
  /\ \E k \in alive : alive # {k} /\ alive' = alive \ {k}
  /\ UNCHANGED <<procs, program>>

-----------------------------------------------------------------------------
Build == AddRecord \/ LinkRecord \/ SetLevels

Choose == BuildProcessTreeSnapshot \/ FindProcessChain \/ FindProcessChainByPid

Next == Build \/ Choose \/ PrintProcessChain \/ StartProcess \/ EndProcess

Spec == Init /\ [][Next]_vars

(* The program goes on with what it has begun; nobody has to choose. *)
FairSpec == Spec /\ WF_vars(Build) /\ WF_vars(PrintProcessChain)

-----------------------------------------------------------------------------
(* One link up; a key where the links leave the tree stays. *)
Up(T) == [j \in Keys |-> IF j \in DOMAIN T THEN Link(T, j) ELSE j]

(* The record n links above k, or the key where the links leave the tree. *)
Ancestor(k, n) == Iterate(Up(g_ProcessTree), k, n)

Size == Cardinality(DOMAIN g_ProcessTree)
Line(k) == {Ancestor(k, n) : n \in 0..Size}
Ends(k) == Ancestor(k, Size) \notin DOMAIN g_ProcessTree

(* Whatever ids were used again: the root of a record is the record        *)
(* itself or lies on its line of parents, at most one link outside the     *)
(* tree.  Inheriting the root of a parent never leads astray.              *)
RootOnLine ==
  \A k \in DOMAIN g_ProcessTree :
    g_ProcessTree[k].root # NoKey => g_ProcessTree[k].root \in Line(k)

(* The line leads, n links up, to a record that has no parent, all of it   *)
(* in the tree, and the start time of every parent is known.               *)
AtHeight(k, n) ==
  /\ \A m \in 0..n : Ancestor(k, m) \in DOMAIN g_ProcessTree
  /\ \A m \in 1..n : Ancestor(k, m)[2] # 0
  /\ g_ProcessTree[Ancestor(k, n)].parent = 0

Complete(k) == \E n \in 0..Size : AtHeight(k, n)

(* The nearest stop process on k's line, or the topmost process, is n      *)
(* links up.  All of the line to there is in the tree, and each link on it *)
(* but k's own has a start time, of a process that is the elder: an id     *)
(* that somebody else has now would give the start time of a younger one.  *)
Nearest(k, n) ==
  LET record(m) == g_ProcessTree[Ancestor(k, m)]
  IN  /\ \A m \in 0..n : Ancestor(k, m) \in DOMAIN g_ProcessTree
      /\ record(n).stop \/ record(n).parent = 0
      /\ \A m \in 0..(n - 1) : ~record(m).stop /\ record(m).parent # 0
      /\ \A m \in 1..(n - 1) : record(m).parentStart \in 1..(Ancestor(k, m)[2] - 1)

(* Once the tree is built, a record has the nearest stop process on its    *)
(* line as its root, or the topmost process, and its level is the number   *)
(* of links to it: whichever of its ancestors was given its root first.    *)
RootIsNearestStop ==
  step = "built" =>
    \A k \in DOMAIN g_ProcessTree, n \in 0..Guard : Nearest(k, n) =>
      /\ g_ProcessTree[k].root = Ancestor(k, n)
      /\ g_ProcessTree[k].level = n

(* On a complete line each round of the printing loop, which has no guard, *)
(* is one link nearer to the top, although processes come and go meanwhile *)
(* and a round may ask the system for a start time.                        *)
PrintingClimbs ==
  [][\A n \in 0..Size : step = "print" /\ step' = "print" /\ AtHeight(current, n) =>
       n > 0 /\ AtHeight(current', n - 1)]_current

(* The chain of a record whose line is complete gets printed. *)
CompleteChainEnds ==
  (step = "print" /\ Complete(shown)) ~> (step = "menu")

(* The level of a record is its distance from its root, "the level to the  *)
(* root".  Stated of the records whose line comes to an end; where a start *)
(* time on it is not known, the root depends on the order of the ids.      *)
LevelIsToRoot ==
  step = "built" =>
    \A k \in DOMAIN g_ProcessTree :
      Ends(k) => Ancestor(k, g_ProcessTree[k].level) = g_ProcessTree[k].root
=============================================================================

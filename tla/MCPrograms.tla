---------------------------- MODULE MCPrograms ----------------------------
(* One of the repository's straight routines runs, or the monitor of       *)
(* Explorer windows, or the program whose threads take their numbers from  *)
(* main's counter.                                                         *)
EXTENDS ExplorerSink, ParamHandoff, ProcessCode, LoginCode, SystemCode, ShellCode, TLC
VARIABLES routine, todo, held, gone, lost, misused, failed, result
ledgerVars == <<routine, todo, held, gone, lost, misused, failed, result>>

L == INSTANCE Ledger
       WITH Routines <- ProcessRoutines @@ LoginRoutines @@ SystemRoutines @@ ShellRoutines

Start == Init /\ L!Init /\ HandoffInit

RunRoutine ==
  /\ main = "new" /\ starter = "init"
  /\ L!Next /\ UNCHANGED <<sinkVars, handoffVars>>
RunMonitor ==
  /\ routine = "none" /\ starter = "init"
  /\ Next /\ UNCHANGED <<ledgerVars, handoffVars>>
RunHandoff ==
  /\ routine = "none" /\ main = "new"
  /\ HandoffNext /\ UNCHANGED <<sinkVars, ledgerVars>>

Programs ==
  /\ Start
  /\ [][RunRoutine \/ RunMonitor \/ RunHandoff]_<<sinkVars, ledgerVars, handoffVars>>
  /\ Fairness

(* A routine that returns has released what it acquired, on every path of  *)
(* its errors, or leaves what its entry names.                             *)
NothingElseLeft == L!NothingElseLeft

(* No routine uses or releases what it has released or never acquired, or  *)
(* releases it by another allocator's function.                            *)
NothingDeadUsed == L!NothingDeadUsed

(* No routine reads memory that a call has failed to give it.              *)
NothingMissingRead == L!NothingMissingRead

(* No routine reports success over a call that has failed.                 *)
SuccessIsReal == L!SuccessIsReal
=============================================================================

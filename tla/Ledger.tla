------------------------------- MODULE Ledger -------------------------------
(***************************************************************************)
(* Runs a routine that is written with the steps of Calls, with every      *)
(* outcome of every call, and keeps book of what it holds.                 *)
(***************************************************************************)
EXTENDS Integers, Sequences, SequencesExt

CONSTANT Routines  \* name -> routine, see Calls

VARIABLES routine, \* the routine that runs
          todo,    \* its remaining steps
          held,    \* the resources it has acquired and not released
          gone,    \* variables with a value that is no live resource
          lost,    \* resources whose variable was overwritten
          misused, \* dead values that were given to a call or released again, and
                   \* live ones released by a function that does not belong to them
          failed,  \* a call has failed
          result   \* "none" while it runs, "crashed" when memory was not there

vars == <<routine, todo, held, gone, lost, misused, failed, result>>

Init ==
  /\ routine = "none" /\ todo = <<>>
  /\ held = {} /\ gone = {} /\ lost = {} /\ misused = {}
  /\ failed = FALSE /\ result = "none"

Begin(r) ==
  /\ routine = "none"
  /\ routine' = r /\ todo' = Routines[r].body
  /\ UNCHANGED <<held, gone, lost, misused, failed, result>>

-----------------------------------------------------------------------------
step == Head(todo)
rest == Tail(todo)

At(kinds) == result = "none" /\ todo # <<>> /\ step.do \in kinds

(* What follows the next mark of one of these kinds. *)
Following(kinds) ==
  LET IsMark(s) == s.do \in kinds
  IN  SubSeq(rest, SelectInSeq(rest, IsMark), Len(rest))

Books == <<held, gone, lost, misused, failed>>

Acquire ==
  /\ At({"get", "out", "take", "grow"})
  /\ held' = held \cup step.on /\ gone' = gone \ step.on
  /\ lost' = IF step.do = "grow" THEN lost ELSE lost \cup (held \cap step.on)
  /\ todo' = rest
  /\ UNCHANGED <<routine, misused, failed, result>>

AcquireFails ==
  /\ At({"get", "out", "grow"})
  /\ IF step.do = "out"
     THEN UNCHANGED <<held, gone, lost>>
     ELSE /\ held' = held \ step.on /\ gone' = gone \ step.on
          /\ lost' = lost \cup (held \cap step.on)
  /\ todo' = step.a \o rest
  /\ failed' = TRUE
  /\ UNCHANGED <<routine, misused, result>>

(* What a dead value leads to is not known: the call may work, or memory   *)
(* be there, all the same.                                                 *)
Works ==
  /\ At({"do", "must"})
  /\ step.on \subseteq held \cup gone
  /\ misused' = misused \cup (step.on \cap gone)
  /\ todo' = rest
  /\ UNCHANGED <<routine, held, gone, lost, failed, result>>

WorksNot ==
  /\ At({"do"})
  /\ misused' = misused \cup (step.on \cap gone)
  /\ todo' = step.a \o rest
  /\ failed' = TRUE
  /\ UNCHANGED <<routine, held, gone, lost, result>>

Crash ==
  /\ At({"must"})
  /\ ~(step.on \subseteq held)
  /\ misused' = misused \cup (step.on \cap gone)
  /\ todo' = <<>> /\ result' = "crashed"
  /\ UNCHANGED <<routine, held, gone, lost, failed>>

(* Releasing NULL does nothing.  Characters that new[] made come from the  *)
(* heap that delete and free give back to: they are released all the same. *)
Release ==
  /\ At({"free", "drop", "mismatch"})
  /\ misused' = misused \cup (step.on \cap (IF step.do = "mismatch" THEN gone \cup held ELSE gone))
  /\ held' = held \ step.on
  /\ gone' = IF step.do = "free" THEN gone \cup (step.on \cap held) ELSE gone \ step.on
  /\ todo' = rest
  /\ UNCHANGED <<routine, lost, failed, result>>

Declare ==
  /\ At({"uninit"})
  /\ held' = held \ step.on /\ gone' = gone \cup step.on
  /\ lost' = lost \cup (held \cap step.on)
  /\ todo' = rest
  /\ UNCHANGED <<routine, misused, failed, result>>

Branch ==
  /\ \/ At({"if"}) /\ \E way \in {step.a, step.b} : todo' = way \o rest
     \/ At({"while"}) /\ todo' \in {step.a \o todo, rest}
     \/ At({"ifset"}) /\ todo' = (IF step.on \subseteq held \cup gone THEN step.a ELSE step.b) \o rest
  /\ UNCHANGED <<routine, Books, result>>

Jump ==
  /\ \/ At({"end"}) /\ todo' = rest
     \/ At({"break"}) /\ todo' = Tail(Following({"while"}))
     \/ At({"continue"}) /\ todo' = Following({"while"})
     \/ At({"leave"}) /\ todo' = Tail(Following({"end"}))
  /\ UNCHANGED <<routine, Books, result>>

Return ==
  /\ At({"ret"})
  /\ result' \in step.on /\ todo' = <<>>
  /\ UNCHANGED <<routine, Books>>

Next ==
  \/ \E r \in DOMAIN Routines : Begin(r)
  \/ Acquire \/ AcquireFails \/ Works \/ WorksNot \/ Crash \/ Release
  \/ Declare \/ Branch \/ Jump \/ Return

Spec == Init /\ [][Next]_vars

-----------------------------------------------------------------------------
Breaks(promise) == routine # "none" /\ promise \in Routines[routine].breaks

Returned == result \in {"ok", "fail", "done"}

(* Whichever calls fail, a routine that returns has released everything it *)
(* acquired, on each of its paths, or leaves what its entry says.          *)
NothingElseLeft == Returned => held \cup lost \subseteq Routines[routine].leaves

(* No routine works with, or releases, what it has released before or what *)
(* was never stored in its variable, nor releases by another allocator's   *)
(* function, on any path of errors.                                        *)
NothingDeadUsed == ~Breaks("live") => misused = {}

(* A routine that goes on after a failed call does not reach memory it     *)
(* would have got from that call.                                          *)
NothingMissingRead == ~Breaks("checked") => result # "crashed"

(* A routine that reports success has not lost a failure on the way.       *)
SuccessIsReal == ~Breaks("honest") /\ result = "ok" => ~failed
=============================================================================

------------------------------ MODULE KeyWatch ------------------------------
(***************************************************************************)
(* What a registry monitor owes the program that starts it.  The key is    *)
(* watched by one session at a time.  A session that listens is told of    *)
(* the next change, and of nothing but a change; one that has been asked   *)
(* to end takes no notice of changes any more; and a session ends only     *)
(* when it has been asked to, or when it cannot listen.  The owner may     *)
(* give up on a session it has asked: then nothing is promised any more.   *)
(***************************************************************************)
CONSTANT Sessions  \* the starts of the monitor

VARIABLES watch,  \* how far each session is
          asked,  \* the sessions asked to end
          kept    \* a change the next session that listens is told of at once

Active(t) == watch[t] \in {"busy", "listening", "told"}
Unwatched == \A t \in Sessions : ~Active(t)

Init ==
  /\ watch = [t \in Sessions |-> "new"]
  /\ asked = {}
  /\ kept = FALSE

Move(t, from, to) ==
  /\ watch[t] \in from
  /\ watch' = [watch EXCEPT ![t] = to]
  /\ UNCHANGED asked

Begin(t) ==
  /\ Unwatched
  /\ t \notin asked
  /\ Move(t, {"new"}, "busy")
  /\ UNCHANGED kept

Ask(t) ==
  /\ watch[t] # "unknown"
  /\ asked' = asked \cup {t}
  /\ UNCHANGED <<watch, kept>>

Listen(t) ==
  /\ Move(t, {"busy"}, IF kept THEN "told" ELSE "listening")
  /\ kept' = FALSE

(* The key changes.  With nobody listening the change may be kept. *)
Tell(t) == Move(t, {"listening"}, "told") /\ UNCHANGED kept

Keep ==
  /\ \A t \in Sessions : watch[t] \notin {"listening", "unknown"}
  /\ kept' = TRUE
  /\ UNCHANGED <<watch, asked>>

(* The key is closed. *)
Forget ==
  /\ Unwatched
  /\ kept' = FALSE
  /\ UNCHANGED <<watch, asked>>

Notice(t) ==
  /\ t \notin asked
  /\ Move(t, {"told"}, "busy")
  /\ UNCHANGED kept

End(t) ==
  /\ Move(t, IF t \in asked THEN {"busy", "listening", "told"} ELSE {"busy"}, "gone")
  /\ UNCHANGED kept

GiveUp(t) ==
  /\ Active(t)
  /\ t \in asked
  /\ watch' = [u \in Sessions |-> "unknown"]
  /\ asked' = {}
  /\ kept' = FALSE

Next ==
  \/ Keep \/ Forget
  \/ \E t \in Sessions :
       Begin(t) \/ Ask(t) \/ Listen(t) \/ Tell(t) \/ Notice(t) \/ End(t) \/ GiveUp(t)

Spec == Init /\ [][Next]_<<watch, asked, kept>>
=============================================================================

------------------------------ MODULE Reporting ------------------------------
(***************************************************************************)
(* What a status board owes the recovery of the parts it watches: a report *)
(* is settled, that is everything that shows it has been written, before   *)
(* anybody is called to act on it, and nobody acts on it twice.            *)
(***************************************************************************)
CONSTANT Reports  \* what can be reported

VARIABLES settled,   \* the reports that are shown wherever they have to be
          recovered  \* the reports somebody was called for

Init == settled = {} /\ recovered = {}

Settle(n) ==
  /\ n \notin settled
  /\ settled' = settled \cup {n}
  /\ UNCHANGED recovered

Recover(n) ==
  /\ n \in settled \ recovered
  /\ recovered' = recovered \cup {n}
  /\ UNCHANGED settled

Next == \E n \in Reports : Settle(n) \/ Recover(n)

Spec == Init /\ [][Next]_<<settled, recovered>>
=============================================================================

---------------------------- MODULE MCNcStatus ----------------------------
(* A small instance of NcStatus: the values come from NcStatus.cfg. *)
EXTENDS NcStatus, TLC

(* The threads are interchangeable. *)
Permuted == Permutations(Threads)
=============================================================================

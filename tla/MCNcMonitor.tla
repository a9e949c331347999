---------------------------- MODULE MCNcMonitor ----------------------------
(* A small instance of NcMonitor: the values come from the cfg files. *)
EXTENDS NcMonitor, TLC

(* Callers and check threads are interchangeable (safety runs only). *)
Permuted == Permutations(Callers) \cup Permutations(Checkers)
=============================================================================

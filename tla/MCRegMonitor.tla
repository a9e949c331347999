---------------------------- MODULE MCRegMonitor ----------------------------
(* A small instance of RegMonitor: the bound comes from the cfg files. *)
EXTENDS RegMonitor
=============================================================================

---------------------------- MODULE MCProcessChain ----------------------------
(* Four ids, one of a process that cannot be opened; the cfgs say how many *)
(* processes the system starts.                                            *)
EXTENDS ProcessChain
=============================================================================

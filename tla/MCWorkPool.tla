----------------------------- MODULE MCWorkPool -----------------------------
(* The three users of test_Class_WorkThreadPool, a pool each. *)
EXTENDS WorkPool
=============================================================================

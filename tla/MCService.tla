----------------------------- MODULE MCService ------------------------------
(* One service; the bound on its controls comes from the cfg file. *)
EXTENDS Service
=============================================================================

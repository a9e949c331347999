--------------------------- MODULE MCSemaphoreRing ---------------------------
(* Two runs of Test_Semaphore_D that may overlap. *)
EXTENDS SemaphoreRing
=============================================================================

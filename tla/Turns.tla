------------------------------- MODULE Turns --------------------------------
(***************************************************************************)
(* What Test_Semaphore_D promises: its three threads take turns, so that   *)
(* what is printed goes A, B, C, A, B, C ...                               *)
(***************************************************************************)
EXTENDS Naturals

VARIABLE last  \* the thread that printed last, 0 before the first letter

Ring    == 1..3
Succ(i) == (i % 3) + 1

Init == last = 0

PrintLetter(i) == i = Succ(last) /\ last' = i

Next == \E i \in Ring : PrintLetter(i)

Spec == Init /\ [][Next]_last
=============================================================================

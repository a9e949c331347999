------------------------------- MODULE Calls -------------------------------
(***************************************************************************)
(* The straight programs of the repository, each a sequence of calls into  *)
(* the system, are written down with the steps of this module.  A step     *)
(* keeps what decides whether a resource (a handle, a buffer, an           *)
(* interface) is held, released or leaked: which resource it needs,        *)
(* acquires or releases, and where the code goes when the call fails.      *)
(* Conditions on data are left open.                                       *)
(***************************************************************************)
EXTENDS Integers, Sequences

Step(do, on, a, b) == [do |-> do, on |-> on, a |-> a, b |-> b]

(* Calls.  A call that fails goes on with `fail', and then after the step, *)
(* unless `fail' ends in a jump.                                           *)
Get(r, fail)  == Step("get", {r}, fail, <<>>)    \* returns r, or NULL
Out(r, fail)  == Step("out", {r}, fail, <<>>)    \* stores r, or leaves the variable
Take(r)       == Step("take", {r}, <<>>, <<>>)   \* new: does not fail
Do(S, fail)   == Step("do", S, fail, <<>>)       \* works with the resources S
Must(S)       == Step("must", S, <<>>, <<>>)     \* reads or writes memory through S
Free(r)       == Step("free", {r}, <<>>, <<>>)   \* the variable keeps its value
Drop(r)       == Step("drop", {r}, <<>>, <<>>)   \* the variable is cleared
Mismatch(r)   == Step("mismatch", {r}, <<>>, <<>>) \* Drop, by another allocator's function
Grow(r, fail) == Step("grow", {r}, fail, <<>>)   \* realloc into the same variable
Uninit(r)     == Step("uninit", {r}, <<>>, <<>>) \* declared without a value

(* Control.  Break and Continue mean the next While of the code.           *)
If(a, b)       == Step("if", {}, a, b)
IfSet(r, a, b) == Step("ifset", {r}, a, b)  \* tests the variable for NULL
While(body)    == Step("while", {}, body, <<>>)
Repeat(body)   == body \o <<While(body)>>
Break          == Step("break", {}, <<>>, <<>>)
Continue       == Step("continue", {}, <<>>, <<>>)
Leave          == Step("leave", {}, <<>>, <<>>)  \* goto the next End
End            == Step("end", {}, <<>>, <<>>)
Ret(x)         == Step("ret", {x}, <<>>, <<>>)

Fail == <<Ret("fail")>>
Ok   == <<Ret("ok")>>
Done == <<Ret("done")>>  \* the result says nothing
Exit == <<Ret("exit")>>  \* the process ends here

On   == <<>>  \* the failure is ignored

(* A routine: its steps, the resources it may leave behind when it         *)
(* returns, and which of the promises of Ledger it breaks.                 *)
Routine(body, leaves, breaks) == [body |-> body, leaves |-> leaves, breaks |-> breaks]
Clean(body) == Routine(body, {}, {})
=============================================================================

----------------------------- MODULE MCAuthCli -----------------------------
(* AuthCli for TLC: two processes of one thread each, beside the commands. *)
EXTENDS AuthCli, TLC

CONSTANTS A, B, a1, b1, login, logout

MCThreads == {a1, b1}
MCProcs   == {A, B}
MCProcOf  == (a1 :> A) @@ (b1 :> B)
NoRuns    == {}
OneLogin  == {login}
OneLogout == {logout}

\* The processes run the same code: they may be swapped, each with its thread.
Alike == {f \in Permutations({a1, b1, A, B}) : f[a1] \in MCThreads /\ f[A] = MCProcOf[f[a1]]}

\* Bound: one call and one fault, or two calls and no fault.
CallsAndFaults == calls + faults <= 2
=============================================================================

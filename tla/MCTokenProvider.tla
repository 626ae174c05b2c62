-------------------------- MODULE MCTokenProvider --------------------------
(* TokenProvider for TLC: process A runs two download threads, process B one. *)
EXTENDS TokenProvider, TLC

CONSTANTS A, B, a1, a2, b1

MCProcs == {A, B}

StormThreads == {a1, a2, b1}
StormProcOf  == (a1 :> A) @@ (a2 :> A) @@ (b1 :> B)

=============================================================================

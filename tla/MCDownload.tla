----------------------------- MODULE MCDownload -----------------------------
(* Download for TLC: two days and a long history, or three, the last of them *)
(* never over, and a short one.                                              *)
EXTENDS Download

Last == Max(Days) * TicksPerDay

Small == \A k \in table : k < Last \/ (k = Last /\ runs <= 2 /\ faults <= 1)

=============================================================================

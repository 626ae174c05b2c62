----------------------------- MODULE MCFetchDay -----------------------------
(* FetchDay for TLC: two download threads, `--jobs 2`. *)
EXTENDS FetchDay

CONSTANTS f1, f2

MCFetchers == {f1, f2}
=============================================================================

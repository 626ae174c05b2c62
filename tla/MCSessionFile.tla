---------------------------- MODULE MCSessionFile ----------------------------
(* A mint, which saves under the flock, beside a login, which does not.      *)
EXTENDS SessionFile, TLC

CONSTANTS mint, login, earlier

MCSavers == {mint, login}
MCFlocked == {mint}
MCSize == (mint :> 2) @@ (login :> 1) @@ (earlier :> 1)

=============================================================================

------------------------------ MODULE DayStore ------------------------------
(***************************************************************************)
(* What a directory of day files promises, whoever downloads and whatever  *)
(* fails: files hold rows of the table, a vouch for a day is true when it  *)
(* is given, and no run removes a file.                                    *)
(***************************************************************************)
EXTENDS Naturals

CONSTANTS Days, TicksPerDay

VARIABLES
  table,     \* the rows the server holds, each the tick it falls on
  file,      \* the rows of a day's file
  vouched,   \* the days the manifest calls complete
  busy       \* a run is under way

vars == <<table, file, vouched, busy>>

RowsOf(d) == {k \in table : k \div TicksPerDay = d}

\* Nothing more can arrive for the day: the table has its last instant or a later row.
Sealed(d) == \E k \in table : k + 1 >= (d + 1) * TicksPerDay

Init == table = {} /\ file = [d \in Days |-> {}] /\ vouched = {} /\ busy = FALSE

Grow ==
  /\ table' # table /\ table \subseteq table'
  /\ \A k \in table' \ table, j \in table : j < k
  /\ UNCHANGED <<file, vouched, busy>>

Start == ~ busy /\ table # {} /\ busy' /\ UNCHANGED <<table, file, vouched>>
End   == busy /\ ~ busy' /\ UNCHANGED <<table, file, vouched>>

Replace(d) ==
  /\ busy
  /\ \E rows \in (SUBSET RowsOf(d)) \ {{}} : file' = [file EXCEPT ![d] = rows]
  /\ UNCHANGED <<table, vouched, busy>>

Vouch(d) ==
  /\ busy
  /\ Sealed(d) /\ file[d] = RowsOf(d)
  /\ vouched' = vouched \cup {d}
  /\ UNCHANGED <<table, file, busy>>

Withdraw(d) ==
  /\ busy
  /\ vouched' = vouched \ {d}
  /\ UNCHANGED <<table, file, busy>>

Lose(d) ==
  /\ ~ busy
  /\ file' = [file EXCEPT ![d] = {}]
  /\ UNCHANGED <<table, vouched, busy>>

Next == Grow \/ Start \/ End \/ \E d \in Days : Replace(d) \/ Vouch(d) \/ Withdraw(d) \/ Lose(d)

Spec == Init /\ [][Next]_vars

=============================================================================

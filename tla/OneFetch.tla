------------------------------ MODULE OneFetch ------------------------------
(***************************************************************************)
(* What fetch_day promises its caller, whatever goes wrong between: one    *)
(* outcome, after a bounded number of connections.  A verified outcome is  *)
(* every row of the day; a prefix or a kind of error is given only after   *)
(* the connections that justify it.                                        *)
(***************************************************************************)
EXTENDS Naturals, Sequences

CONSTANTS Fetchers, DayRows, Retries, ThrottleRetries

VARIABLES
  connections,   \* connections tried
  outcome,       \* "none" until the call is over
  kept           \* the rows handed to the caller, by their number in the day

vars == <<connections, outcome, kept>>

Budget == Retries + ThrottleRetries

Day == [i \in 1 .. DayRows |-> i]

\* What may be kept of a day: some of its rows, in their order and none twice.
InOrder(rows) == \A i, j \in DOMAIN rows : i < j => rows[i] < rows[j]
Parts == {rows \in UNION {[1 .. n -> 1 .. DayRows] : n \in 0 .. DayRows} : InOrder(rows)}

Init ==
  /\ connections = [f \in Fetchers |-> 0]
  /\ outcome = [f \in Fetchers |-> "none"]
  /\ kept = [f \in Fetchers |-> <<>>]

Try(f) ==
  /\ outcome[f] = "none" /\ connections[f] < Budget
  /\ connections' = [connections EXCEPT ![f] = @ + 1]
  /\ UNCHANGED <<outcome, kept>>

Return(f, how, rows) ==
  /\ outcome[f] = "none"
  /\ outcome' = [outcome EXCEPT ![f] = how]
  /\ kept' = [kept EXCEPT ![f] = rows]
  /\ UNCHANGED connections

ReturnDay(f) == connections[f] > 0 /\ Return(f, "ok", Day)

\* A day that begins at or after the snapshot has no rows to ask for.
ReturnNothing(f) == connections[f] = 0 /\ Return(f, "ok", <<>>)

ReturnPrefix(f) ==
  /\ connections[f] >= Retries
  /\ \E rows \in Parts : Return(f, "prefix", rows)

\* How many connections an error takes at least.
Least == [transient |-> Retries, throttled |-> ThrottleRetries, rejected |-> 2, fatal |-> 1]

Raise(f) ==
  \E error \in DOMAIN Least : connections[f] >= Least[error] /\ Return(f, error, <<>>)

\* The token provider raises in place of the connection, which is counted.
RaiseAuth(f) ==
  /\ outcome[f] = "none" /\ connections[f] < Budget
  /\ connections' = [connections EXCEPT ![f] = @ + 1]
  /\ outcome' = [outcome EXCEPT ![f] = "auth"]
  /\ UNCHANGED kept

Next == \E f \in Fetchers :
  Try(f) \/ ReturnDay(f) \/ ReturnNothing(f) \/ ReturnPrefix(f) \/ Raise(f) \/ RaiseAuth(f)

Spec == Init /\ [][Next]_vars

=============================================================================

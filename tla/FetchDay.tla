------------------------------ MODULE FetchDay ------------------------------
(***************************************************************************)
(* ChudApi.fetch_day (api.py): the export of one UTC day over SSE, retried *)
(* from scratch.  The fetchers are the download threads of one process:    *)
(* they share one token provider, and the API gives out DataStreams export *)
(* permits to all its clients.                                             *)
(***************************************************************************)
EXTENDS Integers, Sequences, FiniteSets

CONSTANTS
  Fetchers,         \* concurrent fetch_day calls, one per pool thread
  DayRows,          \* rows of the day each of them asks for
  Retries,          \* transient failures after which a fetch gives up
  ThrottleRetries,  \* 429s after which a fetch gives up
  DataStreams,      \* export permits of the API
  MaxExpiries       \* bound: expiries of the cached bearer in a behaviour

ASSUME FetchersAssumption == IsFiniteSet(Fetchers)

ASSUME CountsAssumption ==
  /\ DayRows \in Nat /\ MaxExpiries \in Nat
  /\ Retries \in Nat \ {0} /\ ThrottleRetries \in Nat \ {0} /\ DataStreams \in Nat \ {0}

VARIABLES
  pc, attempts, transient, throttled, invalidated,  \* locals of fetch_day
  rows, reported,        \* what the attempt holds: rows parsed, by their number in the day; done.rows
  sent,                  \* the API: rows of the day it has counted on an open connection
  hand,                  \* the bearer of the current connection
  refusedHand,           \* history: the bearer of the first 401, 0 before
  result,                \* what the call returned or raised
  bearer, minted,        \* the provider: cached bearer (0: none), bearers minted
  expiries

localVars  == <<pc, attempts, transient, throttled, invalidated, rows, reported, hand, refusedHand, result>>
sharedVars == <<sent, bearer, minted, expiries>>
vars == <<localVars, sharedVars>>

NoReport == -2     \* `reported is None`
NoCount  == -1     \* a `done` that names no `rows`

Day == [i \in 1 .. DayRows |-> i]

Results == {"none", "ok", "prefix", "rejected", "throttled", "transient", "fatal", "auth"}

Init ==
  /\ pc = [f \in Fetchers |-> "start"]
  /\ attempts = [f \in Fetchers |-> 0]
  /\ transient = [f \in Fetchers |-> 0]
  /\ throttled = [f \in Fetchers |-> 0]
  /\ invalidated = [f \in Fetchers |-> FALSE]
  /\ rows = [f \in Fetchers |-> <<>>]
  /\ reported = [f \in Fetchers |-> NoReport]
  /\ sent = [f \in Fetchers |-> 0]
  /\ hand = [f \in Fetchers |-> 0]
  /\ refusedHand = [f \in Fetchers |-> 0]
  /\ result = [f \in Fetchers |-> "none"]
  /\ bearer = 0 /\ minted = 0
  /\ expiries = 0

----------------------------------------------------------------------------
(* Ends of a call, and the counters that lead to them                      *)

Goto(f, point) == pc' = [pc EXCEPT ![f] = point]

End(f, r) ==
  /\ Goto(f, "end")
  /\ result' = [result EXCEPT ![f] = r]

\* Mutant: the limit is checked before the failure is counted.
CountTransientLate(f, exhausted) ==
  /\ transient' = [transient EXCEPT ![f] = @ + 1]
  /\ IF transient[f] >= Retries
       THEN End(f, exhausted)
       ELSE Goto(f, "connect") /\ UNCHANGED result

\* One more failure of a kind: sleep and connect again, or give up at the limit.
CountTransient(f, exhausted) ==
  /\ transient' = [transient EXCEPT ![f] = @ + 1]
  /\ IF transient[f] + 1 >= Retries
       THEN End(f, exhausted)
       ELSE Goto(f, "connect") /\ UNCHANGED result

\* An exception takes the attempt's rows with it, and so does the next attempt.
Drop(f) ==
  /\ rows' = [rows EXCEPT ![f] = <<>>]
  /\ reported' = [reported EXCEPT ![f] = NoReport]

Close(f) == sent' = [sent EXCEPT ![f] = 0]

----------------------------------------------------------------------------
(* fetch_day and _stream_day                                               *)

\* token() has to mint: it holds no bearer, or one that has expired by now.
NothingCached ==
  \/ bearer = 0 /\ UNCHANGED expiries
  \/ bearer # 0 /\ expiries < MaxExpiries /\ expiries' = expiries + 1

\* The loop top: attempts += 1, and tokens.token() gives the bearer it holds or mints.
Connect(f) ==
  /\ pc[f] \in {"start", "connect"}
  /\ attempts' = [attempts EXCEPT ![f] = @ + 1]
  /\ \/ bearer # 0 /\ UNCHANGED <<bearer, minted, expiries>>
     \/ NothingCached /\ bearer' = minted + 1 /\ minted' = minted + 1
  /\ hand' = [hand EXCEPT ![f] = bearer']
  /\ Goto(f, "open")
  /\ UNCHANGED <<transient, throttled, invalidated, rows, reported, refusedHand, result, sent>>

\* The provider raises: outside the `try`, so it ends the call as it is.
ConnectWithoutToken(f) ==
  /\ pc[f] \in {"start", "connect"}
  /\ attempts' = [attempts EXCEPT ![f] = @ + 1]
  /\ NothingCached /\ bearer' = 0
  /\ End(f, "auth")
  /\ UNCHANGED <<transient, throttled, invalidated, rows, reported, hand, refusedHand, sent, minted>>

\* day_start >= day_end: an honest zero without a request.
NothingRequested(f) ==
  /\ pc[f] = "start"
  /\ reported' = [reported EXCEPT ![f] = 0]
  /\ End(f, "ok")
  /\ UNCHANGED <<attempts, transient, throttled, invalidated, rows, hand, refusedHand, sharedVars>>

Streaming == {f \in Fetchers : pc[f] = "stream"}

\* A permit is free: at most DataStreams of the streams open at once are ours.
Open(f) ==
  /\ pc[f] = "open"
  /\ Cardinality(Streaming) < DataStreams
  /\ Goto(f, "stream")
  /\ UNCHANGED <<attempts, transient, throttled, invalidated, rows, reported, hand, refusedHand, result, sharedVars>>

\* Mutant: a 429 is waited out without counting it.
OpenThrottledUncounted(f) ==
  /\ pc[f] = "open"
  /\ Goto(f, "connect")
  /\ UNCHANGED <<attempts, transient, throttled, invalidated, rows, reported, hand, refusedHand, result, sharedVars>>

\* 429: every permit is taken, by our streams, by the web app or another download,
\* or by a stream whose end the API has not noticed.  Any of these can be the case.
OpenThrottled(f) ==
  /\ pc[f] = "open"
  /\ throttled' = [throttled EXCEPT ![f] = @ + 1]
  /\ IF throttled[f] + 1 >= ThrottleRetries
       THEN End(f, "throttled")
       ELSE Goto(f, "connect") /\ UNCHANGED result
  /\ UNCHANGED <<attempts, transient, invalidated, rows, reported, hand, refusedHand, sharedVars>>

\* Mutant: every refusal renews the token.
OpenRejectedAlways(f) ==
  /\ pc[f] = "open"
  /\ invalidated' = [invalidated EXCEPT ![f] = TRUE]
  /\ refusedHand' = [refusedHand EXCEPT ![f] = hand[f]]
  /\ bearer' = 0
  /\ Goto(f, "connect")
  /\ UNCHANGED <<attempts, transient, throttled, rows, reported, hand, result, sent, minted, expiries>>

\* Mutant: the retry after a refusal presents the cached token again.
OpenRejectedKeepsToken(f) ==
  /\ pc[f] = "open"
  /\ ~ invalidated[f]
  /\ invalidated' = [invalidated EXCEPT ![f] = TRUE]
  /\ refusedHand' = [refusedHand EXCEPT ![f] = hand[f]]
  /\ Goto(f, "connect")
  /\ UNCHANGED <<attempts, transient, throttled, rows, reported, hand, result, sharedVars>>

\* 401 or 403: renew the token once, by dropping whatever the provider has now.
OpenRejected(f) ==
  /\ pc[f] = "open"
  /\ ~ invalidated[f]
  /\ invalidated' = [invalidated EXCEPT ![f] = TRUE]
  /\ refusedHand' = [refusedHand EXCEPT ![f] = hand[f]]
  /\ bearer' = 0
  /\ Goto(f, "connect")
  /\ UNCHANGED <<attempts, transient, throttled, rows, reported, hand, result, sent, minted, expiries>>

OpenRejectedAgain(f) ==
  /\ pc[f] = "open"
  /\ invalidated[f]
  /\ End(f, "rejected")
  /\ UNCHANGED <<attempts, transient, throttled, invalidated, rows, reported, hand, refusedHand, sharedVars>>

\* 5xx or a transport error before the first event.
OpenFails(f) ==
  /\ pc[f] = "open"
  /\ CountTransient(f, "transient")
  /\ UNCHANGED <<attempts, throttled, invalidated, rows, reported, hand, refusedHand, sharedVars>>

\* Any other 4xx, or no connection at all.
OpenFatal(f) ==
  /\ pc[f] = "open"
  /\ End(f, "fatal")
  /\ UNCHANGED <<attempts, transient, throttled, invalidated, rows, reported, hand, refusedHand, sharedVars>>

Row(f) ==
  /\ pc[f] = "stream"
  /\ sent[f] < DayRows
  /\ sent' = [sent EXCEPT ![f] = @ + 1]
  /\ rows' = [rows EXCEPT ![f] = Append(@, sent[f] + 1)]
  /\ UNCHANGED <<pc, attempts, transient, throttled, invalidated, reported, hand, refusedHand, result,
                 bearer, minted, expiries>>

\* A row the API has counted and the client never parses.
RowLost(f) ==
  /\ pc[f] = "stream"
  /\ sent[f] < DayRows
  /\ sent' = [sent EXCEPT ![f] = @ + 1]
  /\ UNCHANGED <<localVars, bearer, minted, expiries>>

\* `done` follows the last row, with the API's own count of them or without one.
Done(f) ==
  /\ pc[f] = "stream"
  /\ sent[f] = DayRows
  /\ \E count \in {DayRows, NoCount} : reported' = [reported EXCEPT ![f] = count]
  /\ Close(f)
  /\ Goto(f, "decide")
  /\ UNCHANGED <<attempts, transient, throttled, invalidated, rows, hand, refusedHand, result,
                 bearer, minted, expiries>>

\* An `error` event, or the end of the stream without `done`.
StreamEnds(f) ==
  /\ pc[f] = "stream"
  /\ Close(f)
  /\ Goto(f, "decide")
  /\ UNCHANGED <<attempts, transient, throttled, invalidated, rows, reported, hand, refusedHand, result,
                 bearer, minted, expiries>>

\* Mutant: a broken stream is reopened inside _stream_day, outside the budget.
StreamBreaksReopens(f) ==
  /\ pc[f] = "stream"
  /\ Drop(f) /\ Close(f)
  /\ Goto(f, "open")
  /\ UNCHANGED <<attempts, transient, throttled, invalidated, hand, refusedHand, result,
                 bearer, minted, expiries>>

\* A transport error mid-stream: the rows so far are dropped with the exception.
StreamBreaks(f) ==
  /\ pc[f] = "stream"
  /\ CountTransient(f, "transient")
  /\ Drop(f) /\ Close(f)
  /\ UNCHANGED <<attempts, throttled, invalidated, hand, refusedHand, bearer, minted, expiries>>

\* _check_meta and _check_range: the wrong table, or rows outside the request.
StreamIsWrong(f) ==
  /\ pc[f] = "stream" \/ (pc[f] = "decide" /\ rows[f] # <<>>)
  /\ End(f, "fatal")
  /\ Drop(f) /\ Close(f)
  /\ UNCHANGED <<attempts, transient, throttled, invalidated, hand, refusedHand,
                 bearer, minted, expiries>>

\* Mutant: a stream without `done` counts as verified.
WholeUnlessContradicted(f) == reported[f] = NoReport \/ reported[f] = Len(rows[f])

\* Mutant: a stream that came to its `done` counts as verified.
WholeWhenDone(f) == reported[f] # NoReport

\* DayFetch.ok
Whole(f) == reported[f] # NoReport /\ reported[f] = Len(rows[f])

DecideWhole(f) ==
  /\ pc[f] = "decide"
  /\ Whole(f)
  /\ End(f, "ok")
  /\ UNCHANGED <<attempts, transient, throttled, invalidated, rows, reported, hand, refusedHand, sharedVars>>

\* Mutant: the first prefix is kept.
DecideShortKeeps(f) ==
  /\ pc[f] = "decide"
  /\ ~ Whole(f)
  /\ End(f, "prefix")
  /\ UNCHANGED <<attempts, transient, throttled, invalidated, rows, reported, hand, refusedHand, sharedVars>>

\* Mutant: the next attempt adds its rows to those of the one that fell short.
DecideShortAddsUp(f) ==
  /\ pc[f] = "decide"
  /\ ~ Whole(f)
  /\ CountTransient(f, "prefix")
  /\ UNCHANGED <<attempts, throttled, invalidated, rows, reported, hand, refusedHand, sharedVars>>

\* Not ok: a transient failure, except that the last one keeps the prefix.
DecideShort(f) ==
  /\ pc[f] = "decide"
  /\ ~ Whole(f)
  /\ CountTransient(f, "prefix")
  /\ IF transient'[f] >= Retries THEN UNCHANGED <<rows, reported>> ELSE Drop(f)
  /\ UNCHANGED <<attempts, throttled, invalidated, hand, refusedHand, sharedVars>>

----------------------------------------------------------------------------

FetchStep(f) ==
  \/ Connect(f) \/ ConnectWithoutToken(f) \/ NothingRequested(f)
  \/ Open(f) \/ OpenThrottled(f) \/ OpenRejected(f) \/ OpenRejectedAgain(f)
  \/ OpenFails(f) \/ OpenFatal(f)
  \/ Row(f) \/ RowLost(f) \/ Done(f) \/ StreamEnds(f) \/ StreamBreaks(f) \/ StreamIsWrong(f)
  \/ DecideWhole(f) \/ DecideShort(f)

\* Every call is over: the threads have nothing left to do.
Rest == (\A f \in Fetchers : pc[f] = "end") /\ UNCHANGED vars

Next == (\E f \in Fetchers : FetchStep(f)) \/ Rest

Spec == Init /\ [][Next]_vars

\* Every pool thread runs; a connection that says nothing hits httpx' read timeout.
FairSpec == Spec /\ \A f \in Fetchers : WF_vars(FetchStep(f))

----------------------------------------------------------------------------
(* Properties                                                              *)

CallsOK ==
  /\ pc \in [Fetchers -> {"start", "connect", "open", "stream", "decide", "end"}]
  /\ attempts \in [Fetchers -> Nat]
  /\ transient \in [Fetchers -> 0..Retries]
  /\ throttled \in [Fetchers -> 0..ThrottleRetries]
  /\ invalidated \in [Fetchers -> BOOLEAN]
  /\ hand \in [Fetchers -> 0..minted]
  /\ refusedHand \in [Fetchers -> 0..minted]
  /\ result \in [Fetchers -> Results]
  /\ minted \in Nat /\ bearer \in 0..minted
  /\ expiries \in 0..MaxExpiries

RowsOK ==
  /\ rows \in [Fetchers -> Seq(1..DayRows)]
  /\ reported \in [Fetchers -> NoReport..DayRows]
  /\ sent \in [Fetchers -> 0..DayRows]

TypeOK == CallsOK /\ RowsOK

Bit(b) == IF b THEN 1 ELSE 0

\* Every connection is paid for: the attempts are the failures that were counted,
\* plus the one under way or the one that ended the call.  The three retry paths
\* draw on separate budgets and none of them forgets to count.
AttemptsAccounted ==
  \A f \in Fetchers :
    LET failures == transient[f] + throttled[f] + Bit(invalidated[f])
    IN  /\ pc[f] \in {"start", "connect"} => attempts[f] = failures
        /\ pc[f] \in {"open", "stream", "decide"} => attempts[f] = failures + 1

\* So a fetch opens at most Retries + ThrottleRetries connections, however the
\* three kinds of failure are mixed.
AttemptsBounded == \A f \in Fetchers : attempts[f] <= Retries + ThrottleRetries

\* A result that counts as verified holds every row of the day and nothing twice,
\* whatever attempts were cut before and whatever rows were lost on the way.
OkIsWhole ==
  \A f \in Fetchers :
    result[f] = "ok" => Len(rows[f]) = reported[f] /\ (attempts[f] > 0 => rows[f] = Day)

\* A prefix is kept only when the transient budget is spent, and it holds no row twice.
InOrder(taken) == \A i, j \in DOMAIN taken : i < j => taken[i] < taken[j]

PrefixIsLastResort ==
  \A f \in Fetchers : result[f] = "prefix" => transient[f] = Retries /\ InOrder(rows[f])

\* A bearer is refused for good only after a second one, minted later, was refused
\* too, although other threads invalidate and mint in between.
RejectedAfterRenewal ==
  \A f \in Fetchers : result[f] = "rejected" => hand[f] > refusedHand[f] /\ refusedHand[f] > 0

\* To its caller a fetch is one call with one outcome: it spends at most
\* Retries + ThrottleRetries connections however the kinds of failure are mixed, a
\* verified result holds every row of the day and nothing of an earlier attempt, and
\* a prefix or an error is given up to only after the failures it stands for.
Kept == [f \in Fetchers |-> IF result[f] \in {"ok", "prefix"} THEN rows[f] ELSE <<>>]

Fetch == INSTANCE OneFetch WITH connections <- attempts, outcome <- result, kept <- Kept

ImplementsFetch == Fetch!Spec

\* Every fetch returns or raises.
FetchEnds == <>(\A f \in Fetchers : pc[f] = "end")

=============================================================================

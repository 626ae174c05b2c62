--------------------------- MODULE FetchDayProofs ---------------------------
(* fetch_day's retry budgets and results, for any number of fetchers and any limits. *)
EXTENDS FetchDay, SequenceTheorems, TLAPS

\* A call that goes on is below both of its limits.
WithinBudget ==
  \A f \in Fetchers : pc[f] # "end" => transient[f] < Retries /\ throttled[f] < ThrottleRetries

\* No step takes a call's counters out of their types: nobody fetching is at a limit.
LEMMA CallsStep ==
  ASSUME CallsOK, WithinBudget, [Next]_vars
  PROVE  CallsOK'
<1> USE CountsAssumption
    DEF CallsOK, WithinBudget, Results, Goto, End, CountTransient, NothingCached, localVars, sharedVars
<1>1. ASSUME NEW f \in Fetchers, Connect(f) PROVE CallsOK'
  BY <1>1 DEF Connect
<1>2. ASSUME NEW f \in Fetchers, ConnectWithoutToken(f) PROVE CallsOK'
  BY <1>2 DEF ConnectWithoutToken
<1>3. ASSUME NEW f \in Fetchers, NothingRequested(f) PROVE CallsOK'
  BY <1>3 DEF NothingRequested
<1>4. ASSUME NEW f \in Fetchers, Open(f) PROVE CallsOK'
  BY <1>4 DEF Open
<1>5. ASSUME NEW f \in Fetchers, OpenThrottled(f) PROVE CallsOK'
  BY <1>5 DEF OpenThrottled
<1>6. ASSUME NEW f \in Fetchers, OpenRejected(f) PROVE CallsOK'
  BY <1>6 DEF OpenRejected
<1>7. ASSUME NEW f \in Fetchers, OpenRejectedAgain(f) PROVE CallsOK'
  BY <1>7 DEF OpenRejectedAgain
<1>8. ASSUME NEW f \in Fetchers, OpenFails(f) PROVE CallsOK'
  BY <1>8 DEF OpenFails
<1>9. ASSUME NEW f \in Fetchers, OpenFatal(f) PROVE CallsOK'
  BY <1>9 DEF OpenFatal
<1>10. ASSUME NEW f \in Fetchers, Row(f) PROVE CallsOK'
  BY <1>10 DEF Row
<1>11. ASSUME NEW f \in Fetchers, Done(f) PROVE CallsOK'
  BY <1>11 DEF Done
<1>12. ASSUME NEW f \in Fetchers, StreamEnds(f) PROVE CallsOK'
  BY <1>12 DEF StreamEnds
<1>13. ASSUME NEW f \in Fetchers, StreamBreaks(f) PROVE CallsOK'
  BY <1>13 DEF StreamBreaks
<1>14. ASSUME NEW f \in Fetchers, StreamIsWrong(f) PROVE CallsOK'
  BY <1>14 DEF StreamIsWrong
<1>15. ASSUME NEW f \in Fetchers, DecideWhole(f) PROVE CallsOK'
  BY <1>15 DEF DecideWhole
<1>16. ASSUME NEW f \in Fetchers, DecideShort(f) PROVE CallsOK'
  BY <1>16 DEF DecideShort
<1>17. ASSUME NEW f \in Fetchers, RowLost(f) PROVE CallsOK'
  BY <1>17 DEF RowLost
<1>18. CASE Rest
  BY <1>18 DEF Rest, vars
<1>19. CASE UNCHANGED vars
  BY <1>19 DEF vars
<1> QED
  BY <1>1, <1>2, <1>3, <1>4, <1>5, <1>6, <1>7, <1>8, <1>9, <1>10, <1>11, <1>12, <1>13, <1>14, <1>15, <1>16, <1>17, <1>18, <1>19 DEF Next, FetchStep

\* Nor its rows, as the API sends no row beyond the day.
LEMMA RowsStep ==
  ASSUME RowsOK, [Next]_vars
  PROVE  RowsOK'
<1> USE CountsAssumption DEF RowsOK, NoReport, NoCount, Drop, Close, localVars, sharedVars
<1>1. ASSUME NEW f \in Fetchers, Connect(f) PROVE RowsOK'
  BY <1>1 DEF Connect
<1>2. ASSUME NEW f \in Fetchers, ConnectWithoutToken(f) PROVE RowsOK'
  BY <1>2 DEF ConnectWithoutToken
<1>3. ASSUME NEW f \in Fetchers, NothingRequested(f) PROVE RowsOK'
  BY <1>3 DEF NothingRequested
<1>4. ASSUME NEW f \in Fetchers, Open(f) PROVE RowsOK'
  BY <1>4 DEF Open
<1>5. ASSUME NEW f \in Fetchers, OpenThrottled(f) PROVE RowsOK'
  BY <1>5 DEF OpenThrottled
<1>6. ASSUME NEW f \in Fetchers, OpenRejected(f) PROVE RowsOK'
  BY <1>6 DEF OpenRejected
<1>7. ASSUME NEW f \in Fetchers, OpenRejectedAgain(f) PROVE RowsOK'
  BY <1>7 DEF OpenRejectedAgain
<1>8. ASSUME NEW f \in Fetchers, OpenFails(f) PROVE RowsOK'
  BY <1>8 DEF OpenFails
<1>9. ASSUME NEW f \in Fetchers, OpenFatal(f) PROVE RowsOK'
  BY <1>9 DEF OpenFatal
<1>10. ASSUME NEW f \in Fetchers, Row(f) PROVE RowsOK'
  BY <1>10 DEF Row
<1>11. ASSUME NEW f \in Fetchers, Done(f) PROVE RowsOK'
  BY <1>11 DEF Done
<1>12. ASSUME NEW f \in Fetchers, StreamEnds(f) PROVE RowsOK'
  BY <1>12 DEF StreamEnds
<1>13. ASSUME NEW f \in Fetchers, StreamBreaks(f) PROVE RowsOK'
  BY <1>13 DEF StreamBreaks
<1>14. ASSUME NEW f \in Fetchers, StreamIsWrong(f) PROVE RowsOK'
  BY <1>14 DEF StreamIsWrong
<1>15. ASSUME NEW f \in Fetchers, DecideWhole(f) PROVE RowsOK'
  BY <1>15 DEF DecideWhole
<1>16. ASSUME NEW f \in Fetchers, DecideShort(f) PROVE RowsOK'
  <2>1. sent' = sent /\ (UNCHANGED <<rows, reported>> \/ Drop(f))
    BY <1>16 DEF DecideShort
  <2>2. CASE UNCHANGED <<rows, reported>>
    BY <2>1, <2>2
  <2>3. CASE Drop(f)
    BY <2>1, <2>3
  <2> QED
    BY <2>1, <2>2, <2>3
<1>17. ASSUME NEW f \in Fetchers, RowLost(f) PROVE RowsOK'
  BY <1>17 DEF RowLost
<1>18. CASE Rest
  BY <1>18 DEF Rest, vars
<1>19. CASE UNCHANGED vars
  BY <1>19 DEF vars
<1> QED
  BY <1>1, <1>2, <1>3, <1>4, <1>5, <1>6, <1>7, <1>8, <1>9, <1>10, <1>11, <1>12, <1>13, <1>14, <1>15, <1>16, <1>17, <1>18, <1>19 DEF Next, FetchStep

\* Reaching a limit ends the call.
LEMMA BudgetStep ==
  ASSUME CallsOK, WithinBudget, [Next]_vars
  PROVE  WithinBudget'
<1> USE CountsAssumption
    DEF CallsOK, WithinBudget, Goto, End, CountTransient, NothingCached, localVars, sharedVars
<1>1. ASSUME NEW f \in Fetchers, Connect(f) PROVE WithinBudget'
  BY <1>1 DEF Connect
<1>2. ASSUME NEW f \in Fetchers, ConnectWithoutToken(f) PROVE WithinBudget'
  BY <1>2 DEF ConnectWithoutToken
<1>3. ASSUME NEW f \in Fetchers, NothingRequested(f) PROVE WithinBudget'
  BY <1>3 DEF NothingRequested
<1>4. ASSUME NEW f \in Fetchers, Open(f) PROVE WithinBudget'
  BY <1>4 DEF Open
<1>5. ASSUME NEW f \in Fetchers, OpenThrottled(f) PROVE WithinBudget'
  BY <1>5 DEF OpenThrottled
<1>6. ASSUME NEW f \in Fetchers, OpenRejected(f) PROVE WithinBudget'
  BY <1>6 DEF OpenRejected
<1>7. ASSUME NEW f \in Fetchers, OpenRejectedAgain(f) PROVE WithinBudget'
  BY <1>7 DEF OpenRejectedAgain
<1>8. ASSUME NEW f \in Fetchers, OpenFails(f) PROVE WithinBudget'
  BY <1>8 DEF OpenFails
<1>9. ASSUME NEW f \in Fetchers, OpenFatal(f) PROVE WithinBudget'
  BY <1>9 DEF OpenFatal
<1>10. ASSUME NEW f \in Fetchers, Row(f) PROVE WithinBudget'
  BY <1>10 DEF Row
<1>11. ASSUME NEW f \in Fetchers, Done(f) PROVE WithinBudget'
  BY <1>11 DEF Done
<1>12. ASSUME NEW f \in Fetchers, StreamEnds(f) PROVE WithinBudget'
  BY <1>12 DEF StreamEnds
<1>13. ASSUME NEW f \in Fetchers, StreamBreaks(f) PROVE WithinBudget'
  BY <1>13 DEF StreamBreaks
<1>14. ASSUME NEW f \in Fetchers, StreamIsWrong(f) PROVE WithinBudget'
  BY <1>14 DEF StreamIsWrong
<1>15. ASSUME NEW f \in Fetchers, DecideWhole(f) PROVE WithinBudget'
  BY <1>15 DEF DecideWhole
<1>16. ASSUME NEW f \in Fetchers, DecideShort(f) PROVE WithinBudget'
  BY <1>16 DEF DecideShort
<1>17. ASSUME NEW f \in Fetchers, RowLost(f) PROVE WithinBudget'
  BY <1>17 DEF RowLost
<1>18. CASE Rest
  BY <1>18 DEF Rest, vars
<1>19. CASE UNCHANGED vars
  BY <1>19 DEF vars
<1> QED
  BY <1>1, <1>2, <1>3, <1>4, <1>5, <1>6, <1>7, <1>8, <1>9, <1>10, <1>11, <1>12, <1>13, <1>14, <1>15, <1>16, <1>17, <1>18, <1>19 DEF Next, FetchStep

\* Each failure is counted once, in its own budget.
LEMMA AccountStep ==
  ASSUME CallsOK, AttemptsAccounted, [Next]_vars
  PROVE  AttemptsAccounted'
<1> USE CountsAssumption
    DEF CallsOK, AttemptsAccounted, Bit, Goto, End, CountTransient, NothingCached, localVars, sharedVars
<1>1. ASSUME NEW f \in Fetchers, Connect(f) PROVE AttemptsAccounted'
  BY <1>1 DEF Connect
<1>2. ASSUME NEW f \in Fetchers, ConnectWithoutToken(f) PROVE AttemptsAccounted'
  BY <1>2 DEF ConnectWithoutToken
<1>3. ASSUME NEW f \in Fetchers, NothingRequested(f) PROVE AttemptsAccounted'
  BY <1>3 DEF NothingRequested
<1>4. ASSUME NEW f \in Fetchers, Open(f) PROVE AttemptsAccounted'
  BY <1>4 DEF Open
<1>5. ASSUME NEW f \in Fetchers, OpenThrottled(f) PROVE AttemptsAccounted'
  BY <1>5 DEF OpenThrottled
<1>6. ASSUME NEW f \in Fetchers, OpenRejected(f) PROVE AttemptsAccounted'
  BY <1>6 DEF OpenRejected
<1>7. ASSUME NEW f \in Fetchers, OpenRejectedAgain(f) PROVE AttemptsAccounted'
  BY <1>7 DEF OpenRejectedAgain
<1>8. ASSUME NEW f \in Fetchers, OpenFails(f) PROVE AttemptsAccounted'
  BY <1>8 DEF OpenFails
<1>9. ASSUME NEW f \in Fetchers, OpenFatal(f) PROVE AttemptsAccounted'
  BY <1>9 DEF OpenFatal
<1>10. ASSUME NEW f \in Fetchers, Row(f) PROVE AttemptsAccounted'
  BY <1>10 DEF Row
<1>11. ASSUME NEW f \in Fetchers, Done(f) PROVE AttemptsAccounted'
  BY <1>11 DEF Done
<1>12. ASSUME NEW f \in Fetchers, StreamEnds(f) PROVE AttemptsAccounted'
  BY <1>12 DEF StreamEnds
<1>13. ASSUME NEW f \in Fetchers, StreamBreaks(f) PROVE AttemptsAccounted'
  BY <1>13 DEF StreamBreaks
<1>14. ASSUME NEW f \in Fetchers, StreamIsWrong(f) PROVE AttemptsAccounted'
  BY <1>14 DEF StreamIsWrong
<1>15. ASSUME NEW f \in Fetchers, DecideWhole(f) PROVE AttemptsAccounted'
  BY <1>15 DEF DecideWhole
<1>16. ASSUME NEW f \in Fetchers, DecideShort(f) PROVE AttemptsAccounted'
  BY <1>16 DEF DecideShort
<1>17. ASSUME NEW f \in Fetchers, RowLost(f) PROVE AttemptsAccounted'
  BY <1>17 DEF RowLost
<1>18. CASE Rest
  BY <1>18 DEF Rest, vars
<1>19. CASE UNCHANGED vars
  BY <1>19 DEF vars
<1> QED
  BY <1>1, <1>2, <1>3, <1>4, <1>5, <1>6, <1>7, <1>8, <1>9, <1>10, <1>11, <1>12, <1>13, <1>14, <1>15, <1>16, <1>17, <1>18, <1>19 DEF Next, FetchStep

\* The budgets bound the attempts, also of the calls that have ended.
LEMMA BoundStep ==
  ASSUME CallsOK, WithinBudget, AttemptsAccounted, AttemptsBounded, [Next]_vars
  PROVE  AttemptsBounded'
<1> USE CountsAssumption
    DEF CallsOK, WithinBudget, AttemptsAccounted, AttemptsBounded, Bit, Goto, End, CountTransient, NothingCached,
        localVars, sharedVars
<1>1. ASSUME NEW f \in Fetchers, Connect(f) PROVE AttemptsBounded'
  BY <1>1 DEF Connect
<1>2. ASSUME NEW f \in Fetchers, ConnectWithoutToken(f) PROVE AttemptsBounded'
  BY <1>2 DEF ConnectWithoutToken
<1>3. ASSUME NEW f \in Fetchers, NothingRequested(f) PROVE AttemptsBounded'
  BY <1>3 DEF NothingRequested
<1>4. ASSUME NEW f \in Fetchers, Open(f) PROVE AttemptsBounded'
  BY <1>4 DEF Open
<1>5. ASSUME NEW f \in Fetchers, OpenThrottled(f) PROVE AttemptsBounded'
  BY <1>5 DEF OpenThrottled
<1>6. ASSUME NEW f \in Fetchers, OpenRejected(f) PROVE AttemptsBounded'
  BY <1>6 DEF OpenRejected
<1>7. ASSUME NEW f \in Fetchers, OpenRejectedAgain(f) PROVE AttemptsBounded'
  BY <1>7 DEF OpenRejectedAgain
<1>8. ASSUME NEW f \in Fetchers, OpenFails(f) PROVE AttemptsBounded'
  BY <1>8 DEF OpenFails
<1>9. ASSUME NEW f \in Fetchers, OpenFatal(f) PROVE AttemptsBounded'
  BY <1>9 DEF OpenFatal
<1>10. ASSUME NEW f \in Fetchers, Row(f) PROVE AttemptsBounded'
  BY <1>10 DEF Row
<1>11. ASSUME NEW f \in Fetchers, Done(f) PROVE AttemptsBounded'
  BY <1>11 DEF Done
<1>12. ASSUME NEW f \in Fetchers, StreamEnds(f) PROVE AttemptsBounded'
  BY <1>12 DEF StreamEnds
<1>13. ASSUME NEW f \in Fetchers, StreamBreaks(f) PROVE AttemptsBounded'
  BY <1>13 DEF StreamBreaks
<1>14. ASSUME NEW f \in Fetchers, StreamIsWrong(f) PROVE AttemptsBounded'
  BY <1>14 DEF StreamIsWrong
<1>15. ASSUME NEW f \in Fetchers, DecideWhole(f) PROVE AttemptsBounded'
  BY <1>15 DEF DecideWhole
<1>16. ASSUME NEW f \in Fetchers, DecideShort(f) PROVE AttemptsBounded'
  BY <1>16 DEF DecideShort
<1>17. ASSUME NEW f \in Fetchers, RowLost(f) PROVE AttemptsBounded'
  BY <1>17 DEF RowLost
<1>18. CASE Rest
  BY <1>18 DEF Rest, vars
<1>19. CASE UNCHANGED vars
  BY <1>19 DEF vars
<1> QED
  BY <1>1, <1>2, <1>3, <1>4, <1>5, <1>6, <1>7, <1>8, <1>9, <1>10, <1>11, <1>12, <1>13, <1>14, <1>15, <1>16, <1>17, <1>18, <1>19 DEF Next, FetchStep

\* The rows taken come from the first n of the day: row i of them is no further on than
\* the rows after it allow.  So n of them are those n.
From(taken, n) ==
  /\ Len(taken) <= n
  /\ \A i \in 1 .. Len(taken) : i <= taken[i] /\ taken[i] <= n - (Len(taken) - i)

\* The rows parsed are in the order of the day, and among those the API has sent.
Parsed(f) ==
  /\ InOrder(rows[f]) /\ From(rows[f], DayRows)
  /\ pc[f] = "stream" => From(rows[f], sent[f])

\* The API's count is the day's or is missing, an attempt starts with nothing, and a
\* call has a result exactly when it has ended.
Honest ==
  \A f \in Fetchers :
    /\ Parsed(f)
    /\ pc[f] # "end" => result[f] = "none" /\ reported[f] \in {NoReport, NoCount, DayRows}
    /\ pc[f] \in {"start", "connect", "open"} => rows[f] = <<>>
    /\ pc[f] # "stream" => sent[f] = 0
    /\ pc[f] # "end" /\ pc[f] # "start" => attempts[f] > 0
    /\ pc[f] = "start" => attempts[f] = 0

\* What comes from the first n rows comes from the first m, for every m from n on.
LEMMA FromMore ==
  ASSUME NEW taken \in Seq(1 .. DayRows), NEW n \in Nat, NEW m \in Nat, n <= m, From(taken, n)
  PROVE  From(taken, m)
<1> DEFINE k == Len(taken)
<1>1. k \in Nat /\ k <= n
  BY LenProperties DEF From
<1>2. ASSUME NEW i \in 1 .. k PROVE i <= taken[i] /\ taken[i] <= m - (k - i)
  <2> DEFINE v == taken[i]
  <2>1. v \in 1 .. DayRows
    BY ElementOfSeq
  <2>2. i <= v /\ v <= n - (k - i)
    BY DEF From
  <2> HIDE DEF v, k
  <2>3. v <= m - (k - i)
    BY <1>1, <2>1, <2>2, CountsAssumption
  <2> QED
    BY <2>2, <2>3 DEF v
<1>3. k <= m
  <2> HIDE DEF k
  <2> QED
    BY <1>1
<1> QED
  BY <1>2, <1>3 DEF From

\* Row n + 1 after rows of the first n makes rows of the first n + 1, in order.
LEMMA FromAppend ==
  ASSUME NEW taken \in Seq(1 .. DayRows), NEW n \in Nat, n < DayRows, From(taken, n), InOrder(taken)
  PROVE  From(Append(taken, n + 1), n + 1) /\ InOrder(Append(taken, n + 1))
<1> DEFINE k == Len(taken)
           q == Append(taken, n + 1)
<1>1. k \in Nat /\ k <= n /\ DOMAIN taken = 1 .. k
  BY LenProperties DEF From
<1>2. n + 1 \in 1 .. DayRows
  BY CountsAssumption
<1>3. /\ q \in Seq(1 .. DayRows) /\ Len(q) = k + 1
      /\ \A i \in 1 .. k : q[i] = taken[i]
      /\ q[k + 1] = n + 1
  BY <1>2, AppendProperties
<1>4. DOMAIN q = 1 .. k + 1
  BY <1>3, LenProperties
<1>5. \A i \in 1 .. k : taken[i] \in 1 .. DayRows /\ i <= taken[i] /\ taken[i] <= n - (k - i)
  BY ElementOfSeq DEF From
<1> HIDE DEF k, q
<1>6. \A i \in 1 .. k + 1 : i \in 1 .. k \/ i = k + 1
  BY <1>1
<1>7. ASSUME NEW i \in 1 .. k + 1 PROVE i <= q[i] /\ q[i] <= (n + 1) - ((k + 1) - i)
  <2>1. CASE i \in 1 .. k
    <3> DEFINE v == taken[i]
    <3>1. v \in 1 .. DayRows /\ i <= v /\ v <= n - (k - i)
      BY <1>5, <2>1
    <3> HIDE DEF v
    <3>2. v <= (n + 1) - ((k + 1) - i)
      BY <1>1, <2>1, <3>1, CountsAssumption
    <3>3. q[i] = v
      BY <1>3, <2>1 DEF v
    <3> QED
      BY <3>1, <3>2, <3>3
  <2>2. CASE i = k + 1
    BY <1>1, <1>3, <2>2
  <2> QED
    BY <1>6, <2>1, <2>2
<1>8. ASSUME NEW i \in 1 .. k + 1, NEW j \in 1 .. k + 1, i < j PROVE q[i] < q[j]
  <2>1. i \in 1 .. k
    BY <1>1, <1>8
  <2>2. CASE j \in 1 .. k
    <3>1. taken[i] < taken[j]
      BY <1>1, <1>8, <2>1, <2>2 DEF InOrder
    <3> QED
      BY <1>3, <2>1, <2>2, <3>1
  <2>3. CASE j = k + 1
    <3> DEFINE v == taken[i]
    <3>1. v \in 1 .. DayRows /\ v <= n - (k - i)
      BY <1>5, <2>1
    <3> HIDE DEF v
    <3>2. v < n + 1
      BY <1>1, <2>1, <3>1, CountsAssumption
    <3>3. q[i] = v
      BY <1>3, <2>1 DEF v
    <3> QED
      BY <1>3, <2>3, <3>2, <3>3
  <2> QED
    BY <1>6, <2>2, <2>3
<1>9. From(q, n + 1)
  BY <1>1, <1>3, <1>7 DEF From
<1>10. InOrder(q)
  BY <1>4, <1>8 DEF InOrder
<1> QED
  BY <1>9, <1>10 DEF q

\* A verified attempt is the day: as many rows as the day has, in its order.
LEMMA WholeIsDay ==
  ASSUME TypeOK, Honest, NEW f \in Fetchers, pc[f] = "decide", Whole(f)
  PROVE  rows[f] = Day
<1>1. rows[f] \in Seq(1 .. DayRows) /\ From(rows[f], DayRows)
  BY DEF TypeOK, RowsOK, Honest, Parsed
<1>2. Len(rows[f]) = DayRows
  <2>1. Len(rows[f]) \in Nat
    BY <1>1, LenProperties
  <2> QED
    BY <2>1 DEF Honest, Whole, NoReport, NoCount
<1>3. ASSUME NEW i \in 1 .. DayRows PROVE rows[f][i] = i
  <2>1. rows[f][i] \in 1 .. DayRows /\ i <= rows[f][i] /\ rows[f][i] <= DayRows - (DayRows - i)
    BY <1>1, <1>2, ElementOfSeq DEF From
  <2> DEFINE v == rows[f][i]
  <2>2. v \in 1 .. DayRows /\ i <= v /\ v <= DayRows - (DayRows - i)
    BY <2>1
  <2> HIDE DEF v
  <2>3. v = i
    BY <2>2, CountsAssumption
  <2> QED
    BY <2>3 DEF v
<1>4. rows[f] \in [1 .. DayRows -> 1 .. DayRows]
  BY <1>1, <1>2, LenProperties
<1> QED
  BY <1>3, <1>4 DEF Day

\* A row that arrives is the last one sent; a lost one only widens the gap.
LEMMA ParsedStep ==
  ASSUME TypeOK, Honest, [Next]_vars, NEW g \in Fetchers
  PROVE  Parsed(g)'
<1> USE CountsAssumption
<1>0. /\ Parsed(g)
      /\ rows[g] \in Seq(1 .. DayRows) /\ sent[g] \in 0 .. DayRows
      /\ pc[g] \in {"start", "connect", "open"} => rows[g] = <<>>
  BY DEF Honest, TypeOK, RowsOK
<1>a. ASSUME rows'[g] = rows[g], pc'[g] = "stream" => pc[g] = "stream" /\ sent'[g] = sent[g]
      PROVE  Parsed(g)'
  BY <1>0, <1>a DEF Parsed, From, InOrder
<1>b. ASSUME rows'[g] = <<>>, sent'[g] \in 0 .. DayRows
      PROVE  Parsed(g)'
  <2>1. Len(rows'[g]) = 0 /\ DOMAIN rows'[g] = {}
    BY <1>b
  <2> QED
    BY <1>b, <2>1 DEF Parsed, From, InOrder
<1> USE DEF Goto, End, CountTransient, Drop, Close, localVars, sharedVars
<1>1. ASSUME NEW f \in Fetchers,
             \/ Connect(f) \/ ConnectWithoutToken(f) \/ NothingRequested(f) \/ OpenThrottled(f) \/ OpenRejected(f)
             \/ OpenRejectedAgain(f) \/ OpenFails(f) \/ OpenFatal(f) \/ DecideWhole(f)
      PROVE  Parsed(g)'
  <2>1. rows' = rows /\ sent' = sent /\ (pc'[g] = "stream" => pc[g] = "stream")
    BY <1>1 DEF TypeOK, CallsOK, Connect, ConnectWithoutToken, NothingRequested, OpenThrottled, OpenRejected, OpenRejectedAgain,
                OpenFails, OpenFatal, DecideWhole
  <2> QED
    BY <1>a, <2>1
<1>2. ASSUME NEW f \in Fetchers, Open(f) PROVE Parsed(g)'
  <2>1. CASE g = f
    BY <1>0, <1>2, <1>b, <2>1 DEF Open
  <2>2. CASE g # f
    BY <1>2, <1>a, <2>2 DEF Open, TypeOK, CallsOK, RowsOK
  <2> QED
    BY <2>1, <2>2
<1>3. ASSUME NEW f \in Fetchers, Row(f) PROVE Parsed(g)'
  <2>1. CASE g = f
    <3>1. /\ rows'[g] = Append(rows[g], sent[g] + 1) /\ sent'[g] = sent[g] + 1
          /\ pc[g] = "stream" /\ sent[g] < DayRows
      BY <1>3, <2>1 DEF Row, TypeOK, CallsOK, RowsOK
    <3>2. From(rows'[g], sent'[g]) /\ InOrder(rows'[g])
      BY <1>0, <3>1, FromAppend DEF Parsed
    <3>3. rows'[g] \in Seq(1 .. DayRows) /\ sent'[g] \in Nat /\ sent'[g] <= DayRows
      BY <1>0, <3>1, AppendProperties
    <3>4. From(rows'[g], DayRows)
      BY <3>2, <3>3, FromMore
    <3> QED
      BY <3>2, <3>4 DEF Parsed, From, InOrder
  <2>2. CASE g # f
    BY <1>3, <1>a, <2>2 DEF Row, TypeOK, CallsOK, RowsOK
  <2> QED
    BY <2>1, <2>2
<1>4. ASSUME NEW f \in Fetchers, RowLost(f) PROVE Parsed(g)'
  <2>1. CASE g = f
    <3>1. rows'[g] = rows[g] /\ sent'[g] = sent[g] + 1 /\ pc[g] = "stream"
      BY <1>4, <2>1 DEF RowLost, TypeOK, CallsOK, RowsOK
    <3>2. From(rows[g], sent[g] + 1)
      BY <1>0, <3>1, FromMore DEF Parsed
    <3> QED
      BY <1>0, <3>1, <3>2 DEF Parsed, From, InOrder
  <2>2. CASE g # f
    BY <1>4, <1>a, <2>2 DEF RowLost, TypeOK, CallsOK, RowsOK
  <2> QED
    BY <2>1, <2>2
<1>5. ASSUME NEW f \in Fetchers, Done(f) \/ StreamEnds(f) PROVE Parsed(g)'
  <2>1. rows' = rows /\ (g # f => sent'[g] = sent[g] /\ pc'[g] = pc[g]) /\ pc'[f] = "decide"
    BY <1>5 DEF Done, StreamEnds, TypeOK, CallsOK, RowsOK
  <2> QED
    BY <1>a, <2>1
<1>6. ASSUME NEW f \in Fetchers, StreamBreaks(f) \/ StreamIsWrong(f) PROVE Parsed(g)'
  <2>1. g = f => rows'[g] = <<>> /\ sent'[g] = 0
    BY <1>6 DEF StreamBreaks, StreamIsWrong, TypeOK, CallsOK, RowsOK
  <2>2. g # f => rows'[g] = rows[g] /\ sent'[g] = sent[g] /\ pc'[g] = pc[g]
    BY <1>6 DEF StreamBreaks, StreamIsWrong, TypeOK, CallsOK, RowsOK
  <2> QED
    BY <1>a, <1>b, <2>1, <2>2
<1>7. ASSUME NEW f \in Fetchers, DecideShort(f) PROVE Parsed(g)'
  <2>3. /\ rows \in [Fetchers -> Seq(1 .. DayRows)] /\ DOMAIN pc = Fetchers
        /\ pc = [h \in Fetchers |-> pc[h]]
    BY DEF TypeOK, CallsOK, RowsOK
  <2>4. sent' = sent
    BY <1>7 DEF DecideShort
  <2>5. g # f => rows'[g] = rows[g] /\ pc'[g] = pc[g]
    BY <1>7, <2>3 DEF DecideShort
  <2>6. pc'[f] # "stream"
    BY <1>7, <2>3 DEF DecideShort
  <2>1. sent' = sent /\ (g # f => rows'[g] = rows[g] /\ pc'[g] = pc[g]) /\ pc'[f] # "stream"
    BY <2>4, <2>5, <2>6
  <2>2. rows'[f] = rows[f] \/ rows'[f] = <<>>
    BY <1>7, <2>3 DEF DecideShort
  <2> QED
    BY <1>0, <1>a, <1>b, <2>1, <2>2
<1>8. CASE Rest \/ UNCHANGED vars
  BY <1>8, <1>a DEF Rest, vars
<1> QED
  BY <1>1, <1>2, <1>3, <1>4, <1>5, <1>6, <1>7, <1>8 DEF Next, FetchStep

\* The results keep what they promise.
ResultsKept == Honest /\ OkIsWhole /\ PrefixIsLastResort

\* What Honest says of a call beside its rows, and what its result promises.
Promised(f) ==
  /\ pc[f] # "end" => result[f] = "none" /\ reported[f] \in {NoReport, NoCount, DayRows}
  /\ pc[f] \in {"start", "connect", "open"} => rows[f] = <<>>
  /\ pc[f] # "stream" => sent[f] = 0
  /\ pc[f] # "end" /\ pc[f] # "start" => attempts[f] > 0
  /\ pc[f] = "start" => attempts[f] = 0
  /\ result[f] = "ok" => Len(rows[f]) = reported[f] /\ (attempts[f] > 0 => rows[f] = Day)
  /\ result[f] = "prefix" => transient[f] = Retries

\* No step returns a result that breaks its promise.
LEMMA ResultsStep ==
  ASSUME TypeOK, WithinBudget, ResultsKept, [Next]_vars
  PROVE  ResultsKept'
<1> SUFFICES ASSUME NEW g \in Fetchers PROVE Promised(g)'
  <2>1. \A g \in Fetchers : Parsed(g)'
    BY ParsedStep DEF ResultsKept
  <2> QED
    BY <2>1 DEF Promised, ResultsKept, Honest, OkIsWhole, PrefixIsLastResort, Parsed, Day, NoReport, NoCount
<1>0. Promised(g) /\ Honest
  BY DEF Promised, ResultsKept, Honest, OkIsWhole, PrefixIsLastResort
<1> USE <1>0, CountsAssumption
    DEF TypeOK, CallsOK, RowsOK, WithinBudget, Promised, NoReport, NoCount, Results, Goto, End, CountTransient, Drop, Close,
        localVars, sharedVars
<1>1. ASSUME NEW f \in Fetchers, Connect(f) PROVE Promised(g)'
  <2>1. /\ pc' = [pc EXCEPT ![f] = "open"] /\ attempts' = [attempts EXCEPT ![f] = attempts[f] + 1]
        /\ UNCHANGED <<transient, rows, reported, result, sent>> /\ pc[f] \in {"start", "connect"}
    BY <1>1 DEF Connect
  <2>2. attempts[f] \in Nat /\ result[f] = "none" /\ rows[f] = <<>> /\ sent[f] = 0
    BY <2>1 DEF Honest
  <2>a. attempts'[f] = attempts[f] + 1
    BY <2>1
  <2>3. attempts[f] + 1 > 0 /\ attempts'[f] = attempts[f] + 1
    <3> DEFINE tried == attempts[f]
    <3>1. tried \in Nat
      BY <2>2
    <3> HIDE DEF tried
    <3>2. tried + 1 > 0
      BY <3>1
    <3> QED
      BY <2>a, <3>2 DEF tried
  <2>4. reported' = [reported EXCEPT ![f] = reported'[f]] /\ reported'[f] \in {NoReport, NoCount, DayRows}
    BY <1>1 DEF Connect, Honest
  <2>5. CASE g = f
    BY <2>1, <2>2, <2>3, <2>4, <2>5
  <2>6. CASE g # f
    <3>1. /\ pc'[g] = pc[g] /\ attempts'[g] = attempts[g] /\ reported'[g] = reported[g]
          /\ UNCHANGED <<transient, rows, result, sent>>
      BY <2>1, <2>4, <2>6
    <3> QED
      BY <3>1
  <2> QED
    BY <2>5, <2>6
<1>2. ASSUME NEW f \in Fetchers, ConnectWithoutToken(f) PROVE Promised(g)'
  BY <1>2 DEF ConnectWithoutToken
<1>3. ASSUME NEW f \in Fetchers, NothingRequested(f) PROVE Promised(g)'
  BY <1>3 DEF NothingRequested
<1>4. ASSUME NEW f \in Fetchers, Open(f) PROVE Promised(g)'
  BY <1>4 DEF Open
<1>5. ASSUME NEW f \in Fetchers, OpenThrottled(f) PROVE Promised(g)'
  BY <1>5 DEF OpenThrottled
<1>6. ASSUME NEW f \in Fetchers, OpenRejected(f) PROVE Promised(g)'
  BY <1>6 DEF OpenRejected
<1>7. ASSUME NEW f \in Fetchers, OpenRejectedAgain(f) PROVE Promised(g)'
  BY <1>7 DEF OpenRejectedAgain
<1>8. ASSUME NEW f \in Fetchers, OpenFails(f) PROVE Promised(g)'
  BY <1>8 DEF OpenFails
<1>9. ASSUME NEW f \in Fetchers, OpenFatal(f) PROVE Promised(g)'
  BY <1>9 DEF OpenFatal
<1>10. ASSUME NEW f \in Fetchers, Row(f) PROVE Promised(g)'
  BY <1>10 DEF Row
<1>11. ASSUME NEW f \in Fetchers, RowLost(f) PROVE Promised(g)'
  BY <1>11 DEF RowLost
<1>12. ASSUME NEW f \in Fetchers, Done(f) PROVE Promised(g)'
  BY <1>12 DEF Done
<1>13. ASSUME NEW f \in Fetchers, StreamEnds(f) PROVE Promised(g)'
  BY <1>13 DEF StreamEnds
<1>14. ASSUME NEW f \in Fetchers, StreamBreaks(f) PROVE Promised(g)'
  BY <1>14 DEF StreamBreaks
<1>15. ASSUME NEW f \in Fetchers, StreamIsWrong(f) PROVE Promised(g)'
  BY <1>15 DEF StreamIsWrong
<1>16. ASSUME NEW f \in Fetchers, DecideWhole(f) PROVE Promised(g)'
  <2>1. rows[f] = Day /\ Len(rows[f]) = reported[f]
    BY <1>16, WholeIsDay DEF DecideWhole, Whole
  <2> QED
    BY <1>16, <2>1 DEF DecideWhole
<1>17. ASSUME NEW f \in Fetchers, DecideShort(f) PROVE Promised(g)'
  <2>1. /\ pc[f] = "decide" /\ result[f] = "none" /\ transient[f] \in 0 .. Retries /\ transient[f] < Retries
        /\ transient' = [transient EXCEPT ![f] = transient[f] + 1]
        /\ UNCHANGED <<attempts, sent>>
    BY <1>17 DEF DecideShort, Honest
  <2>2. transient'[f] = transient[f] + 1
    BY <2>1
  <2>3. CASE transient[f] + 1 >= Retries
    <3>1. transient'[f] = Retries
      <4> DEFINE spent == transient[f]
      <4>1. spent \in 0 .. Retries /\ spent < Retries /\ spent + 1 >= Retries
        BY <2>1, <2>3
      <4> HIDE DEF spent
      <4>2. spent + 1 = Retries
        BY <4>1
      <4> QED
        BY <2>2, <4>2 DEF spent
    <3>2. UNCHANGED <<rows, reported>> /\ pc' = [pc EXCEPT ![f] = "end"] /\ result' = [result EXCEPT ![f] = "prefix"]
      BY <1>17, <2>2, <2>3 DEF DecideShort
    <3> QED
      BY <2>1, <3>1, <3>2
  <2>4. CASE ~ (transient[f] + 1 >= Retries)
    <3>1. Drop(f) /\ pc' = [pc EXCEPT ![f] = "connect"] /\ UNCHANGED result
      BY <1>17, <2>2, <2>4 DEF DecideShort
    <3>2. attempts[f] > 0 /\ sent[f] = 0
      BY <2>1 DEF Honest
    <3>3. rows' = [rows EXCEPT ![f] = <<>>] /\ reported' = [reported EXCEPT ![f] = NoReport]
      BY <3>1
    <3> QED
      BY <2>1, <3>1, <3>2, <3>3
  <2> QED
    BY <2>3, <2>4
<1>18. CASE Rest
  BY <1>18 DEF Rest, vars
<1>19. CASE UNCHANGED vars
  BY <1>19 DEF vars
<1> QED
  BY <1>1, <1>2, <1>3, <1>4, <1>5, <1>6, <1>7, <1>8, <1>9, <1>10, <1>11, <1>12, <1>13, <1>14, <1>15, <1>16, <1>17, <1>18, <1>19 DEF Next, FetchStep

\* After its first 401 a call only ever presents a bearer minted after the one refused.
Renewal ==
  \A f \in Fetchers :
    /\ pc[f] # "end" => result[f] = "none"
    /\ pc[f] \in {"open", "stream", "decide"} => hand[f] > 0
    /\ invalidated[f] =>
         /\ refusedHand[f] > 0
         /\ bearer # 0 => bearer > refusedHand[f]
         /\ pc[f] \in {"open", "stream", "decide"} => hand[f] > refusedHand[f]

\* An invalidate by another thread never brings a refused bearer back.
LEMMA RenewalStep ==
  ASSUME CallsOK, Renewal, RejectedAfterRenewal, [Next]_vars
  PROVE  (Renewal /\ RejectedAfterRenewal)'
<1> USE CountsAssumption
    DEF CallsOK, Renewal, RejectedAfterRenewal, Results, Goto, End, CountTransient, NothingCached, localVars, sharedVars
<1>1. ASSUME NEW f \in Fetchers, Connect(f) PROVE (Renewal /\ RejectedAfterRenewal)'
  BY <1>1 DEF Connect
<1>2. ASSUME NEW f \in Fetchers, ConnectWithoutToken(f) PROVE (Renewal /\ RejectedAfterRenewal)'
  BY <1>2 DEF ConnectWithoutToken
<1>3. ASSUME NEW f \in Fetchers, NothingRequested(f) PROVE (Renewal /\ RejectedAfterRenewal)'
  BY <1>3 DEF NothingRequested
<1>4. ASSUME NEW f \in Fetchers, Open(f) PROVE (Renewal /\ RejectedAfterRenewal)'
  BY <1>4 DEF Open
<1>5. ASSUME NEW f \in Fetchers, OpenThrottled(f) PROVE (Renewal /\ RejectedAfterRenewal)'
  BY <1>5 DEF OpenThrottled
<1>6. ASSUME NEW f \in Fetchers, OpenRejected(f) PROVE (Renewal /\ RejectedAfterRenewal)'
  BY <1>6 DEF OpenRejected
<1>7. ASSUME NEW f \in Fetchers, OpenRejectedAgain(f) PROVE (Renewal /\ RejectedAfterRenewal)'
  BY <1>7 DEF OpenRejectedAgain
<1>8. ASSUME NEW f \in Fetchers, OpenFails(f) PROVE (Renewal /\ RejectedAfterRenewal)'
  BY <1>8 DEF OpenFails
<1>9. ASSUME NEW f \in Fetchers, OpenFatal(f) PROVE (Renewal /\ RejectedAfterRenewal)'
  BY <1>9 DEF OpenFatal
<1>10. ASSUME NEW f \in Fetchers, Row(f) PROVE (Renewal /\ RejectedAfterRenewal)'
  BY <1>10 DEF Row
<1>11. ASSUME NEW f \in Fetchers, Done(f) PROVE (Renewal /\ RejectedAfterRenewal)'
  BY <1>11 DEF Done
<1>12. ASSUME NEW f \in Fetchers, StreamEnds(f) PROVE (Renewal /\ RejectedAfterRenewal)'
  BY <1>12 DEF StreamEnds
<1>13. ASSUME NEW f \in Fetchers, StreamBreaks(f) PROVE (Renewal /\ RejectedAfterRenewal)'
  BY <1>13 DEF StreamBreaks
<1>14. ASSUME NEW f \in Fetchers, StreamIsWrong(f) PROVE (Renewal /\ RejectedAfterRenewal)'
  BY <1>14 DEF StreamIsWrong
<1>15. ASSUME NEW f \in Fetchers, DecideWhole(f) PROVE (Renewal /\ RejectedAfterRenewal)'
  BY <1>15 DEF DecideWhole
<1>16. ASSUME NEW f \in Fetchers, DecideShort(f) PROVE (Renewal /\ RejectedAfterRenewal)'
  BY <1>16 DEF DecideShort
<1>17. ASSUME NEW f \in Fetchers, RowLost(f) PROVE (Renewal /\ RejectedAfterRenewal)'
  BY <1>17 DEF RowLost
<1>18. CASE Rest
  BY <1>18 DEF Rest, vars
<1>19. CASE UNCHANGED vars
  BY <1>19 DEF vars
<1> QED
  BY <1>1, <1>2, <1>3, <1>4, <1>5, <1>6, <1>7, <1>8, <1>9, <1>10, <1>11, <1>12, <1>13, <1>14, <1>15, <1>16, <1>17, <1>18, <1>19 DEF Next, FetchStep

----------------------------------------------------------------------------

IInv ==
  /\ TypeOK
  /\ WithinBudget
  /\ AttemptsAccounted /\ AttemptsBounded
  /\ ResultsKept
  /\ Renewal /\ RejectedAfterRenewal

\* The invariant holds at the start.
LEMMA IInvInit == Init => IInv
BY CountsAssumption
   DEF Init, IInv, TypeOK, CallsOK, RowsOK, NoCount, Parsed, From, InOrder, WithinBudget, AttemptsAccounted, AttemptsBounded, Bit, ResultsKept, Honest, OkIsWhole,
       PrefixIsLastResort, Renewal, RejectedAfterRenewal, Results, NoReport

\* Every step keeps it.
LEMMA IInvStep == IInv /\ [Next]_vars => IInv'
BY CallsStep, RowsStep, BudgetStep, AccountStep, BoundStep, ResultsStep, RenewalStep DEF IInv, TypeOK

\* The inductive invariant holds in every behaviour.
THEOREM Invariance == Spec => []IInv
BY IInvInit, IInvStep, PTL DEF Spec

\* A fetch keeps its variables in their types: both counters stop at their limits.
THEOREM Typing == Spec => []TypeOK
<1>1. IInv => TypeOK
  BY DEF IInv
<1> QED
  BY <1>1, Invariance, PTL

\* A fetch opens at most Retries + ThrottleRetries connections.
THEOREM BoundedAttempts == Spec => [](AttemptsAccounted /\ AttemptsBounded)
<1>1. IInv => AttemptsAccounted /\ AttemptsBounded
  BY DEF IInv
<1> QED
  BY <1>1, Invariance, PTL

\* An ok result is the whole day, once; a prefix is kept only after Retries failures.
THEOREM HonestResults == Spec => [](OkIsWhole /\ PrefixIsLastResort)
<1>1. IInv => OkIsWhole /\ PrefixIsLastResort
  BY DEF IInv, ResultsKept
<1> QED
  BY <1>1, Invariance, PTL

\* Two different bearers were refused before a fetch gives up on them.
THEOREM RejectionIsReal == Spec => []RejectedAfterRenewal
<1>1. IInv => RejectedAfterRenewal
  BY DEF IInv
<1> QED
  BY <1>1, Invariance, PTL

----------------------------------------------------------------------------
(* The refinement: a fetch is one call of OneFetch                         *)

\* A step that returns nothing and counts no connection is none of OneFetch's steps.
LEMMA Silent ==
  ASSUME TypeOK, Honest, NEW f \in Fetchers, pc[f] # "end",
         rows' = [rows EXCEPT ![f] = rows'[f]],
         UNCHANGED <<attempts, result>>
  PROVE  UNCHANGED Fetch!vars
<1>1. \A g \in Fetchers : g # f => rows'[g] = rows[g]
  BY DEF TypeOK, CallsOK, RowsOK
<1>2. Kept' = Kept
  BY <1>1 DEF Kept, Honest
<1> QED
  BY <1>2 DEF Fetch!vars

\* A step that counts a connection is a Try, when no result is given yet.
LEMMA Trying ==
  ASSUME TypeOK, Honest, AttemptsBounded', TypeOK', NEW f \in Fetchers, pc[f] # "end",
         attempts' = [attempts EXCEPT ![f] = @ + 1],
         rows' = [rows EXCEPT ![f] = rows'[f]],
         UNCHANGED result
  PROVE  Fetch!Try(f)
<1>1. \A g \in Fetchers : g # f => rows'[g] = rows[g]
  BY DEF TypeOK, CallsOK, RowsOK
<1>2. Kept' = Kept
  BY <1>1 DEF Kept, Honest
<1>3. attempts[f] < Retries + ThrottleRetries
  BY CountsAssumption DEF AttemptsBounded, TypeOK, CallsOK
<1> QED
  BY <1>2, <1>3 DEF Fetch!Try, Fetch!Budget, Honest

\* A step that gives a result hands over the rows that go with it.
LEMMA Returning ==
  ASSUME TypeOK, Honest, NEW f \in Fetchers, pc[f] # "end", NEW how,
         result' = [result EXCEPT ![f] = how],
         rows' = [rows EXCEPT ![f] = rows'[f]],
         UNCHANGED attempts
  PROVE  Fetch!Return(f, how, IF how \in {"ok", "prefix"} THEN rows'[f] ELSE <<>>)
<1>1. Kept' = [Kept EXCEPT ![f] = IF how \in {"ok", "prefix"} THEN rows'[f] ELSE <<>>]
  BY DEF Kept, TypeOK, CallsOK, RowsOK
<1> QED
  BY <1>1 DEF Fetch!Return, Honest

\* What a call holds is a part of the day, also when rows were lost or a stream was cut.
LEMMA RowsArePart ==
  ASSUME TypeOK, Honest, NEW f \in Fetchers
  PROVE  rows[f] \in Fetch!Parts
<1>1. rows[f] \in Seq(1 .. DayRows) /\ Parsed(f)
  BY DEF TypeOK, RowsOK, Honest
<1>2. Len(rows[f]) \in 0 .. DayRows
  BY <1>1, LenProperties, CountsAssumption DEF Parsed, From
<1>3. rows[f] \in [1 .. Len(rows[f]) -> 1 .. DayRows]
  BY <1>1, LenProperties
<1>4. Fetch!InOrder(rows[f])
  BY <1>1 DEF Parsed, InOrder, Fetch!InOrder
<1> QED
  BY <1>2, <1>3, <1>4 DEF Fetch!Parts

\* Every step of a fetch is a step of OneFetch, or none.
LEMMA StepRefines ==
  ASSUME IInv, IInv', [Next]_vars
  PROVE  [Fetch!Next]_(Fetch!vars)
<1> USE CountsAssumption DEF Goto, End, localVars, sharedVars
<1>0. TypeOK /\ TypeOK' /\ Honest /\ AttemptsBounded' /\ AttemptsAccounted /\ WithinBudget
  BY DEF IInv, ResultsKept
<1>a. \A f \in Fetchers : Fetch!Try(f) => Fetch!Next
  BY DEF Fetch!Next
<1>b. ASSUME NEW f \in Fetchers, pc[f] # "end", pc[f] # "start",
             result' = [result EXCEPT ![f] = "fatal"],
             rows' = [rows EXCEPT ![f] = rows'[f]], UNCHANGED attempts
      PROVE  Fetch!Next
  <2>1. Fetch!Return(f, "fatal", <<>>)
    BY <1>0, <1>b, Returning
  <2>2. attempts[f] >= Fetch!Least["fatal"]
    <3>1. attempts[f] \in Nat
      BY <1>0 DEF TypeOK, CallsOK
    <3>2. attempts[f] > 0
      BY <1>0, <1>b DEF Honest
    <3> QED
      BY <3>1, <3>2 DEF Fetch!Least
  <2> QED
    BY <1>b, <2>1, <2>2 DEF Fetch!Next, Fetch!Raise, Fetch!Least
<1>c. ASSUME NEW f \in Fetchers, pc[f] \in {"open", "stream", "decide"},
             attempts[f] >= Retries, NEW how \in {"transient", "prefix"},
             result' = [result EXCEPT ![f] = how],
             rows' = [rows EXCEPT ![f] = rows'[f]], UNCHANGED attempts,
             how = "prefix" => rows'[f] = rows[f]
      PROVE  Fetch!Next
  <2>1. CASE how = "transient"
    <3>1. Fetch!Return(f, "transient", <<>>)
      BY <1>0, <1>c, <2>1, Returning
    <3> QED
      BY <1>c, <3>1 DEF Fetch!Next, Fetch!Raise, Fetch!Least
  <2>2. CASE how = "prefix"
    <3>1. Fetch!Return(f, "prefix", rows[f])
      BY <1>0, <1>c, <2>2, Returning
    <3>2. rows[f] \in Fetch!Parts
      BY <1>0, RowsArePart
    <3>3. Fetch!ReturnPrefix(f)
      BY <1>c, <3>1, <3>2 DEF Fetch!ReturnPrefix
    <3> QED
      BY <3>3 DEF Fetch!Next
  <2> QED
    BY <2>1, <2>2
<1>d. ASSUME NEW f \in Fetchers, pc[f] \in {"open", "stream", "decide"},
             NEW how \in {"transient", "prefix"}, CountTransient(f, how),
             rows' = [rows EXCEPT ![f] = rows'[f]], UNCHANGED attempts,
             how = "prefix" /\ transient'[f] >= Retries => rows'[f] = rows[f]
      PROVE  [Fetch!Next]_(Fetch!vars)
  <2>0. transient'[f] = transient[f] + 1
    BY <1>0, <1>d DEF CountTransient, TypeOK, CallsOK, RowsOK
  <2>1. CASE transient[f] + 1 >= Retries
    <3>1. attempts[f] >= Retries
      BY <1>0, <1>d, <2>1 DEF AttemptsAccounted, TypeOK, CallsOK, Bit
    <3>2. result' = [result EXCEPT ![f] = how]
      BY <1>d, <2>1 DEF CountTransient
    <3> QED
      BY <1>c, <1>d, <2>0, <2>1, <3>1, <3>2
  <2>2. CASE ~ (transient[f] + 1 >= Retries)
    <3>1. UNCHANGED <<attempts, result>>
      BY <1>d, <2>2 DEF CountTransient
    <3> QED
      BY <1>0, <1>d, <3>1, Silent
  <2> QED
    BY <2>1, <2>2
<1>s. ASSUME NEW f \in Fetchers, pc[f] # "end", UNCHANGED <<attempts, rows, result>>
      PROVE  UNCHANGED Fetch!vars
  <2>1. rows' = [rows EXCEPT ![f] = rows'[f]]
    BY <1>0, <1>s DEF TypeOK, CallsOK, RowsOK
  <2> QED
    BY <1>0, <1>s, <2>1, Silent
<1>1. ASSUME NEW f \in Fetchers, Connect(f) PROVE Fetch!Next
  <2>1. pc[f] # "end" /\ attempts' = [attempts EXCEPT ![f] = @ + 1] /\ UNCHANGED result
    BY <1>1 DEF Connect
  <2>2. rows' = [rows EXCEPT ![f] = rows'[f]]
    BY <1>0, <1>1 DEF Connect, TypeOK, CallsOK, RowsOK
  <2> QED
    BY <1>0, <1>a, <2>1, <2>2, Trying
<1>2. ASSUME NEW f \in Fetchers, ConnectWithoutToken(f) PROVE Fetch!Next
  <2>1. Kept' = Kept
    BY <1>0, <1>2 DEF ConnectWithoutToken, Kept, Honest, TypeOK, CallsOK, RowsOK
  <2>2. attempts[f] < Retries + ThrottleRetries
    <3>1. attempts[f] \in Nat /\ attempts'[f] = attempts[f] + 1
      BY <1>0, <1>2 DEF ConnectWithoutToken, TypeOK, CallsOK
    <3>2. attempts'[f] <= Retries + ThrottleRetries
      BY <1>0 DEF AttemptsBounded
    <3> QED
      BY <3>1, <3>2
  <2>3. Fetch!RaiseAuth(f)
    BY <1>0, <1>2, <2>1, <2>2 DEF ConnectWithoutToken, Fetch!RaiseAuth, Fetch!Budget, Honest
  <2> QED
    BY <2>3 DEF Fetch!Next
<1>3. ASSUME NEW f \in Fetchers, NothingRequested(f) PROVE Fetch!Next
  <2>1. rows[f] = <<>> /\ attempts[f] = 0
    BY <1>0, <1>3 DEF NothingRequested, Honest
  <2>2. rows' = [rows EXCEPT ![f] = rows'[f]] /\ rows'[f] = <<>>
    BY <1>0, <1>3, <2>1 DEF NothingRequested, TypeOK, CallsOK, RowsOK
  <2>3. Fetch!Return(f, "ok", <<>>)
    BY <1>0, <1>3, <2>2, Returning DEF NothingRequested
  <2> QED
    BY <2>1, <2>3 DEF Fetch!Next, Fetch!ReturnNothing
<1>4. ASSUME NEW f \in Fetchers, Open(f) \/ OpenRejected(f) \/ Done(f) \/ StreamEnds(f)
      PROVE  UNCHANGED Fetch!vars
  BY <1>4, <1>s DEF Open, OpenRejected, Done, StreamEnds
<1>5. ASSUME NEW f \in Fetchers, OpenThrottled(f) PROVE [Fetch!Next]_(Fetch!vars)
  <2>0. rows' = [rows EXCEPT ![f] = rows'[f]]
    BY <1>0, <1>5 DEF OpenThrottled, TypeOK, CallsOK, RowsOK
  <2>1. CASE throttled[f] + 1 >= ThrottleRetries
    <3>1. attempts[f] >= ThrottleRetries
      BY <1>0, <1>5, <2>1 DEF OpenThrottled, AttemptsAccounted, TypeOK, CallsOK, Bit
    <3>2. Fetch!Return(f, "throttled", <<>>)
      BY <1>0, <1>5, <2>0, <2>1, Returning DEF OpenThrottled
    <3> QED
      BY <3>1, <3>2 DEF Fetch!Next, Fetch!Raise, Fetch!Least
  <2>2. CASE ~ (throttled[f] + 1 >= ThrottleRetries)
    BY <1>5, <1>s, <2>2 DEF OpenThrottled
  <2> QED
    BY <2>1, <2>2
<1>6. ASSUME NEW f \in Fetchers, OpenRejectedAgain(f) PROVE Fetch!Next
  <2>0. rows' = [rows EXCEPT ![f] = rows'[f]]
    BY <1>0, <1>6 DEF OpenRejectedAgain, TypeOK, CallsOK, RowsOK
  <2>1. attempts[f] >= 2
    BY <1>0, <1>6 DEF OpenRejectedAgain, AttemptsAccounted, TypeOK, CallsOK, RowsOK, Bit
  <2>2. Fetch!Return(f, "rejected", <<>>)
    BY <1>0, <1>6, <2>0, Returning DEF OpenRejectedAgain
  <2> QED
    BY <2>1, <2>2 DEF Fetch!Next, Fetch!Raise, Fetch!Least
<1>7. ASSUME NEW f \in Fetchers, OpenFails(f) \/ StreamBreaks(f) \/ DecideShort(f)
      PROVE  [Fetch!Next]_(Fetch!vars)
  <2>1. rows' = [rows EXCEPT ![f] = rows'[f]]
    BY <1>0, <1>7 DEF OpenFails, StreamBreaks, DecideShort, Drop, TypeOK, CallsOK, RowsOK
  <2>2. UNCHANGED attempts /\ pc[f] \in {"open", "stream", "decide"}
    BY <1>7 DEF OpenFails, StreamBreaks, DecideShort
  <2>3. CASE OpenFails(f) \/ StreamBreaks(f)
    BY <1>d, <2>1, <2>2, <2>3 DEF OpenFails, StreamBreaks
  <2>4. CASE DecideShort(f)
    <3>1. transient'[f] >= Retries => rows'[f] = rows[f]
      BY <2>4 DEF DecideShort
    <3> QED
      BY <1>d, <2>1, <2>2, <2>4, <3>1 DEF DecideShort
  <2> QED
    BY <1>7, <2>3, <2>4
<1>8. ASSUME NEW f \in Fetchers, OpenFatal(f) \/ StreamIsWrong(f) PROVE Fetch!Next
  <2>1. rows' = [rows EXCEPT ![f] = rows'[f]]
    BY <1>0, <1>8 DEF OpenFatal, StreamIsWrong, Drop, TypeOK, CallsOK, RowsOK
  <2> QED
    BY <1>8, <1>b, <2>1 DEF OpenFatal, StreamIsWrong
<1>9. ASSUME NEW f \in Fetchers, Row(f) \/ RowLost(f) PROVE UNCHANGED Fetch!vars
  <2>1. rows' = [rows EXCEPT ![f] = rows'[f]]
    BY <1>0, <1>9 DEF Row, RowLost, TypeOK, CallsOK, RowsOK
  <2> QED
    BY <1>0, <1>9, <2>1, Silent DEF Row, RowLost
<1>10. ASSUME NEW f \in Fetchers, DecideWhole(f) PROVE Fetch!Next
  <2>0. rows' = [rows EXCEPT ![f] = rows'[f]] /\ rows'[f] = rows[f]
    BY <1>0, <1>10 DEF DecideWhole, TypeOK, CallsOK, RowsOK
  <2>1. Fetch!Return(f, "ok", rows[f])
    BY <1>0, <1>10, <2>0, Returning DEF DecideWhole
  <2>2. rows[f] = Fetch!Day /\ attempts[f] > 0
    BY <1>0, <1>10, WholeIsDay DEF DecideWhole, Honest, Day, Fetch!Day
  <2> QED
    BY <2>1, <2>2 DEF Fetch!Next, Fetch!ReturnDay
<1>11. CASE Rest \/ UNCHANGED vars
  <2>1. UNCHANGED <<attempts, rows, result>>
    BY <1>11 DEF Rest, vars
  <2> QED
    BY <2>1 DEF Kept, Fetch!vars
<1> QED
  BY <1>1, <1>2, <1>3, <1>4, <1>5, <1>6, <1>7, <1>8, <1>9, <1>10, <1>11 DEF Next, FetchStep

\* fetch_day implements its contract: one outcome, within the budget, and as promised.
THEOREM FetchImplemented == Spec => ImplementsFetch
<1>1. Init => Fetch!Init
  BY DEF Init, Fetch!Init, Kept
<1>2. IInv /\ IInv' /\ [Next]_vars => [Fetch!Next]_(Fetch!vars)
  BY StepRefines
<1> QED
  BY <1>1, <1>2, Invariance, PTL DEF Spec, ImplementsFetch, Fetch!Spec

=============================================================================

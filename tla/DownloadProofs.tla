--------------------------- MODULE DownloadProofs ---------------------------
(***************************************************************************)
(* Theorems about Download, for any days, any pool, any number of runs and *)
(* any failures.                                                           *)
(***************************************************************************)
EXTENDS Download, FiniteSetTheorems, Extrema

----------------------------------------------------------------------------
(* Days and ticks                                                          *)

\* A tick is of the day whose first and last instants enclose it.
LEMMA DayBounds ==
  ASSUME NEW k \in Nat, NEW d \in Nat
  PROVE  DayOf(k) = d <=> d * TicksPerDay <= k /\ k < DayEnd(d)
<1> DEFINE q == k \div TicksPerDay
           r == k % TicksPerDay
<1>1. k = TicksPerDay * q + r /\ r \in 0 .. TicksPerDay - 1 /\ q \in Int /\ TicksPerDay \in Nat \ {0}
  BY SizesAssumption
<1>2. DayOf(k) = q /\ DayEnd(d) = (d + 1) * TicksPerDay
  BY DEF DayOf, DayEnd
<1> HIDE DEF q, r
<1>3. ASSUME q + 1 <= d PROVE k < d * TicksPerDay
  <2>1. TicksPerDay * (q + 1) <= TicksPerDay * d
    BY <1>1, <1>3
  <2>2. TicksPerDay * (q + 1) = TicksPerDay * q + TicksPerDay
    BY <1>1
  <2> QED
    BY <1>1, <2>1, <2>2
<1>4. ASSUME d + 1 <= q PROVE DayEnd(d) <= k
  <2>1. TicksPerDay * (d + 1) <= TicksPerDay * q
    BY <1>1, <1>4
  <2> QED
    BY <1>1, <1>2, <2>1
<1>5. ASSUME q = d PROVE d * TicksPerDay <= k /\ k < DayEnd(d)
  <2>1. (d + 1) * TicksPerDay = d * TicksPerDay + TicksPerDay
    BY <1>1
  <2> QED
    BY <1>1, <1>2, <1>5, <2>1
<1> QED
  BY <1>1, <1>2, <1>3, <1>4, <1>5

\* The instants of the days are numbers, finitely many.
LEMMA TicksAreFinite == Ticks \subseteq Nat /\ IsFiniteSet(Ticks)
<1>1. CASE Days = {}
  <2>1. Ticks = {}
    BY <1>1 DEF Ticks
  <2> QED
    BY <2>1, FS_EmptySet
<1>2. CASE Days # {}
  <2>1. Max(Days) \in Nat
    <3>1. \E b \in Nat : \A d \in Days : d <= b
      BY SizesAssumption, FiniteIsBounded
    <3> QED
      BY <1>2, <3>1, MaxIsGreatest, SizesAssumption
  <2>2. TicksPerDay * (1 + Max(Days)) \in Nat
    BY <2>1, SizesAssumption
  <2>3. Ticks \in SUBSET (0 .. (TicksPerDay * (1 + Max(Days))))
    BY DEF Ticks
  <2>4. IsFiniteSet(0 .. (TicksPerDay * (1 + Max(Days))))
    BY <2>2, FS_Interval
  <2>5. IsFiniteSet(Ticks)
    BY <2>3, <2>4, FS_Subset
  <2> QED
    BY <2>2, <2>3, <2>5
<1> QED
  BY <1>1, <1>2

\* The table's rows are numbers, finitely many, with a first and a last one.
LEMMA RowsAreNumbers ==
  ASSUME TypeOK
  PROVE  /\ table \subseteq Nat /\ IsFiniteSet(table)
         /\ table # {} => /\ Max(table) \in table /\ \A k \in table : k <= Max(table)
                         /\ Min(table) \in table /\ \A k \in table : Min(table) <= k
<1>1. table \subseteq Nat /\ IsFiniteSet(table)
  BY TicksAreFinite, FS_Subset DEF TypeOK
<1>2. ASSUME table # {} PROVE Max(table) \in table /\ \A k \in table : k <= Max(table)
  <2>1. PICK b \in Nat : \A k \in table : k <= b
    BY <1>1, FiniteIsBounded
  <2>2. Max(table) \in table /\ \A k \in table : Max(table) >= k
    BY <1>1, <1>2, <2>1, MaxIsGreatest
  <2> QED
    BY <1>1, <2>2
<1>3. ASSUME table # {} PROVE Min(table) \in table /\ \A k \in table : Min(table) <= k
  BY <1>1, <1>3, MinIsLeast
<1> QED
  BY <1>1, <1>2, <1>3

----------------------------------------------------------------------------
(* Types                                                                   *)

\* A pool thread takes a day only when a slot is free.
LEMMA PoolTyping ==
  ASSUME TypeOK, NEW d \in Days, NEW point, point = "fetched" => SlotFree,
         work' = [work EXCEPT ![d] = point]
  PROVE  Cardinality({e \in Days : work'[e] = "fetched"}) <= Jobs
<1> DEFINE S == {e \in Days : work[e] = "fetched"}
           R == {e \in Days : work'[e] = "fetched"}
<1>1. IsFiniteSet(S) /\ Cardinality(S) \in Nat /\ Cardinality(S) <= Jobs /\ Jobs \in Nat
  <2>1. S \in SUBSET Days
    OBVIOUS
  <2> QED
    BY <2>1, FS_Subset, FS_CardinalityType, SizesAssumption DEF TypeOK
<1>2. CASE point = "fetched"
  <2>1. R \in SUBSET (S \cup {d})
    BY DEF TypeOK
  <2>2. IsFiniteSet(S \cup {d}) /\ Cardinality(S \cup {d}) <= Cardinality(S) + 1
    <3> HIDE DEF S
    <3>1. /\ IsFiniteSet(S \cup {d})
          /\ Cardinality(S \cup {d}) = IF d \in S THEN Cardinality(S) ELSE Cardinality(S) + 1
      BY <1>1, FS_AddElement
    <3> QED
      BY <1>1, <3>1
  <2>3. Cardinality(R) <= Cardinality(S \cup {d}) /\ Cardinality(R) \in Nat /\ Cardinality(S \cup {d}) \in Nat
    BY <2>1, <2>2, FS_Subset, FS_CardinalityType
  <2>4. Cardinality(S) < Jobs
    BY <1>2 DEF SlotFree
  <2> HIDE DEF S, R
  <2>5. Cardinality(R) <= Jobs
    BY <1>1, <2>2, <2>3, <2>4
  <2> QED
    BY <2>5 DEF R
<1>3. CASE point # "fetched"
  <2>1. R \in SUBSET S
    BY <1>3 DEF TypeOK
  <2>2. Cardinality(R) <= Cardinality(S) /\ Cardinality(R) \in Nat
    BY <1>1, <2>1, FS_Subset, FS_CardinalityType
  <2> HIDE DEF S, R
  <2>3. Cardinality(R) <= Jobs
    BY <1>1, <2>2
  <2> QED
    BY <2>3 DEF R
<1> QED
  BY <1>2, <1>3

\* The initial state is well typed.
LEMMA InitTyping == Init => TypeOK
<1> SUFFICES ASSUME Init PROVE TypeOK
  OBVIOUS
<1>1. {d \in Days : work[d] = "fetched"} = {}
  BY DEF Init
<1>2. Cardinality({d \in Days : work[d] = "fetched"}) <= Jobs
  BY <1>1, FS_EmptySet, SizesAssumption
<1> QED
  BY <1>2, SizesAssumption DEF Init, TypeOK, NoRecord, Records, Events

\* The server's steps keep the types, and so does whoever removes a file.
LEMMA OutsideTyping ==
  ASSUME TypeOK,
         \/ \E k \in Ticks : Append(k)
         \/ RefreshSummary
         \/ \E d \in Days : LoseFile(d)
         \/ UNCHANGED vars
  PROVE  TypeOK'
<1> USE DEF TypeOK, serverVars, runVars, faultVars
<1>1. ASSUME NEW k \in Ticks, Append(k) PROVE TypeOK'
  BY <1>1 DEF Append
<1>2. CASE RefreshSummary
  <2>1. summary' \in Nat
    BY <1>2, RowsAreNumbers DEF RefreshSummary
  <2> QED
    BY <1>2, <2>1 DEF RefreshSummary
<1>3. ASSUME NEW d \in Days, LoseFile(d) PROVE TypeOK'
  BY <1>3, SizesAssumption DEF LoseFile, Fault, Events
<1>4. CASE UNCHANGED vars
  BY <1>4 DEF vars
<1> QED
  BY <1>1, <1>2, <1>3, <1>4

\* The main thread's steps keep the types.
LEMMA MainTyping ==
  ASSUME TypeOK,
         \/ \E force \in BOOLEAN, start, end \in Days : StartRun(force, start, end)
         \/ \E d \in Days : Record(d) \/ Skip(d)
         \/ EndRun \/ Crash
  PROVE  TypeOK'
<1> USE DEF TypeOK, serverVars, runVars, faultVars
<1>1. ASSUME NEW force \in BOOLEAN, NEW start \in Days, NEW end \in Days, StartRun(force, start, end)
      PROVE  TypeOK'
  <2> DEFINE planned == Planned(Candidates(summary, start, end), summary, force)
  <2>1. work' = [d \in Days |-> IF d \in planned THEN "queued" ELSE "no"]
    BY <1>1 DEF StartRun
  <2>2. {d \in Days : work'[d] = "fetched"} = {}
    BY <2>1
  <2>3. Cardinality({d \in Days : work'[d] = "fetched"}) <= Jobs
    BY <2>2, FS_EmptySet, SizesAssumption
  <2>4. work' \in [Days -> {"no", "queued", "fetched", "written", "failed"}]
    BY <2>1
  <2>5. happened' \subseteq Events
    <3>1. happened' = happened \cup {e \in {"refetched"} : \E d \in planned : disk[d].complete}
      BY <1>1 DEF StartRun
    <3> QED
      BY <3>1 DEF Events
  <2>6. runs' \in 0 .. MaxRuns
    BY <1>1, SizesAssumption DEF StartRun
  <2>7. repaired' \in Nat
    BY <1>1 DEF StartRun
  <2>8. /\ UNCHANGED <<table, summary, file, disk, got, whole, faults>>
        /\ run' = "running" /\ snapshot' = summary /\ book' = disk
    BY <1>1 DEF StartRun
  <2> QED
    BY <2>3, <2>4, <2>5, <2>6, <2>7, <2>8
<1>2. ASSUME NEW d \in Days, Record(d) PROVE TypeOK'
  <2>1. Cardinality({e \in Days : work'[e] = "fetched"}) <= Jobs
    BY <1>2, PoolTyping DEF Record
  <2>2. RecordOf(d) \in Records
    <3>1. IsFiniteSet(got[d])
      BY TicksAreFinite, FS_Subset
    <3> QED
      BY <3>1, FS_CardinalityType DEF RecordOf, Records
  <2>3. book' \in [Days -> Records]
    BY <1>2, <2>2 DEF Record
  <2> QED
    BY <1>2, <2>1, <2>3 DEF Record, Forget
<1>3. ASSUME NEW d \in Days, Skip(d) PROVE TypeOK'
  <2>1. Cardinality({e \in Days : work'[e] = "fetched"}) <= Jobs
    BY <1>3, PoolTyping DEF Skip
  <2> QED
    BY <1>3, <2>1 DEF Skip
<1>4. CASE EndRun
  BY <1>4 DEF EndRun, NoRecord, Records
<1>5. CASE Crash
  <2>1. {d \in Days : work'[d] = "fetched"} = {}
    BY <1>5 DEF Crash
  <2>2. Cardinality({d \in Days : work'[d] = "fetched"}) <= Jobs
    BY <2>1, FS_EmptySet, SizesAssumption
  <2>3. faults' \in 0 .. MaxFaults /\ happened' \subseteq Events /\ repaired' \in Nat
    BY <1>5, SizesAssumption DEF Crash, Fault, Events
  <2>4. /\ work' = [d \in Days |-> "no"] /\ got' = [d \in Days |-> {}]
        /\ whole' = [d \in Days |-> FALSE] /\ book' = [d \in Days |-> NoRecord]
        /\ run' = "idle" /\ snapshot' = 0 /\ UNCHANGED <<table, summary, file, disk, runs>>
    BY <1>5 DEF Crash
  <2>5. work' \in [Days -> {"no", "queued", "fetched", "written", "failed"}] /\ book' \in [Days -> Records]
    BY <2>4 DEF NoRecord, Records
  <2> QED
    BY <2>2, <2>3, <2>4, <2>5
<1> QED
  BY <1>1, <1>2, <1>3, <1>4, <1>5

\* The pool threads' steps keep the types.
LEMMA PoolStepTyping ==
  ASSUME TypeOK, NEW d \in Days, FetchWhole(d) \/ FetchPrefix(d) \/ FetchFails(d) \/ Write(d)
  PROVE  TypeOK'
<1> USE DEF TypeOK, serverVars, faultVars
<1>1. CASE FetchWhole(d)
  <2>1. Cardinality({e \in Days : work'[e] = "fetched"}) <= Jobs
    BY <1>1, PoolTyping DEF FetchWhole
  <2>2. got' \in [Days -> SUBSET Ticks]
    BY <1>1 DEF FetchWhole, Rows
  <2> QED
    BY <1>1, <2>1, <2>2 DEF FetchWhole
<1>2. CASE FetchPrefix(d)
  <2>1. Cardinality({e \in Days : work'[e] = "fetched"}) <= Jobs
    BY <1>2, PoolTyping DEF FetchPrefix
  <2>2. got' \in [Days -> SUBSET Ticks]
    BY <1>2 DEF FetchPrefix, Rows
  <2>3. faults' \in 0 .. MaxFaults /\ happened' \subseteq Events /\ repaired' \in Nat
    BY <1>2, SizesAssumption DEF FetchPrefix, Fault, Events
  <2> QED
    BY <1>2, <2>1, <2>2, <2>3 DEF FetchPrefix
<1>3. CASE FetchFails(d)
  <2>1. Cardinality({e \in Days : work'[e] = "fetched"}) <= Jobs
    BY <1>3, PoolTyping DEF FetchFails
  <2>2. faults' \in 0 .. MaxFaults /\ happened' \subseteq Events /\ repaired' \in Nat
    BY <1>3, SizesAssumption DEF FetchFails, Fault, Events
  <2> QED
    BY <1>3, <2>1, <2>2 DEF FetchFails, Forget
<1>4. CASE Write(d)
  <2>1. Cardinality({e \in Days : work'[e] = "fetched"}) <= Jobs
    BY <1>4, PoolTyping DEF Write
  <2>2. file' \in [Days -> SUBSET Ticks]
    BY <1>4 DEF Write
  <2> QED
    BY <1>4, <2>1, <2>2 DEF Write
<1> QED
  BY <1>1, <1>2, <1>3, <1>4

\* Every step keeps the types.
LEMMA TypingStep == TypeOK /\ [Next]_vars => TypeOK'
BY OutsideTyping, MainTyping, PoolStepTyping DEF Next, RunStep

\* Every variable keeps its type; the pool is never larger than --jobs, and no future
\* outlives its run.
THEOREM Typing == Spec => []TypeOK
BY InitTyping, TypingStep, PTL DEF Spec

----------------------------------------------------------------------------
(* The inductive invariant                                                 *)

\* A bound that a run takes comes just after a row, and the run's manifest is the one
\* on disk.
Bounds ==
  /\ summary # 0 => summary - 1 \in table
  /\ run = "running" =>
       snapshot # 0 /\ snapshot - 1 \in table /\ snapshot <= summary /\ book = disk

\* A file holds rows of its day; what a future has in hand are the rows of its day below
\* the snapshot, all of them unless the answer was cut, and once written they are the file.
Answers == \A d \in Days :
  /\ file[d] \subseteq {k \in table : DayOf(k) = d}
  /\ work[d] \in {"fetched", "written"} =>
       /\ got[d] \subseteq Rows(d, snapshot)
       /\ IF whole[d] THEN got[d] = Rows(d, snapshot) ELSE "cut" \in happened
  /\ work[d] = "written" /\ got[d] # {} => file[d] = got[d]

\* A complete record was true when it was made, and no row of its day can follow.  It is
\* true still, but for a lost file or a kept prefix that its own record will correct.
Vouched == \A d \in Days : Complete(d) =>
  /\ DayEnd(d) <= summary /\ (run = "running" => DayEnd(d) <= snapshot)
  /\ disk[d].known /\ disk[d].rows = Cardinality(Rows(d, DayEnd(d)))
  /\ work[d] # "no" => "refetched" \in happened
  /\ \/ DayIsWhole(d) \/ (file[d] = {} /\ "lost" \in happened)
     \/ work[d] = "written" /\ ~ whole[d]
     \/ RefetchLeftPrefix

\* While nothing has failed since a full run began, each sealed day is whole or has
\* a future that has all of its rows.
Repairing == repaired # 0 =>
  /\ repaired <= summary /\ (run = "running" => snapshot = repaired)
  /\ \A d \in Days : work[d] # "failed" /\ (work[d] \in {"fetched", "written"} => whole[d])
  /\ \/ RefetchLeftPrefix
     \/ \A d \in Days : DayOf(Min(table)) <= d /\ DayEnd(d) <= repaired =>
          work[d] # "no" \/ (Complete(d) /\ DayIsWhole(d))

IInv == TypeOK /\ Bounds /\ Answers /\ Vouched /\ Repairing

----------------------------------------------------------------------------
(* Days that are settled                                                   *)

\* All rows of a day come before its end, so a bound past the day's end cuts none off.
LEMMA RowsOfSealedDay ==
  ASSUME TypeOK, NEW d \in Days, NEW n \in Nat, DayEnd(d) <= n
  PROVE  /\ DayEnd(d) \in Nat
         /\ Rows(d, DayEnd(d)) = {k \in table : DayOf(k) = d}
         /\ Rows(d, n) = {k \in table : DayOf(k) = d}
<1>1. d \in Nat /\ DayEnd(d) \in Nat
  BY SizesAssumption DEF DayEnd
<1>2. \A k \in table : k \in Nat /\ (DayOf(k) = d => k < DayEnd(d))
  BY <1>1, RowsAreNumbers, DayBounds
<1>3. \A k \in table : DayOf(k) = d => k < DayEnd(d) /\ k < n
  <2> SUFFICES ASSUME NEW k \in table, DayOf(k) = d PROVE k < DayEnd(d) /\ k < n
    OBVIOUS
  <2>1. k \in Nat /\ k < DayEnd(d)
    BY <1>2
  <2> HIDE DEF DayEnd
  <2> QED
    BY <1>1, <2>1
<1>4. Rows(d, DayEnd(d)) = {k \in table : DayOf(k) = d} /\ Rows(d, n) = {k \in table : DayOf(k) = d}
  BY <1>3 DEF Rows
<1> QED
  BY <1>1, <1>4

\* A day that ends below a bound is not after the day of the bound's last instant.
LEMMA SealedBeforeTail ==
  ASSUME NEW d \in Days, NEW n \in Nat \ {0}, DayEnd(d) <= n
  PROVE  d <= Tail(n)
<1> DEFINE q == DayOf(n - 1)
<1>1. d \in Nat /\ n - 1 \in Nat /\ TicksPerDay \in Nat \ {0}
  BY SizesAssumption
<1>2. q \in Nat
  BY <1>1 DEF DayOf
<1> HIDE DEF q
<1>3. n - 1 < (q + 1) * TicksPerDay
  BY <1>1, <1>2, DayBounds DEF q, DayEnd
<1>4. SUFFICES ASSUME q + 1 <= d PROVE FALSE
  BY <1>1, <1>2 DEF Tail, q
<1>5. (q + 1) * TicksPerDay <= d * TicksPerDay
  BY <1>1, <1>2, <1>4
<1>6. (d + 1) * TicksPerDay = d * TicksPerDay + TicksPerDay
  BY <1>1
<1> QED
  BY <1>1, <1>2, <1>3, <1>5, <1>6 DEF DayEnd

\* A row that arrives lies above every bound a summary has shown: it joins no day that
\* ended there, and it is not the first.
LEMMA AppendIsAbove ==
  ASSUME TypeOK, Bounds, NEW k \in Ticks, Append(k), summary # 0
  PROVE  /\ \A n \in 0 .. summary, d \in Days : Rows(d, n)' = Rows(d, n)
         /\ Min(table)' = Min(table)
<1>1. k \in Nat /\ summary \in Nat /\ summary - 1 \in table /\ table' = table \cup {k}
  BY TicksAreFinite DEF TypeOK, Bounds, Append
<1>2. summary <= k
  BY <1>1 DEF Append
<1>3. \A n \in 0 .. summary, d \in Days : Rows(d, n)' = Rows(d, n)
  BY <1>1, <1>2 DEF Rows
<1>4. Min(table)' = Min(table)
  <2>1. table \subseteq Nat /\ Min(table) \in table /\ \A j \in table : Min(table) <= j
    BY <1>1, RowsAreNumbers
  <2>2. Min(table)' \in table' /\ \A j \in table' : Min(table)' <= j
    <3>1. table' \subseteq Nat /\ table' # {}
      BY <1>1, <2>1
    <3>2. Min(table') \in table' /\ \A j \in table' : Min(table') <= j
      BY <3>1, MinIsLeast
    <3> QED
      BY <3>2
  <2>3. Min(table) < k
    BY <2>1 DEF Append
  <2>4. Min(table) \in Nat /\ Min(table)' \in Nat
    <3>1. table' \subseteq Nat
      BY <1>1, <2>1
    <3> QED
      BY <2>1, <2>2, <3>1
  <2>5. Min(table)' <= Min(table)
    BY <1>1, <2>1, <2>2
  <2>6. Min(table)' # k
    BY <1>1, <2>3, <2>4, <2>5
  <2>7. Min(table) <= Min(table)'
    BY <1>1, <2>1, <2>2, <2>6
  <2> QED
    BY <2>4, <2>5, <2>7
<1> QED
  BY <1>3, <1>4

\* A future that has all rows of a sealed day and has written them leaves them on disk.
LEMMA WrittenIsWhole ==
  ASSUME TypeOK, Bounds, Answers, NEW d \in Days, work[d] = "written", whole[d], DayEnd(d) <= snapshot
  PROVE  /\ got[d] = Rows(d, DayEnd(d)) /\ file[d] = Rows(d, DayEnd(d))
         /\ file[d] = {k \in table : DayOf(k) = d}
<1>1. snapshot \in Nat /\ got[d] = Rows(d, snapshot) /\ (got[d] # {} => file[d] = got[d])
  BY DEF TypeOK, Answers
<1>2. Rows(d, DayEnd(d)) = {k \in table : DayOf(k) = d} /\ Rows(d, snapshot) = {k \in table : DayOf(k) = d}
  BY <1>1, RowsOfSealedDay
<1>3. file[d] \subseteq {k \in table : DayOf(k) = d}
  BY DEF Answers
<1> QED
  BY <1>1, <1>2, <1>3

----------------------------------------------------------------------------
(* What a step preserves                                                   *)

\* Every step keeps the snapshot and the summary within the table.
LEMMA BoundsStep ==
  ASSUME TypeOK, Bounds, [Next]_vars
  PROVE  Bounds'
<1> USE DEF Bounds, serverVars, runVars, faultVars
<1>1. ASSUME NEW k \in Ticks, Append(k) PROVE Bounds'
  BY <1>1 DEF Append
<1>2. CASE RefreshSummary
  <2>1. summary' = Max(table) + 1 /\ Max(table) \in table /\ \A k \in table : k <= Max(table)
    BY <1>2, RowsAreNumbers DEF RefreshSummary
  <2>2. table \subseteq Nat /\ Max(table) \in Nat /\ snapshot \in Nat
    BY <2>1, RowsAreNumbers DEF TypeOK
  <2>3. summary' - 1 \in table
    BY <2>1, <2>2
  <2>4. run = "running" => snapshot <= summary'
    BY <2>1, <2>2
  <2>5. UNCHANGED <<table, run, snapshot, book, disk>>
    BY <1>2 DEF RefreshSummary
  <2> QED
    BY <2>3, <2>4, <2>5
<1>3. ASSUME NEW force \in BOOLEAN, NEW start \in Days, NEW end \in Days, StartRun(force, start, end)
      PROVE  Bounds'
  BY <1>3 DEF StartRun, TypeOK
<1>4. ASSUME NEW d \in Days,
             FetchWhole(d) \/ FetchPrefix(d) \/ FetchFails(d) \/ Write(d) \/ Skip(d) \/ LoseFile(d)
      PROVE  Bounds'
  BY <1>4 DEF FetchWhole, FetchPrefix, FetchFails, Write, Skip, LoseFile
<1>5. ASSUME NEW d \in Days, Record(d) PROVE Bounds'
  BY <1>5 DEF Record
<1>6. CASE EndRun
  BY <1>6 DEF EndRun
<1>7. CASE Crash
  BY <1>7 DEF Crash
<1>8. CASE UNCHANGED vars
  BY <1>8 DEF vars
<1> QED
  BY <1>1, <1>2, <1>3, <1>4, <1>5, <1>6, <1>7, <1>8 DEF Next, RunStep

\* A refresh shows a bound that is no lower.
LEMMA SummaryGrows ==
  ASSUME TypeOK, Bounds, RefreshSummary
  PROVE  summary' \in Nat /\ summary <= summary'
<1>1. summary' = Max(table) + 1 /\ Max(table) \in table /\ \A k \in table : k <= Max(table)
  BY RowsAreNumbers DEF RefreshSummary
<1>2. Max(table) \in Nat /\ summary \in Nat /\ (summary # 0 => summary - 1 \in table)
  BY <1>1, RowsAreNumbers DEF TypeOK, Bounds
<1>3. CASE summary # 0
  BY <1>1, <1>2, <1>3
<1>4. CASE summary = 0
  BY <1>1, <1>2, <1>4
<1> QED
  BY <1>3, <1>4

\* Every step keeps files and answers what the API has sent of their days.
LEMMA AnswersStep ==
  ASSUME TypeOK, Bounds, Answers, [Next]_vars
  PROVE  Answers'
<1> USE DEF serverVars, runVars, faultVars
<1>1. ASSUME NEW k \in Ticks, Append(k) PROVE Answers'
  <2>1. table \subseteq table' /\ UNCHANGED <<file, snapshot, work, got, whole, happened>>
    BY <1>1 DEF Append
  <2>2. ASSUME NEW d \in Days, work[d] \in {"fetched", "written"}
        PROVE  Rows(d, snapshot)' = Rows(d, snapshot)
    <3>1. run = "running"
      BY <2>2 DEF TypeOK
    <3>2. snapshot \in 0 .. summary /\ summary # 0
      BY <3>1 DEF Bounds, TypeOK
    <3> QED
      BY <1>1, <2>1, <3>2, AppendIsAbove DEF Rows
  <2> QED
    BY <2>1, <2>2 DEF Answers
<1>2. CASE RefreshSummary \/ UNCHANGED vars
  BY <1>2 DEF RefreshSummary, vars, Answers, Rows
<1>3. ASSUME NEW force \in BOOLEAN, NEW start \in Days, NEW end \in Days, StartRun(force, start, end)
      PROVE  Answers'
  <2>1. \A d \in Days : work'[d] \notin {"fetched", "written"}
    BY <1>3 DEF StartRun
  <2>2. UNCHANGED <<table, file>>
    BY <1>3 DEF StartRun
  <2> QED
    BY <2>1, <2>2 DEF Answers
<1>4. ASSUME NEW d \in Days, FetchWhole(d) PROVE Answers'
  <2>1. /\ UNCHANGED <<table, file, snapshot, happened>>
        /\ got' = [got EXCEPT ![d] = Rows(d, snapshot)] /\ whole' = [whole EXCEPT ![d] = TRUE]
        /\ work' = [work EXCEPT ![d] = "fetched"]
    BY <1>4 DEF FetchWhole
  <2>2. \A e \in Days : Rows(e, snapshot)' = Rows(e, snapshot)
    BY <2>1 DEF Rows
  <2> QED
    BY <2>1, <2>2 DEF Answers, TypeOK
<1>5. ASSUME NEW d \in Days, FetchPrefix(d) PROVE Answers'
  <2>1. /\ UNCHANGED <<table, file, snapshot>> /\ happened' = happened \cup {"cut"}
        /\ whole' = [whole EXCEPT ![d] = FALSE] /\ work' = [work EXCEPT ![d] = "fetched"]
    BY <1>5 DEF FetchPrefix, Fault
  <2>2. PICK upto \in 0 .. snapshot : got' = [got EXCEPT ![d] = Rows(d, upto)]
    BY <1>5 DEF FetchPrefix
  <2>3. Rows(d, upto) \subseteq Rows(d, snapshot)
    BY <2>2, RowsAreNumbers DEF Rows, TypeOK
  <2>4. \A e \in Days : Rows(e, snapshot)' = Rows(e, snapshot)
    BY <2>1 DEF Rows
  <2> QED
    BY <2>1, <2>2, <2>3, <2>4 DEF Answers, TypeOK
<1>6. ASSUME NEW d \in Days, FetchFails(d) PROVE Answers'
  <2>1. /\ UNCHANGED <<table, file, snapshot>> /\ happened \subseteq happened'
        /\ work' = [work EXCEPT ![d] = "failed"]
        /\ got' = [got EXCEPT ![d] = {}] /\ whole' = [whole EXCEPT ![d] = FALSE]
    BY <1>6 DEF FetchFails, Fault, Forget
  <2>2. \A e \in Days : Rows(e, snapshot)' = Rows(e, snapshot)
    BY <2>1 DEF Rows
  <2> QED
    BY <2>1, <2>2 DEF Answers, TypeOK
<1>7. ASSUME NEW d \in Days, Write(d) PROVE Answers'
  <2>1. /\ UNCHANGED <<table, snapshot, got, whole, happened>> /\ work[d] = "fetched"
        /\ work' = [work EXCEPT ![d] = "written"]
        /\ file' = (IF got[d] # {} THEN [file EXCEPT ![d] = got[d]] ELSE file)
    BY <1>7 DEF Write
  <2>2. got[d] \subseteq {k \in table : DayOf(k) = d}
    BY <2>1 DEF Answers, Rows
  <2>3. \A e \in Days : Rows(e, snapshot)' = Rows(e, snapshot)
    BY <2>1 DEF Rows
  <2> QED
    BY <2>1, <2>2, <2>3 DEF Answers, TypeOK
<1>8. ASSUME NEW d \in Days, Record(d) \/ Skip(d) PROVE Answers'
  <2>1. /\ UNCHANGED <<table, file, snapshot, happened>>
        /\ work' = [work EXCEPT ![d] = "no"]
        /\ \A e \in Days \ {d} : got'[e] = got[e] /\ whole'[e] = whole[e]
    BY <1>8 DEF Record, Skip, Forget, TypeOK
  <2>2. \A e \in Days : Rows(e, snapshot)' = Rows(e, snapshot)
    BY <2>1 DEF Rows
  <2> QED
    BY <2>1, <2>2 DEF Answers, TypeOK
<1>9. CASE EndRun \/ Crash
  <2>1. UNCHANGED <<table, file>> /\ \A d \in Days : work'[d] = "no"
    BY <1>9 DEF EndRun, Crash
  <2> QED
    BY <2>1 DEF Answers
<1>10. ASSUME NEW d \in Days, LoseFile(d) PROVE Answers'
  <2>1. /\ UNCHANGED <<table, snapshot, work, got, whole>> /\ run = "idle"
        /\ file' = [file EXCEPT ![d] = {}]
    BY <1>10 DEF LoseFile
  <2>2. \A e \in Days : work'[e] = "no"
    BY <2>1 DEF TypeOK
  <2> QED
    BY <2>1, <2>2 DEF Answers, TypeOK
<1> QED
  BY <1>1, <1>2, <1>3, <1>4, <1>5, <1>6, <1>7, <1>8, <1>9, <1>10 DEF Next, RunStep

\* Every step keeps each complete record true, but for the faults that Vouched names.
LEMMA VouchedStep ==
  ASSUME TypeOK, Bounds, Answers, Vouched, [Next]_vars
  PROVE  Vouched'
<1> USE DEF serverVars, runVars, faultVars
<1>0. \A d \in Days : DayEnd(d) \in Nat
  BY SizesAssumption DEF DayEnd
<1>1. ASSUME NEW k \in Ticks, Append(k) PROVE Vouched'
  <2>1. UNCHANGED <<summary, file, disk, run, snapshot, work, whole, happened>>
    BY <1>1 DEF Append
  <2>2. ASSUME NEW d \in Days, Complete(d) PROVE Rows(d, DayEnd(d))' = Rows(d, DayEnd(d))
    <3>1. DayEnd(d) <= summary /\ DayEnd(d) \in Nat /\ DayEnd(d) # 0 /\ summary \in Nat
      BY <2>2, SizesAssumption DEF Vouched, DayEnd, TypeOK
    <3>2. summary # 0 /\ DayEnd(d) \in 0 .. summary
      BY <3>1
    <3>3. \A n \in 0 .. summary, e \in Days : Rows(e, n)' = Rows(e, n)
      BY <1>1, <3>2, AppendIsAbove
    <3> HIDE DEF DayEnd
    <3>4. DayEnd(d)' = DayEnd(d)
      BY DEF DayEnd
    <3> QED
      BY <3>2, <3>3, <3>4 DEF Rows
  <2> QED
    BY <2>1, <2>2 DEF Vouched, Complete, DayIsWhole, RefetchLeftPrefix
<1>2. CASE RefreshSummary
  <2>1. summary' \in Nat /\ summary <= summary'
    BY <1>2, SummaryGrows
  <2>2. \A d \in Days : DayEnd(d) <= summary => DayEnd(d) <= summary'
    BY <1>0, <2>1 DEF TypeOK
  <2>3. UNCHANGED <<table, file, disk, run, snapshot, work, whole, happened>>
    BY <1>2 DEF RefreshSummary
  <2>4. \A d \in Days : Rows(d, DayEnd(d))' = Rows(d, DayEnd(d))
    BY <2>3 DEF Rows
  <2> QED
    BY <2>2, <2>3, <2>4 DEF Vouched, Complete, DayIsWhole, RefetchLeftPrefix
<1>3. ASSUME NEW force \in BOOLEAN, NEW start \in Days, NEW end \in Days, StartRun(force, start, end)
      PROVE  Vouched'
  <2> DEFINE planned == Planned(Candidates(summary, start, end), summary, force)
  <2>1. /\ UNCHANGED <<table, summary, file, disk, whole>> /\ run = "idle" /\ snapshot' = summary
        /\ work' = [d \in Days |-> IF d \in planned THEN "queued" ELSE "no"]
        /\ happened' = happened \cup {e \in {"refetched"} : \E d \in planned : disk[d].complete}
    BY <1>3 DEF StartRun
  <2>2. \A d \in Days : work[d] = "no"
    BY <2>1 DEF TypeOK
  <2>3. \A d \in Days : Complete(d) /\ work'[d] # "no" => "refetched" \in happened'
    BY <2>1 DEF Complete
  <2>4. \A d \in Days : Rows(d, DayEnd(d))' = Rows(d, DayEnd(d))
    BY <2>1 DEF Rows
  <2> HIDE DEF planned
  <2>5. happened \subseteq happened'
    BY <2>1
  <2> QED
    BY <2>1, <2>2, <2>3, <2>4, <2>5 DEF Vouched, Complete, DayIsWhole, RefetchLeftPrefix
<1>4. ASSUME NEW d \in Days, FetchWhole(d) \/ FetchPrefix(d) \/ FetchFails(d) PROVE Vouched'
  <2>1. /\ UNCHANGED <<table, summary, file, disk, run, snapshot>> /\ happened \subseteq happened'
        /\ work[d] \in {"queued", "fetched"}
        /\ work'[d] \in {"fetched", "failed"} /\ \A e \in Days \ {d} : work'[e] = work[e] /\ whole'[e] = whole[e]
    BY <1>4 DEF FetchWhole, FetchPrefix, FetchFails, Fault, Forget, TypeOK
  <2>2. \A e \in Days : Rows(e, DayEnd(e))' = Rows(e, DayEnd(e))
    BY <2>1 DEF Rows
  <2> QED
    BY <2>1, <2>2 DEF Vouched, Complete, DayIsWhole, RefetchLeftPrefix
<1>5. ASSUME NEW d \in Days, Write(d) PROVE Vouched'
  <2>1. /\ UNCHANGED <<table, summary, disk, run, snapshot, got, whole, happened>> /\ work[d] = "fetched"
        /\ work' = [work EXCEPT ![d] = "written"]
        /\ file' = (IF got[d] # {} THEN [file EXCEPT ![d] = got[d]] ELSE file)
    BY <1>5 DEF Write
  <2>2. \A e \in Days : Rows(e, DayEnd(e))' = Rows(e, DayEnd(e))
    BY <2>1 DEF Rows
  <2>3. run = "running" /\ snapshot \in Nat
    BY <2>1 DEF TypeOK
  <2>4. ASSUME Complete(d), whole[d] PROVE got[d] = Rows(d, DayEnd(d))
    <3>1. DayEnd(d) <= snapshot
      BY <2>3, <2>4 DEF Vouched
    <3> QED
      BY <2>1, <2>3, <2>4, <3>1, RowsOfSealedDay DEF Answers
  <2>5. \A e \in Days \ {d} : file'[e] = file[e] /\ work'[e] = work[e]
    BY <2>1 DEF TypeOK
  <2>6. ASSUME Complete(d), whole[d]
        PROVE  DayIsWhole(d)' \/ (file'[d] = {} /\ "lost" \in happened) \/ RefetchLeftPrefix
    <3>1. CASE got[d] # {}
      BY <2>1, <2>2, <2>4, <2>6, <3>1 DEF DayIsWhole, TypeOK
    <3>2. CASE got[d] = {}
      BY <2>1, <2>2, <2>6, <3>2 DEF DayIsWhole, Vouched
    <3> QED
      BY <3>1, <3>2
  <2>7. \A e \in Days : e # d => DayIsWhole(e)' = DayIsWhole(e)
    BY <2>2, <2>5 DEF DayIsWhole
  <2>8. work'[d] = "written"
    BY <2>1 DEF TypeOK
  <2> QED
    BY <2>1, <2>2, <2>5, <2>6, <2>7, <2>8 DEF Vouched, Complete, RefetchLeftPrefix
<1>6. ASSUME NEW d \in Days, Record(d) PROVE Vouched'
  <2>1. /\ UNCHANGED <<table, summary, file, run, snapshot, happened>> /\ work[d] = "written"
        /\ book' = [book EXCEPT ![d] = RecordOf(d)] /\ disk' = book' /\ work' = [work EXCEPT ![d] = "no"]
        /\ whole' = [whole EXCEPT ![d] = FALSE]
    BY <1>6 DEF Record, Forget
  <2>2. run = "running" /\ snapshot \in Nat /\ summary \in Nat
    BY <2>1 DEF TypeOK
  <2>3. book = disk /\ snapshot <= summary
    BY <2>2 DEF Bounds
  <2>4. disk'[d] = RecordOf(d) /\ \A e \in Days \ {d} : disk'[e] = disk[e] /\ work'[e] = work[e] /\ whole'[e] = whole[e]
    BY <2>1, <2>3 DEF TypeOK
  <2>5. \A e \in Days : Rows(e, DayEnd(e))' = Rows(e, DayEnd(e))
    BY <2>1 DEF Rows
  <2>6. ASSUME Complete(d)'
        PROVE  /\ DayEnd(d) <= summary /\ DayEnd(d) <= snapshot
               /\ disk'[d].known /\ disk'[d].rows = Cardinality(Rows(d, DayEnd(d)))
               /\ DayIsWhole(d)'
    <3>1. DayEnd(d) <= snapshot /\ whole[d]
      <4>1. RecordOf(d).complete = (DayEnd(d) <= snapshot /\ whole[d])
        BY Zenon DEF RecordOf
      <4>2. RecordOf(d).complete
        BY <2>4, <2>6 DEF Complete
      <4> QED
        BY <4>1, <4>2, Zenon
    <3>2. got[d] = Rows(d, DayEnd(d)) /\ file[d] = Rows(d, DayEnd(d))
      BY <2>1, <3>1, WrittenIsWhole
    <3>3. DayEnd(d) <= summary
      BY <1>0, <2>2, <2>3, <3>1
    <3>4. disk'[d].known /\ disk'[d].rows = Cardinality(got[d])
      BY <2>4 DEF RecordOf
    <3> QED
      BY <2>1, <2>5, <3>1, <3>2, <3>3, <3>4 DEF DayIsWhole
  <2>7. work'[d] = "no"
    BY <2>1 DEF TypeOK
  <2> QED
    BY <2>1, <2>4, <2>5, <2>6, <2>7 DEF Vouched, Complete, DayIsWhole, RefetchLeftPrefix
<1>7. ASSUME NEW d \in Days, Skip(d) PROVE Vouched'
  <2>1. /\ UNCHANGED <<table, summary, file, disk, run, snapshot, whole, happened>>
        /\ work[d] = "failed" /\ work' = [work EXCEPT ![d] = "no"]
    BY <1>7 DEF Skip
  <2>2. \A e \in Days : Rows(e, DayEnd(e))' = Rows(e, DayEnd(e))
    BY <2>1 DEF Rows
  <2> QED
    BY <2>1, <2>2 DEF Vouched, Complete, DayIsWhole, RefetchLeftPrefix, TypeOK
<1>8. CASE EndRun
  <2>1. UNCHANGED <<table, summary, file, disk, work, whole, happened>> /\ run' = "idle"
    BY <1>8 DEF EndRun
  <2>2. \A e \in Days : Rows(e, DayEnd(e))' = Rows(e, DayEnd(e))
    BY <2>1 DEF Rows
  <2> QED
    BY <2>1, <2>2 DEF Vouched, Complete, DayIsWhole, RefetchLeftPrefix
<1>9. CASE Crash
  <2>1. /\ UNCHANGED <<table, summary, file, disk>> /\ run' = "idle"
        /\ work' = [e \in Days |-> "no"] /\ happened' = happened \cup {"crash"}
    BY <1>9 DEF Crash, Fault
  <2>2. \A e \in Days : Rows(e, DayEnd(e))' = Rows(e, DayEnd(e))
    BY <2>1 DEF Rows
  <2>3. ASSUME NEW e \in Days, Complete(e), work[e] = "written", ~ whole[e] PROVE RefetchLeftPrefix'
    BY <2>1, <2>3 DEF Vouched, Answers, RefetchLeftPrefix
  <2>4. \A e \in Days : work'[e] = "no"
    BY <2>1
  <2> QED
    BY <2>1, <2>2, <2>3, <2>4 DEF Vouched, Complete, DayIsWhole, RefetchLeftPrefix
<1>10. ASSUME NEW d \in Days, LoseFile(d) PROVE Vouched'
  <2>1. /\ UNCHANGED <<table, summary, disk, run, snapshot, work, whole>>
        /\ file' = [file EXCEPT ![d] = {}] /\ happened' = happened \cup {"lost"}
    BY <1>10 DEF LoseFile, Fault
  <2>2. \A e \in Days : Rows(e, DayEnd(e))' = Rows(e, DayEnd(e))
    BY <2>1 DEF Rows
  <2>3. file'[d] = {} /\ \A e \in Days \ {d} : file'[e] = file[e]
    BY <2>1 DEF TypeOK
  <2> QED
    BY <2>1, <2>2, <2>3 DEF Vouched, Complete, DayIsWhole, RefetchLeftPrefix
<1>11. CASE UNCHANGED vars
  <2>1. UNCHANGED <<table, summary, file, disk, run, snapshot, work, whole, happened>>
    BY <1>11 DEF vars
  <2>2. \A e \in Days : Rows(e, DayEnd(e))' = Rows(e, DayEnd(e))
    BY <2>1 DEF Rows
  <2> QED
    BY <2>1, <2>2 DEF Vouched, Complete, DayIsWhole, RefetchLeftPrefix
<1> QED
  BY <1>1, <1>2, <1>3, <1>4, <1>5, <1>6, <1>7, <1>8, <1>9, <1>10, <1>11 DEF Next, RunStep

\* Every step keeps what a full run that has not failed has repaired so far.
LEMMA RepairingStep ==
  ASSUME TypeOK, Bounds, Answers, Vouched, Repairing, [Next]_vars
  PROVE  Repairing'
<1> USE DEF serverVars, runVars, faultVars
<1>0. repaired \in Nat /\ summary \in Nat /\ snapshot \in Nat /\ \A d \in Days : DayEnd(d) \in Nat
  BY SizesAssumption DEF TypeOK, DayEnd
<1>1. ASSUME NEW k \in Ticks, Append(k), repaired # 0 PROVE Repairing'
  <2>1. UNCHANGED <<summary, file, disk, run, snapshot, work, whole, happened, repaired>>
    BY <1>1 DEF Append
  <2>2. repaired <= summary /\ summary # 0
    BY <1>0, <1>1 DEF Repairing
  <2>3. Min(table)' = Min(table) /\ \A n \in 0 .. summary, d \in Days : Rows(d, n)' = Rows(d, n)
    BY <1>1, <2>2, AppendIsAbove
  <2>4. \A d \in Days : DayEnd(d) <= repaired => Rows(d, DayEnd(d))' = Rows(d, DayEnd(d))
    <3> SUFFICES ASSUME NEW d \in Days, DayEnd(d) <= repaired PROVE Rows(d, DayEnd(d))' = Rows(d, DayEnd(d))
      OBVIOUS
    <3>1. DayEnd(d) \in 0 .. summary
      BY <1>0, <2>2
    <3>2. DayEnd(d)' = DayEnd(d)
      BY DEF DayEnd
    <3> HIDE DEF DayEnd
    <3> QED
      BY <2>3, <3>1, <3>2 DEF Rows
  <2> QED
    BY <2>1, <2>3, <2>4 DEF Repairing, Complete, DayIsWhole, RefetchLeftPrefix
<1>2. CASE RefreshSummary
  <2>1. summary <= summary'
    BY <1>2, SummaryGrows
  <2>2. summary' \in Nat
    BY <1>2, SummaryGrows
  <2>3. UNCHANGED <<table, file, disk, run, snapshot, work, whole, happened, repaired>>
    BY <1>2 DEF RefreshSummary
  <2>4. \A d \in Days : Rows(d, DayEnd(d))' = Rows(d, DayEnd(d))
    BY <2>3 DEF Rows
  <2>5. repaired <= summary => repaired <= summary'
    BY <1>0, <2>1, <2>2
  <2> QED
    BY <2>3, <2>4, <2>5 DEF Repairing, Complete, DayIsWhole, RefetchLeftPrefix
<1>3. ASSUME NEW force \in BOOLEAN, NEW start \in Days, NEW end \in Days, StartRun(force, start, end),
             repaired' # 0
      PROVE  Repairing'
  <2> DEFINE planned == Planned(Candidates(summary, start, end), summary, force)
  <2>1. /\ UNCHANGED <<table, summary, file, disk, whole>> /\ run = "idle" /\ summary # 0
        /\ run' = "running" /\ snapshot' = summary
        /\ work' = [d \in Days |-> IF d \in planned THEN "queued" ELSE "no"]
        /\ happened \subseteq happened'
    BY <1>3 DEF StartRun
  <2>2. repaired' = summary /\ \A d \in Days : start <= d /\ d <= end
    BY <1>3 DEF StartRun
  <2>3. \A d \in Days : work'[d] = (IF d \in planned THEN "queued" ELSE "no")
    BY <2>1
  <2>4. \A d \in Days : Rows(d, DayEnd(d))' = Rows(d, DayEnd(d)) /\ Min(table)' = Min(table)
    BY <2>1 DEF Rows
  <2>5. ASSUME NEW d \in Days, DayOf(Min(table)) <= d, DayEnd(d) <= summary, d \notin planned,
               ~ RefetchLeftPrefix
        PROVE  Complete(d) /\ DayIsWhole(d)
    <3>1. d \in Candidates(summary, start, end)
      BY <1>0, <2>1, <2>2, <2>5, SealedBeforeTail DEF Candidates
    <3>2. Complete(d) /\ ~ FileLost(d)
      BY <2>5, <3>1 DEF Planned, Complete
    <3>3. work[d] = "no"
      BY <2>1 DEF TypeOK
    <3>4. /\ disk[d].known /\ disk[d].rows = Cardinality(Rows(d, DayEnd(d)))
          /\ DayIsWhole(d) \/ file[d] = {}
      BY <2>5, <3>2, <3>3 DEF Vouched
    <3>5. CASE file[d] = {}
      <4>1. IsFiniteSet(Rows(d, DayEnd(d)))
        <5>1. Rows(d, DayEnd(d)) \in SUBSET table
          BY DEF Rows
        <5> QED
          BY <5>1, RowsAreNumbers, FS_Subset
      <4>2. ~ disk[d].rows > 0 /\ disk[d].rows \in Nat
        BY <3>2, <3>4, <3>5 DEF FileLost, TypeOK, Records
      <4>3. Rows(d, DayEnd(d)) = {}
        BY <3>4, <4>1, <4>2, FS_EmptySet
      <4> QED
        BY <3>2, <3>5, <4>3 DEF DayIsWhole
    <3> QED
      BY <3>2, <3>4, <3>5
  <2> HIDE DEF planned
  <2>6. \A d \in Days : work'[d] \in {"queued", "no"} /\ (d \in planned => work'[d] # "no")
    BY <2>3
  <2> QED
    BY <1>0, <2>1, <2>2, <2>4, <2>5, <2>6 DEF Repairing, Complete, DayIsWhole, RefetchLeftPrefix
<1>4. ASSUME NEW d \in Days, FetchWhole(d) PROVE Repairing'
  <2>1. /\ UNCHANGED <<table, summary, file, disk, run, snapshot, happened, repaired>>
        /\ whole' = [whole EXCEPT ![d] = TRUE] /\ work' = [work EXCEPT ![d] = "fetched"]
    BY <1>4 DEF FetchWhole
  <2>2. \A e \in Days : Rows(e, DayEnd(e))' = Rows(e, DayEnd(e)) /\ Min(table)' = Min(table)
    BY <2>1 DEF Rows
  <2> QED
    BY <2>1, <2>2 DEF Repairing, Complete, DayIsWhole, RefetchLeftPrefix, TypeOK
<1>5. ASSUME NEW d \in Days, FetchPrefix(d) \/ FetchFails(d) \/ LoseFile(d) PROVE Repairing'
  BY <1>5 DEF FetchPrefix, FetchFails, LoseFile, Fault, Repairing
<1>6. ASSUME NEW d \in Days, Write(d) PROVE Repairing'
  <2>1. /\ UNCHANGED <<table, summary, disk, run, snapshot, whole, happened, repaired>> /\ work[d] = "fetched"
        /\ work' = [work EXCEPT ![d] = "written"]
        /\ file' = (IF got[d] # {} THEN [file EXCEPT ![d] = got[d]] ELSE file)
    BY <1>6 DEF Write
  <2>2. \A e \in Days : Rows(e, DayEnd(e))' = Rows(e, DayEnd(e)) /\ Min(table)' = Min(table)
    BY <2>1 DEF Rows
  <2>3. work'[d] = "written" /\ \A e \in Days \ {d} : file'[e] = file[e] /\ work'[e] = work[e]
    BY <2>1 DEF TypeOK
  <2> QED
    BY <2>1, <2>2, <2>3 DEF Repairing, Complete, DayIsWhole, RefetchLeftPrefix
<1>7. ASSUME NEW d \in Days, Record(d), repaired # 0 PROVE Repairing'
  <2>1. /\ UNCHANGED <<table, summary, file, run, snapshot, happened, repaired>> /\ work[d] = "written"
        /\ book' = [book EXCEPT ![d] = RecordOf(d)] /\ disk' = book' /\ work' = [work EXCEPT ![d] = "no"]
        /\ whole' = [whole EXCEPT ![d] = FALSE]
    BY <1>7 DEF Record, Forget
  <2>2. run = "running" /\ book = disk /\ whole[d] /\ snapshot = repaired
    BY <1>7, <2>1 DEF TypeOK, Bounds, Repairing
  <2>3. disk'[d] = RecordOf(d) /\ work'[d] = "no"
        /\ \A e \in Days \ {d} : disk'[e] = disk[e] /\ work'[e] = work[e] /\ whole'[e] = whole[e]
    BY <2>1, <2>2 DEF TypeOK
  <2>4. \A e \in Days : Rows(e, DayEnd(e))' = Rows(e, DayEnd(e)) /\ Min(table)' = Min(table)
    BY <2>1 DEF Rows
  <2>5. ASSUME DayEnd(d) <= repaired PROVE Complete(d)' /\ DayIsWhole(d)'
    <3>1. RecordOf(d).complete = (DayEnd(d) <= snapshot /\ whole[d])
      BY Zenon DEF RecordOf
    <3>2. Complete(d)'
      BY <2>2, <2>3, <2>5, <3>1, Zenon DEF Complete
    <3>3. file[d] = Rows(d, DayEnd(d))
      BY <2>1, <2>2, <2>5, WrittenIsWhole
    <3> QED
      BY <2>1, <2>4, <3>2, <3>3 DEF DayIsWhole
  <2> QED
    BY <2>1, <2>3, <2>4, <2>5 DEF Repairing, Complete, DayIsWhole, RefetchLeftPrefix
<1>8. ASSUME NEW d \in Days, Skip(d) PROVE Repairing'
  <2>1. repaired' = repaired /\ work[d] = "failed"
    BY <1>8 DEF Skip
  <2> QED
    BY <2>1 DEF Repairing
<1>9. CASE EndRun
  <2>1. UNCHANGED <<table, summary, file, disk, work, whole, happened, repaired>> /\ run' = "idle"
    BY <1>9 DEF EndRun
  <2>2. \A e \in Days : Rows(e, DayEnd(e))' = Rows(e, DayEnd(e)) /\ Min(table)' = Min(table)
    BY <2>1 DEF Rows
  <2> QED
    BY <2>1, <2>2 DEF Repairing, Complete, DayIsWhole, RefetchLeftPrefix
<1>10. CASE Crash
  BY <1>10 DEF Crash, Fault, Repairing
<1>11. CASE UNCHANGED vars
  <2>1. UNCHANGED <<table, summary, file, disk, run, snapshot, work, whole, happened, repaired>>
    BY <1>11 DEF vars
  <2>2. \A e \in Days : Rows(e, DayEnd(e))' = Rows(e, DayEnd(e)) /\ Min(table)' = Min(table)
    BY <2>1 DEF Rows
  <2> QED
    BY <2>1, <2>2 DEF Repairing, Complete, DayIsWhole, RefetchLeftPrefix
<1>12. ASSUME repaired' = 0 PROVE Repairing'
  BY <1>12 DEF Repairing
<1>13. ASSUME \/ \E k \in Ticks : Append(k)
              \/ \E d \in Days : Record(d)
       PROVE  repaired' = repaired
  BY <1>13 DEF Append, Record
<1> QED
  BY <1>1, <1>2, <1>3, <1>4, <1>5, <1>6, <1>7, <1>8, <1>9, <1>10, <1>11, <1>12, <1>13 DEF Next, RunStep

\* The inductive invariant holds initially.
LEMMA InitInvariant == Init => IInv
<1> SUFFICES ASSUME Init PROVE IInv
  OBVIOUS
<1>1. TypeOK
  BY InitTyping
<1>2. Bounds /\ Answers /\ Repairing
  BY DEF Init, Bounds, Answers, Repairing
<1>3. Vouched
  BY DEF Init, Vouched, Complete, NoRecord
<1> QED
  BY <1>1, <1>2, <1>3 DEF IInv

\* Every step keeps the inductive invariant.
LEMMA InvariantStep == IInv /\ [Next]_vars => IInv'
BY TypingStep, BoundsStep, AnswersStep, VouchedStep, RepairingStep DEF IInv

\* Sealed days do not change, what a run has in hand is below its bound, and a vouch was
\* true when it was given.
THEOREM Invariance == Spec => []IInv
BY InitInvariant, InvariantStep, PTL DEF Spec

----------------------------------------------------------------------------
(* What a directory of day files promises                                  *)

\* Between runs, a day the manifest calls complete has all of its rows on disk, whatever
\* answers were cut, threads failed and processes died: but for a file somebody removed,
\* and a re-fetch of a complete day that kept a prefix and died before its record.
THEOREM CompleteDaysAreWhole == Spec => []CompleteIsWholeUnlessRefetched
<1>1. IInv => CompleteIsWholeUnlessRefetched
  <2> SUFFICES ASSUME IInv, run = "idle", ~ RefetchLeftPrefix, NEW d \in Days, Complete(d)
               PROVE  DayIsWhole(d) \/ (file[d] = {} /\ "lost" \in happened)
    BY DEF CompleteIsWholeUnlessRefetched, CompleteIsWhole
  <2>1. work[d] = "no"
    BY DEF IInv, TypeOK
  <2> QED
    BY <2>1 DEF IInv, Vouched
<1> QED
  BY <1>1, Invariance, PTL

\* A full run during which nothing failed leaves every day that ended below its bound
\* complete and whole, whatever the runs before it left behind.
THEOREM CleanRunsRepair == Spec => []CleanRunRepairs
<1>1. IInv => CleanRunRepairs
  <2> SUFFICES ASSUME IInv, run = "idle", repaired # 0, ~ RefetchLeftPrefix,
                      NEW d \in Days, DayOf(Min(table)) <= d, DayEnd(d) <= repaired
               PROVE  Complete(d) /\ DayIsWhole(d)
    BY DEF CleanRunRepairs
  <2>1. work[d] = "no"
    BY DEF IInv, TypeOK
  <2> QED
    BY <2>1 DEF IInv, Repairing
<1> QED
  BY <1>1, Invariance, PTL

\* An empty directory is an empty store.
LEMMA StoreInit == Init => Store!Init
BY DEF Init, Store!Init, NoRecord

\* Every step of the command is a step of the store or changes nothing in it.
LEMMA StoreStep ==
  ASSUME IInv, [Next]_vars
  PROVE  [Store!Next]_(Store!vars)
<1> USE DEF serverVars, runVars, faultVars
<1> DEFINE vouched == {d \in Days : disk[d].complete}
           busy == run = "running"
<1>0. TypeOK /\ Bounds /\ Answers /\ Vouched
  BY DEF IInv
<1>1. ASSUME NEW k \in Ticks, Append(k) PROVE Store!Grow
  <2>1. k \in Nat /\ table \subseteq Nat /\ table' = table \cup {k} /\ \A j \in table : j < k
    BY <1>0, <1>1, TicksAreFinite DEF Append, TypeOK
  <2>2. table' # table /\ table' \ table = {k}
    BY <2>1
  <2>3. UNCHANGED <<file, vouched, busy>>
    BY <1>1 DEF Append
  <2> QED
    BY <2>1, <2>2, <2>3 DEF Store!Grow
<1>2. ASSUME NEW force \in BOOLEAN, NEW start \in Days, NEW end \in Days, StartRun(force, start, end)
      PROVE  Store!Start
  <2>1. run = "idle" /\ run' = "running" /\ summary # 0 /\ UNCHANGED <<table, file, disk>>
    BY <1>2 DEF StartRun
  <2>2. table # {}
    BY <1>0, <2>1 DEF Bounds
  <2> QED
    BY <2>1, <2>2 DEF Store!Start
<1>3. ASSUME EndRun \/ Crash PROVE Store!End
  <2>1. run = "running" /\ run' = "idle" /\ UNCHANGED <<table, file, disk>>
    BY <1>3 DEF EndRun, Crash
  <2> QED
    BY <2>1 DEF Store!End
<1>4. ASSUME NEW d \in Days, Write(d) PROVE [Store!Next]_(Store!vars)
  <2>1. /\ UNCHANGED <<table, disk, run>> /\ work[d] = "fetched"
        /\ file' = (IF got[d] # {} THEN [file EXCEPT ![d] = got[d]] ELSE file)
    BY <1>4 DEF Write
  <2>2. run = "running"
    BY <1>0, <2>1 DEF TypeOK
  <2>3. got[d] \subseteq Store!RowsOf(d)
    BY <1>0, <2>1 DEF Answers, Rows, DayOf, Store!RowsOf
  <2>4. UNCHANGED <<table, vouched, busy>>
    BY <2>1
  <2>5. CASE got[d] # {}
    <3>1. got[d] \in (SUBSET Store!RowsOf(d)) \ {{}} /\ file' = [file EXCEPT ![d] = got[d]]
      BY <2>1, <2>3, <2>5
    <3>2. Store!Replace(d)
      BY <2>2, <2>4, <3>1 DEF Store!Replace
    <3> QED
      BY <3>2 DEF Store!Next
  <2>6. CASE got[d] = {}
    BY <2>1, <2>4, <2>6 DEF Store!vars
  <2> QED
    BY <2>5, <2>6
<1>5. ASSUME NEW d \in Days, Record(d) PROVE Store!Vouch(d) \/ Store!Withdraw(d)
  <2>1. /\ UNCHANGED <<table, file, run>> /\ work[d] = "written"
        /\ book' = [book EXCEPT ![d] = RecordOf(d)] /\ disk' = book'
    BY <1>5 DEF Record
  <2>2. run = "running" /\ book = disk /\ snapshot \in Nat /\ snapshot # 0 /\ snapshot - 1 \in table
    BY <1>0, <2>1 DEF TypeOK, Bounds
  <2>3. disk'[d] = RecordOf(d) /\ \A e \in Days \ {d} : disk'[e] = disk[e]
    BY <1>0, <2>1, <2>2 DEF TypeOK
  <2>4. RecordOf(d).complete = (DayEnd(d) <= snapshot /\ whole[d])
    BY Zenon DEF RecordOf
  <2>5. CASE RecordOf(d).complete
    <3>1. DayEnd(d) <= snapshot /\ whole[d]
      BY <2>4, <2>5, Zenon
    <3>2. file[d] = Store!RowsOf(d)
      BY <1>0, <2>1, <3>1, WrittenIsWhole DEF DayOf, Store!RowsOf
    <3>3. Store!Sealed(d)
      BY <2>2, <3>1 DEF Store!Sealed, DayEnd
    <3>4. vouched' = vouched \cup {d}
      BY <2>3, <2>5
    <3> QED
      BY <2>1, <2>2, <3>2, <3>3, <3>4 DEF Store!Vouch
  <2>6. CASE ~ RecordOf(d).complete
    <3>1. vouched' = vouched \ {d}
      BY <2>3, <2>6
    <3> QED
      BY <2>1, <2>2, <3>1 DEF Store!Withdraw
  <2> QED
    BY <2>5, <2>6
<1>6. ASSUME NEW d \in Days, LoseFile(d) PROVE Store!Lose(d)
  BY <1>6 DEF LoseFile, Store!Lose
<1>7. ASSUME \/ RefreshSummary \/ UNCHANGED vars
             \/ \E d \in Days : FetchWhole(d) \/ FetchPrefix(d) \/ FetchFails(d) \/ Skip(d)
      PROVE  UNCHANGED Store!vars
  <2>1. UNCHANGED <<table, file, disk, run>>
    BY <1>7 DEF RefreshSummary, vars, FetchWhole, FetchPrefix, FetchFails, Skip
  <2> QED
    BY <2>1 DEF Store!vars
<1> QED
  BY <1>1, <1>2, <1>3, <1>4, <1>5, <1>6, <1>7 DEF Next, RunStep, Store!Next

\* A directory under any sequence of runs is a DayStore: the manifest vouches for a day
\* only when all of its rows are on disk and no more can come, no run removes a file,
\* and what a file holds are the table's rows of its day.
THEOREM DownloadIsADayStore == Spec => ImplementsStore
<1>1. Init => Store!Init
  BY StoreInit
<1>2. IInv /\ [Next]_vars => [Store!Next]_(Store!vars)
  BY StoreStep
<1> QED
  BY <1>1, <1>2, Invariance, PTL DEF Spec, ImplementsStore, Store!Spec

=============================================================================

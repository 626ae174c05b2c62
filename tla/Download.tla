------------------------------ MODULE Download ------------------------------
(***************************************************************************)
(* download.py: runs of `chudp download` over one table.  A run snapshots  *)
(* the table's bound, plans the days the manifest does not vouch for,      *)
(* fetches them in a thread pool, writes one Parquet file per day, and     *)
(* records each day in the manifest as its future completes.               *)
(*                                                                         *)
(* Time is cut in ticks, TicksPerDay to a day; a row is the tick it falls  *)
(* on.  The table is append-only: rule 3 of the module says that a rewrite *)
(* of a complete day is not detected.                                      *)
(***************************************************************************)
EXTENDS Naturals, FiniteSets, FiniteSetsExt

CONSTANTS
  Days,          \* 0..n
  TicksPerDay,   \* instants at which a row may fall; the last is the day's last microsecond
  Jobs,          \* --jobs
  MaxRuns,       \* bound: runs in a behaviour
  MaxFaults      \* bound: failures in a behaviour

ASSUME SizesAssumption ==
  /\ Days \in SUBSET Nat /\ IsFiniteSet(Days)
  /\ TicksPerDay \in Nat \ {0} /\ Jobs \in Nat \ {0}
  /\ MaxRuns \in Nat /\ MaxFaults \in Nat

VARIABLES
  table, summary,       \* the server: rows, and the max_ts its cached summary shows (0: none)
  file, disk,           \* a file's rows, {} for no file; the manifest on disk
  run, snapshot, book,  \* the run: its bound, its manifest in memory
  work, got, whole,     \* per day: where its future is, the rows fetched, DayFetch.ok
  runs, faults,         \* bounds
  happened,             \* history: which of Events have happened so far
  repaired              \* history: the bound of the last full run, 0 if anything failed since it began

serverVars  == <<table, summary>>
runVars     == <<run, snapshot, book, work, got, whole>>
faultVars   == <<faults, happened, repaired>>
vars == <<serverVars, file, disk, runVars, runs, faultVars>>

DayOf(k)  == k \div TicksPerDay
Ticks     == {k \in 0..(TicksPerDay * (1 + Max(Days))) : DayOf(k) \in Days}
DayEnd(d) == (d + 1) * TicksPerDay
Rows(d, upto) == {k \in table : DayOf(k) = d /\ k < upto}

Records  == [known : BOOLEAN, rows : Nat, complete : BOOLEAN]
NoRecord == [known |-> FALSE, rows |-> 0, complete |-> FALSE]

\* An answer cut short, a dead process, a lost file, a fetch of a complete day.
Events == {"cut", "crash", "lost", "refetched"}

Init ==
  /\ table = {} /\ summary = 0
  /\ file = [d \in Days |-> {}]
  /\ disk = [d \in Days |-> NoRecord]
  /\ run = "idle" /\ snapshot = 0
  /\ book = [d \in Days |-> NoRecord]
  /\ work = [d \in Days |-> "no"]
  /\ got = [d \in Days |-> {}]
  /\ whole = [d \in Days |-> FALSE]
  /\ runs = 0 /\ faults = 0 /\ happened = {}
  /\ repaired = 0

Fault(events) ==
  /\ faults < MaxFaults
  /\ faults' = faults + 1
  /\ happened' = happened \cup events
  /\ repaired' = 0

----------------------------------------------------------------------------
(* The server                                                              *)

Append(k) ==
  /\ k \in Ticks
  /\ \A j \in table : j < k
  /\ table' = table \cup {k}
  /\ UNCHANGED <<summary, file, disk, runVars, runs, faultVars>>

\* The summary of GET /{tag} is refreshed every 60 s.  It holds max_ts + 1 tick,
\* the snapshot a run would take from it.
RefreshSummary ==
  /\ table # {} /\ summary # Max(table) + 1
  /\ summary' = Max(table) + 1
  /\ UNCHANGED <<table, file, disk, runVars, runs, faultVars>>

----------------------------------------------------------------------------
(* Planning                                                                *)

Tail(snap) == DayOf(snap - 1)

\* candidate_days: from the first row to the tail, clipped by --start and --end.
Candidates(snap, start, end) ==
  {d \in Days : DayOf(Min(table)) <= d /\ d <= Tail(snap) /\ start <= d /\ d <= end}

FileLost(d) == disk[d].known /\ disk[d].rows > 0 /\ file[d] = {}

\* Mutant: a day the manifest vouches for is never looked for on disk.
PlannedTrustsManifest(days, snap, force) ==
  {d \in days : force \/ ~ disk[d].known \/ ~ disk[d].complete \/ d >= Tail(snap)}

\* plan_days
Planned(days, snap, force) ==
  {d \in days : force \/ ~ disk[d].known \/ ~ disk[d].complete \/ FileLost(d) \/ d >= Tail(snap)}

\* download: load the manifest, take the snapshot, plan, fill the pool.
StartRun(force, start, end) ==
  /\ run = "idle" /\ runs < MaxRuns
  /\ summary # 0
  /\ run' = "running"
  /\ runs' = runs + 1
  /\ snapshot' = summary
  /\ book' = disk
  /\ LET planned == Planned(Candidates(summary, start, end), summary, force)
     IN  /\ work' = [d \in Days |-> IF d \in planned THEN "queued" ELSE "no"]
         /\ happened' = happened \cup {e \in {"refetched"} : \E d \in planned : disk[d].complete}
  /\ LET full == \A d \in Days : start <= d /\ d <= end
     IN  repaired' = (IF full THEN summary ELSE 0)
  /\ UNCHANGED <<serverVars, file, disk, got, whole, faults>>

----------------------------------------------------------------------------
(* download_day in a pool thread                                           *)

\* Mutant: a pool as large as the plan.
SlotUnlimited == TRUE

SlotFree == Cardinality({d \in Days : work[d] = "fetched"}) < Jobs

FetchWhole(d) ==
  /\ work[d] = "queued" /\ SlotFree
  /\ got' = [got EXCEPT ![d] = Rows(d, snapshot)]
  /\ whole' = [whole EXCEPT ![d] = TRUE]
  /\ work' = [work EXCEPT ![d] = "fetched"]
  /\ UNCHANGED <<serverVars, file, disk, run, snapshot, book, runs, faultVars>>

\* fetch_day keeps a prefix after its last retry: the first rows, maybe none.
FetchPrefix(d) ==
  /\ work[d] = "queued" /\ SlotFree
  /\ Fault({"cut"})
  /\ \E upto \in 0..snapshot : got' = [got EXCEPT ![d] = Rows(d, upto)]
  /\ whole' = [whole EXCEPT ![d] = FALSE]
  /\ work' = [work EXCEPT ![d] = "fetched"]
  /\ UNCHANGED <<serverVars, file, disk, run, snapshot, book, runs>>

\* The locals of a download_day end with its future.
Forget(d) ==
  /\ got' = [got EXCEPT ![d] = {}]
  /\ whole' = [whole EXCEPT ![d] = FALSE]

\* Mutant: a day that failed goes back to the queue.
FetchFailsRequeues(d) ==
  /\ work[d] = "fetched" \/ (work[d] = "queued" /\ SlotFree)
  /\ work' = [work EXCEPT ![d] = "queued"]
  /\ UNCHANGED <<serverVars, file, disk, run, snapshot, book, got, whole, runs, faultVars>>

\* fetch_day raises, or the Parquet file cannot be written.
FetchFails(d) ==
  /\ work[d] = "fetched" \/ (work[d] = "queued" /\ SlotFree)
  /\ Fault({})
  /\ work' = [work EXCEPT ![d] = "failed"]
  /\ Forget(d)
  /\ UNCHANGED <<serverVars, file, disk, run, snapshot, book, runs>>

\* Mutant: an answer without rows empties the day.
WriteMirrorsAnswer(d) ==
  /\ work[d] = "fetched"
  /\ file' = [file EXCEPT ![d] = got[d]]
  /\ work' = [work EXCEPT ![d] = "written"]
  /\ UNCHANGED <<serverVars, disk, run, snapshot, book, got, whole, runs, faultVars>>

\* Rows replace the day's file in one step (tmp + os.replace); no rows, no file,
\* and an existing one stays.
Write(d) ==
  /\ work[d] = "fetched"
  /\ file' = (IF got[d] # {} THEN [file EXCEPT ![d] = got[d]] ELSE file)
  /\ work' = [work EXCEPT ![d] = "written"]
  /\ UNCHANGED <<serverVars, disk, run, snapshot, book, got, whole, runs, faultVars>>

----------------------------------------------------------------------------
(* The as_completed loop of the main thread                                *)

\* Mutants: a sealed day is complete whatever arrived; a day without rows never is.
RecordSealed(d) ==
  [known |-> TRUE, rows |-> Cardinality(got[d]), complete |-> DayEnd(d) <= snapshot]

RecordNeedsRows(d) ==
  [known |-> TRUE, rows |-> Cardinality(got[d]),
   complete |-> DayEnd(d) <= snapshot /\ whole[d] /\ got[d] # {}]

\* complete only if the day lies wholly below the snapshot and the stream was ok
RecordOf(d) ==
  [known |-> TRUE, rows |-> Cardinality(got[d]), complete |-> DayEnd(d) <= snapshot /\ whole[d]]

\* manifest.days[day] = rec; manifest.save
Record(d) ==
  /\ work[d] = "written"
  /\ book' = [book EXCEPT ![d] = RecordOf(d)]
  /\ disk' = book'
  /\ work' = [work EXCEPT ![d] = "no"]
  /\ Forget(d)
  /\ UNCHANGED <<serverVars, file, run, snapshot, runs, faultVars>>

\* A day that failed is in the report, and the loop goes on without it.
Skip(d) ==
  /\ work[d] = "failed"
  /\ work' = [work EXCEPT ![d] = "no"]
  /\ UNCHANGED <<serverVars, file, disk, run, snapshot, book, got, whole, runs, faultVars>>

EndRun ==
  /\ run = "running"
  /\ \A d \in Days : work[d] = "no"
  /\ run' = "idle"
  /\ snapshot' = 0
  /\ book' = [d \in Days |-> NoRecord]
  /\ UNCHANGED <<serverVars, file, disk, work, got, whole, runs, faultVars>>

\* The process dies: files written and days recorded so far stay.  A manifest.save
\* that raises ends the run in the same way, after the pool has drained.
Crash ==
  /\ run = "running"
  /\ Fault({"crash"})
  /\ run' = "idle"
  /\ snapshot' = 0
  /\ book' = [d \in Days |-> NoRecord]
  /\ work' = [d \in Days |-> "no"]
  /\ got' = [d \in Days |-> {}]
  /\ whole' = [d \in Days |-> FALSE]
  /\ UNCHANGED <<serverVars, file, disk, runs>>

\* Somebody removes a day's file between two runs.
LoseFile(d) ==
  /\ run = "idle" /\ file[d] # {}
  /\ Fault({"lost"})
  /\ file' = [file EXCEPT ![d] = {}]
  /\ UNCHANGED <<serverVars, disk, runVars, runs>>

----------------------------------------------------------------------------

RunStep ==
  \/ EndRun
  \/ \E d \in Days :
       FetchWhole(d) \/ FetchPrefix(d) \/ FetchFails(d) \/ Write(d) \/ Record(d) \/ Skip(d)

Next ==
  \/ \E k \in Ticks : Append(k)
  \/ RefreshSummary
  \/ \E force \in BOOLEAN, start, end \in Days : StartRun(force, start, end)
  \/ RunStep
  \/ Crash
  \/ \E d \in Days : LoseFile(d)

Spec == Init /\ [][Next]_vars

\* Pool threads and the main thread run, and every fetch_day ends (FetchEnds).
FairSpec == Spec /\ WF_vars(RunStep)

----------------------------------------------------------------------------
(* Properties                                                              *)

TypeOK ==
  /\ table \subseteq Ticks /\ summary \in Nat
  /\ file \in [Days -> SUBSET Ticks]
  /\ disk \in [Days -> Records]
  /\ run \in {"idle", "running"} /\ snapshot \in Nat
  /\ book \in [Days -> Records]
  /\ work \in [Days -> {"no", "queued", "fetched", "written", "failed"}]
  /\ got \in [Days -> SUBSET Ticks]
  /\ whole \in [Days -> BOOLEAN]
  /\ runs \in 0..MaxRuns /\ faults \in 0..MaxFaults /\ happened \subseteq Events
  /\ repaired \in Nat
  \* the pool is no larger than --jobs, and empty between runs
  /\ Cardinality({d \in Days : work[d] = "fetched"}) <= Jobs
  /\ run = "idle" => \A d \in Days : work[d] = "no"

Complete(d) == disk[d].complete
DayIsWhole(d) == file[d] = Rows(d, DayEnd(d))

\* README: "A day is recorded complete when the stream ends with its `done` event
\* and the server's row count matches what arrived": between runs, a day the
\* manifest calls complete has all of its rows on disk, if nobody removed the file.
CompleteIsWhole ==
  run = "idle" => \A d \in Days : Complete(d) =>
                    DayIsWhole(d) \/ (file[d] = {} /\ "lost" \in happened)

\* A fetch of a complete day (--force, a lost file, a tail day whose last microsecond
\* has a row) that kept a prefix, and a crash before its record.
RefetchLeftPrefix == {"refetched", "cut", "crash"} \subseteq happened

\* ... and that is the only way: any other history of cuts, failures, crashes and
\* lost files leaves complete days whole.
CompleteIsWholeUnlessRefetched == CompleteIsWhole \/ RefetchLeftPrefix

\* A run without --start and --end during which nothing failed leaves every sealed
\* day complete and whole, whatever earlier runs left behind: prefixes, files
\* without a record, lost files.
CleanRunRepairs ==
  run = "idle" /\ repaired # 0 =>
    RefetchLeftPrefix \/
    \A d \in Days : DayOf(Min(table)) <= d /\ DayEnd(d) <= repaired => Complete(d) /\ DayIsWhole(d)

\* The manifest vouches for a day in a step that finds all of its rows on disk, no run
\* takes a file away or puts rows there that are not the table's (rule 5: "never
\* deleted"), and only somebody else loses a file, between runs.
Store == INSTANCE DayStore WITH vouched <- {d \in Days : disk[d].complete}, busy <- run = "running"
ImplementsStore == Store!Spec

\* Every run ends, whatever days fail.
RunEnds == (run = "running") ~> (run = "idle")

=============================================================================

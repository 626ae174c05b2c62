------------------------------ MODULE Batches ------------------------------
(***************************************************************************)
(* What becomes of an origin: the arrays build_arrays (covariates.py)      *)
(* gathers for it, the long table of forecasts a backtest scores           *)
(* (backtest.py) with the outcomes and the persistence fan it is scored    *)
(* against, and the sample of a split that fine-tuning evaluates           *)
(* (finetune.py).  Values are abstracted to the rows they are read from.   *)
(***************************************************************************)
EXTENDS Splits

CONSTANTS
  Horizon,      \* steps the model emits (64)
  Chunk,        \* origins per call of the model (origin_chunk)
  Lookback,     \* minutes of history the backtest's fan is fitted on
  MinFanN,      \* changes a cell of the fan needs to be used
  MinFanCells,  \* cells that make a fan
  FileFan       \* (row, step) pairs that a fan read from a file was fitted on

ASSUME BatchesAssumption ==
  /\ Horizon \in Nat /\ Horizon >= Window /\ Chunk \in Nat \ {0}
  /\ {Lookback, MinFanN, MinFanCells} \subseteq Nat \ {0}
  /\ FileFan \subseteq Row \X (1 .. Window)

----------------------------------------------------------------------------
(* build_arrays: the context                                               *)

CtxRows(i) == CtxLo(i) .. i

\* The nearest of the rows on either side of row r, or r itself: what linear
\* interpolation with held edges reads.
Around(rows, r) ==
  {s \in rows : s <= r /\ \A t \in rows : t <= r => t <= s}
    \cup {s \in rows : s >= r /\ \A t \in rows : t >= r => t >= s}

\* Mutant: gaps are filled in the frame, before the contexts are cut from it.
InterpolateFrame(i, missing) == [r \in CtxRows(i) |-> Around(Row \ missing, r)]

\* The rows that each value of a context's column is read from.
InterpolateRows(i, missing) == [r \in CtxRows(i) |-> Around(CtxRows(i) \ missing, r)]

\* What a column computed from the strike is read from: moneyness, rw_z and rw_p, the
\* last also on the fair value path.  It lacks the rows whose window has no strike.
StrikeColumnReads(i, missing) ==
  LET unstruck == {r \in CtxRows(i) : FrameStrike(r) = None}
      used == UNION {InterpolateRows(i, missing \cup unstruck)[r] : r \in CtxRows(i)}
  IN  used \cup {FrameStrike(r) : r \in used}

\* The rows of the price, sigma and strike that the fair value path goes on from.
FairPathReads(i) == {i, StrikeSource(i)}

\* The target's leading gap is masked, not filled.
Mask(i) == {r \in CtxRows(i) : \A s \in Valid : s \in CtxRows(i) => r < s}

\* Mutant: the last price is the reference at the opening too.
ReferenceIsLastMid(i) == i

\* The row of persistence's reference price; at the opening it is 0.50, of no row.
Reference(i) == IF K(i) = Window - 1 THEN None ELSE i

----------------------------------------------------------------------------
(* build_arrays: the steps                                                 *)

\* Mutant: steps past the expiry are scored.
ScoredToTheEnd(i) == {h \in 1 .. Window : i + h < Rows /\ i + h \in Valid}

\* inside, within and valid; a row past the frame is clipped to the last one first.
Scored(i) ==
  LET safe(h) == IF i + h <= Rows - 1 THEN i + h ELSE Rows - 1
  IN  {h \in 1 .. Window : i + h < Rows /\ h <= NSteps(i) /\ safe(h) \in Valid}

\* Mutant: the steps are counted from the row, not from the opening.
StepKOfRow(i, h) == K(i) + h

StepK(i, h) == M(i) + h - 1

\* Mutant: the path goes on into the next contract.
FairKOfStep(i, h) == (K(i) + h) % Window

\* The minute whose time to settlement the fair value path takes at step h: beyond
\* the expiry it holds the last value.
FairK(i, h) == IF h > NSteps(i) THEN (K(i) + NSteps(i)) % Window ELSE (K(i) + h) % Window

----------------------------------------------------------------------------
(* forecast_origins, assemble                                              *)

Position(i) == Cardinality({j \in origins : j < i})

ChunkStarts == {lo \in 0 .. Cardinality(origins) - 1 : lo % Chunk = 0}

\* Mutant: chunks share their ends.
ChunkOverlaps(lo) == lo .. lo + Chunk

\* origins[lo : lo + origin_chunk], as positions.
ChunkFrom(lo) == lo .. lo + Chunk - 1

\* The calls of the model that forecast origin i; each adds its scored steps to the table.
CallsFor(i) ==
  LET p == Position(i)
  IN  {lo \in ChunkStarts : p \in ChunkFrom(lo)}

\* bar_ts, from which the table tells the minute a price is of.
BarTs(i, h) == T0(i) + StepK(i, h)

\* outcome_price of the window that minute t is in: that of the quoted settlement row.
OutcomeRows(t) ==
  LET window == t \div Window
  IN  {r \in Valid : K(r) = Window - 1 /\ Ts(r) \div Window = window}

\* Mutant: outcomes are joined on the window of the row, not of the origin.
OutcomeOfRow(i) == OutcomeRows(Ts(i))

Outcome(i) == OutcomeRows(T0(i))

----------------------------------------------------------------------------
(* fit_fan                                                                 *)

EvalStart == Min({T0(i) : i \in origins})

\* Mutant: the last minute is included.
FanThrough(lo, hi) == {p \in Row \X (1 .. Window) : Ts(p[1]) \in lo .. hi /\ Observed(p[1], p[2])}

FanBetween(lo, hi) == {p \in Row \X (1 .. Window) : Ts(p[1]) \in lo .. hi - 1 /\ Observed(p[1], p[2])}

\* The pooled cells, of a minute and a number of steps, with enough history.
FanCells(pairs) ==
  {c \in (0 .. Window - 1) \X (1 .. Window) :
     Cardinality({p \in pairs : K(p[1]) = c[1] /\ p[2] = c[2]}) >= MinFanN}

Enough(pairs) == Cardinality(FanCells(pairs)) >= MinFanCells

PrePeriod == FanBetween(EvalStart - Lookback, EvalStart)
Head == FanBetween(EvalStart, EvalStart + Lookback)

\* Mutant: the evaluated days are used when they have more history.
RicherFan == IF Cardinality(Head) > Cardinality(PrePeriod) THEN Head ELSE PrePeriod

\* What the summary calls the fan, and the fan's changes.  A file is taken as it is.
FanMode ==
  IF request.fanFrom = "file" THEN "file"
  ELSE IF Enough(PrePeriod) THEN "pre_period" ELSE IF Enough(Head) THEN "in_sample_head" ELSE "point"

BacktestFan ==
  CASE FanMode = "file" -> FileFan
    [] FanMode = "pre_period" -> PrePeriod
    [] FanMode = "in_sample_head" -> Head
    [] FanMode = "point" -> {}

----------------------------------------------------------------------------
(* subsample                                                               *)

\* What rounding num / den may give: either neighbour at a half, since the quotient is
\* a float.
Rounded(num, den) ==
  {r \in {num \div den, num \div den + 1} : 2 * (r * den - num) <= den /\ 2 * (num - r * den) <= den}

\* Mutant: the end point is left out.
SampleOpen(n, k, j) == IF k >= n THEN {j} ELSE Rounded(j * (n - 1), k)

\* The j-th of k elements taken of n, as a position.
Sample(n, k, j) ==
  IF k >= n THEN {j} ELSE IF k = 1 THEN {0} ELSE Rounded(j * (n - 1), k - 1)

----------------------------------------------------------------------------
(* Properties                                                              *)

Selected == pc \in {"selected", "origins"}

\* The row that publishes the strike of the contract that is forecast: the first of its
\* window to have one, which may come after the origin.
StrikePublished(i) ==
  LET published == {r \in Row \ frame.noStrike : Ts(r) \in T0(i) .. T0(i) + Window - 1}
  IN  {r \in published : \A s \in published : r <= s}

\* No value of a context, interpolated or not, is read from a row after the origin or
\* one that has none, and none of the target's is masked.  What is computed from a
\* strike, in the context or on the fair value path, is read from such rows too, save
\* for the strike of the contract that is forecast, wherever that is published; never
\* that of another contract to come.  The price that persistence holds on to is one of
\* the contract that is forecast.
ContextReadsPast ==
  \A i \in origins :
    /\ \A missing \in {frame.noTarget, frame.noMean, frame.unfit} :
         LET read == UNION {InterpolateRows(i, missing)[r] : r \in CtxRows(i)}
         IN  read \subseteq (0 .. i) \ missing
    /\ FairPathReads(i) \cup UNION {StrikeColumnReads(i, missing) : missing \in {frame.noMean, frame.unfit}}
          \subseteq (0 .. i) \cup StrikePublished(i)
    /\ Mask(i) = {}
    /\ Reference(i) # None => Ts(Reference(i)) \in T0(i) .. T0(i) + Window - 1

\* Every scored step is of the origin's contract and carries its own minute, in the
\* table and on the fair value path, which is settled from the expiry on; the step
\* called the settlement is scored against the outcome it sets itself.
StepsAreTheirRows ==
  \A i \in origins :
    /\ Scored(i) # {}
    /\ \A h \in Scored(i) :
         /\ i + h \in Valid
         /\ StepK(i, h) = K(i + h) /\ FairK(i, h) = K(i + h)
         /\ BarTs(i, h) = Ts(i + h)
         /\ StepK(i, h) = Window - 1 <=> Outcome(i) = {i + h}
    /\ \A h \in NSteps(i) .. Horizon : FairK(i, h) = Window - 1

\* What the model is given and scored on, origin by origin.
BatchHonest == Selected => ContextReadsPast /\ StepsAreTheirRows

\* The long table has each origin's quoted steps to expiry once each, wherever the
\* chunks fall; a sample of a split's origins is spread over all of it, without
\* repeating one, however the positions round.
ScoredOnce ==
  /\ Selected =>
       \A i \in origins :
         /\ Cardinality(CallsFor(i)) = 1
         /\ Scored(i) = {h \in 1 .. NSteps(i) : i + h \in Valid}
  /\ pc = "ready" =>
       \A n \in {Cardinality(splits["val"]), Cardinality(splits["test"])} :
         \A k \in 2 .. n :
           /\ Sample(n, k, 0) = {0} /\ Sample(n, k, k - 1) = {n - 1}
           /\ \A j \in 1 .. k - 1 : \A a \in Sample(n, k, j - 1), b \in Sample(n, k, j) : a < b

\* A fan that is fitted here is in-sample only when it says so: otherwise every price in
\* it comes before the first evaluated window, except those that the row just before
\* that window sees.  Of a fan from a file the backtest knows nothing; the file that
\* fine-tuning writes has only prices from before the origins it holds out.
FanBeforeEvaluation ==
  /\ pc = "selected" /\ FanMode \notin {"in_sample_head", "file"} =>
       LET start == EvalStart
       IN  \A p \in BacktestFan : Ts(p[1] + p[2]) < start \/ Ts(p[1]) = start - 1
  /\ pc = "ready" =>
       \A i \in splits["val"] \cup splits["test"], p \in fan : Ts(p[1] + p[2]) < T0(i)

=============================================================================

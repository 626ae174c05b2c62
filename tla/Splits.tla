------------------------------- MODULE Splits -------------------------------
(***************************************************************************)
(* The data of a fine-tuning run (finetune.py, prepare_data): the origins  *)
(* are cut at midnights into train, validation and test, with an embargo   *)
(* before each cut, and the persistence fan is fitted on the train split.  *)
(* A backtest takes the same origins and stops there.                      *)
(***************************************************************************)
EXTENDS Origins

CONSTANT FracDen  \* denominator of val_frac and test_frac

ASSUME SplitsAssumption == FracDen \in Nat \ {0} /\ DayMinutes % 2 = 0

VARIABLES
  pc,       \* how far the command is
  bounds,   \* [first, end) of each split's targets, in minutes
  splits,   \* the rows of each split
  fan       \* the (row, step) pairs the persistence fan is fitted on

vars == <<frame, request, origins, pc, bounds, splits, fan>>

Names == {"train", "val", "test"}
NoSplits == [s \in Names |-> {}]

Frames ==
  [first : Nat, noTarget : SUBSET Row, noStrike : SUBSET Row, noMean : SUBSET Row, unfit : SUBSET Row]

Dates == Nat \cup {None}

Requests ==
  [use : {"backtest", "finetune"}, minutes : SUBSET Nat, start : Dates, end : Dates,
   stride : Nat \ {0}, maxWindows : Dates, valFrac : Nat, testFrac : Nat,
   valStart : Dates, testStart : Dates, embargo : Nat, fanFrom : {"fit", "file"}]

Begin ==
  /\ pc = "frame"
  /\ origins = {}
  /\ bounds = [s \in Names |-> <<0, 0>>]
  /\ splits = NoSplits
  /\ fan = {}

Proceed(point) == pc = point /\ UNCHANGED <<frame, request>>

\* A backtest needs one origin, a fine-tuning run one for each split.
FewestOrigins == IF request.use = "backtest" THEN 1 ELSE 3

SelectOrigins ==
  /\ Proceed("frame")
  /\ origins' = MakeOrigins
  /\ pc' = IF Cardinality(origins') < FewestOrigins THEN "failed"
           ELSE IF request.use = "backtest" THEN "selected" ELSE "origins"
  /\ UNCHANGED <<bounds, splits, fan>>

----------------------------------------------------------------------------
(* split_bounds                                                            *)

FirstTarget == Ts(Min(origins) + 1)
EndTarget == Ts(Max({i + NSteps(i) : i \in origins})) + 1

\* Mutant: the boundary is not rounded to a midnight.
AtFracExact(num) == FirstTarget + ((EndTarget - FirstTarget) * num) \div FracDen

\* The midnight nearest to the fraction num / FracDen of the span of targets.
AtFrac(num) ==
  LET scaled == FirstTarget * FracDen + (EndTarget - FirstTarget) * num + (DayMinutes \div 2) * FracDen
  IN  (scaled \div (FracDen * DayMinutes)) * DayMinutes

Boundary(date, num) == IF date # None THEN date * DayMinutes ELSE AtFrac(num)

TestStart == Boundary(request.testStart, FracDen - request.testFrac)
ValStart == Boundary(request.valStart, FracDen - request.testFrac - request.valFrac)

\* Mutant: the embargo separates train from validation only.
BoundsEmbargoTrain ==
  [s \in Names |-> CASE s = "train" -> <<FirstTarget, ValStart - request.embargo>>
                     [] s = "val" -> <<ValStart, TestStart>>
                     [] s = "test" -> <<TestStart, EndTarget>>]

Bounds ==
  [s \in Names |-> CASE s = "train" -> <<FirstTarget, ValStart - request.embargo>>
                     [] s = "val" -> <<ValStart, TestStart - request.embargo>>
                     [] s = "test" -> <<TestStart, EndTarget>>]

SplitBounds ==
  /\ Proceed("origins")
  /\ bounds' = Bounds
  /\ pc' = IF \E s \in Names : bounds'[s][2] <= bounds'[s][1] THEN "failed" ELSE "bounds"
  /\ UNCHANGED <<origins, splits, fan>>

----------------------------------------------------------------------------
(* assign_splits                                                           *)

\* Row of a time on the minute grid.
Idx(t) == t - frame.first

\* Mutant: the origin, not its first target, has to be inside.
InsideByOrigin(i, range) == i >= Idx(range[1]) /\ i + NSteps(i) < Idx(range[2])

\* All targets of origin i are in the range.
Inside(i, range) == i + 1 >= Idx(range[1]) /\ i + NSteps(i) < Idx(range[2])

\* Mutant: every row is assigned, not the usable origins only.
AssignAllRows ==
  /\ Proceed("bounds")
  /\ splits' = [s \in Names |-> {i \in Row : Inside(i, bounds[s])}]
  /\ pc' = IF \E s \in Names : splits'[s] = {} THEN "failed" ELSE "splits"
  /\ UNCHANGED <<origins, bounds, fan>>

AssignSplits ==
  /\ Proceed("bounds")
  /\ splits' = [s \in Names |-> {i \in origins : Inside(i, bounds[s])}]
  /\ pc' = IF \E s \in Names : splits'[s] = {} THEN "failed" ELSE "splits"
  /\ UNCHANGED <<origins, bounds, fan>>

----------------------------------------------------------------------------
(* persistence_fan over the context ends of the train split                *)

\* Mutant: the fan is fitted on context ends up to the range's end.
FanRowsOfRange == {i \in Row : i >= Min(splits["train"]) /\ Ts(i) < bounds["train"][2]}

FanRows == Min(splits["train"]) .. Max(splits["train"])

\* The change from row i to its step h is known; at the opening the reference is 0.50.
Observed(i, h) ==
  /\ h <= NSteps(i)
  /\ i + h \in Valid
  /\ i \in Valid \/ K(i) = Window - 1

FanPairs == {p \in FanRows \X (1 .. Window) : Observed(p[1], p[2])}

FitFan ==
  /\ Proceed("splits")
  /\ fan' = FanPairs
  /\ pc' = "ready"
  /\ UNCHANGED <<origins, bounds, splits>>

Init == frame \in Frames /\ request \in Requests /\ Begin

Next == SelectOrigins \/ SplitBounds \/ AssignSplits \/ FitFan

Spec == Init /\ [][Next]_vars

----------------------------------------------------------------------------
(* Properties                                                              *)

TypeOK ==
  /\ frame \in Frames /\ request \in Requests
  /\ pc \in {"frame", "selected", "origins", "bounds", "splits", "ready", "failed"}
  /\ origins \subseteq Row
  /\ bounds \in [Names -> Int \X Int]
  /\ splits \in [Names -> SUBSET origins]
  /\ fan \subseteq Row \X (1 .. Window)

LastTarget(i) == i + NSteps(i)

\* No target of a split comes within the embargo of a later split's targets, so no
\* two splits share one, whatever the dates or fractions asked for.
Separated(a, b) ==
  \A i \in splits[a], j \in splits[b] : LastTarget(i) + request.embargo < j + 1

Embargoed == Separated("train", "val") /\ Separated("val", "test") /\ Separated("train", "test")

\* Cutting costs the embargo only: an origin in no split has a target in the embargo
\* before a cut.  Contracts end at midnights, so no target crosses one.
EmbargoIsAllThatIsLost ==
  pc \in {"splits", "ready"} =>
    \A i \in origins \ UNION {splits[s] : s \in Names} :
      \E h \in 1 .. NSteps(i), cut \in {bounds["val"][1], bounds["test"][1]} :
        Ts(i + h) \in cut - request.embargo .. cut - 1

\* The held-out origins are those a backtest from the test date on selects, by the
\* window and not by the row.
TestIsBacktested ==
  pc \in {"splits", "ready"} => splits["test"] = {i \in origins : T0(i) >= bounds["test"][1]}

\* Cutting loses nothing but the embargo, and what it holds out is what a backtest from
\* the test date on would evaluate.
CutsHonest == EmbargoIsAllThatIsLost /\ TestIsBacktested

\* The fan never sees a price outside the train split's target range, although it is
\* fitted on every row between the first and the last train origin, usable or not.
FanSeesTrainOnly ==
  \A p \in fan : Ts(p[1] + p[2]) \in bounds["train"][1] .. bounds["train"][2] - 1

=============================================================================

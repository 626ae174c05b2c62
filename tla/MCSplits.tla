------------------------------ MODULE MCSplits ------------------------------
(* Splits for TLC: three-minute contracts, two to a day, and frames that lack *)
(* a value, or a whole candle and what makes that matter nearby.              *)
EXTENDS Batches

CONSTANT Firsts

Kinds == {"candle", "quote", "strike", "mean", "sigma"}

\* Bound: of two defects the second is at most a contract away from the first.
Near(r) == {s \in Row : s - r \in -Window .. Window}

Defects ==
  {{}} \cup {{e} : e \in Row \X Kinds}
       \cup UNION {{{<<r, "candle">>, e} : e \in Near(r) \X {"candle", "strike", "mean"}} : r \in Row}

Missing(defects, kinds) == {d[1] : d \in {x \in defects : x[2] \in kinds}}

MCFrames ==
  {[first |-> f,
    noTarget |-> Missing(D, {"candle", "quote"}), noStrike |-> Missing(D, {"candle", "strike"}),
    noMean |-> Missing(D, {"mean"}), unfit |-> Missing(D, {"sigma"})] :
     f \in Firsts, D \in Defects}

AllMinutes == 0 .. Window - 1

Selection(use, minutes, start, end, stride, cap) ==
  [use |-> use, minutes |-> minutes, start |-> start, end |-> end, stride |-> stride, maxWindows |-> cap,
   valFrac |-> 1, testFrac |-> 1, valStart |-> None, testStart |-> None, embargo |-> 0,
   fanFrom |-> "fit"]

\* A fan that some other run fitted on the whole frame.
WholeFrameFan == Row \X (1 .. Window)

Backtests ==
  {[Selection("backtest", AllMinutes, 1, None, 1, None) EXCEPT !.fanFrom = "file"]} \cup
  {Selection("backtest", minutes, dates[1], dates[2], keep[1], keep[2]) :
     minutes \in {AllMinutes, {1, 2}}, dates \in {<<None, None>>, <<1, None>>, <<1, 1>>},
     keep \in {<<1, None>>, <<1, 2>>, <<2, 2>>}}

\* The first days of val and test, or the fraction of test where a day is not given.
Cuts == {c \in {None, 1} \X {None, 2} \X {1, 2} : c[1] = None \/ c[2] = None \/ c[3] = 1}

Finetunes ==
  {[Selection("finetune", AllMinutes, start, None, 1, None)
      EXCEPT !.valStart = cut[1], !.testStart = cut[2], !.testFrac = cut[3], !.embargo = embargo] :
     start \in {None, 1}, cut \in Cuts, embargo \in {0, 1, 3}}

MCInit == frame \in MCFrames /\ request \in Backtests \cup Finetunes /\ Begin

MCSpec == MCInit /\ [][Next]_vars
=============================================================================

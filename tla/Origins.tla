------------------------------ MODULE Origins ------------------------------
(***************************************************************************)
(* Forecast origins (origins.py, make_origins) on the joined minute frame  *)
(* (features.py): which rows may end a context, what they may read and     *)
(* which rows they are scored on.  Row i covers minute Ts(i); minute 0 is  *)
(* a midnight and contracts open every Window minutes.  The frame's values *)
(* are abstracted to the rows that lack one.                               *)
(***************************************************************************)
EXTENDS Integers, FiniteSets, FiniteSetsExt

CONSTANTS
  Window,      \* minutes of a contract (15)
  DayMinutes,  \* minutes of a day (1440)
  Rows,        \* rows of the frame
  Context,     \* rows of a context
  GapBudget    \* missing candles a context may hold (max_ctx_gap_frac * context)

ASSUME OriginsAssumption ==
  /\ Window \in Nat \ {0} /\ DayMinutes \in Nat \ {0} /\ DayMinutes % Window = 0
  /\ Rows \in Nat \ {0} /\ Context \in Nat \ {0} /\ GapBudget \in Nat

VARIABLES
  frame,    \* its first minute, and the rows that lack a value (see below)
  request,  \* the arguments of the command
  origins   \* rows of the usable origins that were selected

None == -1  \* no date, no cap, no row

\* noTarget: no quoted candle (target_valid); noStrike: no floor_strike; noMean: no
\* brti_mean; unfit: no sigma, or a degenerate quote when require_quote_ok is asked for.
Row == 0 .. Rows - 1

Ts(i) == frame.first + i
K(i) == Ts(i) % Window

\* Minutes since the window opened, at the origin: row i has just closed.
M(i) == (K(i) + 1) % Window

NSteps(i) == Window - M(i)

\* origin_ts truncated to the window.
T0(i) == (Ts(i) + 1) - ((Ts(i) + 1) % Window)

Valid == Row \ frame.noTarget

\* Mutant: cum[j] includes flag[j].
CumInclusive(flag, j) == Cardinality({r \in flag : r <= j})

\* cum[j] = number of True in flag[:j]
Cum(flag, j) == Cardinality({r \in flag : r < j})

\* Mutant: a context one row short.
CtxLoShort(i) == i - Context + 2

CtxLo(i) == i - Context + 1

----------------------------------------------------------------------------
(* The strike: Kalshi's where the window has one, else the index mean of   *)
(* the minute before the window; always the latter at the window's opening *)

SameWindow(i) ==
  LET window == Ts(i) \div Window
  IN  {r \in Row : Ts(r) \div Window = window}

\* The window's first published strike, wherever in the window it is.
Published(i) == SameWindow(i) \ frame.noStrike

\* The row before the window, if it is in the frame.
Before(i) == {r \in Row \ frame.noMean : \E s \in SameWindow(i) : K(s) = 0 /\ r = s - 1}

\* Mutant: the strike that the window publishes last.
FrameStrikeOfLast(i) ==
  IF Published(i) # {} THEN Max(Published(i))
  ELSE IF Before(i) # {} THEN Min(Before(i)) ELSE None

\* The row a row's strike is read from.
FrameStrike(i) ==
  LET published == Published(i)
  IN  IF published # {} THEN Min(published)
      ELSE IF Before(i) # {} THEN Min(Before(i)) ELSE None

\* Mutant: at the opening the strike of the contract that has just settled.
StrikeSourceOfRow(i) == FrameStrike(i)

StrikeSource(i) ==
  IF M(i) # 0 THEN FrameStrike(i)
  ELSE IF i \in frame.noMean THEN None ELSE i

----------------------------------------------------------------------------
(* make_origins                                                            *)

\* No drop reason applies.
Usable(i) ==
  /\ CtxLo(i) >= 0
  /\ i + NSteps(i) <= Rows - 1
  /\ i \in Valid
  /\ CtxLo(i) \in Valid
  /\ Cum(Row \ Valid, i + 1) - Cum(Row \ Valid, CtxLo(i)) <= GapBudget
  /\ i \notin frame.unfit
  /\ StrikeSource(i) # None
  /\ Cum(Valid, i + NSteps(i) + 1) - Cum(Valid, i + 1) > 0

\* Minutes, dates and stride, all of the window and not of the row.
Requested(i) ==
  /\ M(i) \in request.minutes
  /\ request.start # None => T0(i) >= request.start * DayMinutes
  /\ request.end # None => T0(i) < (request.end + 1) * DayMinutes
  /\ (T0(i) \div Window) % request.stride = 0

Earliest(windows, n) == {t \in windows : Cardinality({u \in windows : u < t}) < n}

\* Mutant: the cap counts windows that have no usable origin.
KeptOfRequested == Earliest({T0(i) : i \in {r \in Row : Requested(r)}}, request.maxWindows)

\* The windows kept under the cap: the first ones that have a usable origin.
Kept == Earliest({T0(i) : i \in {r \in Row : Requested(r) /\ Usable(r)}}, request.maxWindows)

MakeOrigins ==
  {i \in Row : Requested(i) /\ Usable(i) /\ (request.maxWindows # None => T0(i) \in Kept)}

----------------------------------------------------------------------------
(* Properties                                                              *)

\* An origin is scored on the rest of its own contract and on nothing else: step h is
\* row i + h, minute m + h - 1 of the window it opens or is in, and the last step is
\* the settlement; all of them are in the frame and at least one has a price.
TargetsOneContract ==
  \A i \in origins :
    /\ \A h \in 1 .. NSteps(i) :
         /\ i + h \in Row
         /\ Ts(i + h) = T0(i) + M(i) + h - 1
         /\ Ts(i + h) \in T0(i) .. T0(i) + Window - 1
    /\ Ts(i + NSteps(i)) = T0(i) + Window - 1
    /\ \E h \in 1 .. NSteps(i) : i + h \in Valid

\* A context is whole up to the gap budget, starts and ends on a candle: the
\* differences of cumulative counts are the counts of exactly its rows.
ContextHonest ==
  \A i \in origins :
    LET first == i - Context + 1
    IN  /\ first .. i \subseteq Row
        /\ Cardinality((first .. i) \cap frame.noTarget) <= GapBudget
        /\ {first, i} \cap frame.noTarget = {}

\* The strike is that of the contract the origin is scored on: published in its
\* window, or the index mean of the minute before; never the settled contract's.
StrikeOfContract ==
  \A i \in origins :
    LET r == StrikeSource(i)
    IN  \/ Ts(r) \in T0(i) .. T0(i) + Window - 1 /\ r \notin frame.noStrike
        \/ Ts(r) = T0(i) - 1 /\ r \notin frame.noMean

\* What is read for an origin, and what it is scored on, are its own.
OriginsHonest == TargetsOneContract /\ ContextHonest /\ StrikeOfContract

\* What origins.py says of the strike: it is read from rows up to the origin.
StrikeReadFromPast == \A i \in origins : StrikeSource(i) <= i

\* The cap takes whole windows, the earliest ones, and fills up: an origin that fell
\* to it comes after as many windows with origins as were asked for.
CapTakesEarliest ==
  request.maxWindows # None /\ origins # {} =>
    LET taken == {T0(i) : i \in origins}
    IN  /\ Cardinality(taken) <= request.maxWindows
        /\ \A j \in {r \in Row : Requested(r) /\ Usable(r)} \ origins :
             /\ Cardinality(taken) = request.maxWindows
             /\ \A t \in taken : t < T0(j)

=============================================================================

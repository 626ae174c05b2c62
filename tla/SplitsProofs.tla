---------------------------- MODULE SplitsProofs ----------------------------
(***************************************************************************)
(* Theorems about Origins, Splits and Batches, for every length of         *)
(* contract, day, context and frame, every frame and every request.        *)
(***************************************************************************)
EXTENDS Batches, FiniteSetTheorems, Extrema

----------------------------------------------------------------------------
(* Truncation to a grid                                                    *)

\* Quotient and remainder satisfy their defining equation.
LEMMA Division ==
  ASSUME NEW w \in Nat \ {0}, NEW x \in Int
  PROVE  /\ x = w * (x \div w) + (x % w)
         /\ x % w \in 0 .. w - 1
         /\ x \div w \in Int
OBVIOUS

\* And no other quotient and remainder satisfy it.
LEMMA DivisionUnique ==
  ASSUME NEW w \in Nat \ {0}, NEW x \in Int, NEW q \in Int, NEW r \in 0 .. w - 1, x = w * q + r
  PROVE  x \div w = q /\ x % w = r
<1> DEFINE p == x \div w
           s == x % w
<1>1. x = w * p + s /\ s \in 0 .. w - 1 /\ p \in Int
  BY Division
<1> HIDE DEF p, s
<1>2. ~ (p < q)
  <2> SUFFICES ASSUME p + 1 <= q PROVE FALSE
    BY <1>1
  <2>1. w * (p + 1) <= w * q
    BY <1>1
  <2>2. w * (p + 1) = w * p + w
    BY <1>1
  <2>3. QED
    BY <1>1, <2>1, <2>2
<1>3. ~ (q < p)
  <2> SUFFICES ASSUME q + 1 <= p PROVE FALSE
    BY <1>1
  <2>1. w * (q + 1) <= w * p
    BY <1>1
  <2>2. w * (q + 1) = w * q + w
    OBVIOUS
  <2>3. QED
    BY <1>1, <2>1, <2>2
<1>4. p = q
  BY <1>1, <1>2, <1>3
<1>5. QED
  BY <1>1, <1>4 DEF p, s

\* The minute after minute x of the grid, with and without wrapping first.
LEMMA SuccessorMinute ==
  ASSUME NEW w \in Nat \ {0}, NEW x \in Int
  PROVE  ((x % w) + 1) % w = (x + 1) % w
<1> DEFINE q == x \div w
           r == x % w
<1>1. x = w * q + r /\ r \in 0 .. w - 1 /\ q \in Int
  BY Division
<1> HIDE DEF q, r
<1>2. CASE r + 1 < w
  <2>1. (r + 1) % w = r + 1
    <3>1. r + 1 = w * 0 + (r + 1) /\ r + 1 \in 0 .. w - 1
      BY <1>1, <1>2
    <3>2. QED
      BY <3>1, DivisionUnique
  <2>2. (x + 1) % w = r + 1
    <3>1. PICK b \in 0 .. w - 1 : b = r + 1
      BY <1>1, <1>2
    <3>2. x + 1 = w * q + b /\ x + 1 \in Int
      BY <1>1, <3>1
    <3>3. (x + 1) % w = b
      BY <1>1, <3>2, DivisionUnique
    <3>4. QED
      BY <3>1, <3>3
  <2>3. QED
    BY <2>1, <2>2 DEF r
<1>3. CASE r + 1 = w
  <2>1. (r + 1) % w = 0
    <3>1. PICK a \in Int, b \in 0 .. w - 1 : a = 1 /\ b = 0
      BY <1>1
    <3>2. r + 1 = w * a + b /\ r + 1 \in Int
      BY <1>1, <1>3, <3>1
    <3>3. (r + 1) % w = b
      BY <3>2, DivisionUnique
    <3>4. QED
      BY <3>1, <3>3
  <2>2. (x + 1) % w = 0
    <3>1. w * (q + 1) = w * q + w
      BY <1>1
    <3>2. x + 1 = w * (q + 1) + 0
      BY <1>1, <1>3, <3>1
    <3>3. QED
      BY <1>1, <3>2, DivisionUnique
  <2>3. QED
    BY <2>1, <2>2 DEF r
<1>4. QED
  BY <1>1, <1>2, <1>3

\* The end of the grid cell of a number does not decrease.
LEMMA CellEndMonotone ==
  ASSUME NEW w \in Nat \ {0}, NEW x \in Nat, NEW y \in Nat, x <= y
  PROVE  x + w - (x % w) <= y + w - (y % w)
<1>1. x = w * (x \div w) + (x % w) /\ x % w \in 0 .. w - 1 /\ x \div w \in Int
  OBVIOUS
<1>2. y = w * (y \div w) + (y % w) /\ y % w \in 0 .. w - 1 /\ y \div w \in Int
  OBVIOUS
<1>3. x \div w <= y \div w
  BY <1>1, <1>2
<1>4. w * (x \div w) <= w * (y \div w)
  BY <1>1, <1>2, <1>3
<1>5. QED
  BY <1>1, <1>2, <1>4

----------------------------------------------------------------------------
(* The index arithmetic of an origin                                       *)

\* m, n_steps and t0 of a row, as the remainder of its closing minute.
LEMMA Steps ==
  ASSUME frame \in Frames, NEW i \in Row
  PROVE  /\ Ts(i) \in Nat
         /\ M(i) = (Ts(i) + 1) % Window
         /\ M(i) \in 0 .. Window - 1
         /\ NSteps(i) \in 1 .. Window
         /\ T0(i) = Ts(i) + 1 - M(i)
<1>1. Ts(i) \in Nat /\ Ts(i) + 1 \in Nat /\ Window \in Nat \ {0}
  BY OriginsAssumption DEF Ts, Row, Frames
<1>2. M(i) = (Ts(i) + 1) % Window
  BY <1>1, SuccessorMinute DEF M, K
<1>3. (Ts(i) + 1) % Window \in 0 .. Window - 1
  BY <1>1
<1>4. QED
  BY <1>1, <1>2, <1>3 DEF NSteps, T0

\* Later origins have later last targets: the ends of their windows.
LEMMA LastTargetMonotone ==
  ASSUME frame \in Frames, NEW i \in Row, NEW j \in Row, i <= j
  PROVE  i + NSteps(i) <= j + NSteps(j)
<1>1. /\ Ts(i) + 1 \in Nat /\ Ts(j) + 1 \in Nat /\ Ts(i) + 1 <= Ts(j) + 1
      /\ Window \in Nat \ {0} /\ frame.first \in Nat
  BY OriginsAssumption DEF Ts, Row, Frames
<1>2. Ts(i) + 1 + Window - ((Ts(i) + 1) % Window) <= Ts(j) + 1 + Window - ((Ts(j) + 1) % Window)
  BY <1>1, CellEndMonotone
<1>3. Ts(i) = frame.first + i /\ Ts(j) = frame.first + j
  BY DEF Ts
<1>4. i \in Nat /\ j \in Nat
  BY OriginsAssumption DEF Row
<1>5. /\ NSteps(i) = Window - ((Ts(i) + 1) % Window) /\ (Ts(i) + 1) % Window \in Int
      /\ NSteps(j) = Window - ((Ts(j) + 1) % Window) /\ (Ts(j) + 1) % Window \in Int
  BY Steps, <1>1 DEF NSteps
<1>6. QED
  BY <1>1, <1>2, <1>3, <1>4, <1>5

----------------------------------------------------------------------------
(* What a usable row is                                                    *)

\* Its steps are the rest of one contract, in the frame, with a price among them.
LEMMA UsableTargets ==
  ASSUME frame \in Frames, NEW i \in Row, Usable(i)
  PROVE  /\ \A h \in 1 .. NSteps(i) :
              /\ i + h \in Row
              /\ Ts(i + h) = T0(i) + M(i) + h - 1
              /\ Ts(i + h) \in T0(i) .. T0(i) + Window - 1
         /\ Ts(i + NSteps(i)) = T0(i) + Window - 1
         /\ \E h \in 1 .. NSteps(i) : i + h \in Valid
<1>1. /\ i \in Nat /\ i <= Rows - 1 /\ Rows \in Nat /\ frame.first \in Nat /\ Window \in Nat \ {0}
      /\ i + NSteps(i) <= Rows - 1
      /\ Cum(Valid, i + NSteps(i) + 1) - Cum(Valid, i + 1) > 0
  BY OriginsAssumption DEF Row, Frames, Usable
<1>2. /\ Ts(i) \in Nat /\ M(i) \in 0 .. Window - 1 /\ NSteps(i) \in 1 .. Window
      /\ NSteps(i) = Window - M(i) /\ T0(i) = Ts(i) + 1 - M(i)
  BY Steps DEF NSteps
<1>3. \A h \in 1 .. NSteps(i) : Ts(i + h) = Ts(i) + h
  BY <1>1, <1>2 DEF Ts
<1>4. ASSUME NEW h \in 1 .. NSteps(i)
      PROVE  /\ i + h \in Row
             /\ Ts(i + h) = T0(i) + M(i) + h - 1
             /\ Ts(i + h) \in T0(i) .. T0(i) + Window - 1
  <2>1. i + h \in Row
    BY <1>1, <1>2 DEF Row
  <2>2. Ts(i + h) = T0(i) + M(i) + h - 1
    BY <1>2, <1>3
  <2>3. QED
    BY <1>1, <1>2, <2>1, <2>2
<1>5. Ts(i + NSteps(i)) = T0(i) + Window - 1
  BY <1>1, <1>2, <1>3
<1>6. \E h \in 1 .. NSteps(i) : i + h \in Valid
  <2> SUFFICES ASSUME \A h \in 1 .. NSteps(i) : i + h \notin Valid PROVE FALSE
    OBVIOUS
  <2>1. ASSUME NEW r \in Valid, r < i + NSteps(i) + 1 PROVE r < i + 1
    <3>1. r \in Nat
      BY <1>1 DEF Valid, Row
    <3>2. SUFFICES ASSUME ~ (r < i + 1) PROVE FALSE
      OBVIOUS
    <3>3. r - i \in 1 .. NSteps(i) /\ i + (r - i) = r
      BY <1>1, <1>2, <2>1, <3>1, <3>2
    <3>4. QED
      BY <3>3
  <2>2. ASSUME NEW r \in Valid, r < i + 1 PROVE r < i + NSteps(i) + 1
    BY <1>1, <1>2, <2>2 DEF Valid, Row
  <2>3. {r \in Valid : r < i + NSteps(i) + 1} = {r \in Valid : r < i + 1}
    BY <2>1, <2>2
  <2>4. Cum(Valid, i + NSteps(i) + 1) = Cum(Valid, i + 1)
    BY <2>3 DEF Cum
  <2>5. Cum(Valid, i + 1) \in Nat
    <3>1. IsFiniteSet(Row)
      BY <1>1, FS_Interval DEF Row
    <3>2. {r \in Valid : r < i + 1} \in SUBSET Row
      BY DEF Valid
    <3>3. QED
      BY <3>1, <3>2, FS_Subset, FS_CardinalityType DEF Cum
  <2>6. QED
    BY <1>1, <2>4, <2>5
<1>7. QED
  BY <1>4, <1>5, <1>6

\* Its context is in the frame, starts and ends on a candle and lacks few of them: the
\* difference of two cumulative counts is the count of the rows between.
LEMMA UsableContext ==
  ASSUME frame \in Frames, NEW i \in Row, Usable(i)
  PROVE  /\ (i - Context + 1) .. i \subseteq Row
         /\ Cardinality(((i - Context + 1) .. i) \cap frame.noTarget) <= GapBudget
         /\ {i - Context + 1, i} \cap frame.noTarget = {}
<1> DEFINE first == i - Context + 1
           Gap == Row \ Valid
           Upto == {r \in Gap : r < i + 1}
           Earlier == {r \in Gap : r < first}
           Within == (first .. i) \cap frame.noTarget
<1>1. /\ i \in Nat /\ i <= Rows - 1 /\ Rows \in Nat /\ Context \in Nat \ {0} /\ GapBudget \in Nat
      /\ first >= 0 /\ first \in Nat /\ first <= i /\ frame.noTarget \subseteq Row
  BY OriginsAssumption DEF Row, Frames, Usable, CtxLo
<1>2. i \in Valid /\ first \in Valid /\ Cum(Gap, i + 1) - Cum(Gap, first) <= GapBudget
  BY DEF Usable, CtxLo
<1>3. Gap = frame.noTarget
  BY <1>1 DEF Valid
<1>4. first .. i \subseteq Row
  BY <1>1 DEF Row
<1>5. {first, i} \cap frame.noTarget = {}
  BY <1>2 DEF Valid
<1>6. Upto = Earlier \cup Within /\ Earlier \cap Within = {}
  <2>1. ASSUME NEW r \in Gap PROVE r \in Nat /\ (r < i + 1 <=> r < first \/ r \in first .. i)
    BY <1>1 DEF Row
  <2>2. ASSUME NEW r \in Gap PROVE ~ (r < first /\ r \in first .. i)
    BY <1>1, <2>1
  <2>3. QED
    BY <1>3, <2>1, <2>2
<1>7. IsFiniteSet(Earlier) /\ IsFiniteSet(Within)
  <2>1. IsFiniteSet(Row)
    BY <1>1, FS_Interval DEF Row
  <2>2. Earlier \in SUBSET Row /\ Within \in SUBSET Row
    BY <1>4
  <2>3. QED
    BY <2>1, <2>2, FS_Subset
<1>8. Cardinality(Upto) = Cardinality(Earlier) + Cardinality(Within)
  <2>1. Cardinality(Upto) = Cardinality(Earlier) + Cardinality(Within) - Cardinality(Earlier \cap Within)
    BY <1>6, <1>7, FS_Union
  <2>2. Cardinality(Earlier \cap Within) = 0
    BY <1>6, FS_EmptySet
  <2>3. Cardinality(Earlier) \in Nat /\ Cardinality(Within) \in Nat
    BY <1>7, FS_CardinalityType
  <2>4. QED
    BY <2>1, <2>2, <2>3
<1>9. Cum(Gap, i + 1) = Cardinality(Upto) /\ Cum(Gap, first) = Cardinality(Earlier)
  BY DEF Cum
<1>10. Cardinality(Within) <= GapBudget
  <2>1. Cardinality(Earlier) \in Nat /\ Cardinality(Within) \in Nat
    BY <1>7, FS_CardinalityType
  <2>2. QED
    BY <1>1, <1>2, <1>8, <1>9, <2>1
<1>11. QED
  BY <1>4, <1>5, <1>10

\* Its strike is published in its contract's window, or is the mean before the window.
LEMMA UsableStrike ==
  ASSUME frame \in Frames, NEW i \in Row, Usable(i)
  PROVE  LET r == StrikeSource(i)
         IN  \/ Ts(r) \in T0(i) .. T0(i) + Window - 1 /\ r \notin frame.noStrike
             \/ Ts(r) = T0(i) - 1 /\ r \notin frame.noMean
<1> DEFINE q == Ts(i) \div Window
<1>1. /\ Window \in Nat \ {0} /\ Ts(i) \in Nat /\ T0(i) = Ts(i) + 1 - M(i) /\ StrikeSource(i) # None
      /\ M(i) \in 0 .. Window - 1 /\ \A r \in Row : r \in Nat /\ Ts(r) \in Nat
  BY Steps, OriginsAssumption DEF Usable, Row
<1>2. \A r \in Row : /\ Ts(r) = Window * (Ts(r) \div Window) + K(r)
                     /\ K(r) \in 0 .. Window - 1 /\ Ts(r) \div Window \in Int
  <2> TAKE r \in Row
  <2>1. Ts(r) \in Int
    BY <1>1
  <2>2. QED
    BY <1>1, <2>1, Division DEF K
<1>3. CASE M(i) = 0
  <2>1. StrikeSource(i) = i /\ i \notin frame.noMean
    BY <1>1, <1>3 DEF StrikeSource
  <2>2. QED
    BY <1>1, <1>3, <2>1
<1>4. CASE M(i) # 0
  <2>1. M(i) = K(i) + 1
    <3>1. K(i) + 1 < Window \/ K(i) + 1 = Window
      BY <1>1, <1>2
    <3>2. K(i) + 1 # Window
      BY <1>1, <1>4 DEF M
    <3>3. K(i) + 1 = Window * 0 + (K(i) + 1) /\ K(i) + 1 \in 0 .. Window - 1
      BY <1>1, <1>2, <3>1, <3>2
    <3>4. (K(i) + 1) % Window = K(i) + 1
      <4> DEFINE x == K(i) + 1
      <4>1. x \in 0 .. Window - 1 /\ x \in Int /\ 0 \in Int /\ x = Window * 0 + x
        BY <1>1, <3>3
      <4> HIDE DEF x
      <4>2. x % Window = x
        BY <1>1, <4>1, DivisionUnique
      <4> QED
        BY <4>2 DEF x
    <3>5. QED
      BY <3>4 DEF M
  <2>2. T0(i) = Window * q
    BY <1>1, <1>2, <2>1
  <2>3. StrikeSource(i) = FrameStrike(i) /\ FrameStrike(i) # None
    BY <1>1, <1>4 DEF StrikeSource
  <2>4. CASE Published(i) # {}
    <3>1. Published(i) \subseteq Row /\ Row \subseteq Nat
      BY <1>1 DEF Published, SameWindow
    <3>2. FrameStrike(i) \in Published(i)
      BY <2>4, <3>1, MinIsLeast DEF FrameStrike
    <3>3. /\ FrameStrike(i) \in Row /\ Ts(FrameStrike(i)) \div Window = q
          /\ FrameStrike(i) \notin frame.noStrike
      BY <3>2 DEF Published, SameWindow
    <3>4. Ts(FrameStrike(i)) \in T0(i) .. T0(i) + Window - 1
      BY <1>1, <1>2, <2>2, <3>3
    <3>5. QED
      BY <2>3, <3>3, <3>4
  <2>5. CASE Published(i) = {}
    <3>1. Before(i) # {} /\ FrameStrike(i) = Min(Before(i))
      BY <2>3, <2>5 DEF FrameStrike
    <3>2. Before(i) \subseteq Row /\ Row \subseteq Nat
      BY <1>1 DEF Before
    <3>3. FrameStrike(i) \in Before(i)
      BY <3>1, <3>2, MinIsLeast
    <3>4. PICK s \in SameWindow(i) : K(s) = 0 /\ FrameStrike(i) = s - 1
      BY <3>3 DEF Before
    <3>5. s \in Row /\ Ts(s) \div Window = q
      BY DEF SameWindow
    <3>6. Ts(s) = T0(i)
      BY <1>1, <1>2, <2>2, <3>4, <3>5
    <3>7. Ts(s - 1) = Ts(s) - 1
      BY <1>1, <3>5 DEF Ts, Frames
    <3>8. FrameStrike(i) \notin frame.noMean
      BY <3>3 DEF Before
    <3>9. QED
      BY <2>3, <3>4, <3>6, <3>7, <3>8
  <2>6. QED
    BY <2>4, <2>5
<1>5. QED
  BY <1>3, <1>4

----------------------------------------------------------------------------
(* The inductive invariant.  It adds to the properties what each point of  *)
(* the command has established: the splits are empty until the bounds are  *)
(* a chain of embargoed ranges (Cut), and then hold usable origins that    *)
(* are inside of theirs.                                                   *)

Cut ==
  /\ bounds["train"][2] + request.embargo = bounds["val"][1]
  /\ bounds["val"][1] < bounds["val"][2]
  /\ bounds["val"][2] + request.embargo = bounds["test"][1]

SplitsInside == \A s \in Names : \A i \in splits[s] : Inside(i, bounds[s])

OriginsUsable == \A i \in origins : Usable(i)

IInv ==
  /\ TypeOK
  /\ OriginsUsable
  /\ pc = "origins" => origins # {}
  /\ pc \in {"frame", "origins"} => splits = NoSplits
  /\ pc = "bounds" \/ splits # NoSplits => Cut
  /\ SplitsInside
  /\ pc = "splits" => splits["train"] # {}
  /\ pc # "ready" => fan = {}
  /\ FanSeesTrainOnly

\* A row's fitness is the frame's alone.
LEMMA UsableStable ==
  ASSUME frame' = frame
  PROVE  \A i \in Row : Usable(i) => Usable(i)'
BY DEF Usable, CtxLo, NSteps, M, K, Ts, Valid, Cum, StrikeSource, FrameStrike, Published, Before,
       SameWindow

\* The invariant holds before the origins are selected.
LEMMA InitIInv == Init => IInv
<1> SUFFICES ASSUME Init PROVE IInv
  OBVIOUS
<1> USE DEF Init, Begin
<1>1. TypeOK
  BY DEF TypeOK, NoSplits
<1>2. OriginsUsable /\ SplitsInside /\ FanSeesTrainOnly
  BY DEF OriginsUsable, SplitsInside, FanSeesTrainOnly, NoSplits
<1>3. QED
  BY <1>1, <1>2 DEF IInv

\* make_origins keeps it: the rows it selects are usable, and there are no splits yet.
LEMMA SelectIInv == IInv /\ SelectOrigins => IInv'
<1> SUFFICES ASSUME IInv, SelectOrigins PROVE IInv'
  OBVIOUS
<1>1. /\ frame' = frame /\ request' = request /\ bounds' = bounds /\ splits' = splits /\ fan' = fan
      /\ pc = "frame" /\ splits = NoSplits /\ fan = {} /\ origins' = MakeOrigins
      /\ pc' \in {"selected", "origins", "failed"}
      /\ pc' = "origins" => ~ (Cardinality(origins') < 3)
  BY DEF IInv, SelectOrigins, FewestOrigins, Proceed
<1>2. \A i \in origins' : i \in Row /\ Usable(i)
  BY <1>1 DEF MakeOrigins
<1>3. TypeOK'
  BY <1>1, <1>2 DEF IInv, TypeOK, NoSplits
<1>4. OriginsUsable'
  BY <1>1, <1>2, UsableStable DEF OriginsUsable
<1>5. (pc = "origins" => origins # {})'
  BY <1>1, FS_EmptySet
<1>6. SplitsInside' /\ FanSeesTrainOnly'
  BY <1>1 DEF SplitsInside, FanSeesTrainOnly, NoSplits
<1>7. QED
  BY <1>1, <1>3, <1>4, <1>5, <1>6 DEF IInv, NoSplits

\* The origins' targets span a range of times.
LEMMA TargetSpan ==
  ASSUME TypeOK, origins # {}
  PROVE  /\ FirstTarget \in Int /\ EndTarget \in Int
         /\ \A i \in origins : FirstTarget <= Ts(i) + 1 /\ Ts(i) + NSteps(i) < EndTarget
<1> DEFINE Last == {i + NSteps(i) : i \in origins}
<1>1. /\ Rows \in Nat \ {0} /\ Window \in Nat \ {0} /\ frame \in Frames /\ frame.first \in Nat
      /\ origins \subseteq Row /\ Row \subseteq Nat
  BY OriginsAssumption DEF TypeOK, Frames, Row
<1>2. \A i \in origins : i \in Nat /\ i <= Rows - 1 /\ NSteps(i) \in 1 .. Window /\ Ts(i) = frame.first + i
  BY <1>1, Steps DEF Row, Ts
<1>3. Min(origins) \in Nat /\ \A i \in origins : Min(origins) <= i
  BY <1>1, MinIsLeast
<1>4. FirstTarget = frame.first + Min(origins) + 1
  BY <1>1, <1>3 DEF FirstTarget, Ts
<1>5. \A x \in Last : x \in Nat /\ x <= Rows + Window
  BY <1>1, <1>2
<1>6. Last # {} /\ \A i \in origins : i + NSteps(i) \in Last
  OBVIOUS
<1>7. EndTarget = frame.first + Max(Last) + 1
  BY DEF EndTarget, Ts
<1> HIDE DEF Last
<1>8. Max(Last) \in Nat /\ \A x \in Last : x <= Max(Last)
  <2>1. Rows + Window \in Nat /\ Last \subseteq Nat
    BY <1>1, <1>5
  <2>2. Max(Last) \in Last /\ \A x \in Last : Max(Last) >= x
    BY <1>5, <1>6, <2>1, MaxIsGreatest
  <2> QED
    BY <1>5, <2>2
<1>9. FirstTarget \in Int /\ EndTarget \in Int
  BY <1>1, <1>3, <1>4, <1>7, <1>8
<1>10. ASSUME NEW i \in origins PROVE FirstTarget <= Ts(i) + 1 /\ Ts(i) + NSteps(i) < EndTarget
  <2>1. i \in Nat /\ NSteps(i) \in Nat /\ Ts(i) = frame.first + i /\ Min(origins) <= i /\ i + NSteps(i) <= Max(Last)
    BY <1>1, <1>2, <1>3, <1>6, <1>8
  <2> QED
    BY <1>1, <1>3, <1>4, <1>7, <1>8, <2>1
<1> QED
  BY <1>9, <1>10

\* A fraction of the span is rounded to a midnight.
LEMMA AtFracIsMidnight ==
  ASSUME TypeOK, origins # {}, NEW num \in Int
  PROVE  \E q \in Int : AtFrac(num) = q * DayMinutes
<1> DEFINE scaled == FirstTarget * FracDen + (EndTarget - FirstTarget) * num + (DayMinutes \div 2) * FracDen
<1>1. /\ DayMinutes \in Nat \ {0} /\ FracDen \in Nat \ {0} /\ FirstTarget \in Int /\ EndTarget \in Int
  BY TargetSpan, OriginsAssumption, SplitsAssumption
<1>2. scaled \in Int
  BY <1>1
<1>3. FracDen * DayMinutes \in Nat \ {0}
  BY <1>1
<1>4. scaled \div (FracDen * DayMinutes) \in Int
  BY <1>2, <1>3, Division
<1> QED
  BY <1>4 DEF AtFrac

\* The bounds are times: the first and the last target of the origins are in the frame,
\* and the cuts are whole midnights.
LEMMA BoundsTyped ==
  ASSUME IInv, origins # {}
  PROVE  /\ Bounds \in [Names -> Int \X Int]
         /\ \E q \in Int : ValStart = q * DayMinutes
         /\ \E q \in Int : TestStart = q * DayMinutes
<1>1. /\ DayMinutes \in Nat \ {0} /\ FracDen \in Nat \ {0}
      /\ request.valFrac \in Nat /\ request.testFrac \in Nat /\ request.embargo \in Nat
      /\ request.valStart \in Int /\ request.testStart \in Int
  BY OriginsAssumption, SplitsAssumption DEF IInv, TypeOK, Requests, Dates, None
<1>2. FirstTarget \in Int /\ EndTarget \in Int
  BY TargetSpan DEF IInv
<1>3. ASSUME NEW date \in Int, NEW num \in Int PROVE \E q \in Int : Boundary(date, num) = q * DayMinutes
  BY <1>1, AtFracIsMidnight DEF IInv, Boundary
<1>4. \E q \in Int : ValStart = q * DayMinutes
  <2>1. FracDen - request.testFrac - request.valFrac \in Int
    BY <1>1
  <2> QED
    BY <1>1, <1>3, <2>1 DEF ValStart
<1>5. \E q \in Int : TestStart = q * DayMinutes
  <2>1. FracDen - request.testFrac \in Int
    BY <1>1
  <2> QED
    BY <1>1, <1>3, <2>1 DEF TestStart
<1>6. ValStart \in Int /\ TestStart \in Int
  BY <1>1, <1>4, <1>5
<1>7. Bounds \in [Names -> Int \X Int]
  BY <1>1, <1>2, <1>6 DEF Bounds, Names
<1> QED
  BY <1>4, <1>5, <1>7

\* split_bounds keeps it: it goes on only when each range ends after it begins.
LEMMA BoundsIInv == IInv /\ SplitBounds => IInv'
<1> SUFFICES ASSUME IInv, SplitBounds PROVE IInv'
  OBVIOUS
<1>1. /\ frame' = frame /\ request' = request /\ origins' = origins /\ splits' = splits /\ fan' = fan
      /\ pc = "origins" /\ splits = NoSplits /\ fan = {} /\ origins # {} /\ bounds' = Bounds
      /\ pc' \in {"failed", "bounds"}
      /\ pc' = "bounds" => ~ \E s \in Names : bounds'[s][2] <= bounds'[s][1]
  BY DEF IInv, SplitBounds, Proceed
<1>2. Bounds \in [Names -> Int \X Int]
  BY <1>1, BoundsTyped
<1>3. TypeOK'
  BY <1>1, <1>2 DEF IInv, TypeOK
<1>4. OriginsUsable'
  BY <1>1, UsableStable DEF IInv, TypeOK, OriginsUsable
<1>5. pc' = "bounds" => Cut'
  <2> SUFFICES ASSUME pc' = "bounds" PROVE Cut'
    OBVIOUS
  <2>1. /\ Bounds["train"] = <<FirstTarget, ValStart - request.embargo>>
        /\ Bounds["val"] = <<ValStart, TestStart - request.embargo>>
        /\ Bounds["test"] = <<TestStart, EndTarget>>
    BY DEF Bounds, Names
  <2>2. ValStart \in Int /\ TestStart \in Int
    BY <1>2, <2>1 DEF Names
  <2>3. request.embargo \in Nat
    BY DEF IInv, TypeOK, Requests
  <2>4. ~ (bounds'["val"][2] <= bounds'["val"][1])
    BY <1>1 DEF Names
  <2>5. QED
    BY <1>1, <2>1, <2>2, <2>3, <2>4 DEF Cut
<1>6. SplitsInside' /\ FanSeesTrainOnly'
  BY <1>1 DEF SplitsInside, FanSeesTrainOnly, NoSplits
<1>7. QED
  BY <1>1, <1>3, <1>4, <1>5, <1>6 DEF IInv, NoSplits

\* assign_splits keeps it: it assigns origins that are inside of the ranges.
LEMMA AssignIInv == IInv /\ AssignSplits => IInv'
<1> SUFFICES ASSUME IInv, AssignSplits PROVE IInv'
  OBVIOUS
<1>1. /\ frame' = frame /\ request' = request /\ origins' = origins /\ bounds' = bounds /\ fan' = fan
      /\ pc = "bounds" /\ fan = {} /\ Cut
      /\ splits' = [s \in Names |-> {i \in origins : Inside(i, bounds[s])}]
      /\ pc' \in {"failed", "splits"} /\ (pc' = "splits" => splits'["train"] # {})
  BY DEF IInv, AssignSplits, Proceed, Names
<1>2. TypeOK'
  BY <1>1 DEF IInv, TypeOK
<1>3. OriginsUsable'
  BY <1>1, UsableStable DEF IInv, TypeOK, OriginsUsable
<1>4. Cut'
  BY <1>1 DEF Cut
<1>5. SplitsInside'
  BY <1>1 DEF SplitsInside, Inside, Idx, NSteps, M, K, Ts
<1>6. FanSeesTrainOnly'
  BY <1>1 DEF FanSeesTrainOnly
<1>7. QED
  BY <1>1, <1>2, <1>3, <1>4, <1>5, <1>6 DEF IInv

\* A step forecast from a row between the first and the last train origin is inside of
\* the train range, since last targets do not go back.
LEMMA FanInRange ==
  ASSUME IInv, pc = "splits", NEW p \in FanPairs
  PROVE  /\ p \in Row \X (1 .. Window)
         /\ Ts(p[1] + p[2]) \in bounds["train"][1] .. bounds["train"][2] - 1
<1> DEFINE train == splits["train"]
           lo == Min(train)
           hi == Max(train)
           range == bounds["train"]
<1>1. /\ frame \in Frames /\ frame.first \in Nat /\ Window \in Nat \ {0} /\ Rows \in Nat
      /\ train \in SUBSET origins /\ origins \subseteq Row /\ train # {} /\ range \in Int \X Int
  BY OriginsAssumption DEF IInv, TypeOK, Frames, Names
<1>2. \A i \in train : Inside(i, range)
  BY DEF IInv, SplitsInside, Names
<1>3. \A i \in Row : i \in Nat /\ i <= Rows
  BY <1>1 DEF Row
<1> HIDE DEF train, range, lo, hi
<1>4. lo \in train /\ hi \in train
  <2>1. train \subseteq Nat /\ \A i \in train : i <= Rows
    BY <1>1, <1>3
  <2>2. QED
    BY <1>1, <2>1, MinIsLeast, MaxIsGreatest DEF lo, hi
<1>5. /\ p \in FanRows \X (1 .. Window) /\ p[1] \in lo .. hi /\ p[2] \in 1 .. Window
      /\ p[2] <= NSteps(p[1])
  BY DEF FanPairs, FanRows, Observed, lo, hi, train
<1>6. lo \in Row /\ hi \in Row /\ p[1] \in Row
  <2>1. lo \in Row /\ hi \in Row
    BY <1>1, <1>4
  <2>2. QED
    BY <1>1, <1>5, <2>1 DEF Row
<1>7. /\ lo + 1 >= range[1] - frame.first
      /\ hi + NSteps(hi) < range[2] - frame.first
  BY <1>4, <1>2 DEF Inside, Idx
<1>8. p[1] + NSteps(p[1]) <= hi + NSteps(hi)
  <2>1. p[1] <= hi
    BY <1>5, <1>6, <1>3
  <2>2. QED
    BY <1>1, <1>6, <2>1, LastTargetMonotone
<1>9. NSteps(p[1]) \in Int /\ NSteps(hi) \in Int
  BY <1>1, <1>6, Steps
<1>10. Ts(p[1] + p[2]) = frame.first + p[1] + p[2]
  BY <1>1, <1>5, <1>6 DEF Ts
<1>11. Ts(p[1] + p[2]) \in range[1] .. range[2] - 1
  <2>1. range[1] \in Int /\ range[2] \in Int /\ lo \in Nat /\ hi \in Nat /\ p[1] \in Nat /\ p[2] \in Nat
    BY <1>1, <1>5, <1>6, <1>3
  <2>2. range[1] <= frame.first + p[1] + p[2]
    BY <1>1, <1>5, <1>7, <2>1
  <2>3. frame.first + p[1] + p[2] < range[2]
    BY <1>1, <1>5, <1>7, <1>8, <1>9, <2>1
  <2>4. QED
    BY <1>1, <1>10, <2>1, <2>2, <2>3
<1>12. p \in Row \X (1 .. Window)
  BY <1>5, <1>6
<1>13. QED
  BY <1>11, <1>12 DEF range

\* persistence_fan keeps it: its pairs are in the train range by FanInRange.
LEMMA FitIInv == IInv /\ FitFan => IInv'
<1> SUFFICES ASSUME IInv, FitFan PROVE IInv'
  OBVIOUS
<1>1. /\ frame' = frame /\ request' = request /\ origins' = origins /\ bounds' = bounds /\ splits' = splits
      /\ pc = "splits" /\ pc' = "ready" /\ fan' = FanPairs
  BY DEF FitFan, Proceed
<1>2. TypeOK'
  BY <1>1, FanInRange DEF IInv, TypeOK
<1>3. OriginsUsable'
  BY <1>1, UsableStable DEF IInv, TypeOK, OriginsUsable
<1>4. SplitsInside' /\ (splits # NoSplits => Cut)'
  BY <1>1 DEF IInv, SplitsInside, Inside, Idx, NSteps, M, K, Ts, Cut, NoSplits
<1>5. FanSeesTrainOnly'
  BY <1>1, FanInRange DEF FanSeesTrainOnly, Ts
<1>6. QED
  BY <1>1, <1>2, <1>3, <1>4, <1>5 DEF IInv

\* A step that changes nothing keeps it.
LEMMA StutterIInv == IInv /\ UNCHANGED vars => IInv'
<1> SUFFICES ASSUME IInv, UNCHANGED vars PROVE IInv'
  OBVIOUS
<1>1. /\ frame' = frame /\ request' = request /\ origins' = origins /\ bounds' = bounds /\ splits' = splits
      /\ pc' = pc /\ fan' = fan
  BY DEF vars
<1>2. OriginsUsable'
  BY <1>1, UsableStable DEF IInv, TypeOK, OriginsUsable
<1>3. TypeOK' /\ SplitsInside' /\ FanSeesTrainOnly'
  BY <1>1 DEF IInv, TypeOK, SplitsInside, Inside, Idx, NSteps, M, K, Ts, FanSeesTrainOnly
<1>4. (pc = "bounds" \/ splits # NoSplits => Cut)'
  BY <1>1 DEF IInv, Cut, NoSplits
<1>5. QED
  BY <1>1, <1>2, <1>3, <1>4 DEF IInv, NoSplits

\* Every state of every command satisfies the invariant.
THEOREM Invariance == Spec => []IInv
<1>1. IInv /\ [Next]_vars => IInv'
  BY SelectIInv, BoundsIInv, AssignIInv, FitIInv, StutterIInv DEF Next
<1>2. QED
  BY InitIInv, <1>1, PTL DEF Spec

----------------------------------------------------------------------------
(* The theorems                                                            *)

\* Every variable stays in its type; in particular the splits hold origins only and the
\* bounds are well defined, whatever the frame lacks and whatever is asked for.
THEOREM Typing == Spec => []TypeOK
<1>1. IInv => TypeOK
  BY DEF IInv
<1>2. QED
  BY <1>1, Invariance, PTL

\* make_origins selects no row whose targets leave its contract or the frame, whose
\* context misses more candles than allowed, or whose strike is another contract's.
THEOREM HonestOrigins == Spec => []OriginsHonest
<1>1. IInv => OriginsHonest
  <2> SUFFICES ASSUME IInv PROVE TargetsOneContract /\ ContextHonest /\ StrikeOfContract
    BY DEF OriginsHonest
  <2>1. frame \in Frames /\ \A i \in origins : i \in Row /\ Usable(i)
    BY DEF IInv, TypeOK, OriginsUsable
  <2>2. TargetsOneContract
    BY <2>1, UsableTargets DEF TargetsOneContract
  <2>3. ContextHonest
    BY <2>1, UsableContext DEF ContextHonest
  <2>4. StrikeOfContract
    BY <2>1, UsableStrike DEF StrikeOfContract
  <2>5. QED
    BY <2>2, <2>3, <2>4
<1>2. QED
  BY <1>1, Invariance, PTL

\* The targets of two splits are an embargo apart, at least: what assign_splits puts
\* inside the ranges of split_bounds never leaks into a later split.
THEOREM SplitsSeparated == Spec => []Embargoed
<1>1. IInv => Embargoed
  <2> SUFFICES ASSUME IInv PROVE Embargoed
    OBVIOUS
  <2>1. /\ frame \in Frames /\ frame.first \in Nat /\ request.embargo \in Nat
        /\ \A s \in Names : bounds[s] \in Int \X Int
        /\ \A s \in Names : bounds[s][1] \in Int /\ bounds[s][2] \in Int
        /\ \A s \in Names : \A i \in splits[s] : i \in Row
        /\ \A i \in Row : i \in Nat /\ NSteps(i) \in Nat
    BY OriginsAssumption, Steps DEF IInv, TypeOK, Frames, Requests, Row
  <2>2. ASSUME NEW a \in Names, NEW b \in Names, NEW i \in splits[a], NEW j \in splits[b]
        PROVE  /\ Cut
               /\ i + NSteps(i) + frame.first < bounds[a][2]
               /\ bounds[b][1] <= j + 1 + frame.first
    <3>1. Cut
      BY DEF IInv, NoSplits
    <3>2. Inside(i, bounds[a]) /\ Inside(j, bounds[b])
      BY DEF IInv, SplitsInside
    <3>3. QED
      BY <2>1, <3>1, <3>2 DEF Inside, Idx
  <2>3. ASSUME NEW a \in Names, NEW b \in Names, Cut => bounds[a][2] + request.embargo <= bounds[b][1]
        PROVE  Separated(a, b)
    BY <2>1, <2>2, <2>3 DEF Separated, LastTarget
  <2>4. Cut => /\ bounds["train"][2] + request.embargo <= bounds["val"][1]
               /\ bounds["val"][2] + request.embargo <= bounds["test"][1]
               /\ bounds["train"][2] + request.embargo <= bounds["test"][1]
    BY <2>1 DEF Cut, Names
  <2>5. QED
    BY <2>3, <2>4 DEF Embargoed, Names
<1>2. QED
  BY <1>1, Invariance, PTL

\* Every price the persistence fan is fitted on is in the train range, although the fan
\* takes every row between two origins.
THEOREM FanIsTrainOnly == Spec => []FanSeesTrainOnly
<1>1. IInv => FanSeesTrainOnly
  BY DEF IInv
<1>2. QED
  BY <1>1, Invariance, PTL

----------------------------------------------------------------------------
(* The grid of contracts                                                   *)

\* A point of a cell is told by its quotient and its remainder.
LEMMA PointOfCell ==
  ASSUME NEW w \in Nat \ {0}, NEW q \in Int, NEW r \in 0 .. w - 1, NEW x, x = w * q + r
  PROVE  x % w = r /\ x \div w = q
<1>1. x \in Int
  OBVIOUS
<1> QED
  BY <1>1, DivisionUnique

\* The first two cells.
LEMMA FirstCells ==
  ASSUME NEW w \in Nat \ {0}, NEW r \in 0 .. w - 1
  PROVE  r % w = r /\ (w + r) % w = r
<1>1. r = w * 0 + r /\ w + r = w * 1 + r
  OBVIOUS
<1>2. ASSUME NEW x \in Int, x = w * 0 + r PROVE x % w = r
  BY <1>2, PointOfCell
<1>3. ASSUME NEW x \in Int, x = w * 1 + r PROVE x % w = r
  BY <1>3, PointOfCell
<1> QED
  BY <1>1, <1>2, <1>3

\* Of two points of a grid the lower is a whole cell below.
LEMMA CellApart ==
  ASSUME NEW w \in Nat \ {0}, NEW a \in Int, NEW b \in Int, w * a < w * b
  PROVE  w * a + w <= w * b
<1>1. a + 1 <= b
  <2> SUFFICES ASSUME b <= a PROVE FALSE
    OBVIOUS
  <2>1. w * b <= w * a
    OBVIOUS
  <2> QED
    BY <2>1
<1>2. w * (a + 1) <= w * b
  BY <1>1
<1>3. w * (a + 1) = w * a + w
  OBVIOUS
<1> QED
  BY <1>2, <1>3

\* The window a row forecasts opens on the grid, and its targets are the rest of it.
LEMMA WindowOnGrid ==
  ASSUME frame \in Frames, NEW i \in Row
  PROVE  /\ \E q \in Nat : T0(i) = Window * q
         /\ T0(i) \in Nat /\ T0(i) <= Ts(i) + 1 /\ Ts(i) + NSteps(i) = T0(i) + Window - 1
<1> DEFINE x == Ts(i) + 1
           q == x \div Window
<1>1. x \in Nat /\ Window \in Nat \ {0} /\ M(i) = x % Window /\ M(i) \in 0 .. Window - 1 /\ T0(i) = x - M(i)
  BY Steps, OriginsAssumption
<1> HIDE DEF x
<1>2. x = Window * q + (x % Window) /\ q \in Int
  BY <1>1, Division
<1> HIDE DEF q
<1>3. T0(i) = Window * q
  BY <1>1, <1>2
<1>4. q \in Nat
  <2> SUFFICES ASSUME q <= -1 PROVE FALSE
    BY <1>2
  <2>1. Window * q <= Window * (-1)
    BY <1>1, <1>2
  <2>2. Window * (-1) = -Window
    BY <1>1
  <2> QED
    BY <1>1, <1>2, <2>1, <2>2
<1>5. Ts(i) \in Nat
  BY Steps
<1>6. NSteps(i) = Window - M(i)
  BY DEF NSteps
<1>7. T0(i) <= Ts(i) + 1 /\ Ts(i) + NSteps(i) = T0(i) + Window - 1
  BY <1>1, <1>5, <1>6 DEF x
<1>8. T0(i) \in Nat
  BY <1>1, <1>3, <1>4
<1> QED
  BY <1>3, <1>4, <1>7, <1>8

\* The minute of a step of a contract, told from its row or counted from the opening.
LEMMA MinuteOfStep ==
  ASSUME frame \in Frames, NEW i \in Row, NEW h \in 1 .. NSteps(i)
  PROVE  /\ Ts(i + h) = T0(i) + M(i) + h - 1
         /\ M(i) + h - 1 \in 0 .. Window - 1
         /\ K(i + h) = M(i) + h - 1
         /\ (K(i) + h) % Window = M(i) + h - 1
         /\ Ts(i + h) \div Window = T0(i) \div Window
<1> DEFINE m == M(i) + h - 1
           k == K(i)
<1>1. /\ Window \in Nat \ {0} /\ Ts(i) \in Nat /\ M(i) \in 0 .. Window - 1 /\ NSteps(i) = Window - M(i)
      /\ T0(i) = Ts(i) + 1 - M(i) /\ frame.first \in Nat /\ i \in Nat
  BY Steps, OriginsAssumption DEF NSteps, Frames, Row
<1>2. h \in Nat /\ m \in 0 .. Window - 1
  BY <1>1
<1>3. Ts(i + h) = T0(i) + m
  BY <1>1, <1>2 DEF Ts
<1>4. PICK q \in Nat : T0(i) = Window * q
  BY WindowOnGrid
<1>5. Ts(i + h) = Window * q + m /\ Ts(i + h) \in Int
  BY <1>1, <1>2, <1>3, <1>4
<1> HIDE DEF m
<1>6. Ts(i + h) % Window = m /\ Ts(i + h) \div Window = q
  <2> DEFINE x == Ts(i + h)
  <2>1. Window \in Nat \ {0} /\ q \in Int /\ m \in 0 .. Window - 1 /\ x = Window * q + m
    BY <1>1, <1>2, <1>5
  <2> HIDE DEF x
  <2>2. x % Window = m /\ x \div Window = q
    BY <2>1, PointOfCell
  <2> QED
    BY <2>2 DEF x
<1>7. T0(i) \div Window = q
  <2>1. T0(i) = Window * q + 0 /\ T0(i) \in Int /\ 0 \in 0 .. Window - 1
    BY <1>1, <1>4
  <2> QED
    BY <1>1, <2>1, PointOfCell
<1>8. (k + h) % Window = m
  <2>1. k = Ts(i) % Window
    BY DEF K
  <2>2. k \in 0 .. Window - 1 /\ M(i) = (k + 1) % Window
    BY <1>1, <2>1 DEF M
  <2> HIDE DEF k
  <2>3. CASE k + 1 < Window
    <3>1. M(i) = k + 1
      <4>1. k + 1 \in 0 .. Window - 1
        BY <1>1, <2>2, <2>3
      <4> QED
        BY <1>1, <2>2, <4>1, FirstCells
    <3>2. k + h = m
      BY <1>2, <2>2, <3>1 DEF m
    <3> QED
      BY <1>1, <1>2, <3>2, FirstCells
  <2>4. CASE k + 1 = Window
    <3>1. M(i) = 0
      <4>1. k + 1 = Window + 0 /\ 0 \in 0 .. Window - 1
        BY <1>1, <2>2, <2>4
      <4> QED
        BY <1>1, <2>2, <4>1, FirstCells
    <3>2. k + h = Window + m
      BY <1>1, <1>2, <2>2, <2>4, <3>1 DEF m
    <3> QED
      BY <1>1, <1>2, <3>2, FirstCells
  <2> QED
    BY <1>1, <2>2, <2>3, <2>4
<1>9. K(i + h) = m
  BY <1>6 DEF K
<1>10. Ts(i + h) = T0(i) + M(i) + h - 1
  BY <1>1, <1>2, <1>3 DEF m
<1> QED
  BY <1>2, <1>6, <1>7, <1>8, <1>9, <1>10 DEF k, m

----------------------------------------------------------------------------
(* What a usable row becomes in the arrays                                 *)

\* The rows of a window, told by their times.
LEMMA RowsOfWindow ==
  ASSUME frame \in Frames, NEW u \in Row, NEW q \in Int
  PROVE  Ts(u) \div Window = q <=> Ts(u) \in Window * q .. Window * q + Window - 1
<1> DEFINE x == Ts(u)
<1>1. Window \in Nat \ {0} /\ x \in Nat
  BY OriginsAssumption, Steps
<1> HIDE DEF x
<1>2. x = Window * (x \div Window) + (x % Window) /\ x % Window \in 0 .. Window - 1 /\ x \div Window \in Int
  BY <1>1, Division
<1>3. Window * q \in Int
  BY <1>1
<1>4. ASSUME x \in Window * q .. Window * q + Window - 1 PROVE x \div Window = q
  <2>1. x = Window * q + (x - Window * q) /\ x - Window * q \in 0 .. Window - 1
    BY <1>1, <1>3, <1>4
  <2> QED
    BY <1>1, <2>1, PointOfCell
<1>5. ASSUME x \div Window = q PROVE x \in Window * q .. Window * q + Window - 1
  BY <1>1, <1>2, <1>3, <1>5
<1> QED
  BY <1>4, <1>5 DEF x

\* A row's strike is the first that its window publishes, or a mean from before it.
LEMMA StrikeOfRow ==
  ASSUME frame \in Frames, NEW r \in Row, FrameStrike(r) # None
  PROVE  /\ FrameStrike(r) \in Row
         /\ (FrameStrike(r) \in Published(r) /\ \A u \in Published(r) : FrameStrike(r) <= u)
               \/ FrameStrike(r) < r
<1>1. Row \subseteq Nat /\ Window \in Nat \ {0} /\ frame.first \in Nat /\ \A u \in Row : Ts(u) \in Nat
  BY OriginsAssumption, Steps DEF Row, Frames
<1>2. CASE Published(r) # {}
  <2>1. Published(r) \subseteq Row
    BY DEF Published, SameWindow
  <2>2. FrameStrike(r) \in Published(r) /\ \A u \in Published(r) : FrameStrike(r) <= u
    BY <1>1, <1>2, <2>1, MinIsLeast DEF FrameStrike
  <2> QED
    BY <2>1, <2>2
<1>3. CASE Published(r) = {}
  <2>1. Before(r) # {} /\ FrameStrike(r) = Min(Before(r))
    BY <1>3 DEF FrameStrike
  <2>2. Before(r) \subseteq Row
    BY DEF Before
  <2>3. FrameStrike(r) \in Before(r)
    BY <1>1, <2>1, <2>2, MinIsLeast
  <2>4. PICK s \in SameWindow(r) : K(s) = 0 /\ FrameStrike(r) = s - 1
    BY <2>3 DEF Before
  <2>5. s \in Row /\ Ts(s) \div Window = Ts(r) \div Window
    BY <2>4 DEF SameWindow
  <2>6. Ts(s) = Window * (Ts(s) \div Window) + K(s)
    <3>1. Ts(s) \in Int
      BY <1>1, <2>5
    <3> QED
      BY <1>1, <3>1, Division DEF K
  <2>7. Ts(r) \in Window * (Ts(s) \div Window) .. Window * (Ts(s) \div Window) + Window - 1
    <3>1. Ts(s) \div Window \in Int
      BY <1>1, <2>5, Division
    <3> QED
      BY <2>5, <3>1, RowsOfWindow
  <2>8. Ts(s) <= Ts(r)
    <3> DEFINE d == Window * (Ts(s) \div Window)
    <3>1. Ts(s) = d + 0 /\ Ts(r) \in d .. d + Window - 1
      BY <2>4, <2>6, <2>7
    <3>2. d \in Int
      BY <1>1, <2>5, Division
    <3> HIDE DEF d
    <3> QED
      BY <1>1, <3>1, <3>2
  <2>9. s <= r /\ s \in Nat /\ r \in Nat
    BY <1>1, <2>5, <2>8 DEF Ts
  <2> QED
    BY <2>2, <2>3, <2>4, <2>9
<1> QED
  BY <1>2, <1>3

\* The strike of a row up to the origin is read from such a row, or is that of the origin's
\* own contract, which only its first published strike can be.
LEMMA StrikeIsPastOrOwn ==
  ASSUME frame \in Frames, NEW i \in Row, NEW r \in Row, r <= i, FrameStrike(r) # None
  PROVE  FrameStrike(r) \in (0 .. i) \cup StrikePublished(i)
<1> DEFINE s == FrameStrike(r)
           q == Ts(r) \div Window
<1>1. /\ s \in Row
      /\ (s \in Published(r) /\ \A u \in Published(r) : s <= u) \/ s < r
  BY StrikeOfRow
<1>2. Row \subseteq Nat /\ Window \in Nat \ {0} /\ frame.first \in Nat /\ \A u \in Row : Ts(u) \in Nat
  BY OriginsAssumption, Steps DEF Row, Frames
<1>3. q \in Int /\ Published(r) = {u \in Row \ frame.noStrike : Ts(u) \div Window = q}
  <2>1. Ts(r) \in Int
    BY <1>2
  <2> QED
    BY <1>2, <2>1, Division DEF Published, SameWindow
<1> HIDE DEF s, q
<1>4. i \in Nat /\ r \in Nat /\ s \in Nat
  <2>1. s \in Row
    BY <1>1
  <2> QED
    BY <1>2, <2>1
<1>5. CASE s <= i
  <2>1. s \in 0 .. i
    BY <1>4, <1>5
  <2> QED
    BY <2>1 DEF s
<1>6. CASE i < s
  <2>1. s \in Published(r) /\ \A u \in Published(r) : s <= u
    <3>1. ~ (s < r)
      BY <1>4, <1>6
    <3> QED
      BY <1>1, <3>1
  <2>2. Ts(r) \in Window * q .. Window * q + Window - 1 /\ Ts(s) \in Window * q .. Window * q + Window - 1
    BY <1>1, <1>3, <2>1, RowsOfWindow DEF q
  <2>3. PICK a \in Nat : T0(i) = Window * a
    BY WindowOnGrid
  <2> DEFINE x == Ts(i) + 1
             low == Window * q
             own == Window * a
  <2>4. x \in Int /\ low \in Int /\ own \in Int
    BY <1>2, <1>3
  <2>5. x \in low .. low + Window - 1
    <3>1. Ts(r) <= x /\ x <= Ts(s)
      <4>1. Ts(r) = frame.first + r /\ Ts(i) = frame.first + i /\ Ts(s) = frame.first + s
        BY DEF Ts
      <4> QED
        BY <1>2, <1>4, <1>6, <4>1
    <3>2. Ts(r) \in low .. low + Window - 1 /\ Ts(s) \in low .. low + Window - 1
      BY <2>2
    <3> HIDE DEF x, low
    <3> QED
      BY <1>1, <1>2, <2>4, <3>1, <3>2
  <2>6. x \in own .. own + Window - 1
    <3>1. own = T0(i) /\ NSteps(i) \in 1 .. Window /\ T0(i) <= Ts(i) + 1 /\ Ts(i) + NSteps(i) = T0(i) + Window - 1
      BY <2>3, Steps, WindowOnGrid
    <3> HIDE DEF own
    <3> QED
      BY <1>2, <2>4, <3>1
  <2>7. x \div Window = q /\ x \div Window = a
    <3>1. x - low \in 0 .. Window - 1 /\ x - own \in 0 .. Window - 1
      <4> HIDE DEF x, low, own
      <4> QED
        BY <1>2, <2>4, <2>5, <2>6
    <3>2. x = Window * q + (x - low) /\ x = Window * a + (x - own)
      BY <2>4
    <3> HIDE DEF x, low, own
    <3> QED
      BY <1>2, <1>3, <3>1, <3>2, PointOfCell
  <2>8. T0(i) = Window * q
    BY <2>3, <2>7
  <2>9. Published(r) = {u \in Row \ frame.noStrike : Ts(u) \in T0(i) .. T0(i) + Window - 1}
    BY <1>3, <2>8, RowsOfWindow
  <2>10. s \in StrikePublished(i)
    BY <2>1, <2>9 DEF StrikePublished
  <2> QED
    BY <2>10 DEF s
<1> QED
  BY <1>4, <1>5, <1>6

\* Its context is cut before it is filled: nothing is read from outside, from a row that
\* lacks the value, or from after it, but for the strike of the contract that is forecast;
\* and its first row is a candle, so none is masked.
LEMMA ContextIsPast ==
  ASSUME frame \in Frames, NEW i \in Row, Usable(i)
  PROVE  /\ \A missing \in {frame.noTarget, frame.noMean, frame.unfit} :
              LET read == UNION {InterpolateRows(i, missing)[r] : r \in CtxRows(i)}
              IN  read \subseteq (0 .. i) \ missing
         /\ FairPathReads(i) \cup UNION {StrikeColumnReads(i, missing) : missing \in {frame.noMean, frame.unfit}}
               \subseteq (0 .. i) \cup StrikePublished(i)
         /\ Mask(i) = {}
         /\ Reference(i) # None => Ts(Reference(i)) \in T0(i) .. T0(i) + Window - 1
<1>1. /\ i \in Nat /\ CtxLo(i) \in Nat /\ CtxLo(i) <= i /\ CtxLo(i) \in Valid
  BY OriginsAssumption DEF Usable, CtxLo, Row
<1>2. CtxRows(i) \subseteq 0 .. i
  BY <1>1 DEF CtxRows
<1>3. ASSUME NEW missing
      PROVE  UNION {InterpolateRows(i, missing)[r] : r \in CtxRows(i)} \subseteq (0 .. i) \ missing
  <2>1. \A r \in CtxRows(i) : InterpolateRows(i, missing)[r] = Around(CtxRows(i) \ missing, r)
    BY DEF InterpolateRows
  <2>2. \A r \in CtxRows(i) : Around(CtxRows(i) \ missing, r) \subseteq CtxRows(i) \ missing
    BY DEF Around
  <2> QED
    BY <1>2, <2>1, <2>2
<1>4. Mask(i) = {}
  <2>1. CtxLo(i) \in CtxRows(i)
    BY <1>1 DEF CtxRows
  <2>2. \A r \in CtxRows(i) : ~ (r < CtxLo(i))
    BY <1>1 DEF CtxRows
  <2> QED
    BY <1>1, <2>1, <2>2 DEF Mask
<1>5. CtxRows(i) \subseteq Row
  <2>1. i <= Rows - 1 /\ Rows \in Nat
    BY OriginsAssumption DEF Row
  <2> QED
    BY <1>1, <2>1 DEF CtxRows, Row
<1>6. ASSUME NEW missing
      PROVE  StrikeColumnReads(i, missing) \subseteq (0 .. i) \cup StrikePublished(i)
  <2> DEFINE unstruck == {r \in CtxRows(i) : FrameStrike(r) = None}
             lacking == missing \cup unstruck
             used == UNION {InterpolateRows(i, lacking)[r] : r \in CtxRows(i)}
  <2>1. used \subseteq CtxRows(i) \ lacking
    <3>1. \A r \in CtxRows(i) : InterpolateRows(i, lacking)[r] = Around(CtxRows(i) \ lacking, r)
      BY DEF InterpolateRows
    <3>2. \A r \in CtxRows(i) : Around(CtxRows(i) \ lacking, r) \subseteq CtxRows(i) \ lacking
      BY DEF Around
    <3> QED
      BY <3>1, <3>2
  <2>2. StrikeColumnReads(i, missing) = used \cup {FrameStrike(r) : r \in used}
    BY DEF StrikeColumnReads
  <2>3. ASSUME NEW r \in used
        PROVE  r \in 0 .. i /\ FrameStrike(r) \in (0 .. i) \cup StrikePublished(i)
    <3>1. r \in Row /\ r \in 0 .. i /\ FrameStrike(r) # None
      BY <1>2, <1>5, <2>1
    <3>2. r <= i
      BY <3>1
    <3> QED
      BY <3>1, <3>2, StrikeIsPastOrOwn
  <2> HIDE DEF used
  <2> QED
    BY <2>2, <2>3
<1>7. FairPathReads(i) \subseteq (0 .. i) \cup StrikePublished(i)
  <2>1. i \in 0 .. i /\ i <= i
    BY <1>1
  <2>2. StrikeSource(i) \in (0 .. i) \cup StrikePublished(i)
    <3>1. StrikeSource(i) # None
      BY DEF Usable
    <3> QED
      BY <2>1, <3>1, StrikeIsPastOrOwn DEF StrikeSource
  <2> QED
    BY <2>1, <2>2 DEF FairPathReads
<1>8. ASSUME Reference(i) # None PROVE Ts(Reference(i)) \in T0(i) .. T0(i) + Window - 1
  <2>1. Reference(i) = i /\ K(i) # Window - 1
    BY <1>8 DEF Reference
  <2>2. /\ Window \in Nat \ {0} /\ Ts(i) \in Nat /\ T0(i) = Ts(i) + 1 - M(i) /\ M(i) \in 0 .. Window - 1
    BY Steps, OriginsAssumption
  <2>3. K(i) \in 0 .. Window - 1
    BY <2>2 DEF K
  <2>4. M(i) = K(i) + 1
    <3>1. K(i) + 1 \in 0 .. Window - 1
      BY <2>1, <2>2, <2>3
    <3> QED
      BY <2>2, <3>1, FirstCells DEF M
  <2> QED
    BY <2>1, <2>2, <2>3, <2>4
<1>9. UNION {StrikeColumnReads(i, missing) : missing \in {frame.noMean, frame.unfit}}
        \subseteq (0 .. i) \cup StrikePublished(i)
  BY <1>6
<1> QED
  BY <1>3, <1>4, <1>7, <1>8, <1>9

\* Its scored steps are the quoted ones up to the expiry: no row is clipped.
LEMMA ScoredIsQuoted ==
  ASSUME frame \in Frames, NEW i \in Row, Usable(i)
  PROVE  Scored(i) = {h \in 1 .. NSteps(i) : i + h \in Valid}
<1>1. /\ i \in Nat /\ Rows \in Nat /\ Window \in Nat /\ NSteps(i) \in 1 .. Window /\ i + NSteps(i) <= Rows - 1
  BY OriginsAssumption, Steps DEF Usable, Row
<1>2. ASSUME NEW h \in 1 .. NSteps(i)
      PROVE  h \in 1 .. Window /\ i + h < Rows /\ h <= NSteps(i) /\ i + h <= Rows - 1
  BY <1>1
<1>3. \A h \in 1 .. Window : h <= NSteps(i) => h \in 1 .. NSteps(i)
  BY <1>1
<1> QED
  BY <1>2, <1>3 DEF Scored

\* The quoted row that settles the window a time is in: there is one such row at most.
LEMMA OneSettlement ==
  ASSUME frame \in Frames, NEW r \in Row, NEW s \in Row, K(r) = Window - 1, K(s) = Window - 1,
         Ts(r) \div Window = Ts(s) \div Window
  PROVE  r = s
<1>1. /\ Window \in Nat \ {0} /\ Ts(r) \in Int /\ Ts(s) \in Int /\ frame.first \in Nat /\ r \in Nat /\ s \in Nat
  BY Steps, OriginsAssumption DEF Frames, Row
<1>2. /\ Ts(r) = Window * (Ts(r) \div Window) + K(r) /\ Ts(s) = Window * (Ts(s) \div Window) + K(s)
  BY <1>1, Division DEF K
<1>3. Ts(r) = Ts(s)
  BY <1>2
<1> QED
  BY <1>1, <1>3 DEF Ts

\* Its steps are the minutes of its contract, wherever their time is told from.
LEMMA StepsAreMinutes ==
  ASSUME frame \in Frames, NEW i \in Row, Usable(i)
  PROVE  /\ Scored(i) # {}
         /\ \A h \in Scored(i) :
              /\ i + h \in Valid
              /\ StepK(i, h) = K(i + h) /\ FairK(i, h) = K(i + h)
              /\ BarTs(i, h) = Ts(i + h)
              /\ StepK(i, h) = Window - 1 <=> Outcome(i) = {i + h}
         /\ \A h \in NSteps(i) .. Horizon : FairK(i, h) = Window - 1
<1>1. Scored(i) = {h \in 1 .. NSteps(i) : i + h \in Valid}
  BY ScoredIsQuoted
<1>2. Scored(i) # {}
  BY <1>1, UsableTargets
<1>3. /\ Window \in Nat \ {0} /\ M(i) \in 0 .. Window - 1 /\ NSteps(i) \in 1 .. Window /\ NSteps(i) = Window - M(i)
  BY Steps, OriginsAssumption DEF NSteps
<1>4. ASSUME NEW h \in Scored(i)
      PROVE  /\ i + h \in Valid
             /\ StepK(i, h) = K(i + h) /\ FairK(i, h) = K(i + h)
             /\ BarTs(i, h) = Ts(i + h)
             /\ StepK(i, h) = Window - 1 <=> Outcome(i) = {i + h}
  <2>1. h \in 1 .. NSteps(i) /\ i + h \in Valid /\ i + h \in Row /\ ~ (h > NSteps(i))
    BY <1>1, <1>3 DEF Valid
  <2>2. /\ Ts(i + h) = T0(i) + M(i) + h - 1 /\ K(i + h) = M(i) + h - 1
        /\ (K(i) + h) % Window = M(i) + h - 1 /\ Ts(i + h) \div Window = T0(i) \div Window
    BY <2>1, MinuteOfStep
  <2>3. StepK(i, h) = K(i + h) /\ FairK(i, h) = K(i + h)
    BY <2>1, <2>2 DEF StepK, FairK
  <2>4. BarTs(i, h) = Ts(i + h)
    BY <1>3, <2>1, <2>2, Steps DEF BarTs, StepK
  <2>5. StepK(i, h) = Window - 1 => Outcome(i) = {i + h}
    <3> SUFFICES ASSUME K(i + h) = Window - 1 PROVE Outcome(i) = {i + h}
      BY <2>3
    <3>1. i + h \in Outcome(i)
      BY <2>1, <2>2 DEF Outcome, OutcomeRows
    <3>2. ASSUME NEW r \in Outcome(i) PROVE r = i + h
      <4>1. r \in Row /\ K(r) = Window - 1 /\ Ts(r) \div Window = Ts(i + h) \div Window
        BY <2>2 DEF Outcome, OutcomeRows, Valid
      <4> QED
        BY <2>1, <4>1, OneSettlement
    <3> QED
      BY <3>1, <3>2
  <2>6. Outcome(i) = {i + h} => StepK(i, h) = Window - 1
    BY <2>3 DEF Outcome, OutcomeRows
  <2> QED
    BY <2>1, <2>3, <2>4, <2>5, <2>6
<1>5. ASSUME NEW h \in NSteps(i) .. Horizon PROVE FairK(i, h) = Window - 1
  <2>1. NSteps(i) \in 1 .. NSteps(i)
    BY <1>3
  <2>2. (K(i) + NSteps(i)) % Window = M(i) + NSteps(i) - 1
    BY <2>1, MinuteOfStep
  <2>3. M(i) + NSteps(i) - 1 = Window - 1
    BY <1>3
  <2>4. h > NSteps(i) \/ h = NSteps(i)
    BY <1>3, BatchesAssumption
  <2> QED
    BY <2>2, <2>3, <2>4 DEF FairK
<1> QED
  BY <1>2, <1>4, <1>5

\* What the model is given ends with the origin, but for the strike of the contract that it
\* forecasts, which the frame has wherever it is published; what it is scored on is the rest
\* of that contract, each step at its own minute.  For whatever the frame lacks.
THEOREM BatchesAreHonest == Spec => []BatchHonest
<1>1. IInv => BatchHonest
  <2> SUFFICES ASSUME IInv PROVE ContextReadsPast /\ StepsAreTheirRows
    BY DEF BatchHonest
  <2>1. frame \in Frames /\ \A i \in origins : i \in Row /\ Usable(i)
    BY DEF IInv, TypeOK, OriginsUsable
  <2>2. ContextReadsPast
    BY <2>1, ContextIsPast DEF ContextReadsPast
  <2>3. StepsAreTheirRows
    BY <2>1, StepsAreMinutes DEF StepsAreTheirRows
  <2> QED
    BY <2>2, <2>3
<1> QED
  BY <1>1, Invariance, PTL

----------------------------------------------------------------------------
(* What a point of the command says of how its data was made.  The         *)
(* properties that compare it with what was asked for rest on this.        *)

Made ==
  /\ origins # {} => origins = MakeOrigins
  /\ pc \in {"selected", "origins", "bounds", "splits", "ready"} => origins # {}
  /\ pc \in {"bounds", "splits", "ready"} => bounds = Bounds
  /\ pc \in {"splits", "ready"} => splits = [s \in Names |-> {i \in origins : Inside(i, bounds[s])}]

\* What is derived from the frame, the request and the origins changes with them only.
LEMMA DerivedStable ==
  ASSUME frame' = frame, request' = request
  PROVE  /\ MakeOrigins' = MakeOrigins
         /\ origins' = origins => Bounds' = Bounds
         /\ \A i, range : Inside(i, range)' = Inside(i, range)
<1> USE DEF NSteps, M, K, T0, Ts, Row, Valid
<1>1. \A i : Usable(i)' = Usable(i)
  BY DEF Usable, CtxLo, Cum, StrikeSource, FrameStrike, Published, Before, SameWindow
<1>2. \A i : Requested(i)' = Requested(i)
  BY DEF Requested
<1>3. Kept' = Kept
  BY <1>1, <1>2 DEF Kept, Earliest
<1>4. MakeOrigins' = MakeOrigins
  BY <1>1, <1>2, <1>3 DEF MakeOrigins
<1>5. origins' = origins => Bounds' = Bounds
  BY DEF Bounds, FirstTarget, EndTarget, ValStart, TestStart, Boundary, AtFrac
<1>6. \A i, range : Inside(i, range)' = Inside(i, range)
  BY DEF Inside, Idx
<1> QED
  BY <1>4, <1>5, <1>6

\* Every step keeps the origins, bounds and splits what they were computed as.
LEMMA StepMade ==
  ASSUME IInv, Made, [Next]_vars
  PROVE  Made'
<1>1. frame' = frame /\ request' = request
  BY DEF Next, SelectOrigins, SplitBounds, AssignSplits, FitFan, Proceed, vars
<1>2. ASSUME SelectOrigins PROVE Made'
  <2>1. /\ origins' = MakeOrigins /\ pc' \in {"selected", "origins", "failed"}
        /\ pc' # "failed" => ~ (Cardinality(origins') < FewestOrigins)
    BY <1>2 DEF SelectOrigins
  <2>2. FewestOrigins \in {1, 3}
    BY DEF FewestOrigins
  <2>3. pc' # "failed" => origins' # {}
    BY <2>1, <2>2, FS_EmptySet
  <2> QED
    BY <1>1, <2>1, <2>3, DerivedStable DEF Made
<1>3. ASSUME SplitBounds PROVE Made'
  <2>1. origins' = origins /\ bounds' = Bounds /\ pc = "origins" /\ pc' \in {"failed", "bounds"}
    BY <1>3 DEF SplitBounds, Proceed
  <2> QED
    BY <1>1, <2>1, DerivedStable DEF Made
<1>4. ASSUME AssignSplits PROVE Made'
  <2>1. /\ origins' = origins /\ bounds' = bounds /\ pc = "bounds" /\ pc' \in {"failed", "splits"}
        /\ splits' = [s \in Names |-> {i \in origins : Inside(i, bounds[s])}]
    BY <1>4 DEF AssignSplits, Proceed
  <2>2. \A s \in Names : \A i \in origins : Inside(i, bounds[s])' = Inside(i, bounds[s])
    BY <2>1, <1>1 DEF Inside, Idx, NSteps, M, K, Ts
  <2>3. splits' = [s \in Names |-> {i \in origins : Inside(i, bounds[s])}]'
    BY <2>1, <2>2
  <2> QED
    BY <1>1, <2>1, <2>3, DerivedStable DEF Made
<1>5. ASSUME origins' = origins, bounds' = bounds, splits' = splits,
             pc' = pc \/ (pc = "splits" /\ pc' = "ready")
      PROVE  Made'
  <2>1. \A s \in Names : \A i \in origins : Inside(i, bounds[s])' = Inside(i, bounds[s])
    BY <1>5, <1>1 DEF Inside, Idx, NSteps, M, K, Ts
  <2>2. [s \in Names |-> {i \in origins : Inside(i, bounds[s])}]' = [s \in Names |-> {i \in origins : Inside(i, bounds[s])}]
    BY <1>5, <2>1
  <2> QED
    BY <1>1, <1>5, <2>2, DerivedStable DEF Made
<1> QED
  BY <1>2, <1>3, <1>4, <1>5 DEF Next, FitFan, Proceed, vars

\* Origins, bounds and splits are at every point what the frame and the request make them.
THEOREM Provenance == Spec => [](IInv /\ Made)
<1>1. Init => IInv /\ Made
  BY InitIInv DEF Init, Begin, Made
<1>2. IInv /\ [Next]_vars => IInv'
  BY SelectIInv, BoundsIInv, AssignIInv, FitIInv, StutterIInv DEF Next
<1>3. IInv /\ Made /\ [Next]_vars => (IInv /\ Made)'
  BY <1>2, StepMade
<1> QED
  BY <1>1, <1>3, PTL DEF Spec

----------------------------------------------------------------------------
(* The cap                                                                 *)

\* The first n of some windows: no more than n, and, if any is left, n that come before it.
LEMMA EarliestAreFirst ==
  ASSUME NEW W \in SUBSET Nat, IsFiniteSet(W), NEW n \in Nat
  PROVE  /\ Cardinality(Earliest(W, n)) <= n
         /\ \A j \in W \ Earliest(W, n) :
              /\ Cardinality(Earliest(W, n)) = n
              /\ \A t \in Earliest(W, n) : t < j
<1> DEFINE E == Earliest(W, n)
           Prior(x) == {u \in W : u < x}
<1>1. /\ E \in SUBSET W /\ \A t \in W : t \in E <=> Cardinality(Prior(t)) < n
  BY DEF Earliest
<1>2. /\ IsFiniteSet(E) /\ Cardinality(E) \in Nat
      /\ \A x : Prior(x) \in SUBSET W /\ IsFiniteSet(Prior(x)) /\ Cardinality(Prior(x)) \in Nat
  BY <1>1, FS_Subset, FS_CardinalityType
<1>3. ASSUME NEW t \in E, NEW u \in W, u <= t PROVE u \in E
  <2>1. Prior(u) \in SUBSET Prior(t)
    <3>1. t \in Nat /\ u \in Nat /\ \A x \in W : x \in Nat
      BY <1>1
    <3>2. ASSUME NEW x \in W, x < u PROVE x < t
      <4>1. x \in Nat
        BY <3>1
      <4> QED
        BY <1>3, <3>1, <3>2, <4>1
    <3> QED
      BY <3>2
  <2>2. Cardinality(Prior(u)) <= Cardinality(Prior(t))
    BY <1>2, <2>1, FS_Subset
  <2>3. Cardinality(Prior(t)) < n
    BY <1>1
  <2> QED
    BY <1>1, <1>2, <2>2, <2>3
<1>4. ASSUME NEW j \in W \ E, NEW t \in E PROVE t < j
  <2>1. t \in Nat /\ j \in Nat /\ j \in W
    BY <1>1
  <2>2. ~ (j <= t)
    BY <1>3, <2>1
  <2> QED
    BY <2>1, <2>2
<1> HIDE DEF E
<1>5. Cardinality(E) <= n
  <2>1. CASE E = {}
    BY <2>1, FS_EmptySet
  <2>2. CASE E # {}
    <3>1. PICK b \in Nat : \A x \in E : x <= b
      <4>1. E \subseteq Nat
        BY <1>1
      <4> QED
        BY <1>2, <4>1, FiniteIsBounded
    <3>2. PICK g \in E : \A y \in E : g >= y
      <4>1. E \subseteq Nat
        BY <1>1
      <4> QED
        BY <2>2, <3>1, <4>1, GreatestNatural
    <3>3. Prior(g) = E \ {g}
      <4>1. ASSUME NEW u \in Prior(g) PROVE u \in E \ {g}
        <5>1. u \in W /\ u < g /\ u \in Nat /\ g \in Nat
          BY <1>1
        <5> QED
          BY <1>3, <5>1
      <4>2. ASSUME NEW u \in E \ {g} PROVE u \in Prior(g)
        <5>1. u \in W /\ u # g /\ u <= g /\ u \in Nat /\ g \in Nat
          BY <1>1, <3>2
        <5> QED
          BY <5>1
      <4> QED
        BY <4>1, <4>2
    <3>4. Cardinality(E \ {g}) = Cardinality(E) - 1
      BY <1>2, FS_RemoveElement
    <3>5. Cardinality(Prior(g)) < n
      BY <1>1
    <3> QED
      BY <1>2, <3>3, <3>4, <3>5
  <2> QED
    BY <2>1, <2>2
<1>6. ASSUME NEW j \in W \ E PROVE Cardinality(E) >= n
  <2>1. PICK m \in W \ E : \A y \in W \ E : m <= y
    <3>1. W \ E \subseteq Nat /\ W \ E # {}
      BY <1>6
    <3> QED
      BY <3>1, LeastNatural
  <2>2. Prior(m) \in SUBSET E
    <3>1. m \in Nat /\ \A x \in W : x \in Nat
      BY <2>1
    <3>2. ASSUME NEW u \in W, u < m PROVE u \in E
      BY <2>1, <3>1, <3>2
    <3> QED
      BY <3>2
  <2>3. Cardinality(Prior(m)) <= Cardinality(E)
    BY <1>2, <2>2, FS_Subset
  <2>4. ~ (Cardinality(Prior(m)) < n)
    BY <1>1
  <2> QED
    BY <1>2, <2>3, <2>4
<1>7. ASSUME NEW j \in W \ E PROVE Cardinality(E) = n
  BY <1>2, <1>5, <1>6
<1> QED
  BY <1>4, <1>5, <1>7 DEF E

\* max_windows takes the earliest windows that have an origin, all of each, as many as it
\* allows: what it drops comes later.
THEOREM CapIsEarliest == Spec => []CapTakesEarliest
<1>1. IInv /\ Made => CapTakesEarliest
  <2> DEFINE Candidates == {r \in Row : Requested(r) /\ Usable(r)}
             Windows == {T0(i) : i \in Candidates}
             taken == {T0(i) : i \in origins}
             n == request.maxWindows
  <2> SUFFICES ASSUME IInv, Made, n # None, origins # {}
               PROVE  /\ Cardinality(taken) <= n
                      /\ \A j \in Candidates \ origins : Cardinality(taken) = n /\ \A t \in taken : t < T0(j)
    BY DEF CapTakesEarliest
  <2>1. frame \in Frames /\ n \in Nat
    BY DEF IInv, TypeOK, Requests, Dates
  <2>2. origins = {i \in Candidates : T0(i) \in Earliest(Windows, n)}
    BY DEF Made, MakeOrigins, Kept
  <2>3. taken = Earliest(Windows, n)
    <3>1. \A t \in Earliest(Windows, n) : \E i \in Candidates : t = T0(i)
      BY DEF Earliest
    <3> QED
      BY <2>2, <3>1
  <2>4. Windows \in SUBSET Nat
    BY <2>1, WindowOnGrid
  <2>5. IsFiniteSet(Windows)
    <3>1. IsFiniteSet(Row)
      BY OriginsAssumption, FS_Interval DEF Row
    <3>2. IsFiniteSet(Candidates)
      <4>1. Candidates \in SUBSET Row
        OBVIOUS
      <4> QED
        BY <3>1, <4>1, FS_Subset
    <3>3. [i \in Candidates |-> T0(i)] \in Surjection(Candidates, Windows)
      <4> HIDE DEF Candidates
      <4> QED
        BY DEF Surjection
    <3> QED
      BY <3>2, <3>3, FS_Surjection
  <2>6. \A j \in Candidates \ origins : T0(j) \in Windows \ Earliest(Windows, n)
    BY <2>2
  <2> HIDE DEF Windows, taken, n, Candidates
  <2> QED
    BY <2>1, <2>3, <2>4, <2>5, <2>6, EarliestAreFirst
<1> QED
  BY <1>1, Provenance, PTL

----------------------------------------------------------------------------
(* The cuts                                                                *)

\* Contracts open at midnights: a midnight is on the grid of contracts.
LEMMA MidnightOnGrid ==
  ASSUME NEW q \in Int
  PROVE  \E c \in Int : q * DayMinutes = Window * c
<1> DEFINE d == DayMinutes \div Window
<1>1. Window \in Nat \ {0} /\ DayMinutes \in Nat \ {0} /\ DayMinutes % Window = 0
  BY OriginsAssumption
<1>2. DayMinutes = Window * d + 0 /\ d \in Int
  BY <1>1, Division
<1> HIDE DEF d
<1>3. q * DayMinutes = Window * (d * q) /\ d * q \in Int
  BY <1>1, <1>2
<1> QED
  BY <1>3

\* Where a contract lies of a cut: all of it before, or all of it from the cut on.
LEMMA ContractsUncut ==
  ASSUME frame \in Frames, NEW i \in Row, NEW q \in Int
  PROVE  /\ T0(i) < q * DayMinutes => T0(i) + Window <= q * DayMinutes
         /\ T0(i) >= q * DayMinutes <=> Ts(i) + 1 >= q * DayMinutes
<1> DEFINE cut == q * DayMinutes
<1>1. PICK c \in Int : cut = Window * c
  BY MidnightOnGrid
<1>2. PICK a \in Nat : T0(i) = Window * a
  BY WindowOnGrid
<1> HIDE DEF cut
<1>3. /\ Window \in Nat \ {0} /\ Ts(i) \in Nat /\ NSteps(i) \in 1 .. Window /\ T0(i) \in Nat
      /\ T0(i) <= Ts(i) + 1 /\ Ts(i) + NSteps(i) = T0(i) + Window - 1
  BY OriginsAssumption, Steps, WindowOnGrid
<1>4. cut \in Int
  BY <1>1, <1>3
<1>5. T0(i) < cut => T0(i) + Window <= cut
  <2>1. a \in Int
    BY <1>2
  <2> QED
    BY <1>1, <1>2, <1>3, <2>1, CellApart
<1>6. T0(i) >= cut <=> Ts(i) + 1 >= cut
  BY <1>3, <1>4, <1>5
<1> QED
  BY <1>5, <1>6 DEF cut

\* Being inside of a range, told in minutes.
LEMMA InsideMinutes ==
  ASSUME frame \in Frames, NEW i \in Row, NEW range \in Int \X Int
  PROVE  Inside(i, range) <=> Ts(i) + 1 >= range[1] /\ Ts(i) + NSteps(i) < range[2]
<1>1. /\ frame.first \in Nat /\ i \in Nat /\ NSteps(i) \in Nat /\ range[1] \in Int /\ range[2] \in Int
      /\ Ts(i) = frame.first + i
  BY OriginsAssumption, Steps DEF Frames, Row, Ts
<1> QED
  BY <1>1 DEF Inside, Idx

\* Cutting loses only origins with a target in an embargo, and holds out what a backtest
\* from the test date on would evaluate, wherever the dates or fractions put the cuts.
THEOREM CutsAreHonest == Spec => []CutsHonest
<1>1. IInv /\ Made => CutsHonest
  <2> SUFFICES ASSUME IInv, Made, pc \in {"splits", "ready"} PROVE EmbargoIsAllThatIsLost /\ TestIsBacktested
    BY DEF CutsHonest, EmbargoIsAllThatIsLost, TestIsBacktested
  <2> DEFINE V == ValStart
             T == TestStart
             e == request.embargo
  <2>1. /\ frame \in Frames /\ e \in Nat /\ origins # {} /\ origins \subseteq Row /\ TypeOK
        /\ bounds = Bounds /\ bounds \in [Names -> Int \X Int]
        /\ splits = [s \in Names |-> {i \in origins : Inside(i, bounds[s])}]
    BY DEF IInv, TypeOK, Requests, Made
  <2>2. /\ bounds["train"] = <<FirstTarget, V - e>> /\ bounds["val"] = <<V, T - e>> /\ bounds["test"] = <<T, EndTarget>>
    BY <2>1 DEF Bounds, Names
  <2>3. PICK v \in Int : V = v * DayMinutes
    BY <2>1, BoundsTyped
  <2>4. PICK t \in Int : T = t * DayMinutes
    BY <2>1, BoundsTyped
  <2> HIDE DEF V, T, e
  <2>5. ASSUME NEW i \in origins
        PROVE  /\ Ts(i) \in Nat /\ T0(i) \in Nat /\ NSteps(i) \in 1 .. Window /\ Window \in Nat \ {0}
               /\ V \in Int /\ T \in Int
               /\ Ts(i) + NSteps(i) = T0(i) + Window - 1
               /\ T0(i) < V => T0(i) + Window <= V
               /\ T0(i) >= V <=> Ts(i) + 1 >= V
               /\ T0(i) < T => T0(i) + Window <= T
               /\ T0(i) >= T <=> Ts(i) + 1 >= T
               /\ i \in splits["train"] <=> Ts(i) + NSteps(i) < V - e
               /\ i \in splits["val"] <=> Ts(i) + 1 >= V /\ Ts(i) + NSteps(i) < T - e
               /\ i \in splits["test"] <=> Ts(i) + 1 >= T
    <3>1. i \in Row
      BY <2>1
    <3>2. /\ Ts(i) \in Nat /\ T0(i) \in Nat /\ NSteps(i) \in 1 .. Window /\ Window \in Nat \ {0}
          /\ Ts(i) + NSteps(i) = T0(i) + Window - 1
      BY <2>1, <3>1, OriginsAssumption, Steps, WindowOnGrid
    <3>3. V \in Int /\ T \in Int
      BY <2>3, <2>4, OriginsAssumption
    <3>4. /\ T0(i) < V => T0(i) + Window <= V
          /\ T0(i) >= V <=> Ts(i) + 1 >= V
      BY <2>1, <2>3, <3>1, ContractsUncut
    <3>5. /\ T0(i) < T => T0(i) + Window <= T
          /\ T0(i) >= T <=> Ts(i) + 1 >= T
      BY <2>1, <2>4, <3>1, ContractsUncut
    <3>6. \A s \in Names : i \in splits[s] <=> Ts(i) + 1 >= bounds[s][1] /\ Ts(i) + NSteps(i) < bounds[s][2]
      BY <2>1, <3>1, InsideMinutes
    <3>7. FirstTarget <= Ts(i) + 1 /\ Ts(i) + NSteps(i) < EndTarget /\ FirstTarget \in Int
      BY <2>1, TargetSpan
    <3>8. i \in splits["train"] <=> Ts(i) + NSteps(i) < V - e
      BY <2>2, <3>2, <3>6, <3>7 DEF Names
    <3>9. i \in splits["val"] <=> Ts(i) + 1 >= V /\ Ts(i) + NSteps(i) < T - e
      BY <2>2, <3>6 DEF Names
    <3>10. i \in splits["test"] <=> Ts(i) + 1 >= T
      BY <2>2, <3>6, <3>7 DEF Names
    <3> QED
      BY <3>2, <3>3, <3>4, <3>5, <3>8, <3>9, <3>10
  <2>6. ASSUME NEW i \in origins, i \notin UNION {splits[s] : s \in Names}
        PROVE  \E h \in 1 .. NSteps(i), cut \in {bounds["val"][1], bounds["test"][1]} : Ts(i + h) \in cut - e .. cut - 1
    <3> DEFINE last == T0(i) + Window - 1
    <3>1. i \notin splits["train"] /\ i \notin splits["val"] /\ i \notin splits["test"]
      BY <2>6 DEF Names
    <3>2. Ts(i + NSteps(i)) = last
      <4>1. frame.first \in Nat /\ i \in Nat /\ NSteps(i) \in Nat
        BY <2>1, <2>5, OriginsAssumption DEF Frames, Row
      <4>2. Ts(i + NSteps(i)) = Ts(i) + NSteps(i)
        BY <4>1 DEF Ts
      <4> QED
        BY <2>5, <4>2
    <3>3. CASE T0(i) < V
      <4>1. last \in V - e .. V - 1
        BY <2>1, <2>5, <3>1, <3>3
      <4> QED
        BY <2>2, <2>5, <3>2, <4>1
    <3>4. CASE T0(i) >= V
      <4>1. last \in T - e .. T - 1
        BY <2>1, <2>5, <3>1, <3>4
      <4> QED
        BY <2>2, <2>5, <3>2, <4>1
    <3> QED
      BY <2>5, <3>3, <3>4
  <2>7. EmbargoIsAllThatIsLost
    BY <2>6 DEF EmbargoIsAllThatIsLost, e
  <2>8. TestIsBacktested
    <3>1. splits["test"] \subseteq origins
      BY <2>1 DEF Names
    <3> QED
      BY <2>2, <2>5, <3>1 DEF TestIsBacktested
  <2> QED
    BY <2>7, <2>8
<1> QED
  BY <1>1, Provenance, PTL

----------------------------------------------------------------------------
(* The long table and the samples                                          *)

\* Chunks of consecutive positions share none and leave none out.
LEMMA OneCall ==
  ASSUME origins \in SUBSET Row, NEW i \in origins
  PROVE  Cardinality(CallsFor(i)) = 1
<1> DEFINE n == Cardinality(origins)
           p == Position(i)
           start == Chunk * (p \div Chunk)
<1>1. IsFiniteSet(origins) /\ n \in Nat
  <2>1. IsFiniteSet(Row)
    BY OriginsAssumption, FS_Interval DEF Row
  <2> QED
    BY <2>1, FS_Subset, FS_CardinalityType
<1>2. p \in 0 .. n - 1
  <2> DEFINE Earlier == {j \in origins : j < i}
  <2>1. Earlier \in SUBSET (origins \ {i})
    BY OriginsAssumption DEF Row
  <2>2. IsFiniteSet(origins \ {i}) /\ Cardinality(origins \ {i}) = n - 1
    BY <1>1, FS_RemoveElement
  <2>3. Cardinality(Earlier) <= n - 1 /\ Cardinality(Earlier) \in Nat
    BY <2>1, <2>2, FS_Subset, FS_CardinalityType
  <2> QED
    BY <1>1, <2>3 DEF Position
<1>3. Chunk \in Nat \ {0}
  BY BatchesAssumption
<1> HIDE DEF n, p
<1>4. /\ p = start + (p % Chunk) /\ p % Chunk \in 0 .. Chunk - 1 /\ p \div Chunk \in Int
      /\ start \in Int
  BY <1>1, <1>2, <1>3, Division
<1>5. start % Chunk = 0
  <2>1. 0 \in 0 .. Chunk - 1 /\ start = Chunk * (p \div Chunk) + 0
    BY <1>3, <1>4
  <2> HIDE DEF start
  <2> QED
    BY <1>3, <1>4, <2>1, PointOfCell
<1> DEFINE r == p % Chunk
           c == p \div Chunk
<1> HIDE DEF r, start
<1>6. start \in 0 .. n - 1
  <2>1. start >= 0
    <3>1. c >= 0
      <4> SUFFICES ASSUME c <= -1 PROVE FALSE
        BY <1>4
      <4>1. Chunk * c <= Chunk * (-1)
        BY <1>3, <1>4
      <4>2. Chunk * (-1) = -Chunk
        BY <1>3
      <4> QED
        BY <1>1, <1>2, <1>3, <1>4, <4>1, <4>2 DEF start
    <3> QED
      BY <1>3, <1>4, <3>1 DEF start
  <2> QED
    BY <1>1, <1>2, <1>4, <2>1
<1>7. CallsFor(i) = {lo \in 0 .. n - 1 : lo % Chunk = 0 /\ p \in lo .. lo + Chunk - 1}
  BY DEF CallsFor, ChunkStarts, ChunkFrom, n, p
<1>8. start \in CallsFor(i)
  BY <1>1, <1>2, <1>3, <1>4, <1>5, <1>6, <1>7
<1>9. ASSUME NEW lo \in CallsFor(i) PROVE lo = start
  <2>1. lo \in Int /\ lo % Chunk = 0 /\ p \in lo .. lo + Chunk - 1
    BY <1>1, <1>7
  <2>2. lo = Chunk * (lo \div Chunk) + (lo % Chunk) /\ lo \div Chunk \in Int
    BY <1>3, <2>1, Division
  <2> DEFINE a == lo \div Chunk
  <2> HIDE DEF a
  <2>3. lo = Chunk * a /\ a \in Int
    BY <1>3, <2>1, <2>2 DEF a
  <2>4. p - lo \in 0 .. Chunk - 1 /\ p = Chunk * a + (p - lo)
    BY <1>1, <1>2, <1>3, <2>1, <2>3
  <2>5. p \div Chunk = a
    BY <1>3, <2>3, <2>4, PointOfCell
  <2> QED
    BY <2>3, <2>5 DEF start
<1>10. CallsFor(i) = {start}
  BY <1>8, <1>9
<1> QED
  BY <1>10, FS_Singleton

\* The ends of a sample are the ends of the split, and positions a step apart do not meet,
\* however a quotient that is half way is rounded.
LEMMA SamplesSpread ==
  ASSUME NEW n \in Nat, NEW k \in 2 .. n
  PROVE  /\ Sample(n, k, 0) = {0} /\ Sample(n, k, k - 1) = {n - 1}
         /\ \A j \in 1 .. k - 1 : \A a \in Sample(n, k, j - 1), b \in Sample(n, k, j) : a < b
<1>1. k \in Nat /\ k >= 2 /\ k <= n
  OBVIOUS
<1>2. CASE k = n
  <2>1. \A j : Sample(n, k, j) = {j}
    BY <1>1, <1>2 DEF Sample
  <2> QED
    BY <1>1, <1>2, <2>1
<1>3. CASE k < n
  <2> DEFINE d == k - 1
             s == n - 1
  <2>1. \A j : Sample(n, k, j) = Rounded(j * s, d)
    BY <1>1, <1>3 DEF Sample
  <2>2. d \in Nat \ {0} /\ s \in Nat /\ s >= d + 1
    BY <1>1, <1>3
  <2> HIDE DEF d, s
  <2>3. ASSUME NEW num \in Int, NEW r \in Rounded(num, d)
        PROVE  r \in Int /\ 2 * (r * d - num) <= d /\ 2 * (num - r * d) <= d
    <3>1. num \div d \in Int
      BY <2>2, Division
    <3> QED
      BY <3>1 DEF Rounded
  <2>4. ASSUME NEW q \in Int PROVE Rounded(q * d, d) = {q}
    <3>1. (q * d) \div d = q
      <4>1. d * q + 0 = q * d /\ 0 \in 0 .. d - 1
        BY <2>2
      <4>2. ASSUME NEW x \in Int, x = d * q + 0 PROVE x \div d = q
        BY <2>2, <4>1, <4>2, PointOfCell
      <4> QED
        BY <2>2, <4>1, <4>2
    <3>2. (q + 1) * d = q * d + d
      BY <2>2
    <3>3. /\ 2 * (q * d - q * d) <= d /\ ~ (2 * ((q + 1) * d - q * d) <= d)
      BY <2>2, <3>2
    <3> QED
      BY <3>1, <3>3 DEF Rounded
  <2>5. Sample(n, k, 0) = {0}
    <3>1. 0 * s = 0 * d
      BY <2>2
    <3> QED
      BY <2>1, <2>4, <3>1
  <2>6. Sample(n, k, k - 1) = {n - 1}
    <3>1. Sample(n, k, k - 1) = Rounded((k - 1) * s, d) /\ k - 1 = d /\ n - 1 = s
      BY <2>1 DEF d, s
    <3>2. d * s = s * d
      BY <2>2
    <3> QED
      BY <2>2, <2>4, <3>1, <3>2
  <2>7. ASSUME NEW j \in 1 .. k - 1, NEW a \in Sample(n, k, j - 1), NEW b \in Sample(n, k, j)
        PROVE  a < b
    <3> DEFINE x == (j - 1) * s
               y == j * s
               u == a * d
               v == b * d
    <3>1. j \in Int /\ x \in Int /\ y \in Int /\ y = x + s
      BY <1>1, <2>2
    <3>2. a \in Rounded(x, d) /\ b \in Rounded(y, d)
      BY <2>1
    <3>3. /\ a \in Int /\ 2 * (u - x) <= d
          /\ b \in Int /\ 2 * (y - v) <= d
      BY <2>3, <3>1, <3>2
    <3>4. u \in Int /\ v \in Int
      BY <2>2, <3>3
    <3>5. b <= a => v <= u
      BY <2>2, <3>3
    <3> HIDE DEF x, y, u, v
    <3>6. u < v
      BY <2>2, <3>1, <3>3, <3>4
    <3> QED
      BY <3>3, <3>4, <3>5, <3>6
  <2> QED
    BY <2>5, <2>6, <2>7
<1> QED
  BY <1>1, <1>2, <1>3

\* The table has each quoted step to expiry of each origin once, for every size of chunk,
\* and a sample is spread over its split without repeating an origin, for every size.
THEOREM TableIsOnce == Spec => []ScoredOnce
<1>1. IInv => ScoredOnce
  <2> SUFFICES ASSUME IInv PROVE ScoredOnce
    OBVIOUS
  <2>1. frame \in Frames /\ origins \in SUBSET Row /\ \A i \in origins : i \in Row /\ Usable(i)
    BY DEF IInv, TypeOK, OriginsUsable
  <2>2. \A i \in origins : /\ Cardinality(CallsFor(i)) = 1
                           /\ Scored(i) = {h \in 1 .. NSteps(i) : i + h \in Valid}
    BY <2>1, OneCall, ScoredIsQuoted
  <2>3. Cardinality(splits["val"]) \in Nat /\ Cardinality(splits["test"]) \in Nat
    <3>1. IsFiniteSet(Row)
      BY OriginsAssumption, FS_Interval DEF Row
    <3>2. splits["val"] \in SUBSET Row /\ splits["test"] \in SUBSET Row
      BY <2>1 DEF IInv, TypeOK, Names
    <3> QED
      BY <3>1, <3>2, FS_Subset, FS_CardinalityType
  <2> QED
    BY <2>2, <2>3, SamplesSpread DEF ScoredOnce
<1> QED
  BY <1>1, Invariance, PTL

----------------------------------------------------------------------------
(* The backtest's fan                                                      *)

\* The prices that a row before a window sees come before the window, unless the row is
\* the one that closes when the window opens.
LEMMA SeesItsOwnContract ==
  ASSUME frame \in Frames, NEW i \in Row, NEW h \in 1 .. NSteps(i), NEW start \in Nat,
         NEW a \in Int, start = Window * a, Ts(i) < start, Ts(i) # start - 1
  PROVE  Ts(i + h) < start
<1>1. /\ Window \in Nat \ {0} /\ Ts(i) \in Nat /\ NSteps(i) \in 1 .. Window /\ T0(i) \in Nat /\ T0(i) <= Ts(i) + 1
      /\ Ts(i) + NSteps(i) = T0(i) + Window - 1 /\ frame.first \in Nat /\ i \in Nat
  BY OriginsAssumption, Steps, WindowOnGrid DEF Frames, Row
<1>2. PICK q \in Nat : T0(i) = Window * q
  BY WindowOnGrid
<1>3. T0(i) < start
  BY <1>1
<1>4. T0(i) + Window <= start
  <2>1. q \in Int /\ Window * q < Window * a
    BY <1>2, <1>3
  <2> QED
    BY <1>1, <1>2, <2>1, CellApart
<1>5. Ts(i + h) = Ts(i) + h
  BY <1>1 DEF Ts
<1> QED
  BY <1>1, <1>4, <1>5

\* The fan of a fine-tuning run has prices from before the origins it holds out only.
LEMMA TrainFanBeforeHeldOut ==
  ASSUME IInv, Made, pc = "ready", NEW i \in splits["val"] \cup splits["test"], NEW p \in fan
  PROVE  Ts(p[1] + p[2]) < T0(i)
<1> DEFINE V == ValStart
           T == TestStart
           e == request.embargo
           t == Ts(p[1] + p[2])
<1>1. /\ frame \in Frames /\ e \in Nat /\ origins # {} /\ origins \subseteq Row /\ TypeOK
      /\ bounds = Bounds /\ bounds \in [Names -> Int \X Int] /\ splits # NoSplits
      /\ splits = [s \in Names |-> {j \in origins : Inside(j, bounds[s])}]
  BY DEF IInv, TypeOK, Requests, Made, Names, NoSplits
<1>2. /\ bounds["train"] = <<FirstTarget, V - e>> /\ bounds["val"] = <<V, T - e>> /\ bounds["test"] = <<T, EndTarget>>
  BY <1>1 DEF Bounds, Names
<1>3. PICK v \in Int : V = v * DayMinutes
  BY <1>1, BoundsTyped
<1>4. V \in Int /\ T \in Int
  BY <1>1, BoundsTyped, OriginsAssumption
<1>5. V < T - e
  BY <1>1, <1>2 DEF IInv, Cut
<1>6. t \in FirstTarget .. V - e - 1
  BY <1>2 DEF IInv, FanSeesTrainOnly
<1>7. i \in Row /\ Ts(i) \in Nat /\ T0(i) \in Nat
  BY <1>1, Steps, WindowOnGrid DEF Names
<1>8. Ts(i) + 1 >= V
  <2>1. CASE i \in splits["val"]
    <3>1. Inside(i, bounds["val"]) /\ bounds["val"] \in Int \X Int
      BY <1>1, <2>1 DEF Names
    <3> QED
      BY <1>1, <1>2, <1>7, <3>1, InsideMinutes
  <2>2. CASE i \in splits["test"]
    <3>1. Inside(i, bounds["test"]) /\ bounds["test"] \in Int \X Int
      BY <1>1, <2>2 DEF Names
    <3>2. Ts(i) + 1 >= T
      BY <1>1, <1>2, <1>7, <3>1, InsideMinutes
    <3> HIDE DEF V, T, e
    <3> QED
      BY <1>1, <1>4, <1>5, <1>7, <3>2
  <2> QED
    BY <2>1, <2>2
<1>9. T0(i) >= V
  BY <1>1, <1>3, <1>7, <1>8, ContractsUncut
<1>10. FirstTarget \in Int
  BY <1>1, <1>2 DEF Names
<1> HIDE DEF V, T, e, t
<1>11. t < T0(i)
  BY <1>1, <1>4, <1>6, <1>7, <1>9, <1>10
<1> QED
  BY <1>11 DEF t

\* A fan that a backtest fits and does not call in-sample has no price from the evaluated
\* days, but for those that the row before the first window sees; the fan that fine-tuning
\* leaves for a backtest has none from the days that it holds out.
THEOREM FanIsOutOfSample == Spec => []FanBeforeEvaluation
<1>1. IInv /\ Made => FanBeforeEvaluation
  <2> SUFFICES ASSUME IInv, Made, pc = "selected", FanMode \notin {"in_sample_head", "file"}, NEW p \in BacktestFan
               PROVE  Ts(p[1] + p[2]) < EvalStart \/ Ts(p[1]) = EvalStart - 1
    BY TrainFanBeforeHeldOut DEF FanBeforeEvaluation
  <2> DEFINE Opened == {T0(i) : i \in origins}
  <2>1. frame \in Frames /\ origins \in SUBSET Row /\ origins # {}
    BY DEF IInv, TypeOK, Made
  <2>2. Opened \subseteq Nat /\ Opened # {}
    BY <2>1, WindowOnGrid
  <2>3. EvalStart = Min(Opened)
    BY DEF EvalStart
  <2>4. EvalStart \in Opened
    <3> HIDE DEF Opened
    <3> QED
      BY <2>2, <2>3, MinIsLeast
  <2>5. PICK i \in origins : EvalStart = T0(i)
    BY <2>4
  <2>6. PICK q \in Nat : EvalStart = Window * q
    BY <2>1, <2>5, WindowOnGrid
  <2>7. p \in PrePeriod
    <3>1. FanMode \in {"pre_period", "point"}
      BY DEF FanMode
    <3> QED
      BY <3>1 DEF BacktestFan
  <2>8. /\ p[1] \in Row /\ p[2] \in 1 .. NSteps(p[1]) /\ Ts(p[1]) < EvalStart
    <3>1. /\ p \in Row \X (1 .. Window) /\ Ts(p[1]) \in (EvalStart - Lookback) .. (EvalStart - 1)
          /\ p[2] <= NSteps(p[1])
      BY <2>7 DEF PrePeriod, FanBetween, Observed
    <3>2. EvalStart \in Nat /\ Window \in Nat /\ Lookback \in Nat
      BY <2>2, <2>4, OriginsAssumption, BatchesAssumption
    <3>3. Ts(p[1]) \in Nat /\ NSteps(p[1]) \in 1 .. Window
      BY <2>1, <3>1, Steps
    <3> QED
      BY <3>1, <3>2, <3>3
  <2>9. EvalStart \in Nat /\ q \in Int
    BY <2>2, <2>4
  <2> QED
    BY <2>1, <2>6, <2>8, <2>9, SeesItsOwnContract
<1> QED
  BY <1>1, Provenance, PTL

=============================================================================

--------------------------- MODULE FineTuneProofs ---------------------------
(***************************************************************************)
(* Theorems about FineTune, for every train split, every configuration,    *)
(* every set of scores and any number of runs in one directory.            *)
(***************************************************************************)
EXTENDS FineTune, FiniteSetTheorems, SequenceTheorems, Extrema

----------------------------------------------------------------------------
(* The inductive invariant                                                 *)

Evaluations == [step : Nat, weights : SUBSET Nat, score : Scores \cup {NaN}]
Checkpoints == [run : Nat, weights : SUBSET Nat]
Summaries ==
  [run : Nat, bestStep : Nat, stepsRun : Nat, tuned : Scores \cup {NaN, None}, promoted : BOOLEAN]

\* Beside TypeOK, what the sequences and the files are made of.
Shape ==
  /\ batch \in Seq(Train) /\ grad \in Seq(Train) /\ history \in Seq(Evaluations)
  /\ dir \in [setup : {None} \cup Nat, best : {None, Torn} \cup Checkpoints,
              last : {None} \cup Checkpoints, summary : {None} \cup Summaries]

\* The origins that are ahead, when a permutation p has been served up to n: those
\* served so far, unless that is all of them.
ServedUpto(p, n) == [o \in Train |-> IF n < Len(p) /\ (\E i \in 1 .. n : p[i] = o) THEN 1 ELSE 0]

Stream == ahead = ServedUpto(perm, pos)

\* A step starts with no gradient, and what it adds up follows the batch once that is full.
Gradients ==
  /\ pc \notin {"take", "idle"} => grad = <<>>
  /\ pc = "take" =>
       /\ Len(grad) <= Len(batch) /\ \A i \in 1 .. Len(grad) : grad[i] = batch[i]
       /\ Len(grad) # 0 => Len(batch) = cfg.batchSize

\* The evaluation that stale counts from.
Chosen == Len(history) - stale

\* The n-th evaluation is the one that Selected describes.
IsSelected(n) ==
  /\ n \in DOMAIN history
  /\ IF history[1].score = NaN THEN n = 1
     ELSE /\ history[n].score # NaN
          /\ \A k \in DOMAIN history : ~ Less(history[k].score, history[n].score)
          /\ \A k \in 1 .. n - 1 : history[k].score # history[n].score

\* best is the evaluation to select; only the zero-shot one is of step 0; equal weights
\* score the same.
Selection ==
  /\ pc = "zero-shot" => history = <<>> /\ stale = 0 /\ step = 0
  /\ pc \notin {"idle", "zero-shot"} => history # <<>>
  /\ history # <<>> =>
       /\ IsSelected(Chosen)
       /\ best = [step |-> history[Chosen].step, score |-> history[Chosen].score]
       /\ \A n \in DOMAIN history : history[n].step = 0 <=> n = 1
       /\ \A m, n \in DOMAIN history :
            history[m].weights = history[n].weights => history[m].score = history[n].score

DueUpto(n) == {s \in 1 .. n : s % cfg.evalEvery = 0 \/ s = cfg.maxSteps}

Evaluated == {history[n].step : n \in DOMAIN history}

\* The loop goes on while patience lasts, and has evaluated at every step that was due.
Loop ==
  /\ pc \in {"zero-shot", "step", "take", "evaluate", "save", "saving"} =>
       cfg.patience = 0 \/ stale < cfg.patience
  /\ pc = "last" /\ step < cfg.maxSteps => cfg.patience > 0 /\ stale >= cfg.patience
  /\ pc \in {"take", "evaluate"} => step > 0 /\ Evaluated = DueUpto(step - 1) \cup {0}
  /\ pc = "evaluate" => step % cfg.evalEvery = 0 \/ step = cfg.maxSteps
  /\ pc \in {"step", "save", "saving", "last"} => Evaluated = DueUpto(step) \cup {0}

\* best/ holds the selected weights as soon as they have been saved, last/ the final ones,
\* and a summary of this run is there only once it is over.
Directory ==
  /\ IF runs = 0 THEN pc = "idle" /\ dir.summary = None ELSE dir.setup = runs
  /\ dir.summary # None => dir.summary.run <= runs /\ (pc # "idle" => dir.summary.run # runs)
  /\ pc \in {"save", "saving"} => stale = 0 /\ Chosen # 1 /\ history[Chosen].weights = weights
  /\ pc \in {"step", "take", "evaluate", "last", "reload", "summary"} /\ Chosen # 1 =>
       dir.best = [run |-> runs, weights |-> history[Chosen].weights]
  /\ pc \in {"reload", "summary"} => dir.last = [run |-> runs, weights |-> weights]
  /\ pc = "reload" => Chosen # 1
  /\ pc = "summary" => tuned = IF Chosen # 1 THEN history[Chosen].score ELSE None
  /\ pc \notin {"idle", "summary"} => tuned = None
  /\ dir.summary # None /\ dir.summary.run = dir.setup => history # <<>>
  /\ PromotedIsBest

IInv == TypeOK /\ Shape /\ Stream /\ Gradients /\ Selection /\ Loop /\ Directory

----------------------------------------------------------------------------
(* Serving permutations of the train split                                 *)

\* Sizes and periods are positive; a patience of 0 is none.
LEMMA ConfigTypes ==
  ASSUME NEW c \in Configs
  PROVE  /\ c.batchSize \in Nat \ {0} /\ c.microBatch \in Nat \ {0} /\ c.maxSteps \in Nat \ {0}
         /\ c.evalEvery \in Nat \ {0} /\ c.patience \in Nat
BY ConfigAssumption

\* A permutation has every origin, once.
LEMMA PermutationCovers ==
  ASSUME NEW p \in SetToSeqs(Train)
  PROVE  /\ p \in Seq(Train) /\ Len(p) \in Nat \ {0} /\ DOMAIN p = 1 .. Len(p)
         /\ \A i, j \in 1 .. Len(p) : p[i] = p[j] => i = j
         /\ \A o \in Train : \E i \in 1 .. Len(p) : p[i] = o
<1> DEFINE n == Cardinality(Train)
<1>1. n \in Nat /\ IsFiniteSet(Train) /\ n # 0
  BY TrainAssumption, FS_CardinalityType, FS_EmptySet
<1>2. p \in [1 .. n -> Train] /\ \A i, j \in 1 .. n : i # j => p[i] # p[j]
  BY DEF SetToSeqs
<1> HIDE DEF n
<1>3. p \in Seq(Train) /\ Len(p) = n /\ DOMAIN p = 1 .. n
  <2>1. p \in Seq(Train)
    BY <1>1, <1>2
  <2>2. Len(p) \in Nat /\ DOMAIN p = 1 .. Len(p)
    BY <2>1, LenProperties
  <2>3. DOMAIN p = 1 .. n
    BY <1>2
  <2> DEFINE l == Len(p)
  <2>4. l \in Nat /\ 1 .. l = 1 .. n
    BY <2>2, <2>3
  <2> HIDE DEF l
  <2>5. n \in 1 .. l /\ l \in 1 .. n
    BY <1>1, <2>4
  <2>6. Len(p) = n
    BY <1>1, <2>4, <2>5 DEF l
  <2> QED
    BY <2>1, <2>3, <2>6
<1>4. p \in Injection(1 .. n, Train)
  BY <1>2 DEF Injection, IsInjective
<1>5. Cardinality(1 .. n) = Cardinality(Train)
  <2>1. Cardinality(1 .. n) = n
    BY <1>1, FS_Interval
  <2> QED
    BY <2>1 DEF n
<1>6. p \in Surjection(1 .. n, Train)
  BY <1>1, <1>4, <1>5, FS_Injection
<1>7. \A o \in Train : \E i \in 1 .. n : p[i] = o
  BY <1>6 DEF Surjection
<1> QED
  BY <1>1, <1>2, <1>3, <1>7

\* Serving goes on where it was, and whoever was served last is never more than one ahead.
LEMMA ServeStep ==
  ASSUME TypeOK, Shape, NEW p \in SetToSeqs(Train), NEW from \in 0 .. Len(p) - 1,
         ahead = ServedUpto(p, from), Len(batch) < cfg.batchSize, Serve(p, from)
  PROVE  /\ perm' = p /\ pos' \in 0 .. Len(p) /\ ahead' = ServedUpto(p, pos')
         /\ batch' \in Seq(Train) /\ Len(batch') <= cfg.batchSize
<1> DEFINE upto == Lesser(Len(p), from + cfg.batchSize - Len(batch))
           got == SubSeq(p, from + 1, upto)
           taken == [o \in Train |-> ahead[o] + (IF o \in ToSet(got) THEN 1 ELSE 0)]
           least == Min({taken[t] : t \in Train})
<1>1. /\ p \in Seq(Train) /\ Len(p) \in Nat \ {0} /\ DOMAIN p = 1 .. Len(p)
      /\ \A i, j \in 1 .. Len(p) : p[i] = p[j] => i = j
      /\ \A o \in Train : \E i \in 1 .. Len(p) : p[i] = o
  BY PermutationCovers
<1>2. batch \in Seq(Train) /\ Len(batch) \in Nat /\ cfg.batchSize \in Nat
  BY ConfigTypes, LenProperties DEF Shape, TypeOK
<1>3. upto \in from + 1 .. Len(p) /\ upto <= from + cfg.batchSize - Len(batch) /\ upto \in Nat
  BY <1>1, <1>2 DEF Lesser
<1>4. /\ perm' = p /\ pos' = upto /\ batch' = batch \o got
      /\ ahead' = [o \in Train |-> taken[o] - least]
  BY DEF Serve
<1> HIDE DEF upto
<1>5. /\ got \in Seq(Train) /\ Len(got) = upto - from
      /\ \A i \in 1 .. upto - from : got[i] = p[from + i]
  <2>1. \A i \in from + 1 .. upto : p[i] \in Train
    BY <1>1, <1>3, ElementOfSeq
  <2>2. from + 1 \in Int /\ upto \in Int /\ from + 1 <= upto
    BY <1>3
  <2>3. /\ got \in Seq(Train) /\ Len(got) = upto - (from + 1) + 1
        /\ \A i \in 1 .. upto - (from + 1) + 1 : got[i] = p[from + 1 + i - 1]
    BY <2>1, <2>2, SubSeqProperties
  <2>4. upto - (from + 1) + 1 = upto - from
    BY <1>3
  <2>5. ASSUME NEW i \in 1 .. upto - from PROVE got[i] = p[from + i]
    <3>1. got[i] = p[from + 1 + i - 1] /\ from + 1 + i - 1 = from + i
      BY <2>3, <2>4
    <3> QED
      BY <3>1
  <2> QED
    BY <2>3, <2>4, <2>5
<1>6. \A o \in Train : o \in ToSet(got) <=> \E i \in from + 1 .. upto : p[i] = o
  <2>1. DOMAIN got = 1 .. upto - from
    BY <1>5, LenProperties
  <2> HIDE DEF got
  <2>2. \A o : o \in ToSet(got) <=> \E i \in 1 .. upto - from : p[from + i] = o
    BY <1>5, <2>1 DEF ToSet
  <2>3. \A i \in 1 .. upto - from : from + i \in from + 1 .. upto
    BY <1>3
  <2>4. \A i \in from + 1 .. upto : i - from \in 1 .. upto - from /\ from + (i - from) = i
    BY <1>3
  <2> QED
    BY <2>2, <2>3, <2>4
<1>7. batch' \in Seq(Train) /\ Len(batch') <= cfg.batchSize
  <2>1. batch' \in Seq(Train) /\ Len(batch') = Len(batch) + Len(got)
    BY <1>2, <1>4, <1>5, ConcatProperties
  <2>2. Len(batch) + (upto - from) <= cfg.batchSize
    BY <1>2, <1>3
  <2> QED
    BY <1>5, <2>1, <2>2
<1> HIDE DEF got
<1>8. \A o \in Train : taken[o] = IF \E i \in 1 .. upto : p[i] = o THEN 1 ELSE 0
  <2> SUFFICES ASSUME NEW o \in Train
               PROVE  taken[o] = IF \E i \in 1 .. upto : p[i] = o THEN 1 ELSE 0
    OBVIOUS
  <2>1. PICK k \in 1 .. Len(p) : p[k] = o
    BY <1>1
  <2>2. \A i \in 1 .. Len(p) : p[i] = o <=> i = k
    BY <1>1, <2>1
  <2>3. ahead[o] = IF k <= from THEN 1 ELSE 0
    <3>1. ahead[o] = IF \E i \in 1 .. from : p[i] = o THEN 1 ELSE 0
      BY <1>1 DEF ServedUpto
    <3>2. (\E i \in 1 .. from : p[i] = o) <=> k <= from
      BY <1>1, <2>1, <2>2
    <3> QED
      BY <3>1, <3>2
  <2>4. o \in ToSet(got) <=> from < k /\ k <= upto
    BY <1>1, <1>3, <1>6, <2>1, <2>2
  <2>5. (\E i \in 1 .. upto : p[i] = o) <=> k <= upto
    BY <1>1, <1>3, <2>1, <2>2
  <2>6. taken[o] = ahead[o] + (IF o \in ToSet(got) THEN 1 ELSE 0)
    OBVIOUS
  <2> HIDE DEF taken
  <2>7. CASE k <= from
    BY <1>1, <1>3, <2>3, <2>4, <2>5, <2>6, <2>7
  <2>8. CASE from < k /\ k <= upto
    BY <1>1, <1>3, <2>3, <2>4, <2>5, <2>6, <2>8
  <2>9. CASE upto < k
    BY <1>1, <1>3, <2>3, <2>4, <2>5, <2>6, <2>9
  <2> QED
    BY <1>1, <1>3, <2>7, <2>8, <2>9
<1> HIDE DEF taken
<1>9. least = IF upto < Len(p) THEN 0 ELSE 1
  <2> DEFINE T == {taken[t] : t \in Train}
  <2>1. T \subseteq {0, 1} /\ T # {}
    BY <1>8, TrainAssumption
  <2>2. least \in T /\ \A t \in T : least <= t
    <3>1. T \subseteq Nat
      BY <2>1
    <3> QED
      BY <2>1, <3>1, MinIsLeast
  <2> HIDE DEF T, least
  <2>3. CASE upto < Len(p)
    <3>1. p[Len(p)] \in Train
      BY <1>1, ElementOfSeq
    <3>2. ~ \E i \in 1 .. upto : p[i] = p[Len(p)]
      BY <1>1, <1>3, <2>3
    <3>3. 0 \in T
      BY <1>8, <3>1, <3>2 DEF T
    <3> QED
      BY <2>1, <2>2, <2>3, <3>3
  <2>4. CASE upto = Len(p)
    <3>1. \A o \in Train : taken[o] = 1
      BY <1>1, <1>8, <2>4
    <3>2. least = 1
      BY <2>2, <3>1 DEF T
    <3> QED
      BY <1>1, <2>4, <3>2
  <2>5. upto < Len(p) \/ upto = Len(p)
    <3> DEFINE l == Len(p)
    <3>1. l \in Nat /\ upto \in Nat /\ upto <= l
      BY <1>1, <1>3
    <3> HIDE DEF l
    <3>2. upto < l \/ upto = l
      BY <3>1
    <3> QED
      BY <3>2 DEF l
  <2> QED
    BY <2>3, <2>4, <2>5
<1> HIDE DEF least
<1>10. ahead' = ServedUpto(p, upto)
  <2>1. upto < Len(p) \/ upto = Len(p)
    <3> DEFINE l == Len(p)
    <3>1. l \in Nat /\ upto \in Nat /\ upto <= l
      BY <1>1, <1>3
    <3> HIDE DEF l
    <3>2. upto < l \/ upto = l
      BY <3>1
    <3> QED
      BY <3>2 DEF l
  <2>2. ASSUME NEW o \in Train
        PROVE  taken[o] - least = IF upto < Len(p) /\ (\E i \in 1 .. upto : p[i] = o) THEN 1 ELSE 0
    <3>1. CASE upto < Len(p)
      BY <1>8, <1>9, <3>1
    <3>2. CASE upto = Len(p)
      <4>1. taken[o] = 1
        BY <1>1, <1>8, <3>2
      <4> QED
        BY <1>1, <1>9, <3>2, <4>1
    <3> QED
      BY <2>1, <3>1, <3>2
  <2> QED
    BY <1>4, <2>2 DEF ServedUpto
<1> QED
  BY <1>3, <1>4, <1>7, <1>10

----------------------------------------------------------------------------
(* What the steps have in common                                           *)

\* The batch, the gradient and the history are sequences with natural lengths.
LEMMA Sizes ==
  ASSUME TypeOK, Shape
  PROVE  /\ Len(batch) \in Nat /\ Len(grad) \in Nat /\ Len(history) \in Nat
         /\ DOMAIN batch = 1 .. Len(batch) /\ DOMAIN grad = 1 .. Len(grad)
         /\ DOMAIN history = 1 .. Len(history)
         /\ Chosen \in Nat /\ stale \in Nat
<1>1. batch \in Seq(Train) /\ grad \in Seq(Train) /\ history \in Seq(Evaluations)
  BY DEF Shape
<1>2. /\ Len(batch) \in Nat /\ Len(grad) \in Nat /\ Len(history) \in Nat
      /\ DOMAIN batch = 1 .. Len(batch) /\ DOMAIN grad = 1 .. Len(grad)
      /\ DOMAIN history = 1 .. Len(history)
  BY <1>1, LenProperties
<1> QED
  BY <1>2 DEF TypeOK, Chosen

\* A score is a pinball or NaN, and the one its weights got before.
LEMMA ScoresAgree ==
  ASSUME TypeOK, Shape, NEW w, NEW s \in ScoresOf(w)
  PROVE  /\ s \in Scores \cup {NaN}
         /\ Selection => \A n \in DOMAIN history : history[n].weights = w => history[n].score = s
<1>1. ASSUME NEW n \in DOMAIN history PROVE history[n].score \in Scores \cup {NaN}
  <2>1. history \in Seq(Evaluations) /\ n \in 1 .. Len(history)
    BY Sizes DEF Shape
  <2>2. history[n] \in Evaluations
    BY <2>1, ElementOfSeq
  <2> QED
    BY <2>2 DEF Evaluations
<1>2. Known(w) \subseteq Scores \cup {NaN}
  BY <1>1 DEF Known
<1>3. \A n \in DOMAIN history : history[n].weights = w => history[n].score \in Known(w)
  BY DEF Known
<1>4. ASSUME Selection, NEW n \in DOMAIN history, history[n].weights = w PROVE history[n].score = s
  <2>1. s \in Known(w)
    BY <1>3, <1>4 DEF ScoresOf
  <2>2. PICK m \in DOMAIN history : history[m].weights = w /\ s = history[m].score
    BY <2>1 DEF Known
  <2>3. history # <<>>
    BY <1>4, Sizes
  <2> QED
    BY <1>4, <2>2, <2>3 DEF Selection
<1> QED
  BY <1>2, <1>4 DEF ScoresOf

\* There is one evaluation to select.
LEMMA SelectedIsChosen ==
  ASSUME TypeOK, Shape, Selection, history # <<>>
  PROVE  Selected = Chosen
<1>1. IsSelected(Chosen)
  BY DEF Selection
<1>2. CASE history[1].score = NaN
  BY <1>1, <1>2 DEF IsSelected, Selected
<1>3. CASE history[1].score # NaN
  <2> DEFINE P(n) == /\ history[n].score # NaN
                     /\ \A k \in DOMAIN history : ~ Less(history[k].score, history[n].score)
                     /\ \A k \in 1 .. n - 1 : history[k].score # history[n].score
  <2>1. Selected = CHOOSE n \in DOMAIN history : P(n)
    BY <1>3 DEF Selected
  <2>2. Chosen \in DOMAIN history /\ P(Chosen)
    BY <1>1, <1>3 DEF IsSelected
  <2>3. ASSUME NEW n \in DOMAIN history, P(n) PROVE n = Chosen
    <3>1. n \in 1 .. Len(history) /\ Chosen \in 1 .. Len(history) /\ Len(history) \in Nat
      BY <2>2, <2>3, Sizes
    <3>2. history[n].score \in Nat /\ history[Chosen].score \in Nat
      <4>1. history[n] \in Evaluations /\ history[Chosen] \in Evaluations
        BY <3>1, ElementOfSeq DEF Shape
      <4> QED
        BY <2>2, <2>3, <4>1, TrainAssumption DEF Evaluations
    <3>3. history[n].score = history[Chosen].score
      BY <2>2, <2>3, <3>1, <3>2 DEF Less
    <3>4. ~ (n < Chosen)
      BY <2>2, <3>1, <3>3
    <3>5. ~ (Chosen < n)
      BY <2>3, <3>1, <3>3
    <3> QED
      BY <3>1, <3>4, <3>5
  <2> HIDE DEF P
  <2> QED
    BY <2>1, <2>2, <2>3
<1> QED
  BY <1>2, <1>3

\* While a run is under way there is no summary of it.
LEMMA NoSummaryYet ==
  ASSUME Directory, pc # "idle"
  PROVE  runs # 0 /\ dir.setup = runs /\ (dir.summary # None => dir.summary.run # dir.setup)
BY DEF Directory

----------------------------------------------------------------------------
(* Runs that end                                                           *)

\* However a run ends, its files and its evaluations stay.
LEMMA OverStep ==
  ASSUME IInv, pc # "idle", Over
  PROVE  IInv'
<1> USE DEF streamVars, trainVars, selectVars
<1>1. pc' = "idle" /\ UNCHANGED <<dir, runs, cfg, perm, pos, batch, ahead, grad, step, weights,
                                  skippedInARow, best, stale, history, tuned>>
  BY DEF Over, Goto
<1>2. TypeOK' /\ Shape' /\ Stream'
  BY <1>1 DEF IInv, TypeOK, Shape, Stream
<1>3. Gradients' /\ Selection' /\ Loop'
  BY <1>1 DEF IInv, Gradients, Selection, Loop, Chosen, IsSelected
<1>4. Directory'
  BY <1>1, NoSummaryYet DEF IInv, Directory, PromotedIsBest
<1> QED
  BY <1>2, <1>3, <1>4 DEF IInv

----------------------------------------------------------------------------
(* The loop                                                                *)

\* A run that starts keeps the invariant, whatever an earlier one left in the directory.
LEMMA StartStep ==
  ASSUME IInv, NEW c \in Configs, StartRun(c)
  PROVE  IInv'
<1>1. TypeOK /\ Shape /\ Directory
  BY DEF IInv
<1>2. /\ pc = "idle" /\ runs < MaxRuns /\ runs' = runs + 1 /\ cfg' = c /\ pc' = "zero-shot"
      /\ dir' = [dir EXCEPT !.setup = runs']
      /\ perm' = <<>> /\ pos' = 0 /\ batch' = <<>> /\ ahead' = [o \in Train |-> 0]
      /\ grad' = <<>> /\ step' = 0 /\ weights' = {} /\ skippedInARow' = 0 /\ stale' = 0 /\ tuned' = None
      /\ best' = [step |-> 0, score |-> NaN] /\ history' = <<>>
  BY DEF StartRun, Fresh, Goto, Untrained
<1>3. runs \in Nat /\ runs' \in 1 .. MaxRuns
  <2>1. runs \in 0 .. MaxRuns
    BY <1>1 DEF TypeOK
  <2>2. runs < MaxRuns /\ runs' = runs + 1
    BY <1>2
  <2> QED
    BY <2>1, <2>2, CountsAssumption
<1>4. dir'.setup = runs' /\ dir'.best = dir.best /\ dir'.last = dir.last /\ dir'.summary = dir.summary
  BY <1>1, <1>2 DEF Shape
<1>5. TypeOK'
  <2>1. ToSet(batch') \subseteq Train /\ Len(batch') <= cfg'.batchSize
    BY <1>2, ConfigTypes DEF ToSet
  <2>2. skippedInARow' \in 0 .. SkipLimit - 1 /\ step' \in 0 .. cfg'.maxSteps
    BY <1>2, CountsAssumption, ConfigTypes
  <2>3. ahead' \in [Train -> Nat] /\ pos' \in 0 .. Len(perm') /\ stale' \in 0 .. Len(history')
    BY <1>2
  <2> QED
    BY <1>2, <1>3, <1>4, <2>1, <2>2, <2>3 DEF TypeOK
<1>6. Shape'
  <2>1. batch' \in Seq(Train) /\ grad' \in Seq(Train) /\ history' \in Seq(Evaluations)
    BY <1>2
  <2>2. runs' \in {None} \cup Nat
    BY <1>3
  <2>3. dir' \in [setup : {None} \cup Nat, best : {None, Torn} \cup Checkpoints,
                  last : {None} \cup Checkpoints, summary : {None} \cup Summaries]
    BY <1>1, <1>2, <2>2 DEF Shape
  <2> QED
    BY <2>1, <2>3 DEF Shape
<1>7. Stream'
  BY <1>2 DEF Stream, ServedUpto
<1>8. Gradients' /\ Selection'
  BY <1>2 DEF Gradients, Selection
<1>9. Loop'
  BY <1>2, ConfigTypes DEF Loop
<1>10. Directory'
  <2>1. dir'.summary # None => dir'.summary.run <= runs /\ dir.summary.run \in Nat
    <3>1. dir.summary # None => dir.summary \in Summaries
      BY <1>1 DEF Shape
    <3> QED
      BY <1>1, <1>4, <3>1 DEF Directory, Summaries
  <2>2. dir'.summary # None => dir'.summary.run < runs'
    BY <1>2, <1>3, <1>4, <2>1
  <2>3. dir'.summary # None => dir'.summary.run <= runs' /\ dir'.summary.run # runs' /\ dir'.summary.run # dir'.setup
    <3>1. dir'.summary # None => dir'.summary.run \in Nat
      BY <1>4, <2>1
    <3> QED
      BY <1>3, <1>4, <2>2, <3>1
  <2>4. runs' # 0 /\ dir'.setup = runs'
    BY <1>3, <1>4
  <2> QED
    BY <1>2, <2>3, <2>4 DEF Directory, PromotedIsBest
<1> QED
  BY <1>5, <1>6, <1>7, <1>8, <1>9, <1>10 DEF IInv

\* The evaluation before any step is the selected one.
LEMMA ZeroShotStep ==
  ASSUME IInv, ZeroShot
  PROVE  IInv'
<1> USE DEF streamVars, trainVars
<1>1. TypeOK /\ Shape /\ Stream /\ Gradients /\ Selection /\ Loop /\ Directory
  BY DEF IInv
<1>2. PICK s \in ScoresOf(weights) :
        best' = [step |-> 0, score |-> s] /\ history' = <<Result(weights, s)>>
  BY DEF ZeroShot
<1>3. /\ pc = "zero-shot" /\ pc' = "step" /\ step = 0 /\ stale = 0
      /\ UNCHANGED <<dir, runs, cfg, perm, pos, batch, ahead, grad, step, weights, skippedInARow, stale, tuned>>
  BY <1>1 DEF ZeroShot, Goto, Selection
<1>4. s \in Scores \cup {NaN}
  BY <1>1, ScoresAgree
<1>5. history' = <<[step |-> 0, weights |-> weights, score |-> s]>>
  BY <1>2, <1>3 DEF Result
<1>6. weights = {} /\ [step |-> 0, weights |-> weights, score |-> s] \in Evaluations
  BY <1>1, <1>3, <1>4 DEF TypeOK, Evaluations
<1>7. /\ history' \in Seq(Evaluations) /\ Len(history') = 1 /\ DOMAIN history' = 1 .. 1 /\ history' # <<>>
      /\ history'[1] = [step |-> 0, weights |-> weights, score |-> s]
  <2> DEFINE e == [step |-> 0, weights |-> weights, score |-> s]
  <2>1. e \in Evaluations /\ history' = <<e>>
    BY <1>5, <1>6
  <2> HIDE DEF e
  <2>2. /\ <<e>> \in Seq(Evaluations) /\ Len(<<e>>) = 1 /\ DOMAIN <<e>> = 1 .. 1
        /\ <<e>> # <<>> /\ <<e>>[1] = e
    BY <2>1
  <2>3. e = [step |-> 0, weights |-> weights, score |-> s]
    BY DEF e
  <2> QED
    BY <2>1, <2>2, <2>3
<1>8. Chosen' = 1
  BY <1>3, <1>7 DEF Chosen
<1>9. TypeOK' /\ Shape' /\ Stream' /\ Gradients'
  BY <1>1, <1>2, <1>3, <1>4, <1>7 DEF TypeOK, Shape, Stream, Gradients
<1>10. Selection'
  <2>1. IsSelected(1)'
    <3>1. history'[1].score = s /\ ~ Less(s, s)
      <4>1. history'[1].score = s
        BY <1>7
      <4>2. CASE s = NaN
        BY <4>1, <4>2 DEF Less
      <4>3. CASE s \in Nat
        BY <4>1, <4>3 DEF Less
      <4> QED
        BY <1>4, <4>2, <4>3, TrainAssumption
    <3>2. DOMAIN history' = {1} /\ 1 .. (1 - 1) = {}
      BY <1>7
    <3> QED
      BY <3>1, <3>2 DEF IsSelected, Less
  <2> QED
    BY <1>2, <1>3, <1>7, <1>8, <2>1 DEF Selection
<1>11. Loop'
  <2>1. Evaluated' = {0}
    BY <1>7 DEF Evaluated
  <2>2. DueUpto(step)' = {}
    BY <1>3 DEF DueUpto
  <2> QED
    BY <1>1, <1>3, <2>1, <2>2 DEF Loop
<1>12. Directory'
  BY <1>1, <1>3, <1>8, NoSummaryYet DEF Directory, PromotedIsBest
<1> QED
  BY <1>9, <1>10, <1>11, <1>12 DEF IInv

\* The loop head keeps the invariant.
LEMMA NextStepStep ==
  ASSUME IInv, NextStep
  PROVE  IInv'
<1> USE DEF selectVars
<1>1. TypeOK /\ Shape /\ Stream /\ Gradients /\ Selection /\ Loop /\ Directory
  BY DEF IInv
<1>2. /\ pc = "step"
      /\ UNCHANGED <<dir, runs, cfg, perm, pos, ahead, grad, weights, skippedInARow, best, stale, history, tuned>>
      /\ \/ step < cfg.maxSteps /\ step' = step + 1 /\ batch' = <<>> /\ pc' = "take"
         \/ ~ (step < cfg.maxSteps) /\ pc' = "last" /\ UNCHANGED <<step, batch>>
  BY DEF NextStep, Goto
<1>3. grad = <<>> /\ step \in Nat /\ step' \in Nat /\ cfg.maxSteps \in Nat
  BY <1>1, <1>2, ConfigTypes DEF Gradients, TypeOK
<1>4. step' \in 0 .. cfg.maxSteps /\ 1 .. step \subseteq 1 .. step' /\ 0 .. step \subseteq 0 .. step'
  BY <1>1, <1>2, <1>3 DEF TypeOK
<1>5. TypeOK' /\ Shape'
  <2>1. ToSet(batch') \subseteq Train /\ Len(batch') <= cfg'.batchSize /\ batch' \in Seq(Train)
    <3>1. CASE batch' = <<>>
      <4>1. ToSet(batch') = {} /\ Len(batch') = 0 /\ batch' \in Seq(Train)
        BY <3>1 DEF ToSet
      <4> QED
        BY <1>1, <1>2, <4>1, ConfigTypes DEF TypeOK
    <3>2. CASE batch' = batch
      BY <1>1, <1>2, <3>2 DEF TypeOK, Shape
    <3> QED
      BY <1>2, <3>1, <3>2
  <2>2. weights \subseteq 1 .. step' /\ best.step \in 0 .. step'
    BY <1>1, <1>4 DEF TypeOK
  <2>3. Shape'
    BY <1>1, <1>2, <2>1 DEF Shape
  <2>4. TypeOK'
    <3>1. pc' \in {"take", "last"}
      BY <1>2
    <3> QED
      BY <1>1, <1>2, <1>4, <2>1, <2>2, <3>1 DEF TypeOK
  <2> QED
    BY <2>3, <2>4
<1>6. Stream' /\ Gradients'
  BY <1>1, <1>2, <1>3 DEF Stream, Gradients
<1>7. Selection' /\ Directory'
  BY <1>1, <1>2, NoSummaryYet DEF Selection, Chosen, IsSelected, Directory, PromotedIsBest
<1>8. Loop'
  <2>1. Evaluated' = Evaluated /\ Evaluated = DueUpto(step) \cup {0}
    BY <1>1, <1>2 DEF Evaluated, Loop
  <2>2. CASE pc' = "take"
    <3>1. step' - 1 = step /\ step' > 0
      BY <1>2, <1>3, <2>2
    <3>2. DueUpto(step - 1)' = DueUpto(step)
      BY <1>2, <3>1 DEF DueUpto
    <3> QED
      BY <1>1, <1>2, <2>1, <2>2, <3>1, <3>2 DEF Loop
  <2>3. CASE pc' = "last"
    <3>1. DueUpto(step)' = DueUpto(step)
      BY <1>2, <2>3 DEF DueUpto
    <3> QED
      BY <1>1, <1>2, <2>1, <2>3, <3>1 DEF Loop
  <2> QED
    BY <1>2, <2>2, <2>3
<1> QED
  BY <1>5, <1>6, <1>7, <1>8 DEF IInv

\* Filling a batch keeps the invariant.
LEMMA TakeStep ==
  ASSUME IInv, Take
  PROVE  IInv'
<1> USE DEF trainVars, selectVars
<1>1. TypeOK /\ Shape /\ Stream /\ Gradients /\ Selection /\ Loop /\ Directory
  BY DEF IInv
<1>2. /\ pc = "take" /\ Len(batch) < cfg.batchSize
      /\ UNCHANGED <<dir, runs, pc, cfg, grad, step, weights, skippedInARow, best, stale, history, tuned>>
  BY DEF Take
<1>3. PICK p \in SetToSeqs(Train) :
        /\ perm' = p /\ pos' \in 0 .. Len(p) /\ ahead' = ServedUpto(p, pos')
        /\ batch' \in Seq(Train) /\ Len(batch') <= cfg.batchSize
  <2>1. CASE pos >= Len(perm)
    <3>1. PICK p \in SetToSeqs(Train) : Serve(p, 0)
      BY <2>1 DEF Take
    <3>2. 0 \in 0 .. Len(p) - 1
      BY PermutationCovers
    <3>3. ahead = ServedUpto(p, 0)
      <4>1. ~ (pos < Len(perm))
        <5> DEFINE l == Len(perm)
        <5>1. pos \in 0 .. l /\ pos >= l
          BY <1>1, <2>1 DEF TypeOK
        <5>2. l \in Nat
          BY PermutationCovers, <1>1 DEF TypeOK
        <5> HIDE DEF l
        <5>3. ~ (pos < l)
          BY <5>1, <5>2
        <5> QED
          BY <5>3 DEF l
      <4> QED
        BY <1>1, <4>1 DEF Stream, ServedUpto
    <3> QED
      BY <1>1, <1>2, <3>1, <3>2, <3>3, ServeStep
  <2>2. CASE ~ (pos >= Len(perm))
    <3>1. Serve(perm, pos)
      BY <2>2 DEF Take
    <3>2. perm \in SetToSeqs(Train) /\ pos \in 0 .. Len(perm) - 1
      <4> DEFINE l == Len(perm)
      <4>1. pos \in 0 .. l /\ ~ (pos >= l)
        BY <1>1, <2>2 DEF TypeOK
      <4>2. l \in Nat
        BY PermutationCovers, <1>1 DEF TypeOK
      <4> HIDE DEF l
      <4>3. pos \in 0 .. l - 1 /\ l # 0
        BY <4>1, <4>2
      <4> QED
        BY <1>1, <4>3 DEF TypeOK, l
    <3> QED
      BY <1>1, <1>2, <3>1, <3>2, ServeStep DEF Stream
  <2> QED
    BY <2>1, <2>2
<1>4. grad = <<>>
  <2>1. Len(grad) # 0 => Len(batch) = cfg.batchSize
    BY <1>1, <1>2 DEF Gradients
  <2>2. Len(grad) = 0
    <3> DEFINE l == Len(batch)
    <3>1. l \in Nat /\ l < cfg.batchSize /\ cfg.batchSize \in Nat
      BY <1>1, <1>2, ConfigTypes, Sizes DEF TypeOK
    <3> HIDE DEF l
    <3>2. l # cfg.batchSize
      BY <3>1
    <3> QED
      BY <2>1, <3>2 DEF l
  <2> QED
    BY <1>1, <2>2, EmptySeq DEF Shape
<1>5. TypeOK' /\ Shape'
  <2>1. ahead' \in [Train -> Nat]
    BY <1>3 DEF ServedUpto
  <2>2. ToSet(batch') \subseteq Train
    <3>1. DOMAIN batch' = 1 .. Len(batch')
      BY <1>3, LenProperties
    <3> QED
      BY <1>3, <3>1, ElementOfSeq DEF ToSet
  <2> QED
    BY <1>1, <1>2, <1>3, <2>1, <2>2 DEF TypeOK, Shape
<1>6. Stream'
  BY <1>3 DEF Stream
<1>7. Gradients'
  BY <1>1, <1>2, <1>3, <1>4, LenProperties DEF Gradients
<1>8. Selection' /\ Directory'
  BY <1>1, <1>2, NoSummaryYet DEF Selection, Chosen, IsSelected, Directory, PromotedIsBest
<1>9. Loop'
  BY <1>1, <1>2 DEF Loop, Evaluated, DueUpto
<1> QED
  BY <1>5, <1>6, <1>7, <1>8, <1>9 DEF IInv

\* A micro-batch adds the next origins of the batch to the gradient.
LEMMA MicroBatchStep ==
  ASSUME IInv, MicroBatch
  PROVE  IInv'
<1> USE DEF streamVars, selectVars
<1> DEFINE n == Len(batch)
           g == Len(grad)
           upto == Lesser(g + cfg.microBatch, n)
           more == SubSeq(batch, g + 1, upto)
<1>1. TypeOK /\ Shape /\ Stream /\ Gradients /\ Selection /\ Loop /\ Directory
  BY DEF IInv
<1>2. /\ pc = "take" /\ n = cfg.batchSize /\ g < n /\ grad' = grad \o more
      /\ UNCHANGED <<dir, runs, pc, cfg, perm, pos, batch, ahead, step, weights, skippedInARow,
                     best, stale, history, tuned>>
  BY DEF MicroBatch
<1>3. batch \in Seq(Train) /\ grad \in Seq(Train) /\ n \in Nat /\ g \in Nat /\ cfg.microBatch \in Nat \ {0}
  BY <1>1, Sizes, ConfigTypes DEF Shape, TypeOK
<1>4. \A i \in 1 .. n : batch[i] \in Train
  BY <1>3, ElementOfSeq
<1>5. \A i \in 1 .. g : grad[i] = batch[i]
  BY <1>1, <1>2 DEF Gradients
<1> HIDE DEF n, g
<1>6. upto \in g + 1 .. n
  BY <1>2, <1>3 DEF Lesser
<1> HIDE DEF upto
<1>7. more \in Seq(Train) /\ Len(more) = upto - g /\ \A i \in 1 .. upto - g : more[i] = batch[g + i]
  <2>1. g + 1 \in Int /\ upto \in Int /\ g + 1 <= upto /\ \A i \in g + 1 .. upto : batch[i] \in Train
    BY <1>3, <1>4, <1>6
  <2>2. /\ more \in Seq(Train) /\ Len(more) = upto - (g + 1) + 1
        /\ \A i \in 1 .. upto - (g + 1) + 1 : more[i] = batch[g + 1 + i - 1]
    BY <2>1, SubSeqProperties
  <2>3. upto - (g + 1) + 1 = upto - g
    BY <1>3, <2>1
  <2>4. ASSUME NEW i \in 1 .. upto - g PROVE more[i] = batch[g + i]
    <3>1. more[i] = batch[g + 1 + i - 1] /\ g + 1 + i - 1 = g + i
      BY <1>3, <2>1, <2>2, <2>3
    <3> QED
      BY <3>1
  <2> QED
    BY <2>2, <2>3, <2>4
<1> HIDE DEF more
<1>8. /\ grad' \in Seq(Train) /\ Len(grad') = upto
      /\ \A i \in 1 .. upto : grad'[i] = batch[i]
  <2>1. grad' \in Seq(Train) /\ Len(grad') = Len(grad) + Len(more)
    BY <1>2, <1>3, <1>7, ConcatProperties
  <2>2. Len(grad') = upto
    BY <1>3, <1>6, <1>7, <2>1 DEF g
  <2>3. ASSUME NEW i \in 1 .. upto PROVE grad'[i] = batch[i]
    <3>1. grad'[i] = IF i <= g THEN grad[i] ELSE more[i - g]
      <4>1. i \in 1 .. Len(grad) + Len(more)
        BY <2>1, <2>2
      <4> QED
        BY <1>2, <1>3, <1>7, <4>1, ConcatProperties DEF g
    <3>2. CASE i <= g
      BY <1>3, <1>5, <1>6, <3>1, <3>2
    <3>3. CASE ~ (i <= g)
      <4>1. i - g \in 1 .. upto - g /\ g + (i - g) = i
        BY <1>3, <1>6, <3>3
      <4> QED
        BY <1>7, <3>1, <3>3, <4>1
    <3> QED
      BY <3>2, <3>3
  <2> QED
    BY <2>1, <2>2, <2>3
<1>9. TypeOK' /\ Shape' /\ Stream'
  BY <1>1, <1>2, <1>8 DEF TypeOK, Shape, Stream
<1>10. Gradients'
  <2>1. upto <= n /\ n = Len(batch) /\ n = cfg.batchSize
    BY <1>2, <1>3, <1>6 DEF n
  <2> QED
    BY <1>2, <1>8, <2>1 DEF Gradients
<1>11. Selection' /\ Directory'
  BY <1>1, <1>2, NoSummaryYet DEF Selection, Chosen, IsSelected, Directory, PromotedIsBest
<1>12. Loop'
  BY <1>1, <1>2 DEF Loop, Evaluated, DueUpto
<1> QED
  BY <1>9, <1>10, <1>11, <1>12 DEF IInv

\* An update and a skipped one go on alike: to an evaluation if one is due.
LEMMA OptimiserStep ==
  ASSUME IInv, Update \/ Skip
  PROVE  IInv'
<1> USE DEF streamVars, selectVars
<1>1. TypeOK /\ Shape /\ Stream /\ Gradients /\ Selection /\ Loop /\ Directory
  BY DEF IInv
<1> DEFINE due == step % cfg.evalEvery = 0 \/ step = cfg.maxSteps
<1>2. /\ pc = "take" /\ grad' = <<>> /\ pc' = IF due THEN "evaluate" ELSE "step"
      /\ UNCHANGED <<dir, runs, cfg, perm, pos, batch, ahead, step, best, stale, history, tuned>>
      /\ weights' \in {weights, weights \cup {step}}
      /\ skippedInARow' = 0 \/ (skippedInARow + 1 < SkipLimit /\ skippedInARow' = skippedInARow + 1)
  BY DEF Update, Skip, Ready, AfterStep, Goto
<1> HIDE DEF due
<1>3. step > 0 /\ step \in Nat /\ cfg.maxSteps \in Nat
  BY <1>1, <1>2, ConfigTypes DEF Loop, TypeOK
<1>4. TypeOK' /\ Shape'
  <2>1. weights' \subseteq 1 .. step
    BY <1>1, <1>2, <1>3 DEF TypeOK
  <2>2. skippedInARow' \in 0 .. SkipLimit - 1
    BY <1>1, <1>2, CountsAssumption DEF TypeOK
  <2>3. pc' \in {"evaluate", "step"}
    BY <1>2
  <2> QED
    BY <1>1, <1>2, <2>1, <2>2, <2>3 DEF TypeOK, Shape
<1>5. Stream' /\ Gradients'
  BY <1>1, <1>2 DEF Stream, Gradients
<1>6. Selection' /\ Directory'
  BY <1>1, <1>2, NoSummaryYet DEF Selection, Chosen, IsSelected, Directory, PromotedIsBest
<1>7. Loop'
  <2>1. Evaluated' = DueUpto(step - 1) \cup {0}
    BY <1>1, <1>2 DEF Loop, Evaluated
  <2>2. DueUpto(step - 1)' = DueUpto(step - 1)
    BY <1>2 DEF DueUpto
  <2>3. CASE due
    BY <1>1, <1>2, <1>3, <2>1, <2>2, <2>3 DEF Loop, due
  <2>4. CASE ~ due
    <3>1. \A t \in 1 .. step : t \in 1 .. step - 1 \/ t = step
      BY <1>3
    <3>2. 1 .. step - 1 \subseteq 1 .. step
      BY <1>3
    <3>3. DueUpto(step)' = DueUpto(step - 1)
      BY <1>2, <2>4, <3>1, <3>2 DEF DueUpto, due
    <3> QED
      BY <1>1, <1>2, <2>1, <2>4, <3>3 DEF Loop
  <2> QED
    BY <2>3, <2>4
<1> QED
  BY <1>4, <1>5, <1>6, <1>7 DEF IInv

\* Saving the best checkpoint keeps the invariant, torn or whole.
LEMMA SaveStep ==
  ASSUME IInv, BeginSave \/ EndSave
  PROVE  IInv'
<1> USE DEF streamVars, trainVars, selectVars
<1>1. TypeOK /\ Shape /\ Stream /\ Gradients /\ Selection /\ Loop /\ Directory
  BY DEF IInv
<1>2. /\ UNCHANGED <<runs, cfg, perm, pos, batch, ahead, grad, step, weights, skippedInARow,
                     best, stale, history, tuned>>
      /\ \/ pc = "save" /\ pc' = "saving" /\ dir' = [dir EXCEPT !.best = Torn]
         \/ pc = "saving" /\ pc' = "step" /\ dir' = [dir EXCEPT !.best = Checkpoint]
  BY DEF BeginSave, EndSave, Goto
<1>3. Checkpoint = [run |-> runs, weights |-> weights] /\ Checkpoint \in Checkpoints
  <2>1. runs \in Nat /\ weights \subseteq Nat
    BY <1>1, CountsAssumption DEF TypeOK
  <2> QED
    BY <2>1 DEF Checkpoint, Checkpoints
<1>4. /\ dir'.setup = dir.setup /\ dir'.last = dir.last /\ dir'.summary = dir.summary
      /\ pc' = "step" => dir'.best = Checkpoint
  BY <1>1, <1>2 DEF Shape
<1>5. TypeOK' /\ Shape'
  BY <1>1, <1>2, <1>3, <1>4 DEF TypeOK, Shape
<1>6. Stream' /\ Gradients' /\ Selection'
  BY <1>1, <1>2 DEF Stream, Gradients, Selection, Chosen, IsSelected
<1>7. Loop'
  BY <1>1, <1>2 DEF Loop, Evaluated, DueUpto
<1>8. Directory'
  BY <1>1, <1>2, <1>3, <1>4, NoSummaryYet DEF Directory, PromotedIsBest, Chosen
<1> QED
  BY <1>5, <1>6, <1>7, <1>8 DEF IInv

\* Saving the last checkpoint keeps the invariant.
LEMMA SaveLastStep ==
  ASSUME IInv, SaveLast
  PROVE  IInv'
<1> USE DEF streamVars, trainVars, selectVars
<1>1. TypeOK /\ Shape /\ Stream /\ Gradients /\ Selection /\ Loop /\ Directory
  BY DEF IInv
<1>2. /\ UNCHANGED <<runs, cfg, perm, pos, batch, ahead, grad, step, weights, skippedInARow,
                     best, stale, history, tuned>>
      /\ pc = "last" /\ pc' = (IF best.step > 0 THEN "reload" ELSE "summary")
      /\ dir' = [dir EXCEPT !.last = Checkpoint]
  BY DEF SaveLast, Goto
<1>3. Checkpoint = [run |-> runs, weights |-> weights] /\ Checkpoint \in Checkpoints
  <2>1. runs \in Nat /\ weights \subseteq Nat
    BY <1>1, CountsAssumption DEF TypeOK
  <2> QED
    BY <2>1 DEF Checkpoint, Checkpoints
<1>4. /\ dir'.setup = dir.setup /\ dir'.best = dir.best /\ dir'.summary = dir.summary
      /\ dir'.last = Checkpoint
  BY <1>1, <1>2 DEF Shape
<1>5. TypeOK' /\ Shape'
  BY <1>1, <1>2, <1>3, <1>4 DEF TypeOK, Shape
<1>6. Stream' /\ Gradients' /\ Selection'
  BY <1>1, <1>2 DEF Stream, Gradients, Selection, Chosen, IsSelected
<1>7. Loop'
  BY <1>2 DEF Loop
<1>8. best.step > 0 <=> Chosen # 1
  <2>1. Chosen \in DOMAIN history /\ best.step = history[Chosen].step /\ (history[Chosen].step = 0 <=> Chosen = 1)
    BY <1>1, <1>2 DEF Selection, IsSelected
  <2>2. best.step \in Nat
    BY <1>1 DEF TypeOK
  <2> QED
    BY <2>1, <2>2
<1>9. Directory'
  BY <1>1, <1>2, <1>3, <1>4, <1>8, NoSummaryYet DEF Directory, PromotedIsBest, Chosen
<1> QED
  BY <1>5, <1>6, <1>7, <1>9 DEF IInv

\* An evaluation that improves is the one to select, and one that does not leaves the
\* choice and adds to stale.
LEMMA EvaluateStep ==
  ASSUME IInv, Evaluate
  PROVE  IInv'
<1> USE DEF streamVars, trainVars
<1>1. TypeOK /\ Shape /\ Stream /\ Gradients /\ Selection /\ Loop /\ Directory
  BY DEF IInv
<1>2. PICK s \in ScoresOf(weights) :
        /\ history' = Append(history, Result(weights, s))
        /\ \/ Improved(s) /\ best' = [step |-> step, score |-> s] /\ stale' = 0 /\ pc' = "save"
           \/ /\ ~ Improved(s) /\ stale' = stale + 1 /\ best' = best
              /\ pc' = (IF cfg.patience > 0 /\ stale' >= cfg.patience THEN "last" ELSE "step")
  BY DEF Evaluate, Goto
<1>3. /\ pc = "evaluate"
      /\ UNCHANGED <<dir, runs, cfg, perm, pos, batch, ahead, grad, step, weights, skippedInARow, tuned>>
  BY DEF Evaluate
<1> DEFINE n == Len(history)
           new == Result(weights, s)
<1>4. /\ history \in Seq(Evaluations) /\ n \in Nat \ {0} /\ DOMAIN history = 1 .. n /\ stale \in Nat
      /\ history # <<>>
  <2>1. history # <<>> /\ history \in Seq(Evaluations)
    BY <1>1, <1>3 DEF Selection, Shape
  <2> QED
    BY <1>1, <2>1, Sizes, EmptySeq
<1>5. s \in Scores \cup {NaN} /\ \A m \in 1 .. n : history[m].weights = weights => history[m].score = s
  BY <1>1, <1>4, ScoresAgree
<1>6. new = [step |-> step, weights |-> weights, score |-> s] /\ new \in Evaluations /\ step \in Nat /\ step > 0
  BY <1>1, <1>3, <1>5 DEF TypeOK, Evaluations, Result, Loop
<1> HIDE DEF n, new
<1>7. /\ history' \in Seq(Evaluations) /\ Len(history') = n + 1 /\ DOMAIN history' = 1 .. n + 1 /\ history' # <<>>
      /\ history'[n + 1] = new /\ \A m \in 1 .. n : history'[m] = history[m]
  <2>1. history' = Append(history, new)
    BY <1>2 DEF new
  <2>2. /\ history' \in Seq(Evaluations) /\ Len(history') = n + 1 /\ history' # <<>>
        /\ history'[n + 1] = new /\ \A m \in 1 .. n : history'[m] = history[m]
    BY <1>4, <1>6, <2>1, AppendProperties DEF n
  <2> QED
    BY <2>2, LenProperties
<1>8. \A m \in 1 .. n + 1 : m \in 1 .. n \/ m = n + 1
  BY <1>4
<1>9. /\ IsSelected(Chosen) /\ Chosen = n - stale /\ Chosen \in 1 .. n
      /\ best = [step |-> history[Chosen].step, score |-> history[Chosen].score]
  <2>1. IsSelected(Chosen) /\ best = [step |-> history[Chosen].step, score |-> history[Chosen].score]
    BY <1>1, <1>4 DEF Selection
  <2>2. Chosen = n - stale
    BY DEF Chosen, n
  <2> QED
    BY <1>4, <2>1, <2>2 DEF IsSelected
<1>10. \A m \in 1 .. n : history[m].score \in Scores \cup {NaN}
  <2> SUFFICES ASSUME NEW m \in 1 .. n PROVE history[m].score \in Scores \cup {NaN}
    OBVIOUS
  <2>1. history[m] \in Evaluations
    BY <1>4, ElementOfSeq DEF n
  <2> QED
    BY <2>1 DEF Evaluations
<1>11. IsSelected(Chosen)' /\ best' = [step |-> history'[Chosen'].step, score |-> history'[Chosen'].score]
  <2>1. CASE Improved(s)
    <3>1. /\ best' = [step |-> step, score |-> s] /\ stale' = 0 /\ Chosen' = n + 1
          /\ s # NaN /\ best.score # NaN /\ s < best.score
      BY <1>2, <1>4, <1>7, <2>1 DEF Improved, Less, Chosen
    <3>2. history[1].score # NaN /\ s \in Nat /\ best.score \in Nat
      <4>1. history[1].score = NaN => Chosen = 1
        BY <1>9 DEF IsSelected
      <4> QED
        BY <1>5, <1>9, <1>10, <3>1, <4>1, TrainAssumption
    <3>3. ASSUME NEW k \in 1 .. n PROVE history[k].score = NaN \/ (history[k].score \in Nat /\ best.score <= history[k].score)
      <4>1. ~ Less(history[k].score, best.score)
        BY <1>4, <1>9, <3>2 DEF IsSelected
      <4>2. CASE history[k].score # NaN
        <5>1. history[k].score \in Nat
          BY <1>10, <4>2, TrainAssumption
        <5> QED
          BY <3>1, <3>2, <4>1, <4>2, <5>1 DEF Less
      <4> QED
        BY <4>2
    <3>4. ASSUME NEW k \in 1 .. n PROVE ~ Less(history[k].score, s) /\ history[k].score # s
      BY <3>1, <3>2, <3>3 DEF Less
    <3>5. ~ Less(s, s)
      BY <3>2 DEF Less
    <3>6. history'[1].score # NaN /\ history'[n + 1].score = s /\ n + 1 - 1 = n
      BY <1>4, <1>6, <1>7, <3>2
    <3>7. \A k \in 1 .. n + 1 : ~ Less(history'[k].score, s)
      BY <1>7, <1>8, <3>4, <3>5, <3>6
    <3>8. \A k \in 1 .. n : history'[k].score # s
      BY <1>7, <3>4
    <3> DEFINE last == n + 1
    <3>9. last \in DOMAIN history' /\ last - 1 = n /\ Chosen' = last
      BY <1>4, <1>7, <3>1
    <3>10. /\ history'[1].score # NaN /\ history'[last].score # NaN
           /\ \A k \in DOMAIN history' : ~ Less(history'[k].score, history'[last].score)
           /\ \A k \in 1 .. last - 1 : history'[k].score # history'[last].score
      BY <1>7, <3>1, <3>6, <3>7, <3>8, <3>9
    <3> HIDE DEF last
    <3>11. IsSelected(Chosen)'
      <4>1. /\ Chosen' \in DOMAIN history'
            /\ history'[1].score # NaN /\ history'[Chosen'].score # NaN
            /\ \A k \in DOMAIN history' : ~ Less(history'[k].score, history'[Chosen'].score)
            /\ \A k \in 1 .. Chosen' - 1 : history'[k].score # history'[Chosen'].score
        BY <3>9, <3>10
      <4> QED
        BY <4>1, Zenon DEF IsSelected, Less
    <3>12. history'[Chosen'] = new
      BY <1>7, <3>1
    <3> QED
      BY <1>6, <3>1, <3>11, <3>12
  <2>2. CASE ~ Improved(s)
    <3>1. best' = best /\ stale' = stale + 1 /\ ~ Less(s, best.score)
      BY <1>2, <2>2 DEF Improved
    <3>2. Chosen' = Chosen
      BY <1>4, <1>7, <1>9, <3>1 DEF Chosen
    <3>3. history'[Chosen] = history[Chosen] /\ history'[1] = history[1] /\ Chosen \in 1 .. n + 1
      BY <1>4, <1>7, <1>9
    <3>4. CASE history[1].score = NaN
      BY <1>7, <1>9, <3>1, <3>2, <3>3, <3>4 DEF IsSelected
    <3>5. CASE history[1].score # NaN
      <4>1. /\ history[Chosen].score # NaN
            /\ \A k \in 1 .. n : ~ Less(history[k].score, history[Chosen].score)
            /\ \A k \in 1 .. Chosen - 1 : history[k].score # history[Chosen].score
        BY <1>4, <1>9, <3>5 DEF IsSelected
      <4>2. ~ Less(s, history[Chosen].score) /\ new.score = s
        BY <1>6, <1>9, <3>1
      <4>3. \A k \in 1 .. n + 1 : ~ Less(history'[k].score, history[Chosen].score)
        BY <1>7, <1>8, <4>1, <4>2
      <4>4. \A k \in 1 .. Chosen - 1 : history'[k].score # history[Chosen].score
        <5>1. \A k \in 1 .. Chosen - 1 : k \in 1 .. n
          BY <1>4, <1>9
        <5> QED
          BY <1>7, <4>1, <5>1
      <4> QED
        BY <1>7, <1>9, <3>1, <3>2, <3>3, <3>5, <4>1, <4>3, <4>4 DEF IsSelected, Less
    <3> QED
      BY <3>4, <3>5
  <2> QED
    BY <2>1, <2>2
<1>12. TypeOK' /\ Shape'
  <2>1. stale' \in 0 .. Len(history')
    BY <1>1, <1>2, <1>4, <1>7 DEF TypeOK, n
  <2>2. best'.step \in 0 .. step /\ best'.score \in Scores \cup {NaN}
    BY <1>1, <1>2, <1>5, <1>6 DEF TypeOK
  <2>3. pc' \in {"save", "last", "step"}
    BY <1>2
  <2> QED
    BY <1>1, <1>3, <1>7, <2>1, <2>2, <2>3 DEF TypeOK, Shape
<1>13. Stream' /\ Gradients'
  BY <1>1, <1>2, <1>3 DEF Stream, Gradients
<1>14. Selection'
  <2>1. \A m \in 1 .. n + 1 : history'[m].step = 0 <=> m = 1
    <3>1. \A m \in 1 .. n : history[m].step = 0 <=> m = 1
      BY <1>1, <1>4 DEF Selection
    <3>2. history'[n + 1].step # 0 /\ n + 1 # 1
      BY <1>4, <1>6, <1>7
    <3> QED
      BY <1>7, <1>8, <3>1, <3>2
  <2>2. ASSUME NEW l \in 1 .. n + 1, NEW m \in 1 .. n + 1, history'[l].weights = history'[m].weights
        PROVE  history'[l].score = history'[m].score
    <3>1. CASE l \in 1 .. n /\ m \in 1 .. n
      BY <1>1, <1>4, <1>7, <2>2, <3>1 DEF Selection
    <3>2. CASE l = n + 1 /\ m \in 1 .. n
      BY <1>5, <1>6, <1>7, <2>2, <3>2
    <3>3. CASE m = n + 1 /\ l \in 1 .. n
      BY <1>5, <1>6, <1>7, <2>2, <3>3
    <3> QED
      BY <1>8, <3>1, <3>2, <3>3
  <2>3. pc' \in {"save", "last", "step"}
    BY <1>2
  <2> QED
    BY <1>7, <1>11, <2>1, <2>2, <2>3 DEF Selection
<1>15. Loop'
  <2>1. Evaluated' = DueUpto(step)' \cup {0}
    <3>1. Evaluated = DueUpto(step - 1) \cup {0} /\ (step % cfg.evalEvery = 0 \/ step = cfg.maxSteps)
      BY <1>1, <1>3 DEF Loop
    <3>2. Evaluated' = Evaluated \cup {step}
      BY <1>4, <1>6, <1>7, <1>8 DEF Evaluated
    <3>3. 1 .. step = (1 .. step - 1) \cup {step}
      BY <1>6
    <3>4. DueUpto(step)' = DueUpto(step - 1) \cup {step}
      BY <1>3, <3>1, <3>3 DEF DueUpto
    <3> QED
      BY <3>1, <3>2, <3>4
  <2>2. cfg.patience \in Nat /\ stale' \in Nat
    BY <1>1, <1>2, <1>4, ConfigTypes DEF TypeOK
  <2> QED
    BY <1>2, <1>3, <2>1, <2>2 DEF Loop
<1>16. Directory'
  <2>1. CASE Improved(s)
    <3>1. pc' = "save" /\ stale' = 0 /\ Chosen' = n + 1
      BY <1>2, <1>4, <1>7, <2>1 DEF Chosen
    <3>2. Chosen' # 1 /\ history'[Chosen'].weights = weights
      BY <1>4, <1>6, <1>7, <3>1
    <3> QED
      BY <1>1, <1>3, <3>1, <3>2, NoSummaryYet DEF Directory, PromotedIsBest
  <2>2. CASE ~ Improved(s)
    <3>1. Chosen' = Chosen /\ pc' \in {"last", "step"}
      BY <1>2, <1>4, <1>7, <1>9, <2>2 DEF Chosen
    <3>2. history'[Chosen] = history[Chosen]
      BY <1>7, <1>9
    <3> QED
      BY <1>1, <1>3, <3>1, <3>2, NoSummaryYet DEF Directory, PromotedIsBest
  <2> QED
    BY <2>1, <2>2
<1> QED
  BY <1>12, <1>13, <1>14, <1>15, <1>16 DEF IInv

\* Reading the best checkpoint back yields the selected weights.
LEMMA ReloadStep ==
  ASSUME IInv, Reload
  PROVE  IInv'
<1> USE DEF streamVars, trainVars
<1>1. TypeOK /\ Shape /\ Stream /\ Gradients /\ Selection /\ Loop /\ Directory
  BY DEF IInv
<1>2. /\ pc = "reload" /\ pc' = "summary" /\ tuned' \in ScoresOf(dir.best.weights)
      /\ UNCHANGED <<dir, runs, cfg, perm, pos, batch, ahead, grad, step, weights, skippedInARow,
                     best, stale, history>>
  BY DEF Reload, Goto
<1>3. Chosen # 1 /\ dir.best = [run |-> runs, weights |-> history[Chosen].weights] /\ Chosen \in DOMAIN history
  BY <1>1, <1>2 DEF Directory, Selection, IsSelected
<1>4. tuned' \in Scores \cup {NaN} /\ tuned' = history[Chosen].score
  BY <1>1, <1>2, <1>3, ScoresAgree
<1>5. TypeOK' /\ Shape'
  BY <1>1, <1>2, <1>4 DEF TypeOK, Shape
<1>6. Stream' /\ Gradients' /\ Selection'
  BY <1>1, <1>2 DEF Stream, Gradients, Selection, Chosen, IsSelected
<1>7. Loop'
  BY <1>2 DEF Loop
<1>8. Directory'
  BY <1>1, <1>2, <1>3, <1>4, NoSummaryYet DEF Directory, PromotedIsBest, Chosen
<1> QED
  BY <1>5, <1>6, <1>7, <1>8 DEF IInv

\* The summary is true when it is written.
LEMMA SummaryStep ==
  ASSUME IInv, WriteSummary
  PROVE  IInv'
<1> USE DEF streamVars, trainVars, selectVars
<1>1. TypeOK /\ Shape /\ Stream /\ Gradients /\ Selection /\ Loop /\ Directory
  BY DEF IInv
<1> DEFINE written == [run |-> runs, bestStep |-> best.step, stepsRun |-> step, tuned |-> tuned,
                       promoted |-> tuned # None]
<1>2. /\ pc = "summary" /\ pc' = "idle" /\ dir' = [dir EXCEPT !.summary = written]
      /\ UNCHANGED <<runs, cfg, perm, pos, batch, ahead, grad, step, weights, skippedInARow,
                     best, stale, history, tuned>>
  BY DEF WriteSummary, Goto
<1>3. written \in Summaries
  <2>1. runs \in Nat /\ best.step \in Nat /\ step \in Nat /\ tuned \in Scores \cup {NaN, None}
    BY <1>1, CountsAssumption DEF TypeOK
  <2>2. (tuned # None) \in BOOLEAN
    OBVIOUS
  <2> QED
    BY <2>1, <2>2 DEF Summaries
<1>4. dir'.setup = dir.setup /\ dir'.best = dir.best /\ dir'.last = dir.last /\ dir'.summary = written
  BY <1>1, <1>2 DEF Shape
<1>5. TypeOK' /\ Shape'
  BY <1>1, <1>2, <1>3, <1>4 DEF TypeOK, Shape
<1>6. Stream' /\ Gradients' /\ Selection' /\ Loop'
  BY <1>1, <1>2 DEF Stream, Gradients, Selection, Chosen, IsSelected, Loop
<1>7. history # <<>> /\ Chosen \in DOMAIN history /\ best.step = history[Chosen].step
  BY <1>1, <1>2 DEF Selection, IsSelected
<1>8. Selected' = Chosen
  BY <1>1, <1>2, <1>7, SelectedIsChosen DEF Selected, Less
<1>9. history[Chosen].score # None
  <2>1. history \in Seq(Evaluations) /\ Chosen \in 1 .. Len(history)
    BY <1>1, <1>7, Sizes DEF Shape
  <2>2. history[Chosen] \in Evaluations
    BY <2>1, ElementOfSeq
  <2> QED
    BY <2>2, MarkersAssumption DEF Evaluations
<1>10. PromotedIsBest'
  <2>1. written.promoted <=> Chosen # 1
    <3>1. written.promoted = (tuned # None)
      BY Zenon
    <3> QED
      BY <1>1, <1>2, <1>9, <3>1 DEF Directory
  <2>2. Chosen # 1 => /\ dir.best = [run |-> runs, weights |-> history[Chosen].weights]
                      /\ written.bestStep = history[Chosen].step
                      /\ written.tuned = history[Chosen].score
    BY <1>1, <1>2, <1>7 DEF Directory
  <2>3. dir.last = [run |-> runs, weights |-> weights] /\ dir.setup = runs
    BY <1>1, <1>2 DEF Directory
  <2> HIDE DEF written
  <2> QED
    BY <1>2, <1>4, <1>8, <2>1, <2>2, <2>3 DEF PromotedIsBest
<1>11. Directory'
  <2>1. written.run = runs /\ runs \in Nat /\ runs # 0 /\ dir.setup = runs
    BY <1>1, <1>2, NoSummaryYet, CountsAssumption DEF TypeOK
  <2> HIDE DEF written
  <2> QED
    BY <1>2, <1>4, <1>7, <1>10, <2>1 DEF Directory
<1> QED
  BY <1>5, <1>6, <1>11 DEF IInv

\* A step that changes nothing keeps the invariant.
LEMMA StutterStep ==
  ASSUME IInv, UNCHANGED vars
  PROVE  IInv'
<1>1. UNCHANGED <<dir, runs, pc, cfg, perm, pos, batch, ahead, grad, step, weights, skippedInARow,
                  best, stale, history, tuned>>
  BY DEF vars, streamVars, trainVars, selectVars
<1>2. TypeOK' /\ Shape' /\ Stream' /\ Gradients'
  BY <1>1 DEF IInv, TypeOK, Shape, Stream, Gradients
<1>3. Selection' /\ Loop'
  BY <1>1 DEF IInv, Selection, Chosen, IsSelected, Loop, Evaluated, DueUpto
<1>4. Selected' = Selected
  BY <1>1 DEF Selected, Less
<1>5. Directory'
  BY <1>1, <1>4 DEF IInv, Directory, PromotedIsBest, Chosen
<1> QED
  BY <1>2, <1>3, <1>5 DEF IInv

----------------------------------------------------------------------------
(* The theorems                                                            *)

\* The inductive invariant holds initially.
LEMMA InitIInv == Init => IInv
<1> SUFFICES ASSUME Init PROVE IInv
  OBVIOUS
<1>1. TypeOK
  <2>1. /\ runs = 0 /\ pc = "idle" /\ cfg \in Configs /\ dir.setup = None /\ perm = <<>> /\ pos = 0
        /\ batch = <<>> /\ ahead = [o \in Train |-> 0] /\ step = 0 /\ weights = {} /\ skippedInARow = 0
        /\ best = [step |-> 0, score |-> NaN] /\ stale = 0 /\ history = <<>> /\ tuned = None
    BY DEF Init, Empty, Untrained
  <2>2. ToSet(batch) = {} /\ Len(batch) = 0
    BY <2>1 DEF ToSet
  <2>3. skippedInARow \in 0 .. SkipLimit - 1 /\ step \in 0 .. cfg.maxSteps /\ runs \in 0 .. MaxRuns
        /\ Len(batch) <= cfg.batchSize
    BY <2>1, <2>2, CountsAssumption, ConfigTypes
  <2> QED
    BY <2>1, <2>2, <2>3 DEF TypeOK
<1>2. Shape
  BY DEF Init, Empty, Shape
<1>3. Stream /\ Gradients /\ Selection /\ Loop
  BY DEF Init, Stream, ServedUpto, Gradients, Selection, Loop
<1>4. Directory
  BY DEF Init, Empty, Directory, PromotedIsBest
<1> QED
  BY <1>1, <1>2, <1>3, <1>4 DEF IInv

\* Every step keeps the inductive invariant.
LEMMA StepIInv == IInv /\ [Next]_vars => IInv'
<1> SUFFICES ASSUME IInv, [Next]_vars PROVE IInv'
  OBVIOUS
<1>1. CASE NonFiniteLoss \/ SkipTooOften \/ Crash
  BY <1>1, OverStep DEF NonFiniteLoss, SkipTooOften, Crash, Ready
<1>2. CASE \E c \in Configs : StartRun(c)
  BY <1>2, StartStep
<1>3. CASE ZeroShot \/ NextStep \/ Take \/ MicroBatch \/ Update \/ Skip
  BY <1>3, ZeroShotStep, NextStepStep, TakeStep, MicroBatchStep, OptimiserStep
<1>4. CASE Evaluate \/ BeginSave \/ EndSave \/ SaveLast \/ Reload \/ WriteSummary
  BY <1>4, EvaluateStep, SaveStep, SaveLastStep, ReloadStep, SummaryStep
<1>5. CASE UNCHANGED vars
  BY <1>5, StutterStep
<1> QED
  BY <1>1, <1>2, <1>3, <1>4, <1>5 DEF Next, RunStep

\* The stream, the gradient, the choice of a checkpoint and the directory are consistent
\* in every state of every run.
THEOREM Invariance == Spec => []IInv
BY InitIInv, StepIInv, PTL DEF Spec

\* Every variable keeps its type.
THEOREM Typing == Spec => []TypeOK
<1>1. IInv => TypeOK
  BY DEF IInv
<1> QED
  BY <1>1, Invariance, PTL

\* No origin is ever taken twice more than another, for any batch size and any train split.
THEOREM EpochsStayFair == Spec => []EpochsAreFair
<1>1. IInv => EpochsAreFair
  BY DEF IInv, Stream, ServedUpto, EpochsAreFair
<1> QED
  BY <1>1, Invariance, PTL

\* Every update applies the gradient of its whole batch, once, for any micro-batch size.
THEOREM GradientsAreBatches == Spec => []GradientIsBatch
<1>1. IInv => GradientIsBatch
  <2> SUFFICES ASSUME IInv, Ready PROVE grad = batch /\ Len(batch) = cfg.batchSize
    BY DEF GradientIsBatch
  <2>1. /\ batch \in Seq(Train) /\ grad \in Seq(Train) /\ Len(batch) \in Nat /\ Len(grad) \in Nat
        /\ Len(grad) <= Len(batch) /\ \A i \in 1 .. Len(grad) : grad[i] = batch[i]
    BY Sizes DEF IInv, Shape, Gradients, Ready
  <2>2. Len(grad) = Len(batch)
    <3> DEFINE g == Len(grad)
               b == Len(batch)
    <3>1. g \in Nat /\ b \in Nat /\ g <= b /\ g >= b
      BY <2>1 DEF Ready
    <3> HIDE DEF g, b
    <3>2. g = b
      BY <3>1
    <3> QED
      BY <3>2 DEF g, b
  <2>3. grad = batch
    BY <2>1, <2>2, SeqEqual
  <2> QED
    BY <2>3 DEF Ready
<1> QED
  BY <1>1, Invariance, PTL

\* A summary tells the truth about the checkpoint beside it, whatever an earlier run or a
\* crashed one left in the directory.
THEOREM PromotionIsHonest == Spec => []PromotedIsBest
<1>1. IInv => PromotedIsBest
  BY DEF IInv, Directory
<1> QED
  BY <1>1, Invariance, PTL

\* A run stops early exactly when its patience is over, and misses no evaluation until then.
THEOREM PatienceIsHonest == Spec => []PatienceHonest
<1>1. IInv => PatienceHonest
  <2> SUFFICES ASSUME IInv, pc \in {"step", "last"} PROVE PatienceHonest
    BY DEF PatienceHonest
  <2>1. history # <<>> /\ Len(history) \in Nat /\ stale \in Nat /\ TypeOK /\ Shape /\ Selection /\ Loop
    BY Sizes DEF IInv, Selection
  <2>2. Len(history) - Selected = stale
    BY <2>1, SelectedIsChosen DEF Chosen
  <2>3. DueUpto(step) = {s \in 1 .. step : s % cfg.evalEvery = 0 \/ s = cfg.maxSteps}
    BY DEF DueUpto
  <2>4. Evaluated = {history[n].step : n \in DOMAIN history}
    BY DEF Evaluated
  <2> QED
    BY <2>1, <2>2, <2>3, <2>4 DEF PatienceHonest, Loop
<1> QED
  BY <1>1, Invariance, PTL

=============================================================================

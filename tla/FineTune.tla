------------------------------ MODULE FineTune ------------------------------
(***************************************************************************)
(* run_finetune (finetune.py): the training loop and the files it leaves   *)
(* in its run directory.  Weights are known by the steps whose updates     *)
(* made them, an evaluation by its score on the validation split.  A run   *)
(* that is given the --run-id of an earlier one reuses its directory.      *)
(***************************************************************************)
EXTENDS Naturals, FiniteSets, FiniteSetsExt, SequencesExt

CONSTANTS
  Train,      \* origins of the train split
  Configs,    \* configurations a run may be started with
  Scores,     \* validation pinballs, beside NaN
  SkipLimit,  \* non-finite gradients in a row that end a run (10)
  MaxRuns,    \* bound: runs in one directory
  NaN, None, Torn

\* prepare_data fails on an empty split, and FinetuneConfig on a count that is not positive.
ASSUME TrainAssumption == IsFiniteSet(Train) /\ Train # {} /\ Scores \subseteq Nat
ASSUME MarkersAssumption == NaN \notin Scores /\ None \notin Scores \cup {NaN}
ASSUME CountsAssumption == SkipLimit \in Nat \ {0} /\ MaxRuns \in Nat
ASSUME ConfigAssumption ==
  Configs \subseteq [batchSize : Nat \ {0}, microBatch : Nat \ {0}, maxSteps : Nat \ {0},
                     evalEvery : Nat \ {0}, patience : Nat]

VARIABLES
  dir,               \* the run directory: its setup files, best/, last/ and summary
  runs, pc, cfg,     \* runs so far; the current one and its configuration
  perm, pos,         \* _Epochs: the permutation being served and how far (the epoch is only logged)
  batch, grad,       \* origins taken for this step, and those whose gradient is accumulated
  step, weights,     \* the step, and the steps that updated the weights
  skippedInARow,     \* skipped_in_a_row
  best, stale,       \* the best evaluation, and evaluations since
  history,           \* the evaluations of this run, the zero-shot one first
  tuned,             \* score of the reloaded best checkpoint
  ahead              \* history: how much oftener than the rarest each origin was taken in this run

streamVars == <<perm, pos, batch, ahead>>
trainVars  == <<grad, step, weights, skippedInARow>>
selectVars == <<best, stale, history, tuned>>
vars == <<dir, runs, pc, cfg, streamVars, trainVars, selectVars>>

\* A directory that was never used.
Empty == [setup |-> None, best |-> None, last |-> None, summary |-> None]

Untrained == {}

\* What every run starts from, in memory.
Fresh ==
  /\ perm' = <<>> /\ pos' = 0 /\ batch' = <<>>
  /\ ahead' = [o \in Train |-> 0]
  /\ grad' = <<>> /\ step' = 0 /\ weights' = Untrained /\ skippedInARow' = 0
  /\ stale' = 0 /\ tuned' = None

Init ==
  /\ dir = Empty
  /\ runs = 0 /\ pc = "idle" /\ cfg \in Configs
  /\ perm = <<>> /\ pos = 0 /\ batch = <<>> /\ ahead = [o \in Train |-> 0]
  /\ grad = <<>> /\ step = 0 /\ weights = Untrained /\ skippedInARow = 0
  /\ best = [step |-> 0, score |-> NaN] /\ stale = 0 /\ history = <<>> /\ tuned = None

Goto(point) == pc' = point

----------------------------------------------------------------------------
(* Evaluations                                                             *)

Less(a, b) == a # NaN /\ b # NaN /\ a < b

Result(w, s) == [step |-> step, weights |-> w, score |-> s]

\* evaluate is a function of the weights: the same ones score the same again.
Known(w) == {r.score : r \in {history[n] : n \in {n \in DOMAIN history : history[n].weights = w}}}

ScoresOf(w) == IF Known(w) # {} THEN Known(w) ELSE Scores \cup {NaN}

----------------------------------------------------------------------------
(* The start of a run                                                      *)

\* The directory, splits.json, config.json and baselines.parquet; train_log.jsonl is
\* opened for writing.  What else an earlier run left there stays.
StartRun(c) ==
  /\ pc = "idle" /\ runs < MaxRuns
  /\ runs' = runs + 1
  /\ cfg' = c
  /\ dir' = [dir EXCEPT !.setup = runs']
  /\ Fresh
  /\ best' = [step |-> 0, score |-> NaN] /\ history' = <<>>
  /\ Goto("zero-shot")

ZeroShot ==
  /\ pc = "zero-shot"
  /\ \E s \in ScoresOf(weights) :
       /\ best' = [step |-> 0, score |-> s]
       /\ history' = <<Result(weights, s)>>
  /\ Goto("step")
  /\ UNCHANGED <<dir, runs, cfg, streamVars, trainVars, stale, tuned>>

\* The loop head: the next step begins, or the loop is over.
NextStep ==
  /\ pc = "step"
  /\ IF step < cfg.maxSteps
       THEN step' = step + 1 /\ batch' = <<>> /\ Goto("take")
       ELSE Goto("last") /\ UNCHANGED <<step, batch>>
  /\ UNCHANGED <<dir, runs, cfg, perm, pos, ahead, grad, weights, skippedInARow, selectVars>>

----------------------------------------------------------------------------
(* _Epochs.take: the next batch, over as many epochs as it needs           *)

Lesser(a, b) == IF a < b THEN a ELSE b

\* Serve(p, from) hands out what batch still lacks, or what p still has.
Serve(p, from) ==
  LET upto == Lesser(Len(p), from + cfg.batchSize - Len(batch))
      got == SubSeq(p, from + 1, upto)
      taken == [o \in Train |-> ahead[o] + (IF o \in ToSet(got) THEN 1 ELSE 0)]
  IN  /\ perm' = p /\ pos' = upto
      /\ batch' = batch \o got
      /\ ahead' = [o \in Train |-> taken[o] - Min({taken[t] : t \in Train})]

\* Mutant: a batch is not continued into the next epoch, the rest of this one is dropped.
TakeDropsTail ==
  /\ pc = "take" /\ Len(batch) < cfg.batchSize
  /\ IF pos + Lesser(cfg.batchSize, Cardinality(Train)) > Len(perm)
       THEN \E p \in SetToSeqs(Train) : Serve(p, 0)
       ELSE Serve(perm, pos)
  /\ UNCHANGED <<dir, runs, pc, cfg, trainVars, selectVars>>

\* One turn of the loop, with a new permutation when the current one is used up.
Take ==
  /\ pc = "take" /\ Len(batch) < cfg.batchSize
  /\ IF pos >= Len(perm)
       THEN \E p \in SetToSeqs(Train) : Serve(p, 0)
       ELSE Serve(perm, pos)
  /\ UNCHANGED <<dir, runs, pc, cfg, trainVars, selectVars>>

----------------------------------------------------------------------------
(* Forward and backward, micro_batch origins at a time                     *)

\* Gradients add up in the order of the batch, so len(grad) is where the next one begins.
MicroBatch ==
  /\ pc = "take" /\ Len(batch) = cfg.batchSize
  /\ Len(grad) < Len(batch)
  /\ grad' = grad \o SubSeq(batch, Len(grad) + 1, Lesser(Len(grad) + cfg.microBatch, Len(batch)))
  /\ UNCHANGED <<dir, runs, pc, cfg, streamVars, step, weights, skippedInARow, selectVars>>

Ready == pc = "take" /\ Len(batch) = cfg.batchSize /\ Len(grad) >= Len(batch)

AfterStep ==
  Goto(IF step % cfg.evalEvery = 0 \/ step = cfg.maxSteps THEN "evaluate" ELSE "step")

\* The process is gone, by an exception or a kill; the files stay.
Over == Goto("idle") /\ UNCHANGED <<dir, runs, cfg, streamVars, trainVars, selectVars>>

NonFiniteLoss == Ready /\ Over

Update ==
  /\ Ready
  /\ weights' = weights \cup {step}
  /\ skippedInARow' = 0
  /\ grad' = <<>>
  /\ AfterStep
  /\ UNCHANGED <<dir, runs, cfg, streamVars, step, selectVars>>

\* Mutant: only an update clears the gradients.
SkipKeepsGradient ==
  /\ Ready
  /\ skippedInARow + 1 < SkipLimit
  /\ skippedInARow' = skippedInARow + 1
  /\ AfterStep
  /\ UNCHANGED <<dir, runs, cfg, streamVars, grad, step, weights, selectVars>>

\* Mutant: the run never gives up on non-finite gradients.
SkipWithoutLimit ==
  /\ Ready
  /\ skippedInARow' = skippedInARow + 1
  /\ grad' = <<>>
  /\ AfterStep
  /\ UNCHANGED <<dir, runs, cfg, streamVars, step, weights, selectVars>>

\* Mutant: a step whose gradient is not finite is tried again with another batch.
SkipRetries ==
  /\ Ready
  /\ grad' = <<>> /\ batch' = <<>>
  /\ UNCHANGED <<dir, runs, pc, cfg, perm, pos, ahead, step, weights, skippedInARow, selectVars>>

\* A finite loss with a non-finite gradient: no update.
Skip ==
  /\ Ready
  /\ skippedInARow + 1 < SkipLimit
  /\ skippedInARow' = skippedInARow + 1
  /\ grad' = <<>>
  /\ AfterStep
  /\ UNCHANGED <<dir, runs, cfg, streamVars, step, weights, selectVars>>

SkipTooOften == Ready /\ skippedInARow + 1 >= SkipLimit /\ Over

----------------------------------------------------------------------------
(* Checkpoint selection                                                    *)

\* Mutant: an equal score counts as an improvement.
ImprovedOrEqual(s) == ~ Less(best.score, s)

Improved(s) == Less(s, best.score)

\* Mutant: patience counts every evaluation that did not improve, in a row or not.
EvaluateNeverResets ==
  /\ pc = "evaluate"
  /\ \E s \in ScoresOf(weights) :
       /\ history' = Append(history, Result(weights, s))
       /\ IF Improved(s)
            THEN best' = [step |-> step, score |-> s] /\ UNCHANGED stale /\ Goto("save")
            ELSE /\ stale' = stale + 1
                 /\ Goto(IF cfg.patience > 0 /\ stale' >= cfg.patience THEN "last" ELSE "step")
                 /\ UNCHANGED best
  /\ UNCHANGED <<dir, runs, cfg, streamVars, trainVars, tuned>>

Evaluate ==
  /\ pc = "evaluate"
  /\ \E s \in ScoresOf(weights) :
       /\ history' = Append(history, Result(weights, s))
       /\ IF Improved(s)
            THEN best' = [step |-> step, score |-> s] /\ stale' = 0 /\ Goto("save")
            ELSE /\ stale' = stale + 1
                 /\ Goto(IF cfg.patience > 0 /\ stale' >= cfg.patience THEN "last" ELSE "step")
                 /\ UNCHANGED best
  /\ UNCHANGED <<dir, runs, cfg, streamVars, trainVars, tuned>>

Checkpoint == [run |-> runs, weights |-> weights]

\* model.save_pretrained(best_dir), over what is there: the directory is torn until it is done.
BeginSave ==
  /\ pc = "save"
  /\ dir' = [dir EXCEPT !.best = Torn]
  /\ Goto("saving")
  /\ UNCHANGED <<runs, cfg, streamVars, trainVars, selectVars>>

EndSave ==
  /\ pc = "saving"
  /\ dir' = [dir EXCEPT !.best = Checkpoint]
  /\ Goto("step")
  /\ UNCHANGED <<runs, cfg, streamVars, trainVars, selectVars>>

SaveLast ==
  /\ pc = "last"
  /\ dir' = [dir EXCEPT !.last = Checkpoint]
  /\ Goto(IF best.step > 0 THEN "reload" ELSE "summary")
  /\ UNCHANGED <<runs, cfg, streamVars, trainVars, selectVars>>

\* The checkpoint is read back and scored once more.
Reload ==
  /\ pc = "reload"
  /\ dir.best \notin {None, Torn}
  /\ tuned' \in ScoresOf(dir.best.weights)
  /\ Goto("summary")
  /\ UNCHANGED <<dir, runs, cfg, streamVars, trainVars, best, stale, history>>

WriteSummary ==
  /\ pc = "summary"
  /\ dir' = [dir EXCEPT !.summary =
       [run |-> runs, bestStep |-> best.step, stepsRun |-> step, tuned |-> tuned, promoted |-> tuned # None]]
  /\ Goto("idle")
  /\ UNCHANGED <<runs, cfg, streamVars, trainVars, selectVars>>

\* A kill, a full disk, or any other exception.
Crash == pc # "idle" /\ Over

----------------------------------------------------------------------------

RunStep ==
  \/ ZeroShot \/ NextStep \/ Take \/ MicroBatch
  \/ NonFiniteLoss \/ Update \/ Skip \/ SkipTooOften
  \/ Evaluate \/ BeginSave \/ EndSave
  \/ SaveLast \/ Reload \/ WriteSummary

Next == RunStep \/ Crash \/ \E c \in Configs : StartRun(c)

Spec == Init /\ [][Next]_vars

\* The loop runs on; a forward pass and a write end one way or the other.
FairSpec == Spec /\ WF_vars(RunStep)

----------------------------------------------------------------------------
(* Properties                                                              *)

\* Every variable keeps its type (run_finetune's locals, _Epochs and the run directory).
TypeOK ==
  /\ runs \in 0 .. MaxRuns /\ cfg \in Configs
  /\ pc \in {"idle", "zero-shot", "step", "take", "evaluate", "save", "saving",
             "last", "reload", "summary"}
  /\ dir.setup \in {None} \cup 1 .. runs
  /\ perm \in {<<>>} \cup SetToSeqs(Train) /\ pos \in 0 .. Len(perm)
  /\ ToSet(batch) \subseteq Train /\ Len(batch) <= cfg.batchSize
  /\ ahead \in [Train -> Nat]
  /\ step \in 0 .. cfg.maxSteps /\ weights \subseteq 1 .. step
  /\ skippedInARow \in 0 .. SkipLimit - 1
  /\ best.step \in 0 .. step /\ best.score \in Scores \cup {NaN}
  /\ stale \in 0 .. Len(history) /\ tuned \in Scores \cup {NaN, None}

\* No origin is taken twice while another waits for its first turn, however the batch
\* size and the size of the train split divide: batches cross epochs and drop nothing
\* (_Epochs.take).
EpochsAreFair == \A o \in Train : ahead[o] <= 1

\* What reaches the optimiser is the gradient of exactly this step's batch: all of its
\* micro-batches, the last and shorter one too, and nothing of a skipped step.
GradientIsBatch == Ready => grad = batch /\ Len(batch) = cfg.batchSize

\* The evaluation that the run has to select: the earliest of those with the least
\* pinball, and the zero-shot one when that is not a number.
Selected ==
  LET Of(n) == history[n].score
  IN  IF Of(1) = NaN THEN 1
      ELSE CHOOSE n \in DOMAIN history :
             /\ Of(n) # NaN
             /\ \A k \in DOMAIN history : ~ Less(Of(k), Of(n))
             /\ \A k \in 1 .. n - 1 : Of(k) # Of(n)

\* A summary in the directory of the latest run tells the truth about the checkpoint
\* beside it: one is promoted exactly when some evaluation beat the zero-shot model,
\* best/ is then whole and holds the weights of the earliest best one, and the score
\* of the reloaded checkpoint is the score that selected it, whatever an earlier run
\* or a crashed one left there.
PromotedIsBest ==
  (dir.summary # None /\ dir.summary.run = dir.setup) =>
    /\ dir.summary.promoted <=> Selected # 1
    /\ dir.summary.promoted =>
         /\ dir.best = [run |-> dir.setup, weights |-> history[Selected].weights]
         /\ dir.summary.bestStep = history[Selected].step
         /\ dir.summary.tuned = history[Selected].score
    /\ dir.last = [run |-> dir.setup, weights |-> weights]

\* The run goes on while fewer than `patience` evaluations followed the selected one,
\* and ends before its last step only when that many did; no evaluation is missed.
PatienceHonest ==
  LET since == Len(history) - Selected
      Due == {s \in 1 .. step : s % cfg.evalEvery = 0 \/ s = cfg.maxSteps}
  IN  /\ pc = "step" => (cfg.patience = 0 \/ since < cfg.patience)
      /\ (pc = "last" /\ step < cfg.maxSteps) => (cfg.patience > 0 /\ since >= cfg.patience)
      /\ pc \in {"step", "last"} => {history[n].step : n \in DOMAIN history} = Due \cup {0}

\* A run ends, whatever losses, gradients and scores it meets: a skipped update still
\* counts as a step.
TrainingEnds == pc # "idle" ~> pc = "idle"

=============================================================================

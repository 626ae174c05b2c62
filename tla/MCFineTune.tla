----------------------------- MODULE MCFineTune -----------------------------
(* Two origins: batches smaller and larger than the train split.            *)
EXTENDS FineTune

Config(b, m, steps, every, p) ==
  [batchSize |-> b, microBatch |-> m, maxSteps |-> steps, evalEvery |-> every, patience |-> p]

MCConfigs == {Config(1, 1, 4, 1, 2), Config(3, 2, 3, 2, 0), Config(3, 5, 2, 1, 1)}

MCScores == 0 .. 2

=============================================================================

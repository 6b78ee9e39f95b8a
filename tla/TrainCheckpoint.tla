--------------------------- MODULE TrainCheckpoint ---------------------------
(***************************************************************************)
(* Training with train_policy.py: the epoch loop, the files it leaves in   *)
(* the run's directory, and resuming in place from them.                   *)
(*                                                                         *)
(* Weights are told apart by the number of optimizer steps they received,  *)
(* an optimizer state by the number it performed.  A file is the set of    *)
(* the value that can be read from it: empty while the file is missing or  *)
(* half written.  Files are written in place, so a crash during a write    *)
(* leaves nothing readable.                                                *)
(***************************************************************************)
EXTENDS Integers, FiniteSets, FiniteSetsExt

CONSTANTS MaxEpoch,         \* training.max_epoch
          StepsPerEpoch,    \* optimizer steps over the dataset
          MaxTrainingStep,  \* training.max_training_step, 0 for none
          SaveFreqEpoch,    \* training.save_freq_epoch
          KeepLast,         \* training.keep_last_epoch_checkpoints
          MaxLoss,          \* bound: an epoch's average loss is in 1..MaxLoss
          MaxStarts         \* bound: how often the run is resumed

ASSUME TrainAssumption ==
    /\ MaxEpoch \in Nat \ {0} /\ StepsPerEpoch \in Nat \ {0}
    /\ MaxTrainingStep \in Nat /\ SaveFreqEpoch \in Nat \ {0} /\ KeepLast \in Nat
    /\ MaxLoss \in Nat \ {0} /\ MaxStarts \in Nat

VARIABLES
    pc,         \* where the process is
    run,        \* its memory: weights, optimizer, rng, steps, epoch, batch, best_loss
    model,      \* model.safetensors: steps the weights received
    learning,   \* learning_state.pth
    rng,        \* rng_state.pth: the epoch it was saved after
    epochbest,  \* epochbest/: the loss its weights were saved for
    periodic,   \* the epochs of the epochN directories
    starts,     \* resumes so far
    saved,      \* history: an epoch was saved to its end
    lowest,     \* history: the lowest loss epochbest was saved for
    cuts        \* history: where in the end of an epoch a crash ever hit

files == <<model, learning, rng>>
vars == <<pc, run, files, epochbest, periodic, starts, saved, lowest, cuts>>
-----------------------------------------------------------------------------
Infinity == MaxLoss + 1

Scratch == [weights |-> 0, optimizer |-> 0, rng |-> 0, steps |-> 0, epoch |-> 0,
            batch |-> 0, best_loss |-> Infinity]

Saving == {"best", "periodic", "prune", "model", "modelWrite", "learning",
           "learningWrite", "rng", "rngWrite"}

Init ==
    /\ pc = "epoch"
    /\ run = Scratch
    /\ model = {} /\ learning = {} /\ rng = {}
    /\ epochbest = {} /\ periodic = {}
    /\ starts = 0
    /\ saved = FALSE
    /\ lowest = Infinity
    /\ cuts = {}
-----------------------------------------------------------------------------
LimitReached == MaxTrainingStep > 0 /\ run.steps >= MaxTrainingStep

\* for epoch in range(start_epoch, max_epoch).
MoreEpochs     == run.epoch < MaxEpoch

StartEpoch ==
    /\ pc = "epoch"
    /\ IF MoreEpochs
       THEN pc' = "train" /\ run' = [run EXCEPT !.batch = 0]
       ELSE pc' = "done" /\ UNCHANGED run
    /\ UNCHANGED <<files, epochbest, periodic, starts, saved, lowest, cuts>>

\* One accumulation window.  The limit is looked at after the step.
OptimizerStep ==
    /\ pc = "train"
    /\ run' = [run EXCEPT !.weights = @ + 1, !.optimizer = @ + 1, !.steps = @ + 1,
                          !.batch = @ + 1]
    /\ pc' = IF run'.batch = StepsPerEpoch \/ LimitReached'
             THEN "best" ELSE "train"
    /\ UNCHANGED <<files, epochbest, periodic, starts, saved, lowest, cuts>>

\* A new best loss is remembered and its weights are saved.
Better(loss) == loss < run.best_loss

SaveBest ==
    /\ pc = "best"
    /\ \E loss \in 1..MaxLoss :
          IF Better(loss)
          THEN /\ run' = [run EXCEPT !.best_loss = loss]
               /\ epochbest' = {loss}
               /\ lowest' = Min({lowest, loss})
          ELSE UNCHANGED <<run, epochbest, lowest>>
    /\ pc' = "periodic"
    /\ UNCHANGED <<files, periodic, starts, saved, cuts>>

\* prune_periodic_epoch_checkpoints.
Newest(epochs) == {e \in epochs : Cardinality({f \in epochs : f > e}) < KeepLast}

SavePeriodic ==
    \/ /\ pc = "periodic"
       /\ IF KeepLast > 0 /\ (run.epoch + 1) % SaveFreqEpoch = 0
          THEN periodic' = periodic \cup {run.epoch + 1} /\ pc' = "prune"
          ELSE pc' = "model" /\ UNCHANGED periodic
       /\ UNCHANGED <<run, files, epochbest, starts, saved, lowest, cuts>>
    \/ /\ pc = "prune"
       /\ periodic' = Newest(periodic)
       /\ pc' = "model"
       /\ UNCHANGED <<run, files, epochbest, starts, saved, lowest, cuts>>

\* policy.save_pretrained(output_directory)
SaveModel ==
    \/ /\ pc = "model"
       /\ model' = {}
       /\ pc' = "modelWrite"
       /\ UNCHANGED <<run, learning, rng, epochbest, periodic, starts, saved, lowest, cuts>>
    \/ /\ pc = "modelWrite"
       /\ model' = {run.weights}
       /\ pc' = "learning"
       /\ UNCHANGED <<run, learning, rng, epochbest, periodic, starts, saved, lowest, cuts>>

\* What learning_state.pth holds.  Mutant: the counter of the epoch's start.
LearningStale == [optimizer |-> run.optimizer, steps |-> run.steps - run.batch,
                  epoch |-> run.epoch + 1, best_loss |-> run.best_loss]
Learning      == [optimizer |-> run.optimizer, steps |-> run.steps,
                  epoch |-> run.epoch + 1, best_loss |-> run.best_loss]

SaveLearning ==
    \/ /\ pc = "learning"
       /\ learning' = {}
       /\ pc' = "learningWrite"
       /\ UNCHANGED <<run, model, rng, epochbest, periodic, starts, saved, lowest, cuts>>
    \/ /\ pc = "learningWrite"
       /\ learning' = {Learning}
       /\ pc' = "rng"
       /\ UNCHANGED <<run, model, rng, epochbest, periodic, starts, saved, lowest, cuts>>

\* Mutant: the random state is saved when the limit is reached only.
RngAtLimit == IF LimitReached THEN {run.epoch + 1} ELSE {}
RngFile    == {run.epoch + 1}

\* save_rng_state, and the next epoch unless the step limit was reached.
SaveRng ==
    \/ /\ pc = "rng"
       /\ rng' = {}
       /\ pc' = "rngWrite"
       /\ UNCHANGED <<run, model, learning, epochbest, periodic, starts, saved, lowest, cuts>>
    \/ /\ pc = "rngWrite"
       /\ rng' = RngFile
       /\ saved' = TRUE
       /\ run' = [run EXCEPT !.epoch = @ + 1, !.rng = run.epoch + 1]
       /\ pc' = IF LimitReached THEN "done" ELSE "epoch"
       /\ UNCHANGED <<model, learning, epochbest, periodic, starts, lowest, cuts>>

\* The machine or the process dies.
Crash ==
    /\ pc \in {"epoch", "train"} \cup Saving
    /\ starts < MaxStarts
    /\ pc' = "down"
    /\ run' = Scratch
    /\ cuts' = cuts \cup ({pc} \cap Saving)
    /\ UNCHANGED <<files, epochbest, periodic, starts, saved, lowest>>

\* The run is started again with its timestamp: every file is read, or main
\* returns.  A finished run may be resumed too.
\* Mutant: the best loss is not restored.
RestoredBestLost(l) == Infinity
RestoredBest(l)     == l.best_loss

Resume ==
    /\ pc \in {"down", "done"} /\ starts < MaxStarts
    /\ starts' = starts + 1
    /\ IF {} \in {model, learning, rng}
       THEN pc' = "failed" /\ run' = Scratch
       ELSE /\ pc' = "epoch"
            /\ \E w \in model, l \in learning, r \in rng :
                  run' = [weights |-> w, optimizer |-> l.optimizer, rng |-> r,
                          steps |-> l.steps, epoch |-> l.epoch, batch |-> 0,
                          best_loss |-> RestoredBest(l)]
    /\ UNCHANGED <<files, epochbest, periodic, saved, lowest, cuts>>

Next == \/ StartEpoch \/ OptimizerStep \/ SaveBest \/ SavePeriodic \/ SaveModel
        \/ SaveLearning \/ SaveRng \/ Crash \/ Resume

Spec == Init /\ [][Next]_vars
-----------------------------------------------------------------------------
Steps == 0..((MaxEpoch + MaxStarts) * StepsPerEpoch)

TypeOK ==
    /\ pc \in {"epoch", "train", "done", "down", "failed"} \cup Saving
    /\ run.weights \in Steps /\ run.optimizer \in Steps /\ run.steps \in Steps
    /\ run.epoch \in 0..MaxEpoch /\ run.rng \in 0..MaxEpoch
    /\ run.batch \in 0..StepsPerEpoch /\ run.best_loss \in 1..Infinity
    /\ model \subseteq Steps /\ rng \subseteq 1..MaxEpoch
    /\ learning \subseteq [optimizer : Steps, steps : Steps, epoch : 1..MaxEpoch,
                           best_loss : 1..MaxLoss]
    /\ epochbest \subseteq 1..MaxLoss /\ periodic \subseteq 1..MaxEpoch
    /\ starts \in 0..MaxStarts /\ saved \in BOOLEAN /\ lowest \in 1..Infinity
    /\ cuts \subseteq Saving

(* The weights, the optimizer, the step counter and the random state that    *)
(* train together belong together: they saw the same steps and epochs, in    *)
(* every run and resumed run.  Not so for a directory whose save was cut off, *)
(* and no run checks it.                                                     *)
SelfContained ==
    /\ run.weights = run.optimizer /\ run.optimizer = run.steps
    /\ run.rng = run.epoch

(* ... and they do unless a crash hit between two of the three files.        *)
SelfContainedUnlessCut == cuts \cap {"learning", "rng"} = {} => SelfContained

(* epochbest, what gets deployed, holds the weights with the lowest loss it  *)
(* was ever saved for; a worse epoch never replaces a better one, unless a   *)
(* crash hit after the snapshot and before best_loss was written with        *)
(* learning_state.pth (also then only where the resume succeeds).            *)
BestIsKept ==
    cuts \cap {"periodic", "prune", "model", "learning"} = {} =>
        \A loss \in epochbest : loss = lowest

(* A resume fails only when no epoch was saved yet, or a crash hit while one  *)
(* of the files was being written over.                                      *)
ResumesWhatWasSaved ==
    pc = "failed" /\ cuts \cap {"modelWrite", "learningWrite", "rngWrite"} = {}
        => ~saved
=============================================================================

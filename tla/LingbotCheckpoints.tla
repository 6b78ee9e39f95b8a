------------------------- MODULE LingbotCheckpoints -------------------------
(***************************************************************************)
(* The distributed checkpoints of LingBot training: when                   *)
(* train_lingbotvla.py saves one, what checkpoint_retention.py deletes     *)
(* before and after the save, and what a restarted run resumes from.       *)
(*                                                                         *)
(* A checkpoint has the parts checkpoint_is_complete looks for: the        *)
(* model's and the optimizer's .metadata, which the checkpointer writes    *)
(* after their shards, and one extra_state file of each rank, which exists *)
(* from its first byte on.  Over an older part a write is visible at once. *)
(* A directory without parts and a missing one are the same here.          *)
(***************************************************************************)
EXTENDS Integers, FiniteSets, FiniteSetsExt

CONSTANTS Ranks,        \* the training processes
          TrainSteps,   \* train.train_steps, the steps of an epoch
          NumEpochs,    \* train.num_train_epochs
          SaveSteps,    \* train.save_steps, 0 for none
          SaveEpochs,   \* train.save_epochs, 0 for none
          KeepLast,     \* train.keep_last_checkpoints
          ExtraFirst,   \* the checkpointer writes every extra_state first
          MaxCrashes    \* bound

ASSUME LingbotAssumption ==
    /\ IsFiniteSet(Ranks) /\ Ranks # {} /\ Ranks \cap {"model", "optimizer"} = {}
    /\ TrainSteps \in Nat \ {0} /\ NumEpochs \in Nat \ {0} /\ SaveSteps \in Nat
    /\ SaveEpochs \in Nat /\ KeepLast \in Nat /\ ExtraFirst \in BOOLEAN
    /\ MaxCrashes \in Nat

VARIABLES
    pc,       \* where the run is
    step,     \* global_step
    epoch,    \* epochs behind the run
    saved,    \* the step of save_checkpoint_path, 0 for None
    after,    \* where a save returns to
    left,     \* the parts of the running save that are not written yet
    begun,    \* those of left that are being written
    disk,     \* the state of every part of every checkpoint
    crashes,  \* crashes so far
    reached,  \* history: the last step the run ever performed
    resumed   \* history: the step the run resumed from

vars == <<pc, step, epoch, saved, after, left, begun, disk, crashes, reached, resumed>>
-----------------------------------------------------------------------------
Parts   == {"model", "optimizer"} \cup Ranks
LastOne == TrainSteps * NumEpochs
Slots   == 1..LastOne
Nothing == [p \in Parts |-> "absent"]

\* checkpoint_is_complete: the files are there.
Complete(s) == \A p \in Parts : disk[s][p] # "absent"

\* Checkpointer.load on one rank: the shared parts and its own file.
\* Mutant: a rank trusts its own file.
ReadableOwn(s, r) == disk[s][r] = "good"
Readable(s, r)    == \A p \in {"model", "optimizer", r} : disk[s][p] = "good"

Init ==
    /\ pc = "train"
    /\ step = 0 /\ epoch = 0
    /\ saved = 0
    /\ after = "train"
    /\ left = {} /\ begun = {}
    /\ disk = [s \in Slots |-> Nothing]
    /\ crashes = 0
    /\ reached = 0 /\ resumed = 0
-----------------------------------------------------------------------------
Divides(n, k) == n > 0 /\ k % n = 0

\* One iteration of the step loop, then the save by steps.
TrainStep ==
    /\ pc = "train" /\ step < (epoch + 1) * TrainSteps
    /\ step' = step + 1
    /\ reached' = Max({reached, step + 1})
    /\ IF Divides(SaveSteps, step + 1)
       THEN pc' = "prepare" /\ after' = "train" /\ saved' = step + 1
       ELSE UNCHANGED <<pc, after, saved>>
    /\ UNCHANGED <<epoch, left, begun, disk, crashes, resumed>>

\* The end of an epoch, and the save by epochs.
MoreEpochs  == epoch + 1 < NumEpochs

EpochEnd ==
    /\ pc = "train" /\ step = (epoch + 1) * TrainSteps
    /\ epoch' = epoch + 1
    /\ after' = IF MoreEpochs THEN "train" ELSE "final"
    /\ IF Divides(SaveEpochs, epoch + 1)
       THEN pc' = "prepare" /\ saved' = step
       ELSE pc' = after' /\ UNCHANGED saved
    /\ UNCHANGED <<step, left, begun, disk, crashes, reached, resumed>>

\* The last checkpoint, unless it was saved already.
\* Mutant: any checkpoint of this run is taken for the last one.
SavedSome    == saved # 0
AlreadySaved == saved = step \/ Complete(step)

Final ==
    /\ pc = "final"
    /\ saved' = step
    /\ IF AlreadySaved
       THEN pc' = "done" /\ UNCHANGED after
       ELSE pc' = "prepare" /\ after' = "done"
    /\ UNCHANGED <<step, epoch, left, begun, disk, crashes, reached, resumed>>

\* The n newest of a set of steps.
NewestOf(n, steps)     == {s \in steps : Cardinality({t \in steps : t > s}) < n}

Without(steps) == [s \in Slots |-> IF s \in steps THEN Nothing ELSE disk[s]]

\* prepare_checkpoint_slot: clears the remains of a failed save of this step,
\* then all but the KeepLast - 1 newest other complete checkpoints.
\* Mutant: it makes room for the new one and one more.
RetainedTight  == IF KeepLast > 2 THEN KeepLast - 2 ELSE 0
RetainedBefore == Max({KeepLast - 1, 0})

Prepare ==
    /\ pc = "prepare"
    /\ LET others == {s \in Slots \ {step} : Complete(s)}
           stale  == IF KeepLast > 0 THEN others \ NewestOf(RetainedBefore, others)
                     ELSE {}
       IN  disk' = Without(stale \cup (IF Complete(step) THEN {} ELSE {step}))
    /\ left' = Parts
    /\ pc' = "save"
    /\ UNCHANGED <<step, epoch, saved, after, begun, crashes, reached, resumed>>

\* Checkpointer.save: every rank writes its file, all of them the shared parts.
MayWrite(p) ==
    /\ p \in left
    /\ IF ExtraFirst /\ p \notin Ranks THEN left \cap Ranks = {} ELSE TRUE

BeginWrite(p) ==
    /\ pc = "save" /\ MayWrite(p) /\ p \notin begun
    /\ begun' = begun \cup {p}
    /\ disk' = IF p \in Ranks \/ disk[step][p] # "absent"
               THEN [disk EXCEPT ![step][p] = "torn"] ELSE disk
    /\ UNCHANGED <<pc, step, epoch, saved, after, left, crashes, reached, resumed>>

EndWrite(p) ==
    /\ pc = "save" /\ p \in begun
    /\ begun' = begun \ {p}
    /\ left' = left \ {p}
    /\ disk' = [disk EXCEPT ![step][p] = "good"]
    /\ pc' = IF left' = {} THEN "prune" ELSE "save"
    /\ UNCHANGED <<step, epoch, saved, after, crashes, reached, resumed>>

\* prune_old_checkpoints
Prune ==
    /\ pc = "prune"
    /\ LET complete == {s \in Slots : Complete(s)}
       IN  disk' = IF KeepLast > 0 THEN Without(complete \ NewestOf(KeepLast, complete))
                   ELSE disk
    /\ pc' = after
    /\ UNCHANGED <<step, epoch, saved, after, left, begun, crashes, reached, resumed>>

\* The machine or the container goes away, whatever the run was doing.
Crash ==
    /\ pc \notin {"down", "diverged", "done"} /\ crashes < MaxCrashes
    /\ crashes' = crashes + 1
    /\ pc' = "down"
    /\ step' = 0 /\ epoch' = 0 /\ saved' = 0
    /\ after' = "train"
    /\ left' = {} /\ begun' = {}
    /\ UNCHANGED <<disk, reached, resumed>>

\* Each rank tries the directories from the newest on and takes the first one
\* it can load; without one it starts from scratch.  Ranks that took different
\* ones wait in different collective operations.
Newest(steps) == Max({0} \cup steps)
LoadedBy(r)   == Newest({s \in Slots : Readable(s, r)})

Resume ==
    /\ pc = "down"
    /\ LET loaded == {LoadedBy(r) : r \in Ranks}
       IN  IF Cardinality(loaded) = 1
           THEN /\ step' = Max(loaded)
                /\ epoch' = Max(loaded) \div TrainSteps
                /\ resumed' = Max(loaded)
                /\ pc' = IF epoch' < NumEpochs THEN "train" ELSE "final"
           ELSE /\ pc' = "diverged"
                /\ UNCHANGED <<step, epoch, resumed>>
    /\ UNCHANGED <<saved, after, left, begun, disk, crashes, reached>>

Next == \/ TrainStep \/ EpochEnd \/ Final \/ Prepare \/ Prune \/ Crash \/ Resume
        \/ \E p \in Parts : BeginWrite(p) \/ EndWrite(p)

Spec == Init /\ [][Next]_vars
-----------------------------------------------------------------------------
TypeOK ==
    /\ pc \in {"train", "prepare", "save", "prune", "final", "done", "down", "diverged"}
    /\ step \in 0..LastOne /\ epoch \in 0..NumEpochs /\ saved \in 0..LastOne
    /\ after \in {"train", "final", "done"}
    /\ begun \subseteq left /\ left \subseteq Parts
    /\ disk \in [Slots -> [Parts -> {"absent", "torn", "good"}]]
    /\ crashes \in 0..MaxCrashes /\ reached \in 0..LastOne /\ resumed \in 0..LastOne

(* An interruption, also one in the middle of a save, costs at most          *)
(* SaveSteps steps of work.                                                  *)
LossBounded == [][Resume /\ pc' # "diverged" => step' >= reached - SaveSteps]_vars

(* The ranks of a resumed run all continue from the same checkpoint.         *)
RanksAgree == pc # "diverged"

(* A run that ends leaves a last checkpoint every rank can load.             *)
FinalReadable == pc = "done" => \A r \in Ranks : Readable(LastOne, r)

=============================================================================

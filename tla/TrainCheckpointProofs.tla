-------------------------- MODULE TrainCheckpointProofs --------------------------
(***************************************************************************)
(* Proofs about trainings that are cut and resumed.                        *)
(*                                                                         *)
(* TrainCheckpoint: what a run that crashes and is resumed again and again *)
(* reads from its files, for any length of the training, any number of     *)
(* losses and any number of resumes.                                       *)
(*                                                                         *)
(* CloudJob: what a job on a rented instance leaves in the repository and  *)
(* what it goes on from, for any amount of training and any number of      *)
(* launches, signals and preemptions.                                      *)
(*                                                                         *)
(* TrainingEpoch: what an epoch is made of, for any number of sources,     *)
(* frames, batches and ranks.                                              *)
(***************************************************************************)
EXTENDS TrainCheckpoint, CloudJob, TrainingEpoch, FiniteSetTheorems, WellFoundedInduction, TLAPS

(* The types the arguments need.                                           *)
Memory == [weights : Nat, optimizer : Nat, rng : Nat, steps : Nat, epoch : Nat, batch : Nat,
           best_loss : Nat]
Stored == [optimizer : Nat, steps : Nat, epoch : Nat, best_loss : Nat]
Typed ==
    /\ pc \in {"epoch", "train", "done", "down", "failed"} \cup Saving
    /\ run \in Memory /\ lowest \in Nat
    /\ model \subseteq Nat /\ learning \subseteq Stored /\ rng \subseteq Nat

(* The files are written in the order weights, learning state, random      *)
(* state; those already written are of this epoch.                         *)
Written ==
    /\ pc = "modelWrite" => model = {}
    /\ pc \in {"learning", "learningWrite", "rng", "rngWrite"} => model = {run.weights}
    /\ pc = "learningWrite" => learning = {}
    /\ pc \in {"rng", "rngWrite"} => learning = {Learning}
    /\ pc = "rngWrite" => rng = {}

(* What can be read from all three files at once belongs together, but     *)
(* between two of them.                                                    *)
Agree ==
    \A w \in model, l \in learning, r \in rng :
        w = l.optimizer /\ l.optimizer = l.steps /\ r = l.epoch
Contained ==
    cuts \cap {"learning", "rng"} = {} =>
        SelfContained /\ (pc \notin {"learning", "rng"} => Agree)

(* The best loss in memory is the lowest one, and so is the one on disk    *)
(* whenever it can be read and the snapshot was not just taken.            *)
Best ==
    cuts \cap {"periodic", "prune", "model", "learning"} = {} =>
        /\ pc \notin {"down", "failed"} => run.best_loss = lowest
        /\ \A loss \in epochbest : loss = lowest
        /\ pc \in {"epoch", "train", "best", "rng", "rngWrite", "done", "down"} =>
               model = {} \/ \A l \in learning : l.best_loss = lowest

(* Once an epoch was saved, a file is unreadable only while it is written. *)
Readable ==
    cuts \cap {"modelWrite", "learningWrite", "rngWrite"} = {} /\ saved =>
        /\ pc # "modelWrite" => model # {}
        /\ pc # "learningWrite" => learning # {}
        /\ pc # "rngWrite" => rng # {}
        /\ pc # "failed"

FilesInv == Typed /\ Written /\ Contained /\ Best /\ Readable

LEMMA InitFiles == Init => FilesInv
BY TrainAssumption DEF Init, FilesInv, Typed, Memory, Stored, Written, Contained, SelfContained, Agree,
   Best, Readable, Scratch, Infinity, TrainAssumption

LEMMA Lowest ==
    ASSUME NEW a \in Nat, NEW b \in Nat
    PROVE  Min({a, b}) \in Nat /\ (b <= a => Min({a, b}) = b)
BY DEF Min

LEMMA Kinds ==
    ASSUME Typed
    PROVE  /\ Scratch \in Memory
           /\ run.weights \in Nat /\ run.optimizer \in Nat /\ run.rng \in Nat /\ run.steps \in Nat
           /\ run.epoch \in Nat /\ run.batch \in Nat /\ run.best_loss \in Nat
           /\ Learning \in Stored /\ RngFile \subseteq Nat
BY TrainAssumption DEF Typed, Memory, Stored, Scratch, Infinity, Learning, RngFile, TrainAssumption

LEMMA MemoryUpdates ==
    ASSUME NEW m \in Memory, NEW n \in Nat
    PROVE  /\ [m EXCEPT !.batch = n] \in Memory /\ [m EXCEPT !.best_loss = n] \in Memory
           /\ [m EXCEPT !.weights = @ + 1] \in Memory /\ [m EXCEPT !.optimizer = @ + 1] \in Memory
           /\ [m EXCEPT !.steps = @ + 1] \in Memory /\ [m EXCEPT !.batch = @ + 1] \in Memory
           /\ [m EXCEPT !.epoch = @ + 1] \in Memory /\ [m EXCEPT !.rng = n] \in Memory
BY DEF Memory

(* One lemma for each part of the invariant, one step for each action.    *)
LEMMA TypedKept ==
    ASSUME FilesInv, Next
    PROVE  Typed'
<1> USE DEF files
<1>0. Typed
  BY DEF FilesInv
<1>1. CASE StartEpoch
  <2>1. run' \in Memory
    BY <1>0, <1>1, MemoryUpdates DEF StartEpoch, Typed
  <2> QED BY <1>0, <1>1, <2>1 DEF StartEpoch, Typed, Saving
<1>2. CASE OptimizerStep
  <2>1. run' = [run EXCEPT !.weights = @ + 1, !.optimizer = @ + 1, !.steps = @ + 1, !.batch = @ + 1]
    BY <1>2 DEF OptimizerStep
  <2>2. run' \in Memory
    <3> DEFINE m1 == [run EXCEPT !.weights = @ + 1]
               m2 == [m1 EXCEPT !.optimizer = @ + 1]
               m3 == [m2 EXCEPT !.steps = @ + 1]
    <3>1. m1 \in Memory
      BY <1>0, MemoryUpdates DEF Typed
    <3> HIDE DEF m1
    <3>2. m2 \in Memory
      BY <3>1, MemoryUpdates
    <3> HIDE DEF m2
    <3>3. m3 \in Memory
      BY <3>2, MemoryUpdates
    <3> HIDE DEF m3
    <3>4. run' = [m3 EXCEPT !.batch = @ + 1]
      BY <1>0, <2>1 DEF m1, m2, m3, Typed, Memory
    <3> QED BY <3>3, <3>4, MemoryUpdates
  <2> QED BY <1>0, <1>2, <2>2 DEF OptimizerStep, Typed, Saving
<1>3. CASE SaveBest
  <2>1. lowest' \in Nat
    BY <1>0, <1>3, TrainAssumption, Lowest DEF SaveBest, Typed, TrainAssumption
  <2>2. run' \in Memory
    <3>1. run' = run \/ \E loss \in Nat : run' = [run EXCEPT !.best_loss = loss]
      BY <1>0, <1>3, TrainAssumption DEF SaveBest, TrainAssumption
    <3> QED BY <1>0, <3>1, MemoryUpdates DEF Typed
  <2> QED BY <1>0, <1>3, <2>1, <2>2 DEF SaveBest, Typed, Saving
<1>4. CASE SavePeriodic
  BY <1>0, <1>4 DEF SavePeriodic, Typed, Saving
<1>5. CASE SaveModel
  <2>1. run.weights \in Nat
    BY <1>0, Kinds
  <2> QED BY <1>0, <1>5, <2>1 DEF SaveModel, Typed, Saving
<1>6. CASE SaveLearning
  BY <1>0, <1>6, Kinds DEF SaveLearning, Typed, Saving
<1>7. CASE SaveRng
  <2>1. run' \in Memory
    <3> DEFINE m == [run EXCEPT !.epoch = @ + 1]
    <3>1. m \in Memory
      BY <1>0, MemoryUpdates DEF Typed
    <3>2. run.epoch + 1 \in Nat
      BY <1>0, Kinds
    <3>3. run' = run \/ run' = [m EXCEPT !.rng = run.epoch + 1]
      BY <1>7 DEF SaveRng
    <3> HIDE DEF m
    <3> QED BY <1>0, <3>1, <3>2, <3>3, MemoryUpdates DEF Typed
  <2> QED BY <1>0, <1>7, <2>1, Kinds DEF SaveRng, Typed, Saving
<1>8. CASE Crash
  BY <1>0, <1>8, Kinds DEF Crash, Typed, Saving
<1>9. CASE Resume
  <2>1. CASE pc' = "failed"
    BY <1>0, <1>9, <2>1, Kinds DEF Resume, Typed
  <2>2. CASE pc' # "failed"
    <3>1. PICK w \in model, l \in learning, r \in rng :
             run' = [weights |-> w, optimizer |-> l.optimizer, rng |-> r, steps |-> l.steps,
                     epoch |-> l.epoch, batch |-> 0, best_loss |-> RestoredBest(l)]
      BY <1>9, <2>2 DEF Resume
    <3>2. w \in Nat /\ l \in Stored /\ r \in Nat
      BY <1>0 DEF Typed
    <3>3. run' \in Memory
      BY <3>1, <3>2 DEF Memory, Stored, RestoredBest
    <3> QED BY <1>0, <1>9, <2>2, <3>3 DEF Resume, Typed
  <2> QED BY <2>1, <2>2
<1> QED BY <1>1, <1>2, <1>3, <1>4, <1>5, <1>6, <1>7, <1>8, <1>9 DEF Next

LEMMA WrittenKept ==
    ASSUME FilesInv, Next
    PROVE  Written'
<1> USE DEF files, FilesInv
<1>1. CASE StartEpoch
  BY <1>1 DEF StartEpoch, Typed, Memory, Saving, Written, Learning
<1>2. CASE OptimizerStep
  BY <1>2 DEF OptimizerStep, Typed, Memory, Saving, Written, Learning
<1>3. CASE SaveBest
  BY <1>3 DEF SaveBest, Typed, Memory, Saving, Written, Learning
<1>4. CASE SavePeriodic
  BY <1>4 DEF SavePeriodic, Typed, Memory, Saving, Written, Learning
<1>5. CASE SaveModel
  BY <1>5 DEF SaveModel, Typed, Memory, Saving, Written, Learning
<1>6. CASE SaveLearning
  BY <1>6 DEF SaveLearning, Typed, Memory, Saving, Written, Learning
<1>7. CASE SaveRng
  BY <1>7 DEF SaveRng, Typed, Memory, Saving, Written, Learning
<1>8. CASE Crash
  BY <1>8 DEF Crash, Typed, Memory, Saving, Written, Learning
<1>9. CASE Resume
  BY <1>9 DEF Resume, Typed, Memory, Saving, Written, Learning
<1> QED BY <1>1, <1>2, <1>3, <1>4, <1>5, <1>6, <1>7, <1>8, <1>9 DEF Next

LEMMA ContainedKept ==
    ASSUME FilesInv, Next
    PROVE  Contained'
<1> USE DEF files, FilesInv
<1>1. CASE StartEpoch
  BY <1>1 DEF StartEpoch, Typed, Memory, Stored, Saving, Written, Contained, SelfContained, Agree, Learning, Scratch, RngFile
<1>2. CASE OptimizerStep
  BY <1>2 DEF OptimizerStep, Typed, Memory, Stored, Saving, Written, Contained, SelfContained, Agree, Learning, Scratch, RngFile
<1>3. CASE SaveBest
  BY <1>3 DEF SaveBest, Typed, Memory, Stored, Saving, Written, Contained, SelfContained, Agree, Learning, Scratch, RngFile
<1>4. CASE SavePeriodic
  BY <1>4 DEF SavePeriodic, Typed, Memory, Stored, Saving, Written, Contained, SelfContained, Agree, Learning, Scratch, RngFile
<1>5. CASE SaveModel
  BY <1>5 DEF SaveModel, Typed, Memory, Stored, Saving, Written, Contained, SelfContained, Agree, Learning, Scratch, RngFile
<1>6. CASE SaveLearning
  BY <1>6 DEF SaveLearning, Typed, Memory, Stored, Saving, Written, Contained, SelfContained, Agree, Learning, Scratch, RngFile
<1>7. CASE SaveRng
  <2>1. CASE pc = "rng"
    BY <1>7, <2>1 DEF SaveRng, Typed, Contained, SelfContained, Agree
  <2>2. CASE pc = "rngWrite" /\ cuts \cap {"learning", "rng"} = {}
    <3>1. /\ model = {run.weights} /\ learning = {Learning} /\ SelfContained
          /\ model' = model /\ learning' = learning /\ rng' = {run.epoch + 1}
          /\ run' = [run EXCEPT !.epoch = @ + 1, !.rng = run.epoch + 1]
      BY <1>7, <2>2 DEF SaveRng, Written, Contained, RngFile
    <3>2. SelfContained'
      BY <3>1 DEF Typed, Memory, SelfContained
    <3>3. Agree'
      BY <3>1 DEF Agree, Learning, SelfContained
    <3> QED BY <3>2, <3>3 DEF Contained
  <2>3. CASE pc = "rngWrite" /\ cuts \cap {"learning", "rng"} # {}
    BY <1>7, <2>3 DEF SaveRng, Contained
  <2> QED BY <1>7, <2>1, <2>2, <2>3 DEF SaveRng
<1>8. CASE Crash
  BY <1>8 DEF Crash, Typed, Memory, Stored, Saving, Written, Contained, SelfContained, Agree, Learning, Scratch, RngFile
<1>9. CASE Resume
  BY <1>9 DEF Resume, Typed, Memory, Stored, Saving, Written, Contained, SelfContained, Agree, Learning, Scratch, RngFile
<1> QED BY <1>1, <1>2, <1>3, <1>4, <1>5, <1>6, <1>7, <1>8, <1>9 DEF Next

LEMMA BestKept ==
    ASSUME FilesInv, Next
    PROVE  Best'
<1> USE DEF files, FilesInv
<1>1. CASE StartEpoch
  BY <1>1 DEF StartEpoch, Typed, Memory, Stored, Saving, Written, Best, Learning
<1>2. CASE OptimizerStep
  BY <1>2 DEF OptimizerStep, Typed, Memory, Stored, Saving, Written, Best, Learning
<1>3. CASE SaveBest
  <2> SUFFICES ASSUME cuts' \cap {"periodic", "prune", "model", "learning"} = {}
               PROVE  run'.best_loss = lowest' /\ \A loss \in epochbest' : loss = lowest'
    BY <1>3 DEF SaveBest, Best
  <2>1. run.best_loss = lowest /\ \A loss \in epochbest : loss = lowest
    BY <1>3 DEF SaveBest, Best
  <2>2. ASSUME NEW loss \in 1..MaxLoss, Better(loss), run' = [run EXCEPT !.best_loss = loss],
               epochbest' = {loss}, lowest' = Min({lowest, loss})
        PROVE  run'.best_loss = lowest' /\ \A other \in epochbest' : other = lowest'
    <3>1. loss \in Nat /\ loss <= lowest
      BY <2>1, <2>2, TrainAssumption DEF Better, Typed, TrainAssumption
    <3>2. lowest' = loss
      BY <2>2, <3>1, Lowest DEF Typed
    <3> QED BY <2>2, <3>2 DEF Typed, Memory
  <2> QED BY <1>3, <2>1, <2>2 DEF SaveBest
<1>4. CASE SavePeriodic
  BY <1>4 DEF SavePeriodic, Typed, Memory, Stored, Saving, Written, Best, Learning
<1>5. CASE SaveModel
  BY <1>5 DEF SaveModel, Typed, Memory, Stored, Saving, Written, Best, Learning
<1>6. CASE SaveLearning
  BY <1>6 DEF SaveLearning, Typed, Memory, Stored, Saving, Written, Best, Learning
<1>7. CASE SaveRng
  BY <1>7 DEF SaveRng, Typed, Memory, Stored, Saving, Written, Best, Learning
<1>8. CASE Crash
  BY <1>8 DEF Crash, Typed, Memory, Stored, Saving, Written, Best, Learning
<1>9. CASE Resume
  <2>1. CASE pc' = "failed"
    BY <1>9, <2>1 DEF Resume, Best
  <2>2. CASE pc' # "failed"
    <3>1. PICK w \in model, l \in learning, r \in rng : run'.best_loss = l.best_loss
      BY <1>9, <2>2 DEF Resume, RestoredBest
    <3>2. pc \in {"down", "done"} /\ pc' = "epoch"
          /\ UNCHANGED <<cuts, model, learning, epochbest, lowest>>
      BY <1>9, <2>2 DEF Resume
    <3> QED BY <3>1, <3>2 DEF Best
  <2> QED BY <2>1, <2>2
<1> QED BY <1>1, <1>2, <1>3, <1>4, <1>5, <1>6, <1>7, <1>8, <1>9 DEF Next

LEMMA ReadableKept ==
    ASSUME FilesInv, Next
    PROVE  Readable'
<1> USE DEF files, FilesInv
<1>1. CASE StartEpoch
  BY <1>1 DEF StartEpoch, Typed, Saving, Written, Readable, Learning, RngFile
<1>2. CASE OptimizerStep
  BY <1>2 DEF OptimizerStep, Typed, Saving, Written, Readable, Learning, RngFile
<1>3. CASE SaveBest
  BY <1>3 DEF SaveBest, Typed, Saving, Written, Readable, Learning, RngFile
<1>4. CASE SavePeriodic
  BY <1>4 DEF SavePeriodic, Typed, Saving, Written, Readable, Learning, RngFile
<1>5. CASE SaveModel
  BY <1>5 DEF SaveModel, Typed, Saving, Written, Readable, Learning, RngFile
<1>6. CASE SaveLearning
  BY <1>6 DEF SaveLearning, Typed, Saving, Written, Readable, Learning, RngFile
<1>7. CASE SaveRng
  BY <1>7 DEF SaveRng, Typed, Saving, Written, Readable, Learning, RngFile
<1>8. CASE Crash
  BY <1>8 DEF Crash, Typed, Saving, Written, Readable, Learning, RngFile
<1>9. CASE Resume
  BY <1>9 DEF Resume, Typed, Saving, Written, Readable, Learning, RngFile
<1> QED BY <1>1, <1>2, <1>3, <1>4, <1>5, <1>6, <1>7, <1>8, <1>9 DEF Next

(* The inductive invariant.                                                *)
THEOREM FilesAreInOrder == Spec => []FilesInv
<1>1. FilesInv /\ [Next]_vars => FilesInv'
  <2>1. CASE Next
    BY <2>1, TypedKept, WrittenKept, ContainedKept, BestKept, ReadableKept DEF FilesInv
  <2>2. CASE UNCHANGED vars
    BY <2>2 DEF vars, files, FilesInv, Typed, Written, Contained, SelfContained, Agree, Best,
                Readable, Learning
  <2> QED BY <2>1, <2>2
<1> QED BY <1>1, InitFiles, PTL DEF Spec

(* The weights, the optimizer, the counter and the random state with which *)
(* train_policy.py goes on after any number of crashes have seen the same  *)
(* steps, unless it died between two of the three files.                   *)
THEOREM MemoryIsSelfContained == Spec => []SelfContainedUnlessCut
<1>1. FilesInv => SelfContainedUnlessCut
  BY DEF FilesInv, Contained, SelfContainedUnlessCut
<1> QED BY <1>1, FilesAreInOrder, PTL

(* epochbest is never replaced by a worse epoch, unless the process died   *)
(* after the snapshot and before learning_state.pth.                       *)
THEOREM BestSurvivesResumes == Spec => []BestIsKept
<1>1. FilesInv => BestIsKept
  BY DEF FilesInv, Best, BestIsKept
<1> QED BY <1>1, FilesAreInOrder, PTL

(* A run that saved an epoch can be resumed, unless it died while it wrote *)
(* over one of the files.                                                  *)
THEOREM SavedRunsResume == Spec => []ResumesWhatWasSaved
<1>1. FilesInv => ResumesWhatWasSaved
  BY DEF FilesInv, Readable, ResumesWhatWasSaved
<1> QED BY <1>1, FilesAreInOrder, PTL
-----------------------------------------------------------------------------
(* CloudJob.                                                               *)
(*                                                                         *)
(* Where in its steps each script fetches a state, trains and publishes.   *)
Fetches == {"classic", "lingbot-v2"}          \* before the training, with the runner's download
Trainers == Fetches \cup Pipeline             \* scripts that must have trained when they succeed
TrainAt == CASE job.script = "classic"    -> 6
             [] job.script = "lingbot-v2" -> 7
             [] OTHER                     -> 9   \* the pipelines
Here    == disk[UploadDir(job)]
Trained == Dir(Target, Kind(job), TRUE)

JobIds == (1..MaxLaunches + 1) \X {0, 1}
Jobs   == [script : Runner \cup Alone, id : JobIds, resumeId : JobIds, resume : BOOLEAN, gpus : {1, 2},
           foreground : BOOLEAN, stop : BOOLEAN, optIn : {"no", "failure", "upload"}, tidy : BOOLEAN]
States == [at : 0..Target, kind : StateKinds, whole : BOOLEAN]
Repos  == [at : 0..Target, kind : StateKinds, dcps : SUBSET (1..Target)]
CloudTyped ==
    /\ stage \in Exits \cup {"idle", "step"} /\ (InStep => step \in 1..Len(Phases))
    /\ tries \in Nat \ {0} /\ mem \in -1..Target /\ rc \in {0, 1} /\ told \in {0, 1} /\ term \in BOOLEAN
    /\ upload \in {"not_started", "success", "disabled"}
    /\ disk \in [Dirs -> States]
    /\ repo \in Repos
    /\ status = [state |-> status.state, phase |-> status.phase]
    /\ status.state \in {"none", "running", "success", "failed"}
    /\ launches \in Nat

(* The settings of the last launch, and what a launch starts with.         *)
Launched ==
    /\ script \in Scripts
    /\ job = NoJob => /\ stage = "idle" /\ upload = "not_started" /\ status.state = "none"
                      /\ instance # "stopped"
    /\ job # NoJob => /\ job \in Jobs /\ job.script = script
                      /\ script = "a100" => ~job.resume /\ ~job.stop
                      /\ script = "v1 alone" => job.optIn = "upload"
                      /\ instance = "stopped" => job.stop
    /\ script \notin Runner => status.state = "none"
    /\ instance # "running" => stage = "idle"
    /\ InStep /\ script \in Trainers => upload # "success"
    /\ mem # -1 => At("train")

(* A directory that holds a training state or a model, and so a repository *)
(* that does, has been trained for.                                        *)
Progress ==
    /\ \A d \in Dirs : disk[d].kind \notin {"absent", "none"} => disk[d].at > 0
    /\ repo.kind \notin {"absent", "none"} => repo.at > 0

(* Between download and training the directory holds what the repository   *)
(* holds; a trainer has in memory what it loaded or saved last.            *)
Fetched ==
    /\ InStep /\ script \in Fetches /\ job.resume /\ step > 5 /\ step <= TrainAt /\ mem = -1 => Here = Content
    /\ InStep /\ script = "classic" /\ job.resume /\ Kind(job) = "single" /\ step > 5 => Here.kind = repo.kind
    /\ mem # -1 /\ job.resume /\ Kind(job) = "single" => Here.kind = "single"
    /\ mem # -1 /\ script \in Pipeline /\ Loadable(UploadDir(job)) => Here.at = mem
    /\ mem = Target /\ TrainDir(job) = UploadDir(job) => Here = Trained

(* What lies where once the script is past the training.                   *)
Published ==
    /\ InStep /\ script \in Trainers /\ step > TrainAt /\ Fits => Here = Trained
    /\ InStep /\ script \in Pipeline => /\ step > 12 => repo.at = Target
                                        /\ step > 13 => Target \in repo.dcps
    /\ job # NoJob /\ script \in Trainers /\ Fits =>
           /\ upload = "success" => Delivered
           /\ stage \in Exits /\ rc = 0 => Delivered
           /\ instance = "stopped" /\ job.optIn # "upload" => Delivered

CloudInv == CloudTyped /\ Launched /\ Progress /\ Fetched /\ Published
-----------------------------------------------------------------------------
(* The steps of the scripts, one by one.                                   *)
LEMMA ClassicOrder ==
    ASSUME job.script = "classic", step \in 1..Len(Phases)
    PROVE  /\ Len(Phases) = 7 /\ Phases[step][2] = 1
           /\ Name = "resume" <=> step = 5
           /\ Name = "train" <=> step = 6
           /\ Name = "upload" <=> step = 7
           /\ Name \notin {"norm", "export", "artifacts", "final", "dcp", "cleanup", "verify", "local", "openpi"}
<1>1. Phases = ClassicPrepare \o ClassicRun
  BY DEF Phases, Program, Pipeline
<1>2. Len(Phases) = 7
  BY <1>1 DEF ClassicPrepare, ClassicRun, Once
<1>3. /\ Phases[1][1] = "environment" /\ Phases[2][1] = "cuda" /\ Phases[3][1] = "batch"
      /\ Phases[4][1] = "dataset" /\ Phases[5][1] = "resume" /\ Phases[6][1] = "train"
      /\ Phases[7][1] = "upload"
  BY <1>1 DEF ClassicPrepare, ClassicRun, Once
<1>4. \A i \in 1..7 : Phases[i][2] = 1
  BY <1>1 DEF ClassicPrepare, ClassicRun, Once
<1>5. step \in {1, 2, 3, 4, 5, 6, 7}
  BY <1>2
<1> QED BY <1>2, <1>3, <1>4, <1>5 DEF Name

LEMMA V2Order ==
    ASSUME job.script = "lingbot-v2", step \in 1..Len(Phases)
    PROVE  /\ Len(Phases) = 8 /\ Phases[step][2] = 1
           /\ Name = "resume" <=> step = 5
           /\ Name = "norm" <=> step = 6
           /\ Name = "train" <=> step = 7
           /\ Name = "upload" <=> step = 8
           /\ Name \notin {"export", "artifacts", "final", "dcp", "cleanup", "verify", "local", "openpi"}
<1>1. Phases = V2Prepare \o V2Run
  BY DEF Phases, Program, Pipeline
<1>2. Len(Phases) = 8
  BY <1>1 DEF V2Prepare, V2Run, Once
<1>3. /\ Phases[1][1] = "environment" /\ Phases[2][1] = "validate" /\ Phases[3][1] = "dataset"
      /\ Phases[4][1] = "assets" /\ Phases[5][1] = "resume" /\ Phases[6][1] = "norm"
      /\ Phases[7][1] = "train" /\ Phases[8][1] = "upload"
  BY <1>1 DEF V2Prepare, V2Run, Once
<1>4. \A i \in 1..8 : Phases[i][2] = 1
  BY <1>1 DEF V2Prepare, V2Run, Once
<1>5. step \in {1, 2, 3, 4, 5, 6, 7, 8}
  BY <1>2
<1> QED BY <1>2, <1>3, <1>4, <1>5 DEF Name

LEMMA PipelineOrder ==
    ASSUME job.script \in Pipeline, step \in 1..Len(Phases)
    PROVE  /\ Len(Phases) = 16
           /\ Name = "norm" <=> step = 7
           /\ Name = "resume" <=> step = 8
           /\ Name = "train" <=> step = 9
           /\ Name = "export" <=> step = 10
           /\ Name = "final" <=> step = 12
           /\ Name = "dcp" <=> step = 13
           /\ Name = "cleanup" <=> step = 14
           /\ Name = "verify" <=> step = 15
           /\ Name = "local" <=> step = 16
           /\ Name \notin {"artifacts", "upload", "openpi"}
<1>1. Phases = V1
  BY DEF Phases, Program, Pipeline
<1>2. Len(V1) = 16
  BY DEF V1, V1Tools, V1Code, V1Dependencies, V1Assets, V1Norm, V1Resume, V1Train, V1Publish, Once, Thrice
<1>3. /\ V1[1][1] = "tools" /\ V1[2][1] = "code" /\ V1[3][1] = "dependencies"
      /\ V1[4][1] = "smoke" /\ V1[5][1] = "login" /\ V1[6][1] = "dataset"
      /\ V1[7][1] = "norm" /\ V1[8][1] = "resume" /\ V1[9][1] = "train"
      /\ V1[10][1] = "export" /\ V1[11][1] = "repo" /\ V1[12][1] = "final"
      /\ V1[13][1] = "dcp" /\ V1[14][1] = "cleanup" /\ V1[15][1] = "verify"
      /\ V1[16][1] = "local"
  <2>1. V1[1][1] = "tools" /\ V1[2][1] = "code" /\ V1[3][1] = "dependencies"
    BY DEF V1, V1Tools, V1Code, V1Dependencies, V1Assets, V1Norm, V1Resume, V1Train, V1Publish, Once, Thrice
  <2>2. V1[4][1] = "smoke" /\ V1[5][1] = "login" /\ V1[6][1] = "dataset"
    BY DEF V1, V1Tools, V1Code, V1Dependencies, V1Assets, V1Norm, V1Resume, V1Train, V1Publish, Once, Thrice
  <2>3. V1[7][1] = "norm" /\ V1[8][1] = "resume" /\ V1[9][1] = "train"
    BY DEF V1, V1Tools, V1Code, V1Dependencies, V1Assets, V1Norm, V1Resume, V1Train, V1Publish, Once, Thrice
  <2>4. V1[10][1] = "export" /\ V1[11][1] = "repo" /\ V1[12][1] = "final"
    BY DEF V1, V1Tools, V1Code, V1Dependencies, V1Assets, V1Norm, V1Resume, V1Train, V1Publish, Once, Thrice
  <2>5. V1[13][1] = "dcp" /\ V1[14][1] = "cleanup" /\ V1[15][1] = "verify"
    BY DEF V1, V1Tools, V1Code, V1Dependencies, V1Assets, V1Norm, V1Resume, V1Train, V1Publish, Once, Thrice
  <2>6. V1[16][1] = "local"
    BY DEF V1, V1Tools, V1Code, V1Dependencies, V1Assets, V1Norm, V1Resume, V1Train, V1Publish, Once, Thrice
  <2> QED BY <2>1, <2>2, <2>3, <2>4, <2>5, <2>6
<1>5. step \in {1, 2, 3, 4, 5, 6, 7, 8, 9, 10, 11, 12, 13, 14, 15, 16}
  <2>1. step \in 1..16
    BY <1>1, <1>2
  <2> QED BY <2>1
<1> QED BY <1>1, <1>2, <1>3, <1>5 DEF Name

LEMMA A100Order ==
    ASSUME job.script = "a100", step \in 1..Len(Phases)
    PROVE  /\ Len(Phases) = 14
           /\ Name = "train" <=> step = 9
           /\ Name = "artifacts" <=> step = 10
           /\ Name = "upload" <=> step = 13
           /\ Name = "verify" <=> step = 14
           /\ Name \notin {"resume", "norm", "export", "final", "dcp", "cleanup", "local", "openpi"}
<1>1. Phases = A100Prepare \o A100Data \o A100Train \o A100Publish
  BY DEF Phases, Program, Pipeline
<1>2. Len(Phases) = 14
  BY <1>1 DEF A100Prepare, A100Data, A100Train, A100Publish, Once, Thrice
<1>3. /\ Phases[1][1] = "tools" /\ Phases[2][1] = "code" /\ Phases[3][1] = "dependencies"
      /\ Phases[4][1] = "gpus" /\ Phases[5][1] = "login" /\ Phases[6][1] = "dataset"
      /\ Phases[7][1] = "check" /\ Phases[8][1] = "tensorboard" /\ Phases[9][1] = "train"
      /\ Phases[10][1] = "artifacts" /\ Phases[11][1] = "stage" /\ Phases[12][1] = "repo"
      /\ Phases[13][1] = "upload" /\ Phases[14][1] = "verify"
  <2>1. Phases[1][1] = "tools" /\ Phases[2][1] = "code" /\ Phases[3][1] = "dependencies"
    BY <1>1 DEF A100Prepare, A100Data, A100Train, A100Publish, Once, Thrice
  <2>2. Phases[4][1] = "gpus" /\ Phases[5][1] = "login" /\ Phases[6][1] = "dataset"
    BY <1>1 DEF A100Prepare, A100Data, A100Train, A100Publish, Once, Thrice
  <2>3. Phases[7][1] = "check" /\ Phases[8][1] = "tensorboard" /\ Phases[9][1] = "train"
    BY <1>1 DEF A100Prepare, A100Data, A100Train, A100Publish, Once, Thrice
  <2>4. Phases[10][1] = "artifacts" /\ Phases[11][1] = "stage" /\ Phases[12][1] = "repo"
    BY <1>1 DEF A100Prepare, A100Data, A100Train, A100Publish, Once, Thrice
  <2>5. Phases[13][1] = "upload" /\ Phases[14][1] = "verify"
    BY <1>1 DEF A100Prepare, A100Data, A100Train, A100Publish, Once, Thrice
  <2> QED BY <2>1, <2>2, <2>3, <2>4, <2>5
<1>5. step \in {1, 2, 3, 4, 5, 6, 7, 8, 9, 10, 11, 12, 13, 14}
  BY <1>2
<1> QED BY <1>2, <1>3, <1>5 DEF Name

LEMMA OpenpiOrder ==
    ASSUME job.script = "openpi", step \in 1..Len(Phases)
    PROVE  Len(Phases) = 1 /\ Name = "openpi" /\ Phases[step][2] = 1
<1>1. Phases = Once(<<"openpi">>)
  BY DEF Phases, Program, Pipeline
<1> QED BY <1>1 DEF Name, Once

(* What the arguments use of them.                                         *)
LEMMA Order ==
    ASSUME job \in Jobs, step \in 1..Len(Phases)
    PROVE 
           /\ Name = "train" <=> step = TrainAt /\ job.script # "openpi"
           /\ job.script \in Fetches =>
                  /\ Len(Phases) = TrainAt + 1 /\ Phases[step][2] = 1
                  /\ Name = "resume" <=> step = 5
                  /\ Name = "upload" <=> step = TrainAt + 1
           /\ job.script \in Pipeline =>
                  /\ Len(Phases) = 16 /\ Name # "upload" /\ Name # "artifacts"
                  /\ Name = "resume" <=> step = 8
                  /\ Name = "export" <=> step = 10
                  /\ Name = "final" <=> step = 12
                  /\ Name = "dcp" <=> step = 13
                  /\ Name = "cleanup" <=> step = 14
                  /\ Name = "verify" <=> step = 15
                  /\ Name = "local" <=> step = 16
           /\ job.script \notin Pipeline => Name \notin {"export", "final", "dcp", "cleanup", "local"}
           /\ job.script = "a100" => Name # "resume"
           /\ Name = "openpi" => job.script = "openpi"
<1>1. CASE job.script = "classic"
  BY <1>1, ClassicOrder DEF TrainAt, Fetches, Pipeline
<1>2. CASE job.script = "lingbot-v2"
  BY <1>2, V2Order DEF TrainAt, Fetches, Pipeline
<1>3. CASE job.script \in Pipeline
  BY <1>3, PipelineOrder DEF TrainAt, Fetches, Pipeline
<1>4. CASE job.script = "a100"
  BY <1>4, A100Order DEF TrainAt, Fetches, Pipeline
<1>5. CASE job.script = "openpi"
  <2>1. TrainAt = 9 /\ job.script \notin Fetches /\ job.script \notin Pipeline
    BY <1>5 DEF TrainAt, Fetches, Pipeline
  <2> QED BY <1>5, <2>1, OpenpiOrder
<1> QED BY <1>1, <1>2, <1>3, <1>4, <1>5 DEF Jobs, Runner, Alone, Pipeline

LEMMA SomePhase ==
    ASSUME NEW j \in Jobs
    PROVE  Len(Program(j.script)) \in Nat \ {0}
<1>1. CASE j.script = "classic"
  BY <1>1 DEF Program, Pipeline, ClassicPrepare, ClassicRun, Once
<1>2. CASE j.script = "lingbot-v2"
  BY <1>2 DEF Program, Pipeline, V2Prepare, V2Run, Once
<1>3. CASE j.script \in Pipeline
  <2>1. Program(j.script) = V1
    BY <1>3 DEF Program, Pipeline
  <2> QED BY <2>1 DEF V1, V1Tools, V1Code, V1Dependencies, V1Assets, V1Norm, V1Resume, V1Train, V1Publish, Once, Thrice
<1>4. CASE j.script = "a100"
  BY <1>4 DEF Program, Pipeline, A100Prepare, A100Data, A100Train, A100Publish, Once, Thrice
<1>5. CASE j.script = "openpi"
  BY <1>5 DEF Program, Pipeline, Once
<1> QED BY <1>1, <1>2, <1>3, <1>4, <1>5 DEF Jobs, Runner, Alone, Pipeline

LEMMA TrainSteps ==
    ASSUME job \in Jobs
    PROVE  /\ job.script = "classic" => TrainAt = 6
           /\ job.script = "lingbot-v2" => TrainAt = 7
           /\ job.script \in Pipeline => TrainAt = 9 /\ job.script \in Trainers /\ job.script \notin Fetches
           /\ job.script \in Fetches => job.script \in Trainers /\ job.script \notin Pipeline
           /\ job.script \in Trainers => job.script \notin {"openpi", "a100"}
BY DEF TrainAt, Pipeline, Trainers, Fetches

(* The run directories are among those that are tracked.                   *)
LEMMA Places ==
    ASSUME NEW j \in Jobs
    PROVE  UploadDir(j) \in Dirs /\ TrainDir(j) \in Dirs
BY DEF Jobs, JobIds, UploadDir, TrainDir, RunDir, RunDirectoryName, Timestamped, Dirs

LEMMA Sorts ==
    ASSUME NEW j \in Jobs
    PROVE  /\ Kind(j) \in {"single", "multi", "dcp"}
           /\ Kind(j) \in StateKinds
           /\ j.script \notin {"classic", "a100"} => Kind(j) = "dcp"
           /\ j.script \in Pipeline => TrainDir(j) = UploadDir(j) /\ UploadDir(j) = RunDir(j)
           /\ j.resume /\ Kind(j) = "single" /\ j.script = "classic" => TrainDir(j) = UploadDir(j)
<1>1. Kind(j) \in {"single", "multi", "dcp"}
  BY DEF Kind
<1>2. j.script \notin {"classic", "a100"} => Kind(j) = "dcp"
  BY DEF Kind
<1>3. j.script \in Pipeline => TrainDir(j) = UploadDir(j) /\ UploadDir(j) = RunDir(j)
  BY DEF TrainDir, UploadDir, Pipeline
<1>4. j.resume /\ Kind(j) = "single" /\ j.script = "classic" => TrainDir(j) = UploadDir(j)
  BY DEF TrainDir, UploadDir, Pipeline
<1> QED BY <1>1, <1>2, <1>3, <1>4 DEF StateKinds
-----------------------------------------------------------------------------
(* Whoever launches it, a job has the settings of one.                     *)
IsJob(j) == /\ j \in Jobs /\ j.script = script
            /\ script = "a100" => ~j.resume /\ ~j.stop
            /\ script = "v1 alone" => j.optIn = "upload"

LEMMA Settings ==
    ASSUME script \in Runner \cup Alone, NEW id \in JobIds, NEW resumeId \in JobIds, NEW resume \in BOOLEAN,
           NEW gpus \in {1, 2}, NEW foreground \in BOOLEAN, NEW stop \in BOOLEAN,
           NEW optIn \in {"no", "failure", "upload"}, NEW tidy \in BOOLEAN,
           script = "a100" => ~resume /\ ~stop,
           script = "v1 alone" => optIn = "upload"
    PROVE  IsJob(Job(id, resumeId, resume, gpus, foreground, stop, optIn, tidy))
BY DEF IsJob, Job, Jobs

LEMMA Launches ==
    ASSUME CloudTyped, Launched, Wizard \/ LaunchJob \/ RunAlone
    PROVE  \E j : Start(j) /\ IsJob(j)
<1> USE CloudAssumption DEF CloudAssumption
<1>1. script \in Runner \cup Alone /\ Gpus \subseteq {1, 2} /\ Runner \cap Alone = {}
  BY DEF Launched, Gpus, Runner, Alone
<1>2. \A k \in RunPrefixes : <<1, k>> \in JobIds
  BY DEF JobIds
<1>3. launches < MaxLaunches => Fresh \in JobIds
  BY DEF JobIds, Fresh, CloudTyped
<1>4. <<1, 0>> \in JobIds
  BY DEF JobIds
<1>5. ASSUME Wizard PROVE \E j : Start(j) /\ IsJob(j)
  <2>1. script \in Runner
    BY <1>5 DEF Wizard
  <2>2. PICK id \in {<<1, k>> : k \in RunPrefixes}, gpus \in Gpus :
           \/ \E new \in {id, Fresh} : Start(Job(new, id, FALSE, gpus, TRUE, TRUE, "no", FALSE))
           \/ Start(Job(id, id, TRUE, gpus, TRUE, TRUE, "no", FALSE))
    BY <1>5 DEF Wizard
  <2>3. id \in JobIds
    BY <1>2
  <2>4. CASE \E new \in {id, Fresh} : Start(Job(new, id, FALSE, gpus, TRUE, TRUE, "no", FALSE))
    <3>1. PICK new \in {id, Fresh} : Start(Job(new, id, FALSE, gpus, TRUE, TRUE, "no", FALSE))
      BY <2>4
    <3>2. new \in JobIds
      BY <3>1, <2>3, <1>3 DEF Start
    <3>3. IsJob(Job(new, id, FALSE, gpus, TRUE, TRUE, "no", FALSE))
      BY <2>1, <2>2, <2>3, <3>2, <1>1, Settings DEF Runner
    <3> QED BY <3>1, <3>3
  <2>5. CASE Start(Job(id, id, TRUE, gpus, TRUE, TRUE, "no", FALSE))
    <3>1. IsJob(Job(id, id, TRUE, gpus, TRUE, TRUE, "no", FALSE))
      BY <2>1, <2>2, <2>3, <1>1, Settings DEF Runner
    <3> QED BY <2>5, <3>1
  <2> QED BY <2>2, <2>4, <2>5
<1>6. ASSUME LaunchJob PROVE \E j : Start(j) /\ IsJob(j)
  <2>1. script \in Runner
    BY <1>6 DEF LaunchJob
  <2>2. PICK resumeId \in {<<1, k>> : k \in RunPrefixes}, id \in {<<1, 0>>, Fresh}, resume \in BOOLEAN,
             gpus \in Gpus, optIn \in {"failure", "upload"} :
           Start(Job(id, resumeId, resume, gpus, FALSE, TRUE, optIn, FALSE))
    BY <1>6 DEF LaunchJob
  <2>3. resumeId \in JobIds /\ id \in JobIds
    BY <2>2, <1>2, <1>3, <1>4 DEF Start
  <2>4. IsJob(Job(id, resumeId, resume, gpus, FALSE, TRUE, optIn, FALSE))
    BY <2>1, <2>2, <2>3, <1>1, Settings DEF Runner
  <2> QED BY <2>2, <2>4
<1>7. ASSUME RunAlone PROVE \E j : Start(j) /\ IsJob(j)
  <2> DEFINE id   == IF script = "a100" THEN Fresh ELSE <<1, 0>>
             stop == script = "v1 alone"
  <2>1. PICK resume \in IF script = "a100" THEN {FALSE} ELSE BOOLEAN, gpus \in Gpus, tidy \in BOOLEAN :
           Start(Job(id, id, resume, gpus, TRUE, stop, "upload", tidy))
    BY <1>7 DEF RunAlone
  <2>2. id \in JobIds /\ resume \in BOOLEAN /\ stop \in BOOLEAN
    BY <2>1, <1>3, <1>4 DEF Start
  <2>3. script = "a100" => ~resume /\ ~stop
    BY <2>1
  <2> HIDE DEF id, stop
  <2>4. gpus \in {1, 2} /\ tidy \in BOOLEAN
    BY <2>1, <1>1
  <2>5. IsJob(Job(id, id, resume, gpus, TRUE, stop, "upload", tidy))
    BY <2>2, <2>3, <2>4, <1>1, Settings
  <2> QED BY <2>1, <2>5
<1> QED BY <1>5, <1>6, <1>7

(* Where the end of a step leads.                                          *)
LEMMA Onward ==
    ASSUME CloudTyped, InStep, Advance
    PROVE  /\ tries' = 1 /\ mem' = -1 /\ term' \in BOOLEAN
           /\ \/ stage' = "step" /\ step' = step + 1 /\ step < Len(Phases) /\ rc' = rc
              \/ /\ stage' = "status" /\ step' = 0 /\ rc' \in {0, 1}
                 /\ rc' = 0 => step = Len(Phases) /\ ~term
<1> USE DEF CloudTyped, InStep, Advance, Leave
<1>1. CASE term
  <2>1. Leave(1) /\ tries' = 1
    BY <1>1, Zenon
  <2>2. stage' = "status" /\ step' = 0 /\ mem' = -1 /\ rc' = 1 /\ term' = FALSE
    BY <2>1
  <2>3. rc' # 0 /\ rc' \in {0, 1}
    BY <2>2
  <2> QED BY <2>1, <2>2, <2>3, Zenon
<1>2. CASE ~term /\ step = Len(Phases)
  BY <1>2
<1>3. CASE ~term /\ step # Len(Phases)
  <2>1. step \in 1..Len(Phases) /\ Len(Phases) \in Int
    OBVIOUS
  <2> QED BY <1>3, <2>1
<1> QED BY <1>1, <1>2, <1>3

LEMMA Writes ==
    ASSUME NEW j \in Jobs, CloudTyped, NEW s \in States
    PROVE  /\ [disk EXCEPT ![UploadDir(j)] = s] \in [Dirs -> States]
           /\ [disk EXCEPT ![TrainDir(j)] = s] \in [Dirs -> States]
           /\ disk[UploadDir(j)] \in States /\ disk[TrainDir(j)] \in States
BY Places DEF CloudTyped

LEMMA Values ==
    ASSUME CloudTyped
    PROVE  /\ \A n \in 0..Target, k \in StateKinds, w \in BOOLEAN : Dir(n, k, w) \in States
           /\ \A s \in States : /\ s.at \in 0..Target /\ s.kind \in StateKinds /\ s.whole \in BOOLEAN
                                /\ [s EXCEPT !.whole = FALSE] \in States /\ [s EXCEPT !.kind = "none"] \in States
BY DEF CloudTyped, Dir, States, StateKinds

LEMMA Records ==
    ASSUME CloudTyped, NEW n \in 0..Target, NEW k \in StateKinds, NEW T \in SUBSET (1..Target)
    PROVE  /\ Repo(n, k, T) \in Repos /\ Repo(n, k, T).at = n
           /\ Repo(n, k, T).kind = k /\ Repo(n, k, T).dcps = T
           /\ repo.dcps \in SUBSET (1..Target) /\ repo.kind \in StateKinds /\ repo.at \in 0..Target
BY DEF Repos, Repo, CloudTyped
-----------------------------------------------------------------------------
(* The greatest of a bounded set of naturals.                              *)
LEMMA Foremost ==
    ASSUME NEW n \in Nat, NEW S \in SUBSET (0..n), S # {}
    PROVE  Max(S) \in S /\ \A x \in S : Max(S) >= x
<1> DEFINE R == OpToRel(<, Nat)
           M == {n - x : x \in S}
<1>1. \A i, j \in Nat : j < i => <<j, i>> \in R
  BY Zenon DEF OpToRel
<1>2. IsWellFoundedOn(R, Nat)
  BY NatLessThanWellFounded
<1> HIDE DEF R
<1>3. PICK x \in S : TRUE
  OBVIOUS
<1>4. n - x \in M /\ M \in SUBSET Nat
  OBVIOUS
<1>5. PICK m \in M : \A k \in M : <<k, m>> \notin R
  BY <1>2, <1>4, WFMin
<1>6. PICK y \in S : m = n - y
  BY <1>5
<1>7. ASSUME NEW z \in S PROVE y >= z
  <2>1. ~(n - z < n - y)
    BY <1>1, <1>4, <1>5, <1>6
  <2> QED BY <2>1
<1> QED BY <1>7 DEF Max

(* What a resume would download.                                           *)
LEMMA Downloadable ==
    ASSUME CloudTyped
    PROVE  /\ Content \in States
           /\ job.script = "classic" => Content = Dir(repo.at, repo.kind, TRUE)
           /\ job.script # "classic" => Content.kind \in {"none", "dcp"} /\ (Content.kind = "dcp" => Content.at > 0)
<1> USE CloudAssumption DEF CloudAssumption
<1>1. repo.at \in 0..Target /\ repo.kind \in StateKinds /\ repo.dcps \in SUBSET (1..Target)
  BY DEF CloudTyped, Repos
<1>2. repo.dcps # {} => NewestOf(repo.dcps) \in 1..Target
  <2>1. SUFFICES ASSUME repo.dcps # {} PROVE NewestOf(repo.dcps) \in 1..Target
    OBVIOUS
  <2>2. repo.dcps \in SUBSET (0..Target) /\ Target \in Nat
    BY <1>1
  <2>3. Max(repo.dcps) \in repo.dcps
    BY <2>1, <2>2, Foremost
  <2> QED BY <1>1, <2>1, <2>3 DEF NewestOf
<1>3. repo.dcps = {} => NewestOf(repo.dcps) = 0
  BY DEF NewestOf
<1>4. NewestOf(repo.dcps) \in 0..Target
  BY <1>2, <1>3
<1>5. "none" \in StateKinds /\ "dcp" \in StateKinds
  BY DEF StateKinds
<1>6. CASE job.script = "classic"
  BY <1>1, <1>6, Values DEF Content, Dir
<1>7. CASE job.script # "classic"
  <2>1. Content = Dir(NewestOf(repo.dcps), IF repo.dcps = {} THEN "none" ELSE "dcp", TRUE)
    BY <1>7 DEF Content
  <2>2. (IF repo.dcps = {} THEN "none" ELSE "dcp") \in StateKinds
    BY <1>5
  <2>3. Content \in States
    BY <2>1, <2>2, <1>4, Values
  <2>4. /\ Content.kind = IF repo.dcps = {} THEN "none" ELSE "dcp"
        /\ Content.at = NewestOf(repo.dcps)
    BY <2>1 DEF Dir
  <2>5. repo.dcps = {} => Content.kind = "none"
    BY <2>4
  <2>6. repo.dcps # {} => Content.kind = "dcp" /\ Content.at > 0
    BY <2>4, <1>2
  <2> QED BY <2>3, <2>5, <2>6, <1>7
<1> QED BY <1>6, <1>7

(* What an upload leaves, script by script.                                *)
Uploaded ==
    \/ /\ job.script \in Pipeline /\ step = 12 /\ Here = Trained
       /\ repo' = Repo(Target, "weights", repo.dcps)
    \/ /\ job.script \in Pipeline /\ step = 13 /\ Here = Trained
       /\ repo' = Repo(repo.at, repo.kind, repo.dcps \cup {Target})
    \/ job.script \notin Pipeline /\ Name = "upload" /\ Here.kind = "none" /\ repo' = repo
    \/ /\ job.script \notin Pipeline /\ Name = "upload" /\ Here.kind \notin {"none", "absent"}
       /\ Here \in States /\ Here.at \in 1..Target
       /\ \/ job.script = "lingbot-v2" /\ repo' = Repo(Here.at, repo.kind, repo.dcps \cup {Here.at})
          \/ job.script = "a100" /\ repo' = Repo(Here.at, "weights", repo.dcps)
          \/ job.script = "classic" /\ repo' = Repo(Here.at, Here.kind, repo.dcps)

LEMMA Running ==
    ASSUME CloudInv, InStep
    PROVE  /\ job \in Jobs /\ job.script = script /\ job # NoJob /\ step \in 1..Len(Phases)
           /\ UploadDir(job) \in Dirs /\ TrainDir(job) \in Dirs /\ Here \in States
           /\ Here.kind \notin {"absent", "none"} => Here.at \in 1..Target
           /\ job.script \in Pipeline => Fits
<1>1. job \in Jobs /\ job.script = script /\ job # NoJob /\ step \in 1..Len(Phases)
  BY DEF CloudInv, CloudTyped, Launched, InStep
<1>2. UploadDir(job) \in Dirs /\ TrainDir(job) \in Dirs /\ Here \in States
  BY <1>1, Places DEF CloudInv, CloudTyped, Here
<1>3. Here.kind \notin {"absent", "none"} => Here.at \in 1..Target
  BY <1>2, CloudAssumption DEF CloudInv, Progress, Here, States, CloudAssumption
<1>4. job.script \in Pipeline => Fits
  BY <1>1, Sorts DEF Fits, Pipeline
<1> QED BY <1>1, <1>2, <1>3, <1>4

LEMMA Uploads ==
    ASSUME CloudInv, InStep, Name \in Publishing, Here.kind # "absent", repo' = Committed
    PROVE  Uploaded
<1>1. job \in Jobs /\ job.script = script /\ step \in 1..Len(Phases) /\ Here \in States
  BY Running
<1>2. CASE job.script \in Pipeline
  <2>1. (Name = "final" /\ step = 12) \/ (Name = "dcp" /\ step = 13)
    <3>1. /\ Name # "upload"
          /\ Name = "final" => step = 12
          /\ Name = "dcp" => step = 13
      BY <1>1, <1>2, Order
    <3>2. Name \in {"final", "dcp", "upload"}
      BY DEF Publishing
    <3> QED BY <3>1, <3>2
  <2>2. step > TrainAt /\ script \in Trainers
    BY <2>1, <1>1, <1>2, TrainSteps
  <2>3. Here = Trained
    BY <2>2, <1>1, <1>2, Running DEF CloudInv, Published
  <2>4. Here.at = Target
    BY <2>3 DEF Trained, Dir
  <2> QED BY <2>1, <2>3, <2>4, <1>2 DEF Uploaded, Committed, Here
<1>3. CASE job.script \notin Pipeline
  <2>1. Name = "upload" /\ Name # "final" /\ Name # "dcp"
    BY <1>1, <1>3, Order DEF Publishing
  <2>2. job.script \in {"classic", "lingbot-v2", "a100"}
    BY <2>1, <1>1, <1>3, OpenpiOrder DEF Jobs, Runner, Alone, Pipeline
  <2>3. Here.kind = "none" => repo' = repo
    BY <2>1 DEF Committed, Here
  <2>4. Here.kind # "none" => Here.at \in 1..Target
    BY Running
  <2>5. Here.kind # "none" /\ job.script = "lingbot-v2" => repo' = Repo(Here.at, repo.kind, repo.dcps \cup {Here.at})
    BY <2>1 DEF Committed, Here
  <2>6. Here.kind # "none" /\ job.script = "a100" => repo' = Repo(Here.at, "weights", repo.dcps)
    BY <2>1 DEF Committed, Here
  <2>7. Here.kind # "none" /\ job.script = "classic" => repo' = Repo(Here.at, Here.kind, repo.dcps)
    BY <2>1 DEF Committed, Here
  <2> QED BY <2>1, <2>2, <2>3, <2>4, <2>5, <2>6, <2>7, <1>1, <1>3 DEF Uploaded
<1> QED BY <1>2, <1>3

(* What a failed or cut command leaves.                                    *)
LEMMA Left ==
    ASSUME CloudInv, InStep, Leftovers
    PROVE  \/ disk' = disk /\ repo' = repo
           \/ /\ Name = "resume" /\ ~SkipsResume /\ repo' = repo
              /\ Content.kind # "none" /\ disk' = [disk EXCEPT ![UploadDir(job)] = Torn]
           \/ Uploaded /\ disk' = disk
<1>1. CASE UNCHANGED <<disk, repo>>
  BY <1>1
<1>2. CASE /\ At("resume") /\ ~SkipsResume /\ Content.kind # "none"
           /\ disk' = [disk EXCEPT ![UploadDir(job)] = Torn]
           /\ UNCHANGED repo
  BY <1>2 DEF At
<1>3. CASE /\ Name \in Publishing /\ disk[UploadDir(job)].kind # "absent"
           /\ repo' = Committed
           /\ UNCHANGED disk
  BY <1>3, Uploads DEF Here
<1> QED BY <1>1, <1>2, <1>3 DEF Leftovers

LEMMA UploadTyped ==
    ASSUME CloudInv, InStep, Uploaded
    PROVE  /\ repo' \in Repos
           /\ repo'.kind \notin {"absent", "none"} => repo'.at > 0
           /\ repo.dcps \subseteq repo'.dcps
<1> USE CloudAssumption DEF CloudAssumption
<1>1. /\ repo \in Repos
      /\ repo.kind \notin {"absent", "none"} => repo.at > 0
  BY DEF CloudInv, CloudTyped, Progress
<1>2. "weights" \in StateKinds /\ Target \in 1..Target
  BY DEF StateKinds
<1>3. Here \in States => Here.kind \in StateKinds
  BY DEF States
<1>4. CASE repo' = repo
  BY <1>1, <1>4
<1>5. ASSUME NEW n \in 1..Target, NEW k \in StateKinds, NEW T \in SUBSET (1..Target),
             repo.dcps \subseteq T, repo' = Repo(n, k, T) \/ repo' = Repo(repo.at, repo.kind, T)
      PROVE  /\ repo' \in Repos
             /\ repo'.kind \notin {"absent", "none"} => repo'.at > 0
             /\ repo.dcps \subseteq repo'.dcps
  <2>1. CASE repo' = Repo(n, k, T)
    BY <1>5, <2>1, Records DEF CloudInv
  <2>2. CASE repo' = Repo(repo.at, repo.kind, T)
    BY <1>1, <1>5, <2>2, Records DEF CloudInv
  <2> QED BY <1>5, <2>1, <2>2
<1>6. repo.dcps \in SUBSET (1..Target) /\ repo.kind \in StateKinds
  BY <1>1 DEF Repos
<1>7. Here \in States /\ Here.at \in 1..Target =>
          Here.kind \in StateKinds /\ repo.dcps \cup {Here.at} \in SUBSET (1..Target)
  BY <1>3, <1>6
<1>8. repo.dcps \cup {Target} \in SUBSET (1..Target)
  BY <1>2, <1>6
<1> QED BY <1>2, <1>4, <1>5, <1>6, <1>7, <1>8 DEF Uploaded
-----------------------------------------------------------------------------
(* What the steps of a running script have in common.                      *)
LEMMA Works ==
    ASSUME CloudInv, Steady
    PROVE  /\ InStep /\ script' = script /\ job' = job /\ instance' = instance
           /\ told' = told /\ launches' = launches
           /\ status' = status \/ (job.script \in Runner /\ status' = [state |-> "running", phase |-> Name])
<1> USE DEF Frame, counts
<1>1. CASE Prepare
  BY <1>1 DEF Prepare, Announce
<1>2. CASE Download
  BY <1>2 DEF Download, Announce, At
<1>3. CASE Norm
  BY <1>3 DEF Norm, Announce, At
<1>4. CASE Load
  BY <1>4 DEF Load, Announce, At
<1>5. CASE MakeRoom \/ TrainEpoch \/ TrainEnd
  BY <1>5 DEF MakeRoom, TrainEpoch, TrainEnd, At
<1>6. CASE InStep /\ Check
  BY <1>6 DEF Check, Announce
<1>7. CASE Publish
  BY <1>7 DEF Publish, Announce
<1>8. CASE Cleanup \/ Verify \/ Local
  BY <1>8 DEF Cleanup, Verify, Local, At
<1>9. CASE Delegate
  BY <1>9 DEF Delegate, Announce, At
<1> QED BY <1>1, <1>2, <1>3, <1>4, <1>5, <1>6, <1>7, <1>8, <1>9 DEF Steady

(* All but the loading and the epochs end their step.                      *)
Trains == MakeRoom \/ TrainEpoch
Loads == At("train") /\ mem = -1 /\ mem' = LoadState /\ ~(job.resume /\ Kind(job) = "single" /\ ~Loadable(UploadDir(job)))
         /\ UNCHANGED <<stage, step, tries, rc, term, upload, disk, repo>>
LEMMA Ends ==
    ASSUME CloudInv, Steady
    PROVE  \/ Advance \/ Loads \/ Trains
BY DEF Steady, Prepare, Download, Norm, Load, Loads, Trains, TrainEnd, Check, Publish, Cleanup, Verify, Local, Delegate

(* Neither ends the step.                                                  *)
LEMMA Lasting ==
    ASSUME Loads \/ Trains
    PROVE  InStep /\ Name = "train" /\ step' = step /\ repo' = repo /\ upload' = upload
<1>1. CASE Loads
  BY <1>1 DEF Loads, At
<1>2. CASE MakeRoom
  BY <1>2 DEF MakeRoom, At
<1>3. CASE TrainEpoch
  BY <1>3 DEF TrainEpoch, At
<1> QED BY <1>1, <1>2, <1>3 DEF Trains

LEMMA Remembers ==
    ASSUME Trains
    PROVE  mem # -1 /\ mem' # -1
<1> USE CloudAssumption DEF CloudAssumption
<1>1. CASE MakeRoom
  BY <1>1 DEF MakeRoom
<1>2. CASE TrainEpoch
  BY <1>2 DEF TrainEpoch
<1> QED BY <1>1, <1>2 DEF Trains

LEMMA EndTyped ==
    ASSUME CloudTyped, InStep, Advance, disk' \in [Dirs -> States], repo' \in Repos,
           upload' \in {"not_started", "success", "disabled"}, job' = job, told' = told, launches' = launches,
           status' = status \/ status' = [state |-> "running", phase |-> Name]
    PROVE  CloudTyped'
<1>1. /\ tries' \in Nat \ {0} /\ mem' \in -1..Target /\ term' \in BOOLEAN /\ rc' \in {0, 1}
      /\ stage' \in {"status", "step"} /\ (stage' = "step" => step' \in 1..Len(Phases))
  BY Onward, CloudAssumption DEF CloudTyped, CloudAssumption, InStep
<1>2. status' = [state |-> status'.state, phase |-> status'.phase]
      /\ status'.state \in {"none", "running", "success", "failed"}
  BY DEF CloudTyped
<1> QED BY <1>1, <1>2 DEF CloudTyped, InStep, Phases, Exits

LEMMA SteadyTyped ==
    ASSUME CloudInv, Steady
    PROVE  CloudTyped'
<1> USE CloudAssumption DEF CloudAssumption
<1>1. /\ InStep /\ job' = job /\ told' = told /\ launches' = launches
      /\ status' = status \/ status' = [state |-> "running", phase |-> Name]
  BY Works
<1>2. job \in Jobs /\ Here \in States /\ CloudTyped
  BY <1>1, Running DEF CloudInv
<1>3. disk \in [Dirs -> States] /\ repo \in Repos /\ upload \in {"not_started", "success", "disabled"}
  BY <1>2 DEF CloudTyped
<1>4. CASE Prepare \/ (InStep /\ Check) \/ Verify
  <2>1. Advance /\ disk' = disk /\ repo' = repo /\ upload' = upload
    BY <1>4 DEF Prepare, Check, Verify
  <2> QED BY <1>1, <1>2, <1>3, <2>1, EndTyped
<1>5. CASE Download
  <2>1. Advance /\ repo' = repo /\ upload' = upload
        /\ (disk' = disk \/ disk' = [disk EXCEPT ![UploadDir(job)] = Content])
    BY <1>5 DEF Download
  <2>2. disk' \in [Dirs -> States]
    BY <2>1, <1>2, <1>3, Writes, Downloadable
  <2> QED BY <1>1, <1>2, <1>3, <2>1, <2>2, EndTyped
<1>6. CASE Norm
  <2>1. Advance /\ repo' = repo /\ upload' = upload
        /\ (disk' = disk \/ disk' = [disk EXCEPT ![UploadDir(job)].kind = "none"])
    BY <1>6 DEF Norm
  <2>2. [disk EXCEPT ![UploadDir(job)].kind = "none"] = [disk EXCEPT ![UploadDir(job)] = [Here EXCEPT !.kind = "none"]]
    BY DEF Here
  <2>3. [Here EXCEPT !.kind = "none"] \in States
    BY <1>2, Values
  <2>4. disk' \in [Dirs -> States]
    BY <2>1, <2>2, <2>3, <1>2, <1>3, Writes
  <2> QED BY <1>1, <1>2, <1>3, <2>1, <2>4, EndTyped
<1>7. CASE Load
  <2>1. CASE Advance
    <3>1. disk' = disk /\ repo' = repo /\ upload' = upload
      BY <1>7 DEF Load
    <3> QED BY <1>1, <1>2, <1>3, <2>1, <3>1, EndTyped
  <2>2. CASE Loads
    <3>1. LoadState \in 0..Target
      <4>1. disk[UploadDir(job)].at \in 0..Target /\ 0 \in 0..Target
        BY <1>2 DEF Here, States
      <4> QED BY <4>1 DEF LoadState, LoadFresh
    <3>2. /\ status' = [state |-> status'.state, phase |-> status'.phase]
          /\ status'.state \in {"none", "running", "success", "failed"}
      BY <1>1, <1>2 DEF CloudTyped
    <3>3. UNCHANGED <<stage, step, tries, rc, term, upload, disk, repo>> /\ mem' = LoadState
      BY <2>2 DEF Loads
    <3>4. mem' \in -1..Target
      BY <3>1, <3>3
    <3> QED BY <1>1, <1>2, <3>2, <3>3, <3>4 DEF CloudTyped, InStep, Phases
  <2> QED BY <1>7, <2>1, <2>2 DEF Load, Loads
<1>8. CASE Trains
  <2>1. mem + 1 \in 0..Target /\ mem + 1 \in -1..Target /\ mem \in -1..Target
    <3>1. mem \in 0..Target - 1
      BY <1>8 DEF Trains, MakeRoom, TrainEpoch
    <3> QED BY <3>1
  <2>2. Dir(mem + 1, Kind(job), TRUE) \in States /\ Partial \in States
    BY <1>2, <2>1, Values, Sorts DEF Partial
  <2>3. disk' = [disk EXCEPT ![TrainDir(job)] = Partial] \/ disk' = [disk EXCEPT ![TrainDir(job)] = Dir(mem + 1, Kind(job), TRUE)]
    BY <1>8 DEF Trains, MakeRoom, TrainEpoch
  <2>4. disk' \in [Dirs -> States]
    BY <1>2, <2>2, <2>3, Writes
  <2>5. mem' \in -1..Target /\ UNCHANGED <<stage, step, tries, rc, term, upload, status, repo>>
    BY <1>8, <2>1 DEF Trains, MakeRoom, TrainEpoch
  <2> QED BY <1>1, <1>2, <2>4, <2>5 DEF CloudTyped, InStep, Phases
<1>9. CASE TrainEnd
  <2>1. Advance /\ disk' = disk /\ repo' = repo /\ upload' = upload
    BY <1>9 DEF TrainEnd
  <2> QED BY <1>1, <1>2, <1>3, <2>1, EndTyped
<1>10. CASE Publish
  <2>1. /\ Advance /\ disk' = disk /\ upload' \in {"not_started", "success", "disabled"}
        /\ Name \in Publishing /\ Here.kind # "absent" /\ repo' = Committed
    BY <1>3, <1>10 DEF Publish, Here
  <2>2. repo' \in Repos
    BY <1>1, <2>1, Uploads, UploadTyped
  <2> QED BY <1>1, <1>2, <1>3, <2>1, <2>2, EndTyped
<1>11. CASE Cleanup
  <2>1. Advance /\ disk' = disk /\ upload' = upload
        /\ repo' = Repo(repo.at, repo.kind, repo.dcps \cap {Here.at})
    BY <1>11 DEF Cleanup, Here
  <2>2. repo' \in Repos
    <3>1. repo.dcps \cap {Here.at} \in SUBSET (1..Target)
      BY <1>3 DEF Repos
    <3>2. repo.at \in 0..Target /\ repo.kind \in StateKinds
      BY <1>3 DEF Repos
    <3> QED BY <2>1, <3>1, <3>2, <1>2, Records
  <2> QED BY <1>1, <1>2, <1>3, <2>1, <2>2, EndTyped
<1>12. CASE Local
  <2>1. Advance /\ repo' = repo /\ upload' \in {"not_started", "success", "disabled"}
    BY <1>3, <1>12 DEF Local
  <2>2. Name = "local" /\ job.script \in Pipeline
    BY <1>1, <1>12, Running, Order DEF Local, At
  <2>3. UploadDir(job) = RunDir(job)
    BY <1>2, <2>2, Sorts
  <2>4. Dir(0, "none", TRUE) \in States
    <3>1. "none" \in StateKinds /\ 0 \in 0..Target
      BY DEF StateKinds
    <3> QED BY <3>1, <1>2, Values
  <2>5. disk' = disk \/ disk' = [disk EXCEPT ![UploadDir(job)] = Dir(0, "none", TRUE)]
    BY <2>3, <1>12 DEF Local
  <2>6. disk' \in [Dirs -> States]
    BY <2>4, <2>5, <1>2, <1>3, Writes
  <2> QED BY <1>1, <1>2, <1>3, <2>1, <2>6, EndTyped
<1>13. CASE Delegate
  <2>1. PICK auto \in BOOLEAN : /\ repo' = IF auto THEN [repo EXCEPT !.at = Target] ELSE repo
                                /\ upload' = IF term THEN upload ELSE IF auto THEN "success" ELSE "disabled"
    BY <1>13 DEF Delegate
  <2>2. [repo EXCEPT !.at = Target] \in Repos
    BY <1>3 DEF Repos
  <2>3. Advance /\ disk' = disk
    BY <1>13 DEF Delegate
  <2>4. repo' \in Repos
    BY <1>3, <2>1, <2>2
  <2>5. upload' \in {"not_started", "success", "disabled"}
    BY <1>3, <2>1, Zenon
  <2> QED BY <1>1, <1>2, <1>3, <2>3, <2>4, <2>5, EndTyped
<1> QED BY <1>4, <1>5, <1>6, <1>7, <1>8, <1>9, <1>10, <1>11, <1>12, <1>13 DEF Steady, Trains
(* The other actions: launches, failures and signals, the exit handler.    *)
LEMMA TornState ==
    ASSUME CloudInv
    PROVE  Torn \in States /\ Torn.kind = Content.kind /\ Torn.at = Content.at /\ Torn.whole = FALSE
BY Downloadable DEF CloudInv, Torn, States

LEMMA LeftTyped ==
    ASSUME CloudInv, InStep, Leftovers
    PROVE  disk' \in [Dirs -> States] /\ repo' \in Repos
<1>1. job \in Jobs /\ CloudTyped /\ disk \in [Dirs -> States] /\ repo \in Repos
  BY Running DEF CloudInv, CloudTyped
<1>2. CASE disk' = disk /\ repo' = repo
  BY <1>1, <1>2
<1>3. CASE repo' = repo /\ disk' = [disk EXCEPT ![UploadDir(job)] = Torn]
  BY <1>1, <1>3, TornState, Writes
<1>4. CASE Uploaded /\ disk' = disk
  BY <1>1, <1>4, UploadTyped
<1> QED BY <1>2, <1>3, <1>4, Left

(* A signal, a failure or a preemption ends the script or leaves it where  *)
(* it is.                                                                  *)
Breaks == Fail \/ Interrupt \/ SignalInExit \/ Preempt
LEMMA Broken ==
    ASSUME CloudInv, Breaks
    PROVE  /\ script' = script /\ job' = job /\ upload' = upload /\ launches' = launches
           /\ instance' = instance \/ (instance' = "down" /\ stage' = "idle")
           /\ IF InStep THEN Leftovers ELSE disk' = disk /\ repo' = repo
           /\ status' = status \/ (InStep /\ job.script \in Runner /\ status' = [state |-> "running", phase |-> Name])
           /\ \/ Fail /\ InStep /\ stage' = "step" /\ step' = step /\ mem' = mem /\ tries' = tries + 1 /\ rc' = rc
                  /\ tries < Phases[step][2]
              \/ InStep /\ stage' = "status" /\ mem' = -1 /\ tries' = 1 /\ rc' = 1
              \/ stage' = "idle" /\ (mem' = -1 \/ (mem' = mem /\ ~InStep)) /\ tries' \in {1, tries} /\ rc' = rc
           /\ told' \in {told, 1} /\ term' \in {FALSE, term}
<1> USE DEF counts
<1>1. CASE Fail
  <2>1. /\ InStep /\ Leftovers /\ script' = script /\ job' = job /\ upload' = upload /\ launches' = launches
        /\ instance' = instance /\ told' \in {told, 1}
        /\ status' = status \/ (job.script \in Runner /\ status' = [state |-> "running", phase |-> Name])
    BY <1>1 DEF Fail, Announce
  <2>2. CASE tries < Phases[step][2] /\ ~term
    <3>1. tries' = tries + 1 /\ UNCHANGED <<stage, step, mem, rc, term>>
      BY <1>1, <2>2 DEF Fail
    <3>2. tries < Phases[step][2] /\ stage' = "step"
      BY <2>1, <2>2, <3>1 DEF InStep
    <3>3. step' = step /\ mem' = mem /\ rc' = rc /\ term' = term
      BY <3>1
    <3> QED BY <1>1, <2>1, <3>1, <3>2, <3>3
  <2>3. CASE ~(tries < Phases[step][2] /\ ~term)
    <3>1. tries' = 1 /\ Leave(1)
      BY <1>1, <2>3 DEF Fail
    <3> QED BY <2>1, <3>1 DEF Leave
  <2> QED BY <2>2, <2>3
<1>2. CASE Interrupt
  BY <1>2 DEF Interrupt, Leave
<1>3. CASE SignalInExit
  <2>1. ~InStep
    BY <1>3 DEF SignalInExit, Exits, InStep
  <2> QED BY <1>3, <2>1 DEF SignalInExit
<1>4. CASE Preempt
  <2>1. instance' = "down" /\ stage' = "idle" /\ mem' = -1 /\ tries' = 1 /\ term' = FALSE /\ rc' = rc
        /\ script' = script /\ job' = job /\ upload' = upload /\ launches' = launches /\ told' = told /\ status' = status
    BY <1>4 DEF Preempt
  <2>2. IF InStep THEN Leftovers ELSE disk' = disk /\ repo' = repo
    BY <1>4 DEF Preempt
  <2>3. tries' \in {1, tries} /\ told' \in {told, 1} /\ term' \in {FALSE, term}
    BY <2>1, Zenon
  <2> QED BY <2>1, <2>2, <2>3, Zenon
<1> QED BY <1>1, <1>2, <1>3, <1>4 DEF Breaks

(* Every action keeps the types.                                           *)
LEMMA CloudTypedKept ==
    ASSUME CloudInv, CloudNext \/ UNCHANGED cloudVars
    PROVE  CloudTyped'
<1> USE CloudAssumption DEF CloudAssumption, counts
<1>1. CloudTyped
  BY DEF CloudInv
<1>2. CASE Bootstrap \/ SyncWorkingTree \/ Return \/ UNCHANGED cloudVars
  BY <1>1, <1>2 DEF Bootstrap, SyncWorkingTree, Return, cloudVars, CloudTyped, InStep, Phases
<1>3. CASE Terminate
  BY <1>1, <1>3 DEF Terminate, CloudTyped, InStep, Phases
<1>4. CASE Wizard \/ LaunchJob \/ RunAlone
  <2>1. PICK j : Start(j) /\ IsJob(j)
    BY <1>4, Launches DEF CloudInv
  <2>2. Len(Phases') >= 1 /\ Len(Phases') \in Int
    <3>1. job' \in Jobs
      BY <2>1 DEF Start, IsJob
    <3> QED BY <3>1, SomePhase DEF Phases
  <2>3. /\ stage' = "step" /\ step' = 1 /\ tries' = 1 /\ mem' = -1 /\ upload' = "not_started"
        /\ disk' = disk /\ repo' = repo /\ rc' = 0 /\ told' = 0 /\ term' = FALSE /\ launches' = launches + 1
    BY <2>1 DEF Start
  <2>4. status' = [state |-> status'.state, phase |-> status'.phase]
        /\ status'.state \in {"none", "running", "success", "failed"}
    BY <2>1 DEF Start
  <2>5. step' \in 1..Len(Phases')
    BY <2>2, <2>3
  <2>6. /\ mem' \in -1..Target /\ rc' \in {0, 1} /\ told' \in {0, 1}
        /\ launches' \in Nat /\ tries' \in Nat \ {0}
    BY <1>1, <2>3 DEF CloudTyped
  <2>7. term' \in BOOLEAN
    BY <2>3, Zenon
  <2> QED BY <1>1, <2>3, <2>4, <2>5, <2>6, <2>7 DEF CloudTyped, InStep
<1>5. CASE Steady
  BY <1>5, SteadyTyped
<1>6. CASE Breaks
  <2>1. /\ IF InStep THEN Leftovers ELSE disk' = disk /\ repo' = repo
        /\ upload' = upload /\ launches' = launches /\ job' = job
        /\ told' \in {told, 1} /\ term' \in {FALSE, term}
    BY <1>6, Broken
  <2>2. disk' \in [Dirs -> States] /\ repo' \in Repos
    BY <1>1, <2>1, LeftTyped DEF CloudTyped
  <2>3. status' = [state |-> status'.state, phase |-> status'.phase]
        /\ status'.state \in {"none", "running", "success", "failed"}
    BY <1>1, <1>6, Broken DEF CloudTyped
  <2>4. /\ stage' \in {"step", "status", "idle"}
        /\ stage' = "step" => stage = "step" /\ step' = step
        /\ tries' \in Nat \ {0} /\ mem' \in -1..Target /\ rc' \in {0, 1}
    BY <1>1, <1>6, Broken DEF CloudTyped, InStep
  <2>5. term' \in BOOLEAN /\ told' \in {0, 1}
    BY <1>1, <2>1 DEF CloudTyped
  <2> QED BY <1>1, <2>1, <2>2, <2>3, <2>4, <2>5 DEF CloudTyped, InStep, Phases, Exits
<1>7. CASE ExitStatus
  <2>1. status' = [state |-> status'.state, phase |-> status'.phase]
        /\ status'.state \in {"none", "running", "success", "failed"}
    BY <1>1, <1>7 DEF ExitStatus, ExitState, CloudTyped
  <2> QED BY <1>1, <1>7, <2>1 DEF ExitStatus, Rest, CloudTyped, InStep, Phases, Exits
<1>8. CASE ExitNotify
  BY <1>1, <1>8 DEF ExitNotify, FailNotified, Rest, CloudTyped, InStep, Phases, Exits
<1>9. CASE ExitStop
  BY <1>1, <1>9 DEF ExitStop, Rest, CloudTyped, InStep, Phases, Exits
<1> QED BY <1>2, <1>3, <1>4, <1>5, <1>6, <1>7, <1>8, <1>9 DEF CloudNext, Script, Breaks
-----------------------------------------------------------------------------
(* All that ever happens to the disk and to the repository.                *)
Downloads == /\ InStep /\ Name = "resume" /\ ~SkipsResume /\ repo' = repo
             /\ disk' \in {[disk EXCEPT ![UploadDir(job)] = s] : s \in {Content, Torn}}
Makes     == /\ InStep /\ Name = "norm" /\ job.script = "lingbot-v2" /\ Here.kind = "absent" /\ repo' = repo
             /\ disk' = [disk EXCEPT ![UploadDir(job)] = [Here EXCEPT !.kind = "none"]]
Saves     == /\ InStep /\ Name = "train" /\ repo' = repo /\ mem \in 0..Target - 1
             /\ \/ disk' = [disk EXCEPT ![TrainDir(job)] = Partial]
                \/ /\ disk[TrainDir(job)] = Partial
                   /\ disk' = [disk EXCEPT ![TrainDir(job)] = Dir(mem + 1, Kind(job), TRUE)]
Tidies    == /\ InStep /\ job.script \in Pipeline /\ step = 16 /\ repo' = repo
             /\ disk' = [disk EXCEPT ![UploadDir(job)] = Dir(0, "none", TRUE)]
Prunes    == /\ InStep /\ job.script \in Pipeline /\ step = 14 /\ disk' = disk
             /\ repo' = Repo(repo.at, repo.kind, repo.dcps \cap {Here.at})
Hands     == InStep /\ job.script = "openpi" /\ disk' = disk /\ repo' = [repo EXCEPT !.at = Target]
Keeps     == disk' = disk /\ repo' = repo

LEMMA Changes ==
    ASSUME CloudInv, CloudNext \/ UNCHANGED cloudVars
    PROVE  Keeps \/ Downloads \/ Makes \/ Saves \/ Tidies \/ Prunes \/ Hands \/ (InStep /\ Uploaded /\ disk' = disk)
<1> USE CloudAssumption DEF CloudAssumption
<1>1. CASE UNCHANGED cloudVars \/ Bootstrap \/ SyncWorkingTree \/ Return \/ Terminate
  BY <1>1 DEF cloudVars, Bootstrap, SyncWorkingTree, Return, Terminate, Keeps
<1>2. CASE Wizard \/ LaunchJob \/ RunAlone
  BY <1>2, Launches DEF CloudInv, Start, Keeps
<1>3. CASE ExitStatus \/ ExitNotify \/ ExitStop
  BY <1>3 DEF ExitStatus, ExitNotify, ExitStop, Rest, Keeps
<1>4. CASE Breaks
  <2>1. CASE InStep
    <3>1. Leftovers
      BY <1>4, <2>1, Broken
    <3>2. CASE disk' = disk /\ repo' = repo
      BY <3>2 DEF Keeps
    <3>3. CASE /\ Name = "resume" /\ ~SkipsResume /\ repo' = repo
               /\ Content.kind # "none" /\ disk' = [disk EXCEPT ![UploadDir(job)] = Torn]
      BY <2>1, <3>3 DEF Downloads
    <3>4. CASE Uploaded /\ disk' = disk
      BY <2>1, <3>4
    <3> QED BY <2>1, <3>1, <3>2, <3>3, <3>4, Left
  <2>2. CASE ~InStep
    BY <1>4, <2>2, Broken DEF Keeps
  <2> QED BY <2>1, <2>2
<1>5. ASSUME Steady
      PROVE  Keeps \/ Downloads \/ Makes \/ Saves \/ Tidies \/ Prunes \/ Hands \/ (InStep /\ Uploaded /\ disk' = disk)
  <2>1. InStep /\ job \in Jobs /\ step \in 1..Len(Phases) /\ CloudTyped
    BY <1>5, Works, Running DEF CloudInv
  <2>2. CASE Prepare \/ (InStep /\ Check) \/ Verify \/ Load
    BY <2>2 DEF Prepare, Check, Verify, Load, Keeps
  <2>3. CASE Download
    BY <2>3 DEF Download, Downloads, Keeps, At
  <2>4. CASE Norm
    <3>1. [disk EXCEPT ![UploadDir(job)].kind = "none"] = [disk EXCEPT ![UploadDir(job)] = [Here EXCEPT !.kind = "none"]]
      BY DEF Here
    <3> QED BY <2>4, <3>1 DEF Norm, Makes, Keeps, At, Here
  <2>5. CASE Trains
    BY <2>5 DEF Trains, MakeRoom, TrainEpoch, Saves, At
  <2>6. CASE TrainEnd
    BY <2>6 DEF TrainEnd, Keeps
  <2>7. CASE Publish
    <3>1. disk' = disk /\ Name \in Publishing /\ Here.kind # "absent" /\ repo' = Committed
      BY <2>7 DEF Publish, Here
    <3> QED BY <2>1, <3>1, Uploads
  <2>8. CASE Cleanup
    <3>1. job.script \in Pipeline /\ step = 14
      BY <2>1, <2>8, Order DEF Cleanup, At
    <3> QED BY <2>1, <2>8, <3>1 DEF Cleanup, Prunes, Here
  <2>9. CASE Local
    <3>1. job.script \in Pipeline /\ step = 16
      BY <2>1, <2>9, Order DEF Local, At
    <3>2. UploadDir(job) = RunDir(job)
      BY <2>1, <3>1, Sorts
    <3> QED BY <2>1, <2>9, <3>1, <3>2 DEF Local, Tidies, Keeps
  <2>10. CASE Delegate
    <3>1. job.script = "openpi" /\ disk' = disk
      BY <2>1, <2>10, Order DEF Delegate, At
    <3>2. repo' = repo \/ repo' = [repo EXCEPT !.at = Target]
      BY <2>10 DEF Delegate
    <3> QED BY <2>1, <3>1, <3>2 DEF Hands, Keeps
  <2> QED BY <1>5, <2>2, <2>3, <2>4, <2>5, <2>6, <2>7, <2>8, <2>9, <2>10 DEF Steady, Trains
<1> QED BY <1>1, <1>2, <1>3, <1>4, <1>5 DEF CloudNext, Script, Breaks

(* Nothing is saved or published before there is something to save.        *)
LEMMA ProgressKept ==
    ASSUME CloudInv, CloudNext \/ UNCHANGED cloudVars
    PROVE  Progress'
<1> USE CloudAssumption DEF CloudAssumption
<1>1. /\ \A d \in Dirs : disk[d].kind \notin {"absent", "none"} => disk[d].at > 0
      /\ repo.kind \notin {"absent", "none"} => repo.at > 0
      /\ disk \in [Dirs -> States] /\ repo \in Repos /\ CloudTyped
  BY DEF CloudInv, Progress, CloudTyped
<1>2. ASSUME NEW d \in Dirs, NEW s, disk' = [disk EXCEPT ![d] = s], repo' = repo,
             s.kind \notin {"absent", "none"} => s.at > 0
      PROVE  Progress'
  BY <1>1, <1>2 DEF Progress
<1>3. CASE Keeps
  BY <1>1, <1>3 DEF Keeps, Progress
<1>4. CASE Downloads
  <2>1. UploadDir(job) \in Dirs
    BY <1>4, Running DEF Downloads
  <2>2. Content.kind \notin {"absent", "none"} => Content.at > 0
    BY <1>1, Downloadable DEF Dir
  <2>3. PICK s \in {Content, Torn} : disk' = [disk EXCEPT ![UploadDir(job)] = s]
    BY <1>4 DEF Downloads
  <2>4. s.kind \notin {"absent", "none"} => s.at > 0
    BY <2>2, <2>3, TornState
  <2> QED BY <1>2, <1>4, <2>1, <2>3, <2>4 DEF Downloads
<1>5. CASE Makes
  <2>1. UploadDir(job) \in Dirs /\ [Here EXCEPT !.kind = "none"].kind = "none"
    BY <1>5, Running DEF Makes, States
  <2> QED BY <1>2, <1>5, <2>1 DEF Makes
<1>6. CASE Saves
  <2>1. TrainDir(job) \in Dirs
    BY <1>6, Running DEF Saves
  <2>2. PICK w \in BOOLEAN : disk' = [disk EXCEPT ![TrainDir(job)] = Dir(mem + 1, Kind(job), w)]
    BY <1>6 DEF Saves, Partial
  <2>3. Dir(mem + 1, Kind(job), w).at > 0
    BY <1>6 DEF Saves, Dir
  <2> QED BY <1>2, <1>6, <2>1, <2>2, <2>3 DEF Saves
<1>7. CASE Tidies
  <2>1. UploadDir(job) \in Dirs /\ Dir(0, "none", TRUE).kind = "none"
    BY <1>7, Running DEF Tidies, Dir
  <2> QED BY <1>2, <1>7, <2>1 DEF Tidies
<1>8. CASE Prunes
  BY <1>1, <1>8 DEF Prunes, Repo, Progress
<1>9. CASE Hands
  BY <1>1, <1>9 DEF Hands, Repos, Progress
<1>10. CASE InStep /\ Uploaded /\ disk' = disk
  BY <1>1, <1>10, UploadTyped DEF Progress
<1> QED BY <1>3, <1>4, <1>5, <1>6, <1>7, <1>8, <1>9, <1>10, Changes
-----------------------------------------------------------------------------
(* How a script is where it is: just launched, a step further, or still at *)
(* the same step.                                                          *)
Stays  == step' = step /\ mem' = mem /\ disk' = disk /\ repo' = repo /\ upload' = upload
Moves  == Steady /\ Advance /\ step' = step + 1 /\ step < Len(Phases) /\ mem' = -1
Tries  == Fail /\ Leftovers /\ step' = step /\ mem' = mem /\ upload' = upload /\ tries < Phases[step][2]
LEMMA Stepping ==
    ASSUME CloudInv, CloudNext \/ UNCHANGED cloudVars, InStep'
    PROVE  \/ \E j : Start(j) /\ IsJob(j)
           \/ /\ InStep /\ job' = job /\ script' = script /\ instance' = instance
              /\ Moves \/ Loads \/ Trains \/ Tries \/ Stays
<1>1. CASE UNCHANGED cloudVars \/ Terminate
  BY <1>1 DEF cloudVars, Terminate, InStep, Stays
<1>2. CASE Bootstrap \/ SyncWorkingTree
  BY <1>2 DEF Bootstrap, SyncWorkingTree, InStep
<1>3. CASE Return
  BY <1>3 DEF Return, InStep, CloudInv, Launched
<1>4. CASE Wizard \/ LaunchJob \/ RunAlone
  BY <1>4, Launches DEF CloudInv
<1>5. CASE Steady
  <2>1. InStep /\ job' = job /\ script' = script /\ instance' = instance
    BY <1>5, Works
  <2>2. CASE Advance
    <3>1. step' = step + 1 /\ step < Len(Phases) /\ mem' = -1
      BY <2>1, <2>2, Onward DEF CloudInv, InStep
    <3> QED BY <1>5, <2>1, <2>2, <3>1 DEF Moves
  <2> QED BY <1>5, <2>1, <2>2, Ends
<1>6. CASE Breaks
  <2>1. stage' = "step"
    BY DEF InStep
  <2>2. /\ Fail /\ InStep /\ step' = step /\ mem' = mem /\ tries < Phases[step][2]
        /\ script' = script /\ job' = job /\ upload' = upload /\ Leftovers
    BY <1>6, <2>1, Broken
  <2>3. instance' = instance
    BY <2>2 DEF Fail
  <2> QED BY <2>2, <2>3 DEF Tries
<1>7. CASE ExitStatus \/ ExitNotify \/ ExitStop
  BY <1>7 DEF ExitStatus, ExitNotify, ExitStop, InStep
<1> QED BY <1>1, <1>2, <1>3, <1>4, <1>5, <1>6, <1>7 DEF CloudNext, Script, Breaks

(* Where only one action can end the step.                                 *)
LEMMA Only ==
    ASSUME Steady, InStep
    PROVE  /\ Name = "resume" => Download
           /\ Name = "train" => Load \/ Trains \/ TrainEnd
           /\ Name \in Publishing => Publish
           /\ Name = "local" => Local
           /\ Name = "cleanup" => Cleanup
BY DEF Steady, Prepare, Effects, Download, Norm, Load, Trains, MakeRoom, TrainEpoch, TrainEnd, Check, Publish, Publishing, Cleanup, Verify,
       Local, Delegate, At

(* Only the last step of a script reports an upload.                       *)
LEMMA FirstUpload ==
    ASSUME CloudInv, Steady, script \in Trainers, upload' = "success"
    PROVE  step = Len(Phases) /\ ~term
<1>1. InStep /\ job \in Jobs /\ job.script = script /\ step \in 1..Len(Phases) /\ upload # "success"
  BY Works, Running DEF CloudInv, Launched
<1>2. job.script \notin {"openpi", "a100"}
  BY <1>1, TrainSteps
<1>3. CASE Publish
  <2>1. Name = "upload" /\ ~term
    BY <1>1, <1>3 DEF Publish
  <2>2. job.script \in Fetches
    BY <1>1, <1>2, <2>1, Order DEF Jobs, Runner, Alone, Pipeline, Fetches
  <2> QED BY <1>1, <2>1, <2>2, Order
<1>4. CASE Local
  <2>1. Name = "local" /\ ~term
    BY <1>1, <1>4 DEF Local, At
  <2> QED BY <1>1, <2>1, Order
<1>5. CASE Delegate
  BY <1>1, <1>2, <1>5, Order DEF Delegate, At
<1>6. CASE Prepare \/ Download \/ Norm \/ Load \/ Trains \/ TrainEnd \/ (InStep /\ Check) \/ Cleanup \/ Verify
  BY <1>1, <1>6 DEF Prepare, Download, Norm, Load, Trains, MakeRoom, TrainEpoch, TrainEnd, Check, Cleanup, Verify
<1> QED BY <1>3, <1>4, <1>5, <1>6 DEF Steady, Trains

(* Whatever happens, the settings of a job are the ones of its launch.     *)
LEMMA LaunchedKept ==
    ASSUME CloudInv, CloudNext \/ UNCHANGED cloudVars
    PROVE  Launched'
<1> USE DEF counts
<1>1. Launched /\ CloudTyped
  BY DEF CloudInv
<1>2. CASE UNCHANGED cloudVars \/ Bootstrap \/ SyncWorkingTree \/ Return \/ Terminate
  BY <1>1, <1>2 DEF cloudVars, Bootstrap, SyncWorkingTree, Return, Terminate, Launched, InStep, At, Name, Phases
<1>3. CASE Wizard \/ LaunchJob \/ RunAlone
  <2>1. PICK j : Start(j) /\ IsJob(j)
    BY <1>1, <1>3, Launches
  <2>2. j # NoJob
    <3>1. j.script \in Runner \cup Alone /\ NoJob.script = "none"
      BY <2>1 DEF IsJob, Jobs, NoJob
    <3> QED BY <3>1 DEF Runner, Alone
  <2> QED BY <1>1, <2>1, <2>2 DEF Start, IsJob, Launched, InStep
<1>4. CASE Steady
  <2>1. InStep /\ job' = job /\ script' = script /\ instance' = instance /\ job # NoJob /\ job.script = script
    BY <1>4, Works, Running
  <2>2. script' \notin Runner => status'.state = "none"
    BY <1>1, <1>4, <2>1, Works DEF Launched
  <2>3. instance' = "running"
    BY <1>1, <2>1 DEF Launched, InStep
  <2>4. ASSUME InStep', script \in Trainers PROVE upload' # "success"
    <3>1. SUFFICES ASSUME upload' = "success" PROVE FALSE
      OBVIOUS
    <3>2. step = Len(Phases)
      BY <1>4, <2>4, <3>1, FirstUpload
    <3>3. CASE Advance
      BY <1>1, <2>1, <2>4, <3>2, <3>3, Onward DEF InStep, CloudTyped
    <3>4. CASE Loads \/ Trains
      <4>1. Name = "train"
        BY <3>4 DEF Loads, Trains, MakeRoom, TrainEpoch, At
      <4>2. job \in Jobs /\ step \in 1..Len(Phases)
        BY <2>1, Running
      <4>3. upload' = upload
        BY <3>4 DEF Loads, Trains, MakeRoom, TrainEpoch
      <4> QED BY <1>1, <2>1, <2>4, <3>1, <4>3 DEF Launched
    <3> QED BY <1>4, <3>3, <3>4, Ends
  <2>5. mem' # -1 => At("train")'
    <3>1. CASE Advance
      BY <1>1, <2>1, <3>1, Onward
    <3>2. CASE Loads \/ Trains
      BY <2>1, <3>2 DEF Loads, Trains, MakeRoom, TrainEpoch, At, InStep, Name, Phases
    <3> QED BY <1>4, <3>1, <3>2, Ends
  <2> QED BY <1>1, <2>1, <2>2, <2>3, <2>4, <2>5 DEF Launched
<1>5. CASE Breaks
  <2>1. /\ script' = script /\ job' = job /\ upload' = upload
        /\ instance' = instance \/ (instance' = "down" /\ stage' = "idle")
        /\ status' = status \/ (InStep /\ job.script \in Runner /\ status' = [state |-> "running", phase |-> Name])
        /\ \/ Fail /\ InStep /\ stage' = "step" /\ step' = step /\ mem' = mem
           \/ InStep /\ stage' = "status" /\ mem' = -1
           \/ stage' = "idle" /\ (mem' = -1 \/ (mem' = mem /\ ~InStep))
    BY <1>5, Broken
  <2>2. job = NoJob => stage' = "idle" /\ status' = status
    BY <1>1, <2>1 DEF Launched, InStep
  <2>3. script' \notin Runner => status'.state = "none"
    BY <1>1, <2>1, Running DEF Launched
  <2>4. InStep' => InStep
    BY <2>1 DEF InStep
  <2>5. mem' # -1 => At("train")'
    BY <1>1, <2>1 DEF Launched, At, InStep, Name, Phases
  <2>6. instance' # "running" => stage' = "idle"
    BY <1>1, <2>1 DEF Launched, InStep
  <2> QED BY <1>1, <2>1, <2>2, <2>3, <2>4, <2>5, <2>6 DEF Launched
<1>6. CASE ExitStatus \/ ExitNotify \/ ExitStop
  <2>1. /\ script' = script /\ job' = job /\ upload' = upload /\ mem' = mem
        /\ stage \in Exits /\ stage' # "step"
        /\ status' = status \/ (job.script \in Runner /\ status' = ExitState)
    BY <1>6 DEF ExitStatus, ExitNotify, ExitStop, Rest, Exits
  <2>2. job # NoJob /\ job.script = script /\ mem = -1
    BY <1>1, <2>1 DEF Launched, Exits, At, InStep
  <2>3. instance' # "running" => stage' = "idle"
    BY <1>1, <1>6, <2>1 DEF Launched, ExitStatus, ExitNotify, ExitStop, Exits
  <2>4. instance' = "stopped" => job.stop
    <3>1. CASE ExitStop
      BY <1>1, <2>2, <3>1 DEF ExitStop, MayStop, Launched
    <3>2. CASE ExitStatus \/ ExitNotify
      <4>1. instance' = instance
        BY <3>2 DEF ExitStatus, ExitNotify
      <4> QED BY <1>1, <2>2, <4>1 DEF Launched
    <3> QED BY <1>6, <3>1, <3>2
  <2>5. mem' # -1 => At("train")'
    BY <2>1, <2>2
  <2> QED BY <1>1, <2>1, <2>2, <2>3, <2>4, <2>5 DEF Launched, InStep
<1> QED BY <1>2, <1>3, <1>4, <1>5, <1>6 DEF CloudNext, Script, Breaks
(* From the download to the training no step disturbs the directory.       *)
LEMMA FetchedKept ==
    ASSUME CloudInv, Launched', CloudNext \/ UNCHANGED cloudVars
    PROVE  Fetched'
<1> USE CloudAssumption DEF CloudAssumption
<1>1. CloudTyped /\ Launched /\ Fetched
  BY DEF CloudInv
<1>2. CASE ~InStep'
  <2>1. mem' = -1
    BY <1>2 DEF Launched, At
  <2> QED BY <1>2, <2>1 DEF Fetched
<1>3. CASE InStep' /\ \E j : Start(j) /\ IsJob(j)
  <2>1. step' = 1 /\ mem' = -1
    BY <1>3 DEF Start
  <2> QED BY <2>1 DEF Fetched
<1>4. ASSUME InStep', InStep, job' = job, script' = script, Moves \/ Loads \/ Trains \/ Tries \/ Stays
      PROVE  Fetched'
  <2>1. /\ job \in Jobs /\ job.script = script /\ step \in 1..Len(Phases) /\ Here \in States
        /\ UploadDir(job) \in Dirs /\ TrainDir(job) \in Dirs /\ disk \in [Dirs -> States]
    BY <1>1, <1>4, Running DEF CloudTyped
  <2>2. UploadDir(job)' = UploadDir(job) /\ Kind(job)' = Kind(job) /\ TrainAt' = TrainAt
    BY <1>4 DEF TrainAt
  <2>3. Moves => \/ Name = "resume" /\ Download
                 \/ Name # "resume" /\ Name # "train"
                 \/ Name = "train" /\ (Load \/ TrainEnd) /\ ~Loads
    <3>1. Moves => mem' = -1 /\ step' = step + 1
      BY DEF Moves
    <3>2. Trains => step' = step
      BY DEF Trains, MakeRoom, TrainEpoch
    <3>3. Loads => step' = step
      BY DEF Loads
    <3>4. step + 1 # step
      BY <2>1
    <3>5. Moves => Steady
      BY DEF Moves
    <3> QED BY <1>4, <3>1, <3>2, <3>3, <3>4, <3>5, Only
  <2>4. ASSUME script \in Fetches, job.resume, step' > 5, step' <= TrainAt, mem' = -1
        PROVE  Here' = Content'
    <3>1. job.script \notin Pipeline /\ job.script # "openpi" /\ TrainAt \in {6, 7}
      BY <2>1, <2>4, TrainSteps DEF Fetches
    <3>2. Stays \/ Moves
      <4>1. ~Loads
        <5>1. LoadState >= 0
          BY <2>1 DEF LoadState, LoadFresh, Here, States
        <5> QED BY <2>4, <5>1 DEF Loads
      <4>2. ~Trains
        BY <2>4, Remembers
      <4>3. ~Tries
        BY <1>1, <2>1, <2>4, Order DEF Tries, CloudTyped
      <4> QED BY <1>4, <4>1, <4>2, <4>3
    <3>3. CASE Stays
      <4>1. Here = Content
        BY <1>1, <1>4, <2>1, <2>4, <3>3 DEF Stays, Fetched
      <4> QED BY <1>4, <3>3, <4>1 DEF Stays, Here, Content
    <3>4. CASE Moves /\ step = 5
      <4>1. Download /\ ~SkipsResume
        BY <2>1, <2>3, <2>4, <3>1, <3>4, Order DEF SkipsResume
      <4>2. disk' = [disk EXCEPT ![UploadDir(job)] = Content] /\ repo' = repo
        BY <4>1 DEF Download
      <4>3. Here' = Content
        BY <1>4, <2>1, <4>2 DEF Here
      <4> QED BY <1>4, <4>2, <4>3 DEF Content
    <3>5. CASE Moves /\ step # 5
      <4>1. step > 5 /\ step < TrainAt /\ step <= TrainAt
        BY <2>1, <2>4, <3>1, <3>5 DEF Moves
      <4>2. Name # "train" /\ Name # "resume" /\ Name # "upload"
        BY <2>1, <2>4, <3>1, <4>1, Order
      <4>3. mem = -1
        BY <1>1, <4>2 DEF Launched, At
      <4>4. Here = Content
        BY <1>1, <1>4, <2>4, <4>1, <4>3 DEF Fetched
      <4>5. ~Downloads /\ ~Saves /\ ~Tidies /\ ~Prunes /\ ~Hands /\ ~Uploaded
        BY <3>1, <4>2 DEF Downloads, Saves, Tidies, Prunes, Hands, Uploaded
      <4>6. ~Makes
        <5>1. SUFFICES ASSUME job.script = "lingbot-v2", Here.kind = "absent" PROVE FALSE
          BY DEF Makes
        <5> QED BY <1>1, <4>4, <5>1, Downloadable
      <4>7. Keeps
        BY <4>5, <4>6, Changes
      <4> QED BY <1>4, <4>4, <4>7 DEF Keeps, Here, Content
    <3> QED BY <3>2, <3>3, <3>4, <3>5
  <2>5. ASSUME script = "classic", job.resume, Kind(job) = "single", step' > 5
        PROVE  Here'.kind = repo'.kind
    <3>1. /\ job.script \in Fetches /\ job.script \notin Pipeline /\ job.script # "openpi" /\ TrainAt = 6
          /\ Len(Phases) = 7 /\ TrainDir(job) = UploadDir(job)
      BY <2>1, <2>5, TrainSteps, Order, Sorts DEF Fetches
    <3>2. CASE Moves /\ step = 5
      <4>1. Download /\ ~SkipsResume
        BY <2>1, <2>3, <2>5, <3>1, <3>2, Order DEF SkipsResume
      <4>2. disk' = [disk EXCEPT ![UploadDir(job)] = Content] /\ repo' = repo
        BY <4>1 DEF Download
      <4>3. Here' = Content
        BY <1>4, <2>1, <4>2 DEF Here
      <4> QED BY <2>1, <2>5, <4>2, <4>3 DEF Content, Dir
    <3>3. CASE step > 5 /\ (Moves \/ Loads \/ Trains \/ Stays)
      <4>1. Here.kind = repo.kind
        BY <1>1, <1>4, <2>5, <3>3 DEF Fetched
      <4>2. ~Downloads /\ ~Makes /\ ~Tidies /\ ~Prunes /\ ~Hands
        <5>1. Name # "resume"
          BY <2>1, <3>1, <3>3, Order
        <5> QED BY <2>1, <2>5, <3>1, <5>1 DEF Downloads, Makes, Tidies, Prunes, Hands
      <4>3. ~Uploaded \/ disk' # disk \/ (disk' = disk /\ repo' = repo)
        <5>1. SUFFICES ASSUME Uploaded PROVE disk' = disk /\ repo' = repo
          OBVIOUS
        <5>2. step = 7 /\ Name = "upload"
          BY <2>1, <3>1, <5>1, Order DEF Uploaded
        <5>3. Stays
          BY <3>1, <3>3, <5>2 DEF Moves, Loads, Trains, MakeRoom, TrainEpoch, At
        <5> QED BY <5>3 DEF Stays
      <4>4. CASE disk' = disk /\ repo' = repo
        BY <1>4, <4>1, <4>4 DEF Here
      <4>5. CASE Saves
        <5>1. Here'.kind = "single" /\ repo' = repo /\ mem # -1
          BY <1>4, <2>1, <2>5, <3>1, <4>5 DEF Saves, Partial, Here, Dir
        <5>2. Here.kind = "single"
          BY <1>1, <2>5, <5>1 DEF Fetched
        <5> QED BY <4>1, <5>1, <5>2
      <4> QED BY <4>2, <4>3, <4>4, <4>5, Changes DEF Keeps
    <3>4. ~Tries
      BY <1>1, <2>1, <3>1, Order DEF Tries, CloudTyped
    <3>5. step = 5 => ~Stays /\ ~Loads /\ ~Trains
      <4>1. Loads \/ Trains \/ Stays => step' = step
        BY Lasting DEF Stays
      <4> QED BY <2>5, <4>1
    <3>6. step >= 5
      <4>1. step' = step \/ step' = step + 1
        BY <1>4, <3>4, Lasting DEF Moves, Stays
      <4> QED BY <2>1, <2>5, <4>1
    <3> QED BY <1>4, <2>1, <3>2, <3>3, <3>4, <3>5, <3>6
  <2>6. ASSUME mem' # -1
        PROVE  /\ job.resume /\ Kind(job) = "single" => Here'.kind = "single"
               /\ script \in Pipeline /\ Loadable(UploadDir(job))' => Here'.at = mem'
               /\ mem' = Target /\ TrainDir(job) = UploadDir(job) => Here' = Trained
    <3>1. CASE Loads
      <4>1. mem' = LoadState /\ disk' = disk
        BY <3>1 DEF Loads
      <4>2. job.resume /\ Kind(job) = "single" => Loadable(UploadDir(job))
        BY <3>1 DEF Loads
      <4>3. script \in Pipeline /\ Loadable(UploadDir(job)) => LoadState = Here.at
        BY <2>1 DEF LoadState, Resumes, Here
      <4>4. LoadState # 0 => Loadable(UploadDir(job)) /\ LoadState = Here.at
        BY DEF LoadState, LoadFresh, Here
      <4>5. Here = Dir(Here.at, Here.kind, Here.whole)
        BY <2>1 DEF States, Dir
      <4>6. Here.at = Target /\ Loadable(UploadDir(job)) => Here = Trained
        BY <4>5, <2>1 DEF Loadable, Here, Trained, States
      <4>7. Here' = Here /\ (Loadable(UploadDir(job))' => Loadable(UploadDir(job)))
        BY <1>4, <2>2, <4>1 DEF Here, Loadable
      <4>8. job.resume /\ Kind(job) = "single" => Here.kind = "single"
        BY <4>2 DEF Loadable, Here
      <4> QED BY <4>1, <4>3, <4>4, <4>6, <4>7, <4>8
    <3>2. CASE Trains
      <4>1. ASSUME job.resume, Kind(job) = "single" PROVE TrainDir(job) = UploadDir(job)
        <5>1. job.script \in {"classic", "a100"}
          BY <2>1, <4>1, Sorts
        <5>2. job.script # "a100"
          BY <1>1, <1>4, <2>1, <4>1, Running DEF Launched
        <5> QED BY <2>1, <4>1, <5>1, <5>2, Sorts
      <4>2. script \in Pipeline => TrainDir(job) = UploadDir(job)
        BY <2>1, Sorts
      <4>3. CASE MakeRoom
        <5>1. disk'[TrainDir(job)] = Partial /\ mem' < Target
          BY <2>1, <4>3 DEF MakeRoom
        <5>2. TrainDir(job) = UploadDir(job) => Here'.kind = Kind(job) /\ Here'.whole = FALSE
          BY <1>4, <2>2, <5>1 DEF Here, Dir, Partial
        <5>3. mem' # Target
          BY <5>1
        <5>4. ~Here'.whole => ~Loadable(UploadDir(job))'
          BY DEF Loadable, Here
        <5> QED BY <4>1, <4>2, <5>2, <5>3, <5>4
      <4>4. CASE TrainEpoch
        <5>1. disk'[TrainDir(job)] = Dir(mem', Kind(job), TRUE)
          BY <2>1, <4>4 DEF TrainEpoch
        <5>2. TrainDir(job) = UploadDir(job) => Here' = Dir(mem', Kind(job), TRUE)
          BY <1>4, <2>2, <5>1 DEF Here
        <5>3. Dir(mem', Kind(job), TRUE).kind = Kind(job) /\ Dir(mem', Kind(job), TRUE).at = mem'
          BY DEF Dir
        <5>4. Trained = Dir(Target, Kind(job), TRUE)
          BY DEF Trained
        <5> QED BY <4>1, <4>2, <5>2, <5>3, <5>4
      <4> QED BY <3>2, <4>3, <4>4 DEF Trains
    <3>3. CASE Tries \/ Stays
      <4>1. mem' = mem /\ mem # -1
        BY <2>6, <3>3 DEF Tries, Stays
      <4>2. Name = "train"
        BY <1>1, <4>1 DEF Launched, At
      <4>3. disk' = disk
        <5>1. CASE Stays
          BY <5>1 DEF Stays
        <5>2. CASE Tries
          BY <1>4, <4>2, <5>2, Left DEF Tries
        <5> QED BY <3>3, <5>1, <5>2
      <4> QED BY <1>1, <1>4, <2>2, <4>1, <4>3 DEF Fetched, Loadable, Here
    <3> QED BY <1>4, <2>6, <3>1, <3>2, <3>3 DEF Moves
  <2>7. Trained' = Trained /\ TrainDir(job)' = TrainDir(job) /\ (mem' = Target => mem' # -1)
    BY <1>4, <2>2 DEF Trained, Dir
  <2> QED BY <1>4, <2>2, <2>4, <2>5, <2>6, <2>7 DEF Fetched
<1> QED BY <1>2, <1>3, <1>4, Stepping
(* The settings fit after a step only if they fitted before.               *)
LEMMA FitsBefore ==
    ASSUME CloudInv, InStep, script \in Trainers, job' = job, repo' = repo \/ Uploaded, Fits'
    PROVE  Fits
<1>1. job \in Jobs /\ job.script = script /\ step \in 1..Len(Phases) /\ job.script \notin {"openpi", "a100"}
  BY Running, TrainSteps
<1>2. TrainDir(job) = UploadDir(job)
  BY DEF Fits
<1>3. ASSUME job.resume, Kind(job) = "single" PROVE repo.kind = "single"
  <2>1. repo'.kind = "single"
    BY <1>3 DEF Fits
  <2>2. CASE repo' = repo
    BY <2>1, <2>2
  <2>3. CASE Uploaded /\ repo' # repo
    <3>1. job.script = "classic"
      BY <1>1, <1>3, Sorts
    <3>2. repo'.kind = Here.kind /\ Name = "upload"
      BY <2>3, <3>1 DEF Uploaded, Repo, Pipeline
    <3>3. step > 5
      BY <1>1, <3>1, <3>2, Order, TrainSteps DEF Fetches
    <3>4. Here.kind = repo.kind
      BY <1>1, <1>3, <3>1, <3>3 DEF CloudInv, Fetched
    <3> QED BY <2>1, <3>2, <3>4
  <2> QED BY <2>2, <2>3
<1> QED BY <1>2, <1>3 DEF Fits

(* After its last step a script has delivered what it was asked for.       *)
LEMMA LastStep ==
    ASSUME CloudInv, Steady, script \in Trainers, step = Len(Phases), Fits', Advance
    PROVE  Delivered'
<1>1. /\ InStep /\ job' = job /\ job \in Jobs /\ job.script = script /\ step \in 1..Len(Phases)
      /\ job.script \notin {"openpi", "a100"}
  BY Works, Running, TrainSteps
<1>2. CASE job.script \in Fetches
  <2>1. Name = "upload" /\ step > TrainAt /\ job.script \notin Pipeline
    <3>1. TrainAt \in {6, 7} /\ job.script \notin Pipeline
      BY <1>1, <1>2, TrainSteps DEF Fetches
    <3>2. step = TrainAt + 1
      BY <1>1, <1>2, Order
    <3>3. Name = "upload"
      BY <1>1, <1>2, <3>2, Order
    <3> QED BY <3>1, <3>2, <3>3
  <2>2. Publish
    BY <1>1, <2>1, Only DEF Publishing
  <2>3. Uploaded
    BY <1>1, <2>2, Uploads DEF Publish, Here
  <2>4. Here = Trained
    BY <1>1, <2>1, <2>3, FitsBefore DEF CloudInv, Published
  <2>5. Here.at = Target /\ Here.kind \notin {"none", "absent"}
    BY <1>1, <2>4, Sorts DEF Trained, Dir
  <2>6. repo'.at = Target
    BY <2>1, <2>3, <2>5 DEF Uploaded, Repo
  <2> QED BY <1>1, <2>1, <2>6 DEF Delivered
<1>3. CASE job.script \in Pipeline
  <2>1. step = 16 /\ Name = "local"
    BY <1>1, <1>3, Order
  <2>2. repo' = repo
    BY <1>1, <2>1, Only DEF Local
  <2>3. repo.at = Target /\ Target \in repo.dcps
    BY <1>1, <1>3, <2>1 DEF CloudInv, Published
  <2> QED BY <1>1, <2>2, <2>3 DEF Delivered
<1> QED BY <1>1, <1>2, <1>3 DEF Trainers

(* What is published stays so, and is there when the script has ended.     *)
LEMMA PublishedKept ==
    ASSUME CloudInv, Launched', CloudNext \/ UNCHANGED cloudVars
    PROVE  Published'
<1> USE CloudAssumption DEF CloudAssumption
<1>1. CloudTyped /\ Launched /\ Published
  BY DEF CloudInv
<1> DEFINE Past == script \in Trainers /\ step > TrainAt /\ Fits => Here = Trained
           Sent == script \in Pipeline => /\ step > 12 => repo.at = Target
                                          /\ step > 13 => Target \in repo.dcps
           Done == job # NoJob /\ script \in Trainers /\ Fits =>
                       /\ upload = "success" => Delivered
                       /\ stage \in Exits /\ rc = 0 => Delivered
                       /\ instance = "stopped" /\ job.optIn # "upload" => Delivered
<1>2. /\ InStep => Past /\ Sent
      /\ Done
  BY <1>1 DEF Published
<1>3. ASSUME InStep', InStep, job' = job, script' = script, Moves \/ Loads \/ Trains \/ Tries \/ Stays
      PROVE  Past' /\ Sent'
  <2>1. /\ job \in Jobs /\ job.script = script /\ step \in 1..Len(Phases) /\ Here \in States
        /\ UploadDir(job) \in Dirs /\ TrainDir(job) \in Dirs /\ disk \in [Dirs -> States]
        /\ job.script \in Pipeline => Fits
    BY <1>1, <1>3, Running DEF CloudTyped
  <2>2. UploadDir(job)' = UploadDir(job) /\ Kind(job)' = Kind(job) /\ TrainAt' = TrainAt /\ Trained' = Trained
    BY <1>3 DEF TrainAt, Trained, Dir
  <2>3. ASSUME script \in Trainers, step' > TrainAt, Fits' PROVE Here' = Trained
    <3>1. TrainAt \in Nat
      BY DEF TrainAt
    <3>2. CASE step = TrainAt
      <4>1. Moves /\ Name = "train"
        <5>1. Loads \/ Trains \/ Tries \/ Stays => step' = step
          BY Lasting DEF Tries, Stays
        <5>2. Moves
          BY <2>1, <2>3, <1>3, <3>1, <3>2, <5>1
        <5> QED BY <2>1, <2>3, <3>2, <5>2, Order, TrainSteps
      <4>2. Load \/ TrainEnd
        <5>1. Steady /\ InStep /\ step' # step
          BY <2>1, <1>3, <4>1 DEF Moves
        <5>2. Load \/ Trains \/ TrainEnd
          BY <4>1, <5>1, Only
        <5> QED BY <5>1, <5>2, Lasting
      <4>3. CASE TrainEnd
        <5>1. mem = Target /\ disk' = disk
          BY <1>1, <4>3 DEF TrainEnd, CloudTyped
        <5>2. TrainDir(job) = UploadDir(job)
          BY <1>3, <2>3 DEF Fits
        <5>3. Here = Trained
          BY <5>1, <5>2 DEF CloudInv, Fetched
        <5> QED BY <1>3, <2>1, <5>1, <5>3 DEF Here
      <4>4. CASE Load
        <5>1. job.resume /\ Kind(job) = "single" /\ ~Loadable(UploadDir(job)) /\ repo' = repo /\ mem = -1
          BY <4>1, <4>4 DEF Load, Moves
        <5>2. job.script = "classic"
          BY <2>1, <2>3, <5>1, Sorts, TrainSteps
        <5>3. Here = Dir(repo.at, repo.kind, TRUE)
          BY <1>1, <1>3, <2>1, <3>2, <5>1, <5>2, TrainSteps, Downloadable DEF CloudInv, Fetched, Fetches
        <5>4. repo.kind = "single"
          BY <1>3, <2>3, <5>1 DEF Fits
        <5> QED BY <5>1, <5>3, <5>4 DEF Loadable, Here, Dir
      <4> QED BY <4>2, <4>3, <4>4
    <3>3. CASE step # TrainAt
      <4>1. step > TrainAt /\ Name # "train"
        <5>1. step' = step \/ step' = step + 1
          BY <1>3, Lasting DEF Moves, Tries, Stays
        <5>2. step > TrainAt
          BY <2>1, <2>3, <3>1, <3>3, <5>1
        <5> QED BY <2>1, <2>3, <5>2, Order
      <4>2. CASE Stays
        <5>1. Fits
          BY <1>3, <2>3, <4>2 DEF Stays, Fits
        <5> QED BY <1>2, <1>3, <2>2, <2>3, <4>1, <4>2, <5>1 DEF Stays, Here
      <4>3. CASE Tries
        <5>1. job.script \in Pipeline /\ step > 9
          BY <1>1, <2>1, <2>3, <4>1, <4>3, Order, TrainSteps DEF Tries, CloudTyped, Trainers
        <5>2. disk' = disk
          BY <1>3, <2>1, <4>3, <5>1, Left, Order DEF Tries
        <5> QED BY <1>2, <1>3, <2>1, <2>2, <2>3, <4>1, <5>1, <5>2 DEF Here
      <4>4. CASE Moves
        <5>1. job.script \in Pipeline /\ step > 9 /\ step < 16
          <6>1. step < Len(Phases)
            BY <4>4 DEF Moves
          <6>2. CASE job.script \in Fetches
            <7>1. Len(Phases) = TrainAt + 1
              BY <2>1, <6>2, Order
            <7> QED BY <2>1, <3>1, <4>1, <6>1, <7>1
          <6>3. CASE job.script \in Pipeline
            <7>1. Len(Phases) = 16 /\ TrainAt = 9
              BY <2>1, <6>3, Order, TrainSteps
            <7> QED BY <2>1, <4>1, <6>1, <6>3, <7>1
          <6> QED BY <2>1, <2>3, <6>2, <6>3 DEF Trainers
        <5>2. ~Downloads /\ ~Makes /\ ~Saves /\ ~Tidies
          <6>1. Name # "resume"
            BY <2>1, <5>1, Order
          <6>2. job.script # "lingbot-v2"
            BY <5>1 DEF Pipeline
          <6>3. step # 16
            <7>1. step \in Nat
              BY <2>1
            <7> QED BY <5>1, <7>1
          <6>4. ~Tidies
            BY <6>3 DEF Tidies
          <6> QED BY <4>1, <6>1, <6>2, <6>4 DEF Downloads, Makes, Saves
        <5>3. disk' = disk
          BY <5>2, Changes DEF Keeps, Prunes, Hands
        <5> QED BY <1>2, <1>3, <2>1, <2>2, <2>3, <4>1, <5>1, <5>3 DEF Here
      <4> QED BY <1>3, <4>1, <4>2, <4>3, <4>4, Lasting
    <3> QED BY <3>2, <3>3
  <2>4. ASSUME script \in Pipeline, step' > 12
        PROVE  repo'.at = Target /\ (step' > 13 => Target \in repo'.dcps)
    <3>1. TrainAt = 9 /\ script \in Trainers /\ Fits /\ job.script # "openpi"
      BY <2>1, <2>4, TrainSteps
    <3>2. step >= 12 /\ step' \in {step, step + 1} /\ Name # "train"
      <4>1. step' = step \/ step' = step + 1
        BY <1>3, Lasting DEF Moves, Tries, Stays
      <4>2. step >= 12
        BY <2>1, <2>4, <4>1
      <4> QED BY <2>1, <3>1, <4>1, <4>2, Order
    <3>3. Moves \/ Tries \/ Stays
      BY <1>3, <3>2 DEF Loads, Trains, MakeRoom, TrainEpoch, At
    <3>4. Here = Trained
      BY <1>2, <1>3, <3>1, <3>2, <2>1
    <3>5. CASE step = 12
      <4>1. Moves /\ Name = "final" /\ step' = 13
        BY <2>1, <2>4, <3>3, <3>5, Order DEF Moves, Tries, Stays
      <4>2. Publish
        BY <1>3, <4>1, Only DEF Moves, Publishing
      <4>3. Uploaded
        BY <1>3, <4>2, Uploads DEF Publish, Here
      <4>4. repo' = Repo(Target, "weights", repo.dcps)
        BY <2>1, <2>4, <3>5, <4>3 DEF Uploaded
      <4> QED BY <4>1, <4>4 DEF Repo
    <3>6. CASE step = 13
      <4>1. repo.at = Target
        BY <1>2, <1>3, <2>4, <3>6
      <4>2. Name = "dcp" /\ Name # "resume"
        BY <2>1, <2>4, <3>6, Order
      <4>3. CASE Moves
        <5>1. Uploaded
          BY <1>3, <4>2, <4>3, Only, Uploads DEF Moves, Publish, Publishing, Here
        <5>2. repo' = Repo(repo.at, repo.kind, repo.dcps \cup {Target})
          BY <2>1, <2>4, <3>6, <5>1 DEF Uploaded
        <5> QED BY <4>1, <5>2 DEF Repo
      <4>4. CASE Tries \/ Stays
        <5>1. repo' = repo \/ Uploaded
          BY <1>3, <4>4, Left DEF Tries, Stays
        <5>2. repo'.at = Target
          BY <2>1, <2>4, <3>6, <4>1, <5>1 DEF Uploaded, Repo
        <5> QED BY <3>6, <4>4, <5>2 DEF Tries, Stays
      <4> QED BY <3>3, <4>3, <4>4
    <3>7. CASE step > 13
      <4>1. repo.at = Target /\ Target \in repo.dcps
        <5>1. step > 12
          BY <2>1, <3>7
        <5> QED BY <1>2, <1>3, <2>4, <3>7, <5>1
      <4>2. ~Uploaded /\ ~Hands
        BY <2>1, <2>4, <3>1, <3>7 DEF Uploaded, Hands
      <4>3. repo' = repo \/ (Prunes /\ Here.at = Target)
        BY <3>4, <4>2, Changes DEF Keeps, Downloads, Makes, Saves, Tidies, Trained, Dir
      <4> QED BY <4>1, <4>3 DEF Prunes, Repo
    <3> QED BY <2>1, <3>2, <3>5, <3>6, <3>7
  <2>5. Past'
    BY <1>3, <2>2, <2>3
  <2>6. Sent'
    <3>1. step' \in Nat /\ (step' > 13 => step' > 12)
      <4>1. step' \in {step, step + 1, 1}
        BY <1>3 DEF Moves, Loads, Trains, MakeRoom, TrainEpoch, Tries, Stays
      <4> QED BY <2>1, <4>1
    <3> QED BY <1>3, <2>4, <3>1
  <2> QED BY <2>5, <2>6
<1>4. InStep' => Past' /\ Sent'
  <2>1. ASSUME NEW j, Start(j) PROVE Past' /\ Sent'
    <3>1. step' = 1 /\ TrainAt' \in {6, 7, 9}
      BY <2>1 DEF Start, TrainAt
    <3> QED BY <3>1
  <2> QED BY <1>3, <2>1, Stepping
<1>5. Done'
  <2>1. CASE UNCHANGED cloudVars \/ Bootstrap \/ SyncWorkingTree \/ Return \/ Terminate
    BY <1>2, <2>1 DEF cloudVars, Bootstrap, SyncWorkingTree, Return, Terminate, Fits, Delivered, counts
  <2>2. CASE Wizard \/ LaunchJob \/ RunAlone
    <3>1. PICK j : Start(j)
      BY <1>1, <2>2, Launches
    <3>2. upload' = "not_started" /\ stage' = "step" /\ instance' = "running"
      BY <3>1 DEF Start
    <3> QED BY <3>2 DEF Exits
  <2>3. ASSUME Steady, script' \in Trainers, Fits'
        PROVE  /\ upload' = "success" => Delivered'
               /\ stage' \in Exits /\ rc' = 0 => Delivered'
               /\ instance' # "stopped"
    <3>1. InStep /\ script' = script /\ instance' = instance /\ instance = "running"
      BY <1>1, <2>3, Works DEF Launched, InStep
    <3>2. Loads \/ Trains => stage' = "step" /\ upload' = upload
      BY <3>1 DEF Loads, Trains, MakeRoom, TrainEpoch, InStep
    <3>3. upload # "success"
      BY <1>1, <2>3, <3>1 DEF Launched
    <3>4. CASE Advance
      <4>1. upload' = "success" => step = Len(Phases)
        BY <2>3, <3>1, FirstUpload
      <4>2. stage' \in Exits /\ rc' = 0 => step = Len(Phases)
        BY <1>1, <3>1, <3>4, Onward DEF Exits
      <4>3. step = Len(Phases) => Delivered'
        BY <2>3, <3>1, <3>4, LastStep
      <4> QED BY <3>1, <4>1, <4>2, <4>3
    <3>5. CASE Loads \/ Trains
      BY <3>1, <3>2, <3>3, <3>5 DEF Exits
    <3> QED BY <2>3, <3>4, <3>5, Ends
  <2>4. CASE Breaks
    <3>1. /\ script' = script /\ job' = job /\ upload' = upload
          /\ instance' = instance \/ (instance' = "down" /\ stage' = "idle")
          /\ IF InStep THEN Leftovers ELSE disk' = disk /\ repo' = repo
      BY <2>4, Broken
    <3>2. stage' \in Exits => rc' = 1
      BY <2>4, Broken DEF Exits
    <3>3. CASE InStep
      <4>1. script \in Trainers => upload # "success"
        BY <1>1, <3>3 DEF Launched
      <4>2. instance = "running"
        BY <1>1, <3>3 DEF Launched, InStep
      <4> QED BY <3>1, <3>2, <4>1, <4>2
    <3>4. CASE ~InStep
      <4>1. repo' = repo
        BY <3>1, <3>4
      <4> QED BY <1>2, <3>1, <3>2, <4>1 DEF Fits, Delivered
    <3> QED BY <3>3, <3>4
  <2>5. CASE ExitStatus \/ ExitNotify
    <3>1. stage \in Exits /\ UNCHANGED <<script, job, upload, repo, rc, instance>>
      BY <2>5 DEF ExitStatus, ExitNotify, Rest, Exits
    <3> QED BY <1>2, <3>1 DEF Fits, Delivered
  <2>6. CASE ExitStop
    <3>1. stage = "stop" /\ stage' = "idle" /\ UNCHANGED <<script, job, upload, repo, rc>>
          /\ (instance' = "stopped" => MayStop)
      BY <2>6 DEF ExitStop, Rest
    <3>2. job.optIn # "upload" /\ job # NoJob /\ MayStop => rc = 0 \/ upload = "success"
      BY <1>1 DEF MayStop, MayStopAfter, Launched
    <3> QED BY <1>2, <3>1, <3>2 DEF Fits, Delivered, Exits
  <2> QED BY <2>1, <2>2, <2>3, <2>4, <2>5, <2>6 DEF CloudNext, Script, Breaks
<1> QED BY <1>4, <1>5 DEF Published
(* The inductive invariant.                                                *)
LEMMA CloudStarts == CloudInit => CloudInv
<1> SUFFICES ASSUME CloudInit PROVE CloudInv
  OBVIOUS
<1> USE CloudAssumption DEF CloudAssumption, CloudInit
<1>1. ~InStep /\ script \in Runner \cup Alone /\ Earlier \subseteq 1..Target
  BY DEF InStep, Earlier
<1>2. repo \in Repos /\ (repo.kind \notin {"absent", "none"} => repo.at > 0)
  <2>1. CASE script = "classic"
    <3>1. PICK n \in Earlier, k \in {"weights", "single", "multi"} : repo = [at |-> n, kind |-> k, dcps |-> {}]
      BY <2>1
    <3>2. n \in 0..Target /\ n > 0 /\ k \in StateKinds /\ {} \in SUBSET (1..Target)
      BY <1>1, <3>1 DEF StateKinds
    <3> QED BY <3>1, <3>2 DEF Repos
  <2>2. CASE script # "classic"
    <3>1. repo \in [at : {0}, kind : {"none"}, dcps : SUBSET Earlier]
      BY <2>2
    <3>2. 0 \in 0..Target /\ "none" \in StateKinds /\ SUBSET Earlier \subseteq SUBSET (1..Target)
      BY <1>1 DEF StateKinds
    <3> QED BY <3>1, <3>2 DEF Repos
  <2> QED BY <2>1, <2>2
<1>3. disk \in [Dirs -> States] /\ \A d \in Dirs : disk[d].kind = "absent"
  <2>1. Dir(0, "absent", TRUE) \in States
    BY DEF Dir, States, StateKinds
  <2> QED BY <2>1 DEF Dir
<1>4. CloudTyped
  <2>1. status = [state |-> status.state, phase |-> status.phase] /\ status.state = "none"
    OBVIOUS
  <2>2. stage = "idle" /\ rc \in {0, 1} /\ told \in {0, 1} /\ term \in BOOLEAN /\ upload = "not_started"
    OBVIOUS
  <2>3. tries \in Nat \ {0} /\ launches \in Nat
    OBVIOUS
  <2>4. mem \in -1..Target
    <3>1. mem = -1 /\ Target \in Nat
      OBVIOUS
    <3> HIDE DEF CloudInit
    <3> QED BY <3>1
  <2> QED BY <1>1, <1>2, <1>3, <2>1, <2>2, <2>3, <2>4 DEF CloudTyped
<1>5. Launched
  BY DEF Launched, InStep
<1>6. Progress
  BY <1>2, <1>3 DEF Progress
<1>7. Fetched /\ Published
  BY <1>1 DEF Fetched, Published
<1> QED BY <1>4, <1>5, <1>6, <1>7 DEF CloudInv

LEMMA CloudSteady == CloudInv /\ [CloudNext]_cloudVars => CloudInv'
<1> SUFFICES ASSUME CloudInv, CloudNext \/ UNCHANGED cloudVars PROVE CloudInv'
  OBVIOUS
<1>1. CloudTyped' /\ Launched' /\ Progress'
  BY CloudTypedKept, LaunchedKept, ProgressKept
<1>2. Fetched' /\ Published'
  BY <1>1, FetchedKept, PublishedKept
<1> QED BY <1>1, <1>2 DEF CloudInv

LEMMA CloudAlways == CloudSpec => []CloudInv
BY CloudStarts, CloudSteady, PTL DEF CloudSpec

(* For the trainers the invariant says it; of the others, openpi is left   *)
(* out, and the pipeline on A100s keeps no status and never stops.         *)
LEMMA InvDelivers == CloudInv => SuccessDelivers
<1> SUFFICES ASSUME CloudInv, Reports, Fits, script # "openpi" PROVE Delivered
  BY DEF SuccessDelivers
<1> USE CloudAssumption DEF CloudAssumption
<1>1. Launched /\ Published
  BY DEF CloudInv
<1>2. job # NoJob
  BY <1>1 DEF Launched, Reports
<1>3. script \in Trainers \cup {"a100"}
  BY <1>1 DEF Launched, Trainers, Fetches, Pipeline, Runner, Alone
<1>4. script # "a100"
  <2>1. script = "a100" => script \notin Runner
    BY DEF Runner
  <2> QED BY <1>1, <1>2, <2>1 DEF Launched, Reports
<1>5. script \in Trainers
  BY <1>3, <1>4
<1> QED BY <1>1, <1>2, <1>5 DEF Published, Reports

(* Whoever loads a state in a resumed job is a script of the runner at its *)
(* training step, where the directory holds what the repository holds.     *)
LEMMA InvResumes ==
    ASSUME CloudInv, CloudNext \/ UNCHANGED cloudVars, mem = -1, mem' >= 0, job.resume, job.script \notin Pipeline,
           Content.kind = Kind(job)
    PROVE  mem' >= Content.at
<1>1. InStep'
  <2>1. mem' # -1
    OBVIOUS
  <2> QED BY <2>1, LaunchedKept DEF Launched, At
<1>2. Loads /\ InStep
  <2>1. \A j : Start(j) => mem' = -1
    BY DEF Start
  <2>2. mem' # -1 /\ mem \notin 0..Target - 1
    BY CloudAssumption DEF CloudAssumption
  <2> QED BY <1>1, <2>1, <2>2, Stepping DEF Moves, Trains, MakeRoom, TrainEpoch, Tries, Stays
<1>3. /\ job \in Jobs /\ job.script = script /\ step \in 1..Len(Phases) /\ Here \in States
  BY <1>2, Running
<1>4. Name = "train" /\ mem' = LoadState
  BY <1>2 DEF Loads, At
<1>5. step = TrainAt /\ job.script \in Fetches
  <2>1. step = TrainAt /\ job.script # "openpi"
    BY <1>3, <1>4, Order
  <2>2. job.script # "a100"
    BY <1>2, <1>3, Running DEF CloudInv, Launched
  <2> QED BY <1>3, <2>1, <2>2 DEF Jobs, Runner, Alone, Fetches, Pipeline
<1>6. Here = Content
  <2>1. step > 5 /\ step <= TrainAt
    BY <1>3, <1>5, TrainSteps DEF Fetches
  <2> QED BY <1>2, <1>3, <1>5, <2>1 DEF CloudInv, Fetched
<1>7. Content.whole = TRUE /\ Content.at \in Nat
  <2>1. Content.whole = TRUE
    BY DEF Content, Dir
  <2>2. Content.at \in 0..Target
    BY Downloadable, Values DEF CloudInv
  <2> QED BY <2>1, <2>2
<1>8. mem' = Here.at
  BY <1>4, <1>6, <1>7 DEF LoadState, Resumes, Loadable, Here
<1> QED BY <1>6, <1>7, <1>8

(* A set outdone element by element has no greater maximum.                *)
LEMMA Outdone ==
    ASSUME NEW S \in SUBSET (0..Target), NEW T \in SUBSET (0..Target), S # {}, T # {},
           \A x \in S : \E y \in T : y >= x
    PROVE  Max(T) >= Max(S)
<1>1. Target \in Nat
  BY CloudAssumption DEF CloudAssumption
<1>2. Max(S) \in S /\ Max(T) \in T /\ \A y \in T : Max(T) >= y
  BY <1>1, Foremost
<1>3. PICK y \in T : y >= Max(S)
  BY <1>2
<1>4. Max(S) \in 0..Target /\ Max(T) \in 0..Target /\ y \in 0..Target
  BY <1>2, <1>3
<1>5. Max(T) >= y
  BY <1>2, <1>3
<1> QED BY <1>1, <1>3, <1>4, <1>5

(* All that happens keeps a state at least as new, or replaces it.         *)
LEMMA InvSurvives ==
    ASSUME CloudInv, CloudNext \/ UNCHANGED cloudVars, script \in Pipeline
    PROVE  KeepsStates
<1> USE CloudAssumption DEF CloudAssumption
<1> DEFINE S == {0} \cup repo.dcps \cup {disk[d].at : d \in Complete}
<1>1. CloudTyped /\ CloudTyped'
  BY CloudTypedKept DEF CloudInv
<1>2. S \in SUBSET (0..Target) /\ S' \in SUBSET (0..Target)
  <2>1. /\ repo.dcps \in SUBSET (1..Target) /\ repo'.dcps \in SUBSET (1..Target)
        /\ \A d \in Dirs : disk[d].at \in 0..Target /\ disk'[d].at \in 0..Target
    BY <1>1 DEF CloudTyped, States, Repos
  <2>2. S \in SUBSET (0..Target)
    BY <2>1 DEF Complete
  <2>3. S' \in SUBSET (0..Target)
    BY <2>1 DEF Complete
  <2> QED BY <2>2, <2>3
<1>3. ASSUME \A x \in repo.dcps : \E y \in S' : y >= x,
             \A d \in Complete : \E y \in S' : y >= disk[d].at
      PROVE  MostAdvanced' >= MostAdvanced
  <2>1. \A x \in S : \E y \in S' : y >= x
    BY <1>3
  <2>2. S # {} /\ S' # {}
    OBVIOUS
  <2>3. MostAdvanced = Max(S) /\ MostAdvanced' = Max(S')
    BY DEF MostAdvanced
  <2> QED BY <1>2, <2>1, <2>2, <2>3, Outdone
<1>4. /\ repo.dcps \in SUBSET (1..Target) /\ repo'.dcps \in SUBSET (1..Target)
      /\ \A d \in Dirs : disk[d] \in States /\ disk[d].at \in 0..Target
      /\ disk \in [Dirs -> States]
  BY <1>1 DEF CloudTyped, States, Repos
<1>14. ASSUME \A x \in repo.dcps : \E y \in repo'.dcps : y >= x
      PROVE  NewestOf(repo.dcps') >= NewestOf(repo.dcps)
  <2>1. repo.dcps \in SUBSET (0..Target) /\ repo'.dcps \in SUBSET (0..Target) /\ repo'.dcps = repo.dcps'
    BY <1>4
  <2>2. CASE repo.dcps = {}
    <3>1. repo.dcps' # {} => Max(repo.dcps') \in 0..Target
      BY <2>1, Foremost
    <3> QED BY <2>2, <3>1 DEF NewestOf
  <2>3. CASE repo.dcps # {}
    <3>1. repo.dcps' # {}
      BY <1>14, <2>1, <2>3
    <3> QED BY <1>14, <2>1, <2>3, <3>1, Outdone DEF NewestOf
  <2> QED BY <2>2, <2>3
<1>5. ASSUME repo.dcps \subseteq repo'.dcps,
             \A d \in Complete : \/ d \in Complete' /\ disk'[d].at >= disk[d].at
                                 \/ \E y \in repo'.dcps : y >= disk[d].at
      PROVE  KeepsStates
  <2>1. \A x \in repo.dcps : x \in S' /\ x \in repo'.dcps /\ x >= x
    BY <1>4, <1>5
  <2>2. \A d \in Complete : \E y \in S' : y >= disk[d].at
    BY <1>5
  <2>3. MostAdvanced' >= MostAdvanced
    BY <1>3, <2>1, <2>2
  <2> QED BY <1>14, <2>1, <2>3 DEF KeepsStates
<1>6. CASE disk' = disk /\ repo.dcps \subseteq repo'.dcps
  BY <1>4, <1>5, <1>6 DEF Complete
<1>7. ASSUME InStep PROVE /\ job \in Jobs /\ job.script = script /\ step \in 1..Len(Phases)
                          /\ TrainDir(job) = UploadDir(job) /\ UploadDir(job) = RunDir(job)
                          /\ UploadDir(job) \in Dirs /\ Kind(job) = "dcp" /\ Fits /\ TrainAt = 9
                          /\ script \in Trainers
  <2>1. job \in Jobs /\ job.script = script /\ step \in 1..Len(Phases) /\ Fits /\ UploadDir(job) \in Dirs
    BY <1>7, Running
  <2>2. script \notin {"classic", "a100"}
    BY DEF Pipeline
  <2> QED BY <2>1, <2>2, Sorts, TrainSteps
<1>8. CASE Downloads
  <2>1. disk[UploadDir(job)].kind # "dcp"
    BY <1>7, <1>8 DEF Downloads, SkipsResume
  <2>2. \A d \in Complete : d \in Dirs /\ d # UploadDir(job) /\ disk'[d] = disk[d]
    BY <1>4, <1>8, <2>1 DEF Complete, Downloads
  <2>3. \A d \in Complete : d \in Complete' /\ disk'[d].at >= disk[d].at
    BY <1>4, <2>2 DEF Complete
  <2> QED BY <1>5, <1>8, <2>3 DEF Downloads
<1>9. CASE Saves
  <2>1. InStep /\ At("train") /\ repo' = repo /\ mem \in 0..Target - 1 /\ mem # -1
    BY <1>9 DEF Saves, At
  <2>2. /\ \A d \in Dirs : d # UploadDir(job) => disk'[d] = disk[d]
        /\ disk[UploadDir(job)] # Partial => disk'[UploadDir(job)] = Partial
    <3>1. PICK s : disk' = [disk EXCEPT ![UploadDir(job)] = s] /\ (disk[UploadDir(job)] # Partial => s = Partial)
      BY <1>7, <1>9, <2>1 DEF Saves
    <3> QED BY <1>4, <1>7, <2>1, <3>1
  <2>6. \A d \in Complete : d # UploadDir(job) => d \in Complete' /\ disk'[d].at = disk[d].at
    <3>1. \A d \in Complete : d # UploadDir(job) => d \in Dirs /\ disk'[d] = disk[d]
      BY <2>2 DEF Complete
    <3> QED BY <3>1 DEF Complete
  <2>3. CASE UploadDir(job) \notin Complete
    <3>1. \A d \in Complete : d \in Complete' /\ disk'[d].at >= disk[d].at
      BY <1>4, <2>2, <2>3 DEF Complete
    <3> QED BY <1>5, <2>1, <3>1
  <2>4. CASE UploadDir(job) \in Complete
    <3>1. Here.kind = "dcp" /\ Here.whole
      BY <2>4 DEF Complete, Here
    <3>2. Here.at = mem
      BY <1>7, <2>1, <3>1 DEF CloudInv, Fetched, Loadable, Here
    <3>3. disk'[TrainDir(job)] = Partial
      BY <1>7, <2>1, <2>2, <3>1 DEF Partial, Dir, Here
    <3>4. MostAdvanced = Max(S) /\ MostAdvanced' = Max(S')
      BY DEF MostAdvanced
    <3>5. CASE Max(S) = mem
      <4>1. MakesRoom
        BY <2>1, <3>3, <3>4, <3>5 DEF MakesRoom
      <4>2. \A x \in repo.dcps : x \in repo'.dcps /\ x >= x
        BY <1>4, <2>1
      <4> QED BY <1>14, <4>1, <4>2 DEF KeepsStates
    <3>6. CASE Max(S) # mem
      <4>1. Max(S) \in S
        BY <1>2, Foremost
      <4>2. \A d \in Complete : d # UploadDir(job) => d \in Complete' /\ disk'[d].at = disk[d].at
        BY <2>6
      <4>3. Max(S) \in S'
        BY <2>1, <3>2, <3>6, <4>1, <4>2 DEF Here
      <4>4. Max(S') >= Max(S)
        BY <1>2, <4>3, Foremost
      <4>5. \A x \in repo.dcps : x \in repo'.dcps /\ x >= x
        BY <1>4, <2>1
      <4> QED BY <1>14, <3>4, <4>4, <4>5 DEF KeepsStates
    <3> QED BY <3>5, <3>6
  <2> QED BY <2>3, <2>4
<1>10. CASE Tidies
  <2>1. InStep /\ step = 16 /\ repo' = repo /\ disk' = [disk EXCEPT ![UploadDir(job)] = Dir(0, "none", TRUE)]
    BY <1>10 DEF Tidies
  <2>2. Target \in repo'.dcps
    BY <2>1 DEF CloudInv, Published
  <2>3. \A d \in Complete : Target >= disk[d].at
    BY <1>4 DEF Complete
  <2> QED BY <1>5, <2>1, <2>2, <2>3
<1>11. CASE Prunes
  <2>1. InStep /\ step = 14 /\ disk' = disk /\ repo' = Repo(repo.at, repo.kind, repo.dcps \cap {Here.at})
    BY <1>11 DEF Prunes
  <2>2. Target \in repo.dcps /\ Here = Trained
    BY <1>7, <2>1 DEF CloudInv, Published
  <2>3. Target \in repo'.dcps
    BY <2>1, <2>2 DEF Repo, Trained, Dir
  <2>4. \A x \in S : Target >= x
    BY <1>2
  <2>5. \A x \in repo.dcps : \E y \in repo'.dcps : y >= x
    BY <2>3, <2>4
  <2>6. MostAdvanced' >= MostAdvanced
    BY <1>3, <2>3, <2>4
  <2> QED BY <1>14, <2>5, <2>6 DEF KeepsStates
<1>12. ~Makes /\ ~Hands
  BY <1>7 DEF Makes, Hands, Pipeline
<1>13. CASE InStep /\ Uploaded /\ disk' = disk
  BY <1>6, <1>13, UploadTyped
<1> QED BY <1>6, <1>8, <1>9, <1>10, <1>11, <1>12, <1>13, Changes DEF Keeps
-----------------------------------------------------------------------------
(* A job that reports success after an upload, or stops its instance after *)
(* the training, has left the model of the full training in the repository *)
(* and, if it is a pipeline, the training state as well, whatever signals, *)
(* failures, preemptions and earlier launches there were.                  *)
THEOREM TrainingsAreDelivered == CloudSpec => []SuccessDelivers
BY CloudAlways, InvDelivers, PTL

(* The trainer of a resumed job goes on from no less than what the         *)
(* repository holds, whatever a cut download left in the run directory.    *)
THEOREM ResumesAreWhole == CloudSpec => ResumesWhole
<1>1. CloudInv /\ [CloudNext]_cloudVars =>
          [mem = -1 /\ mem' >= 0 /\ job.resume /\ job.script \notin Pipeline
             /\ Content.kind = Kind(job) /\ Fits => mem' >= Content.at]_cloudVars
  BY InvResumes
<1> QED BY <1>1, CloudAlways, PTL DEF CloudSpec, ResumesWhole

(* The pipeline's newest complete training state gives way only to a newer *)
(* one or to the save of the trainer that has it in memory, and the        *)
(* repository does not fall behind while old states are deleted.           *)
THEOREM StatesSurvive == CloudSpec => StateSurvives
<1>1. CloudInv /\ [CloudNext]_cloudVars => [(script \in Pipeline) => KeepsStates]_cloudVars
  BY InvSurvives
<1> QED BY <1>1, CloudAlways, PTL DEF CloudSpec, StateSurvives
-----------------------------------------------------------------------------
(* Windows and updates.                                                    *)

(* Some number of a set of them is the least.                              *)
LEMMA LeastNatural ==
    ASSUME NEW S \in SUBSET Nat, S # {}
    PROVE  \E i \in S : \A j \in S : i <= j
<1> DEFINE R == OpToRel(<, Nat)
<1>1. \A i, j \in Nat : j < i => <<j, i>> \in R
  BY Zenon DEF OpToRel
<1>2. IsWellFoundedOn(R, Nat)
  BY NatLessThanWellFounded
<1> HIDE DEF R
<1>3. PICK i \in S : \A j \in S : <<j, i>> \notin R
  BY <1>2, WFMin
<1>4. \A j \in S : ~(j < i)
  BY <1>1, <1>3
<1> QED BY <1>4

(* Whole division.                                                         *)
LEMMA DivisionSum ==
    ASSUME NEW x \in Nat, NEW y \in Nat, y > 0,
           NEW q, NEW r, q = x \div y, r = x % y
    PROVE  x = y * q + r
  OBVIOUS

LEMMA DivisionRange ==
    ASSUME NEW x \in Nat, NEW y \in Nat \ {0}
    PROVE  x \div y \in Nat /\ x % y \in 0..y - 1
<1>1. x \div y \in Nat
  OBVIOUS
<1>2. x % y \in 0..y - 1
  OBVIOUS
<1> QED BY <1>1, <1>2

LEMMA Quotient ==
    ASSUME NEW x \in Nat, NEW y \in Nat \ {0}, NEW q \in Nat, NEW r \in 0..y - 1, x = y * q + r
    PROVE  x \div y = q /\ x % y = r
<1>1. x \div y = q
  OBVIOUS
<1>2. x % y = r
  OBVIOUS
<1> QED BY <1>1, <1>2

LEMMA Product ==
    ASSUME NEW x \in Nat, NEW y \in Nat
    PROVE  /\ x * y \in Nat /\ x * y = y * x
           /\ \A z \in Nat : x * (y + z) = x * y + x * z
           /\ \A z \in Nat : y <= z => x * y <= x * z
           /\ \A z \in Nat : y < z => x * y + x <= x * z
<1>1. x * y \in Nat /\ x * y = y * x
  OBVIOUS
<1>2. ASSUME NEW z \in Nat PROVE x * (y + z) = x * y + x * z
  OBVIOUS
<1>3. ASSUME NEW z \in Nat, y <= z PROVE x * y <= x * z
  BY <1>3
<1>4. ASSUME NEW z \in Nat, y < z PROVE x * y + x <= x * z
  <2>1. y + 1 <= z /\ y + 1 \in Nat
    BY <1>4
  <2>2. x * (y + 1) <= x * z
    BY <2>1
  <2>3. x * (y + 1) = x * y + x
    OBVIOUS
  <2> QED BY <2>2, <2>3
<1> QED BY <1>1, <1>2, <1>3, <1>4

LEMMA LeastOf ==
    ASSUME NEW x \in Int, NEW y \in Int
    PROVE  Min({x, y}) = IF x <= y THEN x ELSE y
<1>1. CASE x <= y
  <2>1. \A z \in {x, y} : (\A v \in {x, y} : z =< v) <=> z = x
    BY <1>1
  <2> QED BY <1>1, <2>1 DEF Min
<1>2. CASE ~(x <= y)
  <2>1. \A z \in {x, y} : (\A v \in {x, y} : z =< v) <=> z = y
    BY <1>2
  <2> QED BY <1>2, <2>1 DEF Min
<1> QED BY <1>1, <1>2

LEMMA MostOf ==
    ASSUME NEW x \in Int, NEW y \in Int
    PROVE  Max({x, y}) = IF x >= y THEN x ELSE y
<1>1. CASE x >= y
  <2>1. \A z \in {x, y} : (\A v \in {x, y} : z >= v) <=> z = x
    BY <1>1
  <2> QED BY <1>1, <2>1 DEF Max
<1>2. CASE ~(x >= y)
  <2>1. \A z \in {x, y} : (\A v \in {x, y} : z >= v) <=> z = y
    BY <1>2
  <2> QED BY <1>2, <2>1 DEF Max
<1> QED BY <1>1, <1>2

(* The optimizer steps after the last batch of each window, which begins   *)
(* at a multiple of acc.                                                   *)
LEMMA StepEndsWindow ==
    ASSUME NEW n \in Nat, NEW acc \in Nat \ {0}, NEW b \in 0..n - 1
    PROVE  LET q == b \div acc IN
           /\ q \in Nat /\ acc * q <= b /\ b < acc * q + acc
           /\ ShouldStep(b, n, acc) <=> (b + 1 = acc * q + acc \/ b + 1 = n)
<1> DEFINE q == b \div acc
           r == b % acc
<1>1. q \in Nat /\ r \in 0..acc - 1 /\ b = acc * q + r
  <2>1. q \in Nat /\ r \in 0..acc - 1
    <3>1. b \in Nat
      OBVIOUS
    <3> QED BY <3>1, DivisionRange
  <2>2. q = b \div acc /\ r = b % acc /\ b \in Nat /\ acc \in Nat /\ acc > 0
    OBVIOUS
  <2> HIDE DEF q, r
  <2> QED BY <2>1, <2>2, DivisionSum
<1>2. acc * q \in Nat /\ b \in Nat
  BY <1>1
<1>3. (b + 1) % acc = 0 <=> b + 1 = acc * q + acc
  <2> HIDE DEF q, r
  <2>1. CASE r + 1 = acc
    <3>1. b + 1 = acc * q + acc /\ acc * (q + 1) = acc * q + acc
      BY <1>1, <1>2, <2>1
    <3>2. b + 1 = acc * (q + 1) + 0 /\ q + 1 \in Nat /\ 0 \in 0..acc - 1 /\ b + 1 \in Nat
      BY <1>1, <1>2, <3>1
    <3>3. (b + 1) % acc = 0
      BY <3>2, Quotient
    <3> QED BY <3>1, <3>3
  <2>2. CASE r + 1 # acc
    <3>1. b + 1 = acc * q + (r + 1) /\ r + 1 \in 0..acc - 1 /\ b + 1 \in Nat
      BY <1>1, <1>2, <2>2
    <3>2. (b + 1) % acc = r + 1
      BY <1>1, <3>1, Quotient
    <3> QED BY <1>1, <1>2, <2>2, <3>1, <3>2
  <2> QED BY <2>1, <2>2
<1>4. acc * q <= b /\ b < acc * q + acc
  <2> HIDE DEF q, r
  <2> QED BY <1>1, <1>2
<1> QED BY <1>1, <1>3, <1>4 DEF ShouldStep

(* accumulation_window_size divides the loss of every batch by the number  *)
(* of batches between two optimizer steps of should_optimizer_step, the    *)
(* short window at the end of an epoch included.                           *)
THEOREM EveryBatchCountsOnce ==
    ASSUME NEW n \in Nat, NEW acc \in Nat \ {0}
    PROVE  WindowsAreWhole(n, acc)
<1> SUFFICES ASSUME NEW b \in 0..n - 1, ShouldStep(b, n, acc),
                    NEW c \in {x \in 0..b : \A d \in x..b - 1 : ~ShouldStep(d, n, acc)}
             PROVE  WindowSize(c, n, acc) = Cardinality({x \in 0..b : \A d \in x..b - 1 : ~ShouldStep(d, n, acc)})
  BY DEF WindowsAreWhole
<1> DEFINE since == {x \in 0..b : \A d \in x..b - 1 : ~ShouldStep(d, n, acc)}
           q == b \div acc
           lo == acc * q
<1>1. q \in Nat /\ lo \in Nat /\ lo <= b /\ b < lo + acc /\ (b + 1 = lo + acc \/ b + 1 = n) /\ b \in Nat
  <2>1. lo \in Nat
    BY StepEndsWindow
  <2> QED BY <2>1, StepEndsWindow
<1>2. ASSUME NEW d \in lo..b
      PROVE  d \in 0..n - 1 /\ d \div acc = q
  <2>1. d \in Nat /\ d - lo \in 0..acc - 1 /\ d = lo + (d - lo) /\ d \in 0..n - 1
    <3> HIDE DEF lo, q
    <3> QED BY <1>1
  <2> DEFINE r == d - lo
  <2>2. d = acc * q + r /\ r \in 0..acc - 1
    BY <2>1
  <2>3. acc \in Nat \ {0} /\ q \in Nat
    BY <1>1
  <2> HIDE DEF r, q, lo
  <2>4. d \div acc = q
    BY ONLY <2>1, <2>2, <2>3, Quotient
  <2> QED BY <2>1, <2>4
<1>3. ASSUME NEW x \in lo..b, NEW d \in x..b - 1 PROVE ~ShouldStep(d, n, acc)
  <2>1. d \in lo..b /\ d + 1 <= b
    BY <1>1
  <2>2. d \in 0..n - 1 /\ d \div acc = q
    BY <1>2, <2>1
  <2>3. ShouldStep(d, n, acc) <=> (d + 1 = lo + acc \/ d + 1 = n)
    BY <2>2, StepEndsWindow
  <2> HIDE DEF lo, q
  <2>4. d + 1 # lo + acc /\ d + 1 # n
    BY <1>1, <2>1
  <2> QED BY <2>3, <2>4
<1>4. ASSUME NEW x \in since PROVE x \in lo..b
  <2>1. x \in 0..b
    OBVIOUS
  <2>2. SUFFICES ASSUME x < lo PROVE FALSE
    BY <1>1, <2>1
  <2> DEFINE d == lo - 1
  <2>3. q # 0
    BY <2>1, <2>2
  <2>4. q - 1 \in Nat /\ acc * (q - 1) = lo - acc
    BY <1>1, <2>3
  <2>5. d = acc * (q - 1) + (acc - 1) /\ acc - 1 \in 0..acc - 1 /\ d \in Nat /\ d \in x..b - 1 /\ d \in 0..n - 1
    <3> HIDE DEF lo, q
    <3> QED BY <1>1, <2>1, <2>2, <2>4
  <2>6. d \div acc = q - 1
    <3> DEFINE p == q - 1
               r == acc - 1
    <3>1. d \in Nat /\ acc \in Nat \ {0} /\ p \in Nat /\ r \in 0..acc - 1 /\ d = acc * p + r
      BY <2>4, <2>5
    <3> HIDE DEF p, r, d
    <3>2. d \div acc = p
      BY ONLY <3>1, Quotient
    <3> QED BY <3>2 DEF p
  <2>7. ShouldStep(d, n, acc) <=> (d + 1 = acc * (q - 1) + acc \/ d + 1 = n)
    BY <2>5, <2>6, StepEndsWindow
  <2>8. d + 1 = acc * (q - 1) + acc
    BY <1>1, <2>4
  <2> QED BY <2>5, <2>7, <2>8
<1>5. since = lo..b
  <2>1. lo..b \subseteq since
    <3>1. \A x \in lo..b : x \in 0..b
      BY <1>1
    <3> QED BY <1>3, <3>1
  <2> QED BY <1>4, <2>1
<1>6. Cardinality(since) = b - lo + 1
  <2> HIDE DEF lo, q, since
  <2>1. lo \in Int /\ b \in Int /\ ~(lo > b)
    BY <1>1
  <2>2. Cardinality(lo..b) = b - lo + 1
    BY <2>1, FS_Interval
  <2> QED BY <1>5, <2>2
<1>7. WindowSize(c, n, acc) = b - lo + 1
  <2>1. c \div acc = q
    BY <1>2, <1>4
  <2>2. q * acc = lo
    BY <1>1
  <2>3. WindowSize(c, n, acc) = Min({acc, n - lo})
    BY <2>1, <2>2 DEF WindowSize
  <2> HIDE DEF lo, q
  <2>4. Min({acc, n - lo}) = IF acc <= n - lo THEN acc ELSE n - lo
    BY <1>1, LeastOf
  <2>5. b + 1 <= n
    BY <1>1
  <2> QED BY <1>1, <2>3, <2>4, <2>5
<1> QED BY <1>6, <1>7

(* Rounding up.                                                            *)
LEMMA RoundedUp ==
    ASSUME NEW x \in Nat, NEW y \in Nat \ {0}
    PROVE  /\ CeilDiv(x, y) \in Nat /\ x <= y * CeilDiv(x, y)
           /\ \A k \in Nat : x <= y * k => CeilDiv(x, y) <= k
<1> DEFINE s == x + y - 1
           q == s \div y
           r == s % y
<1>1. s \in Nat /\ y \in Nat /\ y > 0
  OBVIOUS
<1>2. q \in Nat /\ r \in 0..y - 1
  <2> HIDE DEF s
  <2> QED BY <1>1, DivisionRange
<1>3. s = y * q + r
  <2>1. q = s \div y /\ r = s % y
    OBVIOUS
  <2> HIDE DEF s, q, r
  <2> QED BY <1>1, <1>2, <2>1, DivisionSum
<1>4. y * q \in Nat
  BY <1>2, Product
<1>5. x <= y * q
  <2> HIDE DEF q, r
  <2> QED BY <1>2, <1>3, <1>4
<1>6. ASSUME NEW k \in Nat, x <= y * k PROVE q <= k
  <2> HIDE DEF q, r
  <2>1. y * k \in Nat /\ s <= y * k + y - 1 /\ y * q <= s
    BY <1>2, <1>3, <1>4, <1>6, Product
  <2> HIDE DEF s
  <2>2. SUFFICES ASSUME k < q PROVE FALSE
    BY <1>2
  <2>3. y * k + y <= y * q
    BY <1>2, <2>2, Product
  <2> QED BY <1>1, <1>4, <2>1, <2>3
<1> QED BY <1>2, <1>5, <1>6 DEF CeilDiv

LEMMA RoundedDown ==
    ASSUME NEW x \in Nat, NEW y \in Nat \ {0}
    PROVE  /\ x \div y \in Nat /\ y * (x \div y) <= x /\ x < y * (x \div y + 1)
<1> DEFINE q == x \div y
           r == x % y
<1>1. q \in Nat /\ r \in 0..y - 1
  BY DivisionRange
<1>2. x = y * q + r
  <2>1. q = x \div y /\ r = x % y
    OBVIOUS
  <2> HIDE DEF q, r
  <2> QED BY <1>1, <2>1, DivisionSum
<1>3. y * q \in Nat /\ y * (q + 1) = y * q + y
  <2> HIDE DEF q, r
  <2> QED BY <1>1, Product
<1> HIDE DEF q, r
<1>4. q \in Nat /\ y * q <= x /\ x < y * (q + 1)
  BY <1>1, <1>2, <1>3
<1> QED BY <1>4 DEF q

(* An update per window begun.                                             *)
LEMMA UpdatesAtMost ==
    ASSUME NEW n \in Nat, NEW acc \in Nat \ {0}, NEW k \in Nat, n <= acc * k
    PROVE  Updates(n, acc) <= k
<1> DEFINE AtEnd == {b \in 0..n - 1 : ShouldStep(b, n, acc)}
           f == [b \in AtEnd |-> b \div acc]
<1>1. ASSUME NEW b \in AtEnd
      PROVE  f[b] \in 0..k - 1 /\ acc * f[b] \in Nat /\ b \in Nat /\ b < n
             /\ b < acc * f[b] + acc /\ (b + 1 = acc * f[b] + acc \/ b + 1 = n)
  <2> DEFINE q == b \div acc
  <2>1. q \in Nat /\ acc * q <= b /\ b < acc * q + acc /\ (b + 1 = acc * q + acc \/ b + 1 = n)
    BY StepEndsWindow
  <2>2. f[b] = q
    OBVIOUS
  <2> HIDE DEF q, f
  <2>3. acc * q \in Nat /\ b \in Nat /\ b < n
    BY <2>1, Product
  <2>4. q < k
    <3>1. SUFFICES ASSUME k <= q PROVE FALSE
      BY <2>1
    <3>2. acc * k <= acc * q /\ acc * k \in Nat
      BY <2>1, <3>1, Product
    <3> QED BY <2>1, <2>3, <3>2
  <2> QED BY <2>1, <2>2, <2>3, <2>4
<1>2. ASSUME NEW b \in AtEnd, NEW c \in AtEnd, f[b] = f[c] PROVE b = c
  <2> DEFINE e == acc * f[b]
  <2>1. e \in Nat /\ b \in Nat /\ b < n /\ b < e + acc /\ (b + 1 = e + acc \/ b + 1 = n)
    BY <1>1
  <2>2. c \in Nat /\ c < n /\ c < e + acc /\ (c + 1 = e + acc \/ c + 1 = n)
    BY <1>1, <1>2
  <2> HIDE DEF e
  <2> QED BY <2>1, <2>2
<1> HIDE DEF AtEnd
<1>3. f \in Injection(AtEnd, 0..k - 1)
  <2>1. f \in [AtEnd -> 0..k - 1]
    BY <1>1
  <2> QED BY <1>2, <2>1 DEF Injection, IsInjective
<1>4. IsFiniteSet(0..k - 1) /\ Cardinality(0..k - 1) = k
  <2>1. 0 \in Int /\ k - 1 \in Int
    OBVIOUS
  <2> QED BY <2>1, FS_Interval
<1>5. IsFiniteSet(AtEnd) /\ Cardinality(AtEnd) <= Cardinality(0..k - 1)
  BY <1>3, <1>4, FS_Injection
<1>6. Updates(n, acc) = Cardinality(AtEnd)
  BY DEF Updates, AtEnd
<1> QED BY <1>4, <1>5, <1>6

(* As many batches as the frames make, in windows of the planned size.     *)
LEMMA BatchesAtMost ==
    ASSUME NEW frames \in Nat, NEW size \in Nat \ {0}, NEW k \in Nat,
           frames <= size * k, NEW dropLast \in BOOLEAN
    PROVE  Batches(frames, size, dropLast) \in Nat /\ Batches(frames, size, dropLast) <= k
<1>1. CASE dropLast
  <2> DEFINE q == frames \div size
  <2>1. q \in Nat /\ size * q <= frames
    BY RoundedDown
  <2> HIDE DEF q
  <2>2. q <= k
    <3>1. SUFFICES ASSUME k < q PROVE FALSE
      BY <2>1
    <3>2. size * k + size <= size * q /\ size * k \in Nat /\ size * q \in Nat
      BY <2>1, <3>1, Product
    <3> QED BY <2>1, <3>2
  <2> QED BY <1>1, <2>1, <2>2 DEF Batches, q
<1>2. CASE ~dropLast
  BY <1>2, RoundedUp DEF Batches
<1> QED BY <1>1, <1>2

LEMMA WindowsPlanned ==
    ASSUME NEW frames \in Nat, NEW size \in Nat \ {0}, NEW acc \in Nat \ {0},
           NEW dropLast \in BOOLEAN, NEW k \in Nat, frames \div (size * acc) + 1 <= k
    PROVE  Updates(Batches(frames, size, dropLast), acc) <= k
<1> DEFINE both == size * acc
           q == frames \div both
           n == Batches(frames, size, dropLast)
<1>1. both \in Nat \ {0}
  OBVIOUS
<1>2. q \in Nat /\ frames < both * (q + 1) /\ q + 1 <= k
  <2>1. q + 1 <= k
    OBVIOUS
  <2>2. q \in Nat /\ frames < both * (q + 1)
    <3> HIDE DEF both
    <3> QED BY <1>1, RoundedDown
  <2> QED BY <2>1, <2>2
<1>3. both * (q + 1) <= both * k
  <2> HIDE DEF both, q
  <2> QED BY <1>1, <1>2, Product
<1>4. both * k = size * (acc * k) /\ acc * k \in Nat /\ both * k \in Nat /\ both * (q + 1) \in Nat
  <2>1. both * k = size * (acc * k) /\ acc * k \in Nat
    OBVIOUS
  <2> HIDE DEF both, q
  <2> QED BY <1>1, <1>2, <2>1, Product
<1>5. frames <= size * (acc * k)
  <2> HIDE DEF both, q
  <2> QED BY <1>2, <1>3, <1>4
<1>6. n \in Nat /\ n <= acc * k
  BY <1>4, <1>5, BatchesAtMost
<1> HIDE DEF n
<1> QED BY <1>6, UpdatesAtMost DEF n

(* build_optimizer_and_scheduler plans an epoch for no fewer updates than  *)
(* its loop makes, whether the last short batch is dropped or not.         *)
THEOREM ScheduleLasts ==
    ASSUME NEW frames \in Nat, NEW size \in Nat \ {0}, NEW acc \in Nat \ {0}
    PROVE  PlanLasts(frames, size, acc)
<1> SUFFICES ASSUME NEW dropLast \in BOOLEAN
             PROVE  Updates(Batches(frames, size, dropLast), acc) <= PlannedUpdates(frames, size, acc)
  BY DEF PlanLasts
<1> DEFINE k == PlannedUpdates(frames, size, acc)
<1>1. size * acc \in Nat \ {0}
  OBVIOUS
<1>2. frames \div (size * acc) \in Nat
  BY <1>1, DivisionRange
<1>3. k \in Nat /\ frames \div (size * acc) + 1 <= k
  BY <1>2 DEF PlannedUpdates
<1> QED BY <1>3, WindowsPlanned

(* The accelerate trainer plans at most one update per epoch too few, and  *)
(* none if short batches are dropped and gradients are not accumulated.    *)
THEOREM ScheduleLastsOnRanks ==
    ASSUME NEW frames \in Nat, NEW size \in Nat \ {0}, NEW ranks \in Nat \ {0}, NEW acc \in Nat \ {0}
    PROVE  RanksPlanLasts(frames, size, ranks, acc)
<1> SUFFICES ASSUME NEW dropLast \in BOOLEAN
             PROVE  Updates(Batches(frames, size * ranks, dropLast), acc)
                        <= PlannedOnRanks(frames, size, ranks, acc) + IF dropLast /\ acc = 1 THEN 0 ELSE 1
  BY DEF RanksPlanLasts
<1> DEFINE all == size * ranks
           q == frames \div (all * acc)
           k == PlannedOnRanks(frames, size, ranks, acc)
<1>1. all \in Nat \ {0}
  OBVIOUS
<1>2. q \in Nat
  <2> HIDE DEF all
  <2>1. all * acc \in Nat \ {0}
    BY <1>1
  <2> QED BY <2>1, DivisionRange
<1>3. k \in Nat /\ q <= k
  <2>1. k = Max({1, q})
    BY DEF PlannedOnRanks
  <2> HIDE DEF k, q
  <2> QED BY <1>2, <2>1, MostOf
<1>4. CASE dropLast /\ acc = 1
  <2>1. Batches(frames, all, dropLast) = frames \div all /\ all * acc = all
    <3> HIDE DEF all
    <3> QED BY <1>1, <1>4 DEF Batches
  <2>2. Batches(frames, all, dropLast) = q
    BY <2>1
  <2> HIDE DEF q, k, all
  <2>3. q <= acc * k
    BY <1>2, <1>3, <1>4
  <2>4. Updates(q, acc) <= k
    BY <1>2, <1>3, <2>3, UpdatesAtMost
  <2>5. k + (IF dropLast /\ acc = 1 THEN 0 ELSE 1) = k
    BY <1>3, <1>4
  <2> QED BY <2>2, <2>4, <2>5 DEF all, k
<1>5. CASE ~(dropLast /\ acc = 1)
  <2>1. k + 1 \in Nat /\ q + 1 <= k + 1
    <3> HIDE DEF q, k
    <3> QED BY <1>2, <1>3
  <2> HIDE DEF all, k
  <2>2. Updates(Batches(frames, all, dropLast), acc) <= k + 1
    BY <1>1, <2>1, WindowsPlanned
  <2> QED BY <1>5, <2>2 DEF all, k
<1> QED BY <1>4, <1>5

(* The sums of the first of a sequence's numbers.                          *)
LEMMA SumsOf ==
    ASSUME NEW s \in Seq(Int)
    PROVE  /\ UpTo(s, 0) = 0
           /\ \A i \in 0..Len(s) : UpTo(s, i) \in Int
           /\ \A i \in 1..Len(s) : UpTo(s, i) = UpTo(s, i - 1) + s[i]
<1> DEFINE n == Len(s)
           Step(h, m) == [j \in 0..m |-> IF j = 0 THEN 0 ELSE h[j - 1] + s[j]]
           Without == {m \in 0..n : ~\E h : h = Step(h, m)}
<1>1. n \in Nat /\ \A j \in 1..n : s[j] \in Int
  OBVIOUS
<1>2. \E h : h = Step(h, n)
  <2>1. SUFFICES ASSUME Without # {} PROVE FALSE
    BY <1>1
  <2>2. Without \in SUBSET Nat
    OBVIOUS
  <2> HIDE DEF Without
  <2>3. PICK m \in Without : \A k \in Without : m <= k
    BY <2>1, <2>2, LeastNatural
  <2>4. m \in 0..n /\ ~\E h : h = Step(h, m)
    BY <2>3 DEF Without
  <2> HIDE DEF n
  <2>5. CASE m = 0
    <3> DEFINE h == [j \in 0..0 |-> 0]
    <3>1. h = Step(h, m)
      BY <2>5
    <3> HIDE DEF h
    <3> QED BY <2>4, <3>1
  <2>6. CASE m # 0
    <3>1. m - 1 \in 0..n /\ m - 1 \notin Without
      BY <1>1, <2>3, <2>4, <2>6
    <3>2. PICK g : g = Step(g, m - 1)
      BY <3>1 DEF Without
    <3>3. \A j \in 0..m - 1 : g[j] = IF j = 0 THEN 0 ELSE g[j - 1] + s[j]
      <4> TAKE j \in 0..m - 1
      <4> QED BY <3>2
    <3> DEFINE h == Step(g, m)
    <3>4. \A j \in 0..m - 1 : h[j] = g[j]
      BY <2>4, <1>1, <3>3
    <3>5. \A j \in 0..m : j # 0 => j - 1 \in 0..m - 1
      BY <2>4, <1>1
    <3>6. h = Step(h, m)
      <4>1. \A j \in 0..m : (IF j = 0 THEN 0 ELSE g[j - 1] + s[j]) = (IF j = 0 THEN 0 ELSE h[j - 1] + s[j])
        <5> HIDE DEF h
        <5> QED BY <3>4, <3>5
      <4> QED BY <4>1
    <3> HIDE DEF h
    <3> QED BY <2>4, <3>6
  <2> QED BY <2>5, <2>6
<1> DEFINE F == CHOOSE h : h = Step(h, n)
<1>3. F = Step(F, n)
  <2> HIDE DEF Step
  <2> QED BY <1>2
<1>4. \A i : UpTo(s, i) = F[i]
  BY DEF UpTo
<1> HIDE DEF F, n
<1>5. \A j \in 0..n : F[j] = IF j = 0 THEN 0 ELSE F[j - 1] + s[j]
  <2> TAKE j \in 0..n
  <2> QED BY <1>3
<1>6. \A j \in 0..n : F[j] \in Int
  <2> DEFINE Bad == {j \in 0..n : F[j] \notin Int}
  <2>1. SUFFICES ASSUME Bad # {} PROVE FALSE
    OBVIOUS
  <2>2. Bad \in SUBSET Nat
    OBVIOUS
  <2> HIDE DEF Bad
  <2>3. PICK j \in Bad : \A k \in Bad : j <= k
    BY <2>1, <2>2, LeastNatural
  <2>4. j \in 0..n /\ F[j] \notin Int
    BY <2>3 DEF Bad
  <2>5. CASE j = 0
    BY <1>1, <1>5, <2>4, <2>5
  <2>6. CASE j # 0
    <3>1. j - 1 \in 0..n /\ j \in 1..n /\ j - 1 \notin Bad
      BY <1>1, <2>3, <2>4, <2>6
    <3>2. F[j - 1] \in Int
      BY <3>1 DEF Bad
    <3> QED BY <1>1, <1>5, <2>4, <2>6, <3>1, <3>2
  <2> QED BY <2>5, <2>6
<1>7. F[0] = 0
  BY <1>1, <1>5
<1>8. \A i \in 1..n : F[i] = F[i - 1] + s[i]
  BY <1>1, <1>5
<1> QED BY <1>4, <1>6, <1>7, <1>8 DEF n

LEMMA PartialSums ==
    ASSUME NEW s \in Seq(Nat)
    PROVE  /\ UpTo(s, 0) = 0
           /\ \A i \in 0..Len(s) : UpTo(s, i) \in Nat
           /\ \A i \in 1..Len(s) : UpTo(s, i) = UpTo(s, i - 1) + s[i]
<1> DEFINE n == Len(s)
           U(i) == UpTo(s, i)
           Bad == {i \in 0..n : U(i) \notin Nat}
<1>1. n \in Nat /\ s \in Seq(Int) /\ \A i \in 1..n : s[i] \in Nat
  OBVIOUS
<1>2. U(0) = 0 /\ (\A i \in 0..n : U(i) \in Int) /\ \A i \in 1..n : U(i) = U(i - 1) + s[i]
  BY <1>1, SumsOf
<1> HIDE DEF n, U
<1>3. Bad = {}
  <2>1. SUFFICES ASSUME Bad # {} PROVE FALSE
    OBVIOUS
  <2>2. Bad \in SUBSET Nat
    OBVIOUS
  <2> HIDE DEF Bad
  <2>3. PICK i \in Bad : \A k \in Bad : i <= k
    BY <2>1, <2>2, LeastNatural
  <2>4. i \in 0..n /\ U(i) \notin Nat
    BY <2>3 DEF Bad
  <2>5. i # 0
    BY <1>2, <2>4
  <2>6. i - 1 \in 0..n /\ i \in 1..n /\ i - 1 \notin Bad
    BY <1>1, <2>3, <2>4, <2>5
  <2>7. U(i - 1) \in Nat
    BY <2>6 DEF Bad
  <2>8. U(i) = U(i - 1) + s[i] /\ s[i] \in Nat
    BY <1>1, <1>2, <2>6
  <2>9. U(i) \in Nat
    BY <2>7, <2>8
  <2> QED BY <2>4, <2>9
<1>4. \A i \in 0..n : U(i) \in Nat
  BY <1>3
<1> QED BY <1>2, <1>4 DEF n, U

(* Of positive numbers they grow.                                          *)
Positive == Nat \ {0}
LEMMA SumsGrow ==
    ASSUME NEW s \in Seq(Positive)
    PROVE  /\ s \in Seq(Nat)
           /\ \A i, k \in 0..Len(s) : i < k => UpTo(s, i) < UpTo(s, k)
<1> DEFINE n == Len(s)
           U(i) == UpTo(s, i)
<1>1. n \in Nat /\ s \in Seq(Nat) /\ \A i \in 1..n : s[i] \in Nat \ {0}
  BY DEF Positive
<1>2. /\ \A i \in 0..n : U(i) \in Nat
      /\ \A i \in 1..n : U(i) = U(i - 1) + s[i]
  BY <1>1, PartialSums
<1> HIDE DEF n, U
<1>3. ASSUME NEW i \in 0..n PROVE \A k \in 0..n : i < k => U(i) < U(k)
  <2> DEFINE Bad == {k \in 0..n : i < k /\ ~(U(i) < U(k))}
  <2>1. SUFFICES ASSUME Bad # {} PROVE FALSE
    OBVIOUS
  <2>2. Bad \in SUBSET Nat
    OBVIOUS
  <2> HIDE DEF Bad
  <2>3. PICK k \in Bad : \A j \in Bad : k <= j
    BY <2>1, <2>2, LeastNatural
  <2>4. k \in 0..n /\ i < k /\ ~(U(i) < U(k))
    BY <2>3 DEF Bad
  <2>5. k - 1 \in 0..n /\ k \in 1..n /\ k - 1 \notin Bad
    BY <1>1, <2>3, <2>4
  <2>6. U(i) <= U(k - 1)
    <3>1. CASE i = k - 1
      BY <1>2, <2>5, <3>1
    <3>2. CASE i # k - 1
      <4>1. i < k - 1
        BY <1>1, <2>4, <3>2
      <4>2. U(i) < U(k - 1)
        BY <2>5, <4>1 DEF Bad
      <4> QED BY <1>2, <2>5, <4>2
    <3> QED BY <3>1, <3>2
  <2>7. U(i) \in Nat /\ U(k) \in Nat /\ U(k - 1) \in Nat /\ s[k] \in Nat \ {0} /\ U(k) = U(k - 1) + s[k]
    BY <1>1, <1>2, <2>4, <2>5
  <2> QED BY <2>4, <2>6, <2>7
<1> QED BY <1>1, <1>3 DEF n, U

(* The slots of a source are those between two sums.                       *)
LEMMA SourceIs ==
    ASSUME NEW slots \in Seq(Positive), NEW i \in 1..Len(slots),
           NEW m \in UpTo(slots, i - 1)..UpTo(slots, i) - 1
    PROVE  m \in 0..VirtualLen(slots) - 1 /\ SourceOf(slots, m) = i
<1> DEFINE n == Len(slots)
           U(k) == UpTo(slots, k)
<1>1. n \in Nat /\ slots \in Seq(Nat) /\ DOMAIN slots = 1..n /\ i \in 1..n /\ m \in U(i - 1)..U(i) - 1
  BY SumsGrow
<1>2. /\ \A k \in 0..n : U(k) \in Nat
      /\ \A j, k \in 0..n : j < k => U(j) < U(k)
  BY <1>1, PartialSums, SumsGrow
<1>3. VirtualLen(slots) = U(n)
  BY DEF VirtualLen, Total
<1>4. SourceOf(slots, m) = 1 + Cardinality({k \in 1..n : U(k) <= Wrapped(slots, m)})
  BY <1>1 DEF SourceOf
<1> HIDE DEF n, U
<1>5. i - 1 \in 0..n /\ i \in 0..n /\ n \in 0..n
  BY <1>1
<1>6. U(i - 1) \in Nat /\ U(i) \in Nat /\ U(n) \in Nat /\ m \in Nat /\ m < U(i) /\ U(i - 1) <= m
  BY <1>1, <1>2, <1>5
<1>7. U(i) <= U(n)
  <2>1. CASE i = n
    BY <1>6, <2>1
  <2>2. CASE i # n
    BY <1>1, <1>2, <1>5, <1>6, <2>2
  <2> QED BY <2>1, <2>2
<1>8. m \in 0..U(n) - 1 /\ Wrapped(slots, m) = m
  BY <1>6, <1>7 DEF Wrapped
<1>9. \A k \in 1..n : U(k) <= m <=> k <= i - 1
  <2> TAKE k \in 1..n
  <2>1. k \in 0..n /\ U(k) \in Nat
    BY <1>1, <1>2
  <2>2. CASE k <= i - 1
    <3>1. U(k) <= U(i - 1)
      <4>1. CASE k = i - 1
        BY <1>6, <4>1
      <4>2. CASE k # i - 1
        <5>1. k < i - 1
          BY <1>1, <2>2, <4>2
        <5>2. U(k) < U(i - 1)
          BY <1>2, <1>5, <2>1, <5>1
        <5> QED BY <1>6, <2>1, <5>2
      <4> QED BY <4>1, <4>2
    <3> QED BY <1>6, <2>1, <2>2, <3>1
  <2>3. CASE ~(k <= i - 1)
    <3>1. U(i) <= U(k)
      <4>1. CASE k = i
        BY <1>6, <4>1
      <4>2. CASE k # i
        <5>1. i < k
          BY <1>1, <2>3, <4>2
        <5>2. U(i) < U(k)
          BY <1>2, <1>5, <2>1, <5>1
        <5> QED BY <1>6, <2>1, <5>2
      <4> QED BY <4>1, <4>2
    <3> QED BY <1>6, <2>1, <2>3, <3>1
  <2> QED BY <2>2, <2>3
<1>10. {k \in 1..n : U(k) <= m} = 1..i - 1
  BY <1>1, <1>9
<1>11. Cardinality(1..i - 1) = i - 1
  <2>1. 1 \in Int /\ i - 1 \in Int /\ (1 > i - 1 => i - 1 = 0)
    BY <1>1
  <2>2. Cardinality(1..i - 1) = IF 1 > i - 1 THEN 0 ELSE i - 1 - 1 + 1
    BY <2>1, FS_Interval
  <2> QED BY <2>1, <2>2
<1>12. SourceOf(slots, m) = i
  <2>1. {k \in 1..n : U(k) <= Wrapped(slots, m)} = 1..i - 1
    BY <1>8, <1>10
  <2>2. SourceOf(slots, m) = 1 + (i - 1)
    BY <1>4, <1>11, <2>1
  <2> QED BY <1>1, <2>2
<1> QED BY <1>3, <1>8, <1>12

LEMMA HasSource ==
    ASSUME NEW slots \in Seq(Positive), NEW m \in 0..VirtualLen(slots) - 1
    PROVE  \E i \in 1..Len(slots) : m \in UpTo(slots, i - 1)..UpTo(slots, i) - 1
<1> DEFINE n == Len(slots)
           U(k) == UpTo(slots, k)
           After == {k \in 0..n : m < U(k)}
<1>1. n \in Nat /\ slots \in Seq(Nat)
  BY SumsGrow
<1>2. U(0) = 0 /\ \A k \in 0..n : U(k) \in Nat
  BY <1>1, PartialSums
<1>3. n \in After
  BY <1>1, <1>2 DEF VirtualLen, Total
<1>4. After \in SUBSET Nat
  OBVIOUS
<1> HIDE DEF After, n, U
<1>5. PICK i \in After : \A k \in After : i <= k
  BY <1>3, <1>4, LeastNatural
<1>6. i \in 0..n /\ m < U(i)
  BY <1>5 DEF After
<1>7. m \in Nat
  <2>1. VirtualLen(slots) = U(n)
    BY DEF VirtualLen, Total, U, n
  <2> QED BY <1>1, <1>2, <2>1
<1>8. i # 0
  BY <1>2, <1>6, <1>7
<1>9. i - 1 \in 0..n /\ i \in 1..n /\ i - 1 \notin After
  BY <1>1, <1>5, <1>6, <1>8
<1>10. ~(m < U(i - 1))
  BY <1>9 DEF After
<1>11. m \in U(i - 1)..U(i) - 1
  BY <1>2, <1>6, <1>7, <1>9, <1>10
<1> QED BY <1>9, <1>11 DEF n, U

(* How often a remainder comes up in so many numbers.                      *)
LEMMA Remainders ==
    ASSUME NEW l \in Nat \ {0}, NEW s \in Nat, NEW b \in Nat, NEW x \in 0..l - 1
    PROVE  Cardinality({m \in b..b + s - 1 : (m - b) % l = x})
               = IF x < s % l THEN s \div l + 1 ELSE s \div l
<1> DEFINE a == s \div l
           r == s % l
           k == IF x < r THEN a + 1 ELSE a
           Those == {m \in b..b + s - 1 : (m - b) % l = x}
           f == [j \in 0..k - 1 |-> b + (l * j + x)]
<1>1. a \in Nat /\ r \in 0..l - 1 /\ k \in Nat
  <2>1. a \in Nat /\ r \in 0..l - 1
    BY DivisionRange
  <2> HIDE DEF a, r
  <2> QED BY <2>1
<1>2. s = l * a + r /\ l * a \in Nat
  <2>1. a = s \div l /\ r = s % l
    OBVIOUS
  <2> HIDE DEF a, r
  <2> QED BY <1>1, <2>1, DivisionSum, Product
<1>3. ASSUME NEW j \in Nat
      PROVE  l * j \in Nat /\ (j < k <=> l * j + x < s)
  <2> HIDE DEF a, r
  <2>1. l * j \in Nat
    BY Product
  <2>2. CASE j < a
    <3>1. l * j + l <= l * a
      BY <1>1, <2>2, Product
    <3> QED BY <1>1, <1>2, <2>1, <2>2, <3>1
  <2>3. CASE j = a
    BY <1>1, <1>2, <2>1, <2>3
  <2>4. CASE a < j
    <3>1. l * a + l <= l * j
      BY <1>1, <2>4, Product
    <3> QED BY <1>1, <1>2, <2>1, <2>4, <3>1
  <2> QED BY <1>1, <2>1, <2>2, <2>3, <2>4
<1> HIDE DEF k, a, r
<1>4. ASSUME NEW j \in 0..k - 1
      PROVE  f[j] \in Those /\ j \in Nat /\ l * j \in Nat /\ f[j] = b + (l * j + x)
  <2>1. j \in Nat /\ j < k
    BY <1>1
  <2>2. l * j \in Nat /\ l * j + x < s
    BY <1>3, <2>1
  <2>3. f[j] = b + (l * j + x)
    OBVIOUS
  <2> HIDE DEF f
  <2>4. f[j] \in b..b + s - 1 /\ f[j] - b = l * j + x
    BY <2>2, <2>3
  <2>5. (l * j + x) % l = x
    <3> DEFINE y == l * j + x
    <3>1. y \in Nat /\ y = l * j + x
      BY <2>2
    <3> HIDE DEF y
    <3>2. y % l = x
      BY <2>1, <3>1, Quotient
    <3> QED BY <3>2 DEF y
  <2> QED BY <2>1, <2>2, <2>3, <2>4, <2>5
<1>5. ASSUME NEW i \in 0..k - 1, NEW j \in 0..k - 1, f[i] = f[j] PROVE i = j
  <2>1. i \in Nat /\ j \in Nat /\ l * i \in Nat /\ l * j \in Nat /\ l * i = l * j
    <3>1. b + (l * i + x) = b + (l * j + x)
      BY <1>4, <1>5
    <3> QED BY <1>4, <3>1
  <2>2. ~(i < j)
    <3>1. SUFFICES ASSUME i < j PROVE FALSE
      OBVIOUS
    <3>2. l * i + l <= l * j
      BY <2>1, <3>1, Product
    <3> QED BY <2>1, <3>2
  <2>3. ~(j < i)
    <3>1. SUFFICES ASSUME j < i PROVE FALSE
      OBVIOUS
    <3>2. l * j + l <= l * i
      BY <2>1, <3>1, Product
    <3> QED BY <2>1, <3>2
  <2> QED BY <2>1, <2>2, <2>3
<1>6. ASSUME NEW m \in Those PROVE \E j \in 0..k - 1 : f[j] = m
  <2> DEFINE o == m - b
             j == o \div l
  <2>1. o \in Nat /\ o < s /\ o % l = x /\ m = b + o
    OBVIOUS
  <2> HIDE DEF o
  <2>2. j \in Nat
    BY <2>1, DivisionRange
  <2>3. o = l * j + x
    <3>1. j = o \div l /\ x = o % l
      BY <2>1
    <3> HIDE DEF j
    <3> QED BY <2>1, <2>2, <3>1, DivisionSum
  <2> HIDE DEF j
  <2>4. j < k
    BY <1>3, <2>1, <2>2, <2>3
  <2>5. j \in 0..k - 1
    BY <1>1, <2>2, <2>4
  <2>6. f[j] = m
    BY <2>1, <2>3, <2>5
  <2> HIDE DEF f
  <2> QED BY <2>5, <2>6
<1> HIDE DEF Those, f
<1>7. ExistsBijection(0..k - 1, Those)
  <2>1. f \in [0..k - 1 -> Those]
    <3>1. f = [j \in 0..k - 1 |-> f[j]]
      BY DEF f
    <3> QED BY <1>4, <3>1
  <2>2. f \in Injection(0..k - 1, Those)
    BY <1>5, <2>1 DEF Injection, IsInjective
  <2>3. f \in Surjection(0..k - 1, Those)
    BY <1>6, <2>1 DEF Surjection
  <2> QED BY <2>2, <2>3 DEF ExistsBijection, Bijection
<1>8. IsFiniteSet(0..k - 1) /\ Cardinality(0..k - 1) = k
  <2>1. 0 \in Int /\ k - 1 \in Int
    BY <1>1
  <2>2. IsFiniteSet(0..k - 1) /\ Cardinality(0..k - 1) = IF 0 > k - 1 THEN 0 ELSE k - 1 - 0 + 1
    BY <2>1, FS_Interval
  <2> QED BY <1>1, <2>2
<1>9. Cardinality(Those) = k
  BY <1>7, <1>8, FS_Bijection
<1> QED BY <1>9 DEF Those, k, a, r

(* Rounding to the nearest is off by half at most.                         *)
LEMMA Rounded ==
    ASSUME NEW x \in Nat, NEW y \in Nat \ {0}
    PROVE  /\ RoundDiv(x, y) \in Nat
           /\ 2 * (RoundDiv(x, y) * y - x) \in -y..y
           /\ \A l \in Nat : l * y <= x => l <= RoundDiv(x, y)
<1> DEFINE q == x \div y
           r == x % y
           e == RoundDiv(x, y)
<1>1. q \in Nat /\ r \in 0..y - 1
  BY DivisionRange
<1>2. x = y * q + r
  <2>1. q = x \div y /\ r = x % y
    OBVIOUS
  <2> HIDE DEF q, r
  <2> QED BY <1>1, <2>1, DivisionSum
<1>3. e = (IF 2 * r > y \/ (2 * r = y /\ q % 2 = 1) THEN q + 1 ELSE q)
  BY DEF RoundDiv
<1> HIDE DEF q, r, e
<1>4. y * q \in Nat /\ q * y = y * q /\ (q + 1) * y = y * q + y
  <2>1. y * q \in Nat /\ q * y = y * q
    BY <1>1, Product
  <2>2. (q + 1) * y = y * (q + 1) /\ y * (q + 1) = y * q + y
    BY <1>1, Product
  <2> QED BY <2>1, <2>2
<1>5. e \in Nat /\ q <= e
  BY <1>1, <1>3
<1>6. e * y - x \in Int /\ 2 * (e * y - x) \in -y..y
  <2>1. CASE e = q + 1 /\ 2 * r >= y
    <3>1. e * y - x = y - r
      <4>1. e * y = y * q + y
        BY <1>4, <2>1
      <4> QED BY <1>1, <1>2, <1>4, <4>1
    <3>2. 2 * (y - r) \in -y..y /\ y - r \in Int
      BY <1>1, <2>1
    <3> QED BY <3>1, <3>2
  <2>2. CASE e = q /\ 2 * r <= y
    <3>1. e * y - x = -r
      <4>1. e * y = y * q
        BY <1>4, <2>2
      <4> QED BY <1>1, <1>2, <1>4, <4>1
    <3>2. 2 * (-r) \in -y..y /\ -r \in Int
      BY <1>1, <2>2
    <3> QED BY <3>1, <3>2
  <2> QED BY <1>1, <1>3, <2>1, <2>2
<1>7. ASSUME NEW l \in Nat, l * y <= x PROVE l <= e
  <2>1. SUFFICES ASSUME q < l PROVE FALSE
    BY <1>1, <1>5
  <2>2. y * q + y <= y * l /\ y * l = l * y /\ y * l \in Nat
    BY <1>1, <2>1, Product
  <2> QED BY <1>1, <1>2, <1>4, <1>7, <2>2
<1> QED BY <1>5, <1>6, <1>7 DEF e

(* The largest of finitely many numbers is one of them.                    *)
LEMMA LargestOf ==
    ASSUME NEW n \in Nat \ {0}, NEW f \in [1..n -> Nat]
    PROVE  LET top == Max({f[i] : i \in 1..n})
           IN top \in Nat /\ \A i \in 1..n : f[i] <= top
<1> DEFINE Bound(m, k) == k \in 1..m /\ \A i \in 1..m : f[i] <= f[k]
           Without == {m \in 1..n : ~\E k : Bound(m, k)}
<1>1. \E k : Bound(n, k)
  <2>1. SUFFICES ASSUME Without # {} PROVE FALSE
    <3> HIDE DEF Bound
    <3>1. n \in 1..n
      OBVIOUS
    <3> QED BY <3>1
  <2>2. Without \in SUBSET Nat
    OBVIOUS
  <2> HIDE DEF Without
  <2>3. PICK m \in Without : \A k \in Without : m <= k
    BY <2>1, <2>2, LeastNatural
  <2>4. m \in 1..n /\ ~\E k : Bound(m, k)
    BY <2>3 DEF Without
  <2>5. CASE m = 1
    <3>1. Bound(1, 1)
      BY <2>4, <2>5
    <3> HIDE DEF Bound
    <3> QED BY <2>4, <2>5, <3>1
  <2>6. CASE m # 1
    <3>1. m - 1 \in 1..n /\ m - 1 \notin Without
      BY <2>3, <2>4, <2>6
    <3>2. PICK k : Bound(m - 1, k)
      BY <3>1 DEF Without
    <3>3. k \in 1..m /\ m \in 1..m /\ f[k] \in Nat /\ f[m] \in Nat
      BY <2>4, <3>2
    <3>4. \A i \in 1..m : i = m \/ i \in 1..m - 1
      BY <2>4
    <3>5. CASE f[m] <= f[k]
      <4>1. Bound(m, k)
        BY <3>2, <3>3, <3>4, <3>5
      <4> HIDE DEF Bound
      <4> QED BY <2>4, <4>1
    <3>6. CASE f[k] < f[m]
      <4>1. \A i \in 1..m : f[i] \in Nat
        BY <2>4
      <4>2. Bound(m, m)
        BY <3>2, <3>3, <3>4, <3>6, <4>1
      <4> HIDE DEF Bound
      <4> QED BY <2>4, <4>2
    <3> QED BY <3>3, <3>5, <3>6
  <2> QED BY <2>5, <2>6
<1>2. PICK k \in 1..n : \A i \in 1..n : f[i] <= f[k]
  BY <1>1
<1> DEFINE S == {f[i] : i \in 1..n}
<1>3. f[k] \in S /\ \A y \in S : f[k] >= y
  BY <1>2
<1>4. Max(S) \in S /\ \A y \in S : Max(S) >= y
  <2> HIDE DEF S
  <2> QED BY <1>3 DEF Max
<1> QED BY <1>4

(* Every source has its share of the slots up to rounding, and enough for  *)
(* all its items.                                                          *)
LEMMA SlotsShared ==
    ASSUME NEW w \in Seq(Positive), NEW len \in Seq(Positive), w # <<>>, Len(len) = Len(w)
    PROVE  /\ Slots(len, w) \in Seq(Positive) /\ Len(Slots(len, w)) = Len(w)
           /\ \A i \in 1..Len(w) :
                  /\ len[i] <= Slots(len, w)[i]
                  /\ 2 * (Slots(len, w)[i] * Total(w) - VirtualSize(len, w) * w[i]) \in -Total(w)..Total(w)
<1> DEFINE n == Len(w)
           T == Total(w)
           V == VirtualSize(len, w)
           s == Slots(len, w)
<1>1. n \in Nat \ {0} /\ DOMAIN w = 1..n /\ \A i \in 1..n : w[i] \in Nat \ {0} /\ len[i] \in Nat \ {0}
  BY DEF Positive
<1>2. T \in Nat \ {0}
  <2>1. w \in Seq(Nat) /\ 0 \in 0..n /\ n \in 0..n /\ 0 < n
    BY <1>1, SumsGrow
  <2>2. UpTo(w, 0) = 0 /\ UpTo(w, n) \in Nat /\ UpTo(w, 0) < UpTo(w, n)
    BY <2>1, PartialSums, SumsGrow
  <2> QED BY <2>2 DEF Total
<1> DEFINE f == [i \in 1..n |-> CeilDiv(len[i] * T, w[i])]
<1>3. V = Max({f[i] : i \in 1..n})
  BY <1>1 DEF VirtualSize
<1>4. s = [i \in 1..n |-> Max({1, RoundDiv(V * w[i], T)})]
  BY <1>1 DEF Slots
<1> HIDE DEF n, T, V, s
<1>5. ASSUME NEW i \in 1..n
      PROVE  f[i] \in Nat /\ len[i] * T <= w[i] * f[i]
  <2>1. len[i] * T \in Nat
    BY <1>1, <1>2
  <2> QED BY <1>1, <2>1, RoundedUp
<1>6. V \in Nat /\ \A i \in 1..n : f[i] <= V
  <2>1. f \in [1..n -> Nat]
    BY <1>5
  <2> HIDE DEF f
  <2> QED BY <1>1, <1>3, <2>1, LargestOf
<1>7. ASSUME NEW i \in 1..n
      PROVE  /\ s[i] \in Nat \ {0} /\ len[i] <= s[i]
             /\ 2 * (s[i] * T - V * w[i]) \in -T..T
  <2> DEFINE x == V * w[i]
             e == RoundDiv(x, T)
  <2>1. x \in Nat
    BY <1>1, <1>6
  <2>2. len[i] * T <= x
    <3> DEFINE c == f[i]
    <3>1. c \in Nat /\ c <= V /\ len[i] * T <= w[i] * c
      BY <1>5, <1>6
    <3> HIDE DEF f, c
    <3>2. w[i] * c <= w[i] * V /\ w[i] * V = V * w[i] /\ w[i] * c \in Nat /\ w[i] * V \in Nat
      BY <1>1, <1>6, <3>1, Product
    <3>3. len[i] * T \in Nat
      BY <1>1, <1>2
    <3> QED BY <3>1, <3>2, <3>3
  <2>3. s[i] = Max({1, e})
    BY <1>4
  <2> HIDE DEF x
  <2>4. e \in Nat /\ 2 * (e * T - x) \in -T..T /\ len[i] <= e
    BY <1>1, <1>2, <2>1, <2>2, Rounded
  <2> HIDE DEF e
  <2>5. s[i] = e
    BY <1>1, <2>3, <2>4, MostOf
  <2> QED BY <1>1, <2>4, <2>5 DEF x
<1>8. s \in Seq(Positive) /\ Len(s) = n
  <2>1. s \in [1..n -> Positive]
    <3>1. s = [i \in 1..n |-> s[i]]
      BY <1>4
    <3>2. \A i \in 1..n : s[i] \in Positive
      BY <1>7 DEF Positive
    <3> QED BY <3>1, <3>2
  <2> QED BY <1>1, <2>1
<1> QED BY <1>7, <1>8 DEF n, T, V, s

(* An epoch of VirtualWeightedDataset draws every item of every source,    *)
(* the items of a source as evenly as can be, and each source has its      *)
(* share of the slots of virtual_source_counts up to rounding.             *)
THEOREM EveryItemIsDrawn ==
    ASSUME NEW w \in Seq(Positive), NEW len \in Seq(Positive), w # <<>>, Len(len) = Len(w)
    PROVE  EveryItemDrawn(len, w)
<1> DEFINE slots == Slots(len, w)
           Those(i, x) == {m \in 0..VirtualLen(slots) - 1 :
                              ItemOf(len, slots, m) = [source |-> i, item |-> x]}
           Drawn(i, x) == Cardinality(Those(i, x))
<1>1. /\ slots \in Seq(Positive) /\ Len(slots) = Len(w) /\ DOMAIN w = 1..Len(w)
      /\ \A i \in 1..Len(w) :
            /\ len[i] <= slots[i] /\ len[i] \in Nat \ {0} /\ slots[i] \in Nat
            /\ 2 * (slots[i] * Total(w) - VirtualSize(len, w) * w[i]) \in -Total(w)..Total(w)
  <2>1. \A i \in 1..Len(w) : len[i] \in Nat \ {0}
    BY DEF Positive
  <2>2. slots \in Seq(Positive) /\ Len(slots) = Len(w)
    BY SlotsShared
  <2>3. \A i \in 1..Len(w) : slots[i] \in Nat
    <3> HIDE DEF slots
    <3> QED BY <2>2 DEF Positive
  <2> QED BY <2>1, <2>2, <2>3, SlotsShared
<1>2. SUFFICES ASSUME NEW i \in 1..Len(w), NEW x \in 0..len[i] - 1, NEW y \in 0..len[i] - 1
               PROVE  Drawn(i, x) >= 1 /\ Drawn(i, x) <= Drawn(i, y) + 1
  BY <1>1 DEF EveryItemDrawn
<1> HIDE DEF slots
<1> DEFINE b == UpTo(slots, i - 1)
           l == len[i]
           k == slots[i]
<1>3. b \in Nat /\ UpTo(slots, i) = b + k /\ l \in Nat \ {0} /\ k \in Nat /\ l <= k
  <2>1. slots \in Seq(Nat) /\ i - 1 \in 0..Len(slots) /\ i \in 1..Len(slots)
    BY <1>1, SumsGrow
  <2> QED BY <1>1, <2>1, PartialSums
<1>4. ASSUME NEW z \in 0..l - 1
      PROVE  Those(i, z) = {m \in b..b + k - 1 : (m - b) % l = z}
  <2>1. ASSUME NEW m \in b..b + k - 1
        PROVE  m \in 0..VirtualLen(slots) - 1 /\ ItemOf(len, slots, m) = [source |-> i, item |-> (m - b) % l]
    <3>1. i \in 1..Len(slots) /\ m \in UpTo(slots, i - 1)..UpTo(slots, i) - 1
      BY <1>1, <1>3
    <3>2. m \in 0..VirtualLen(slots) - 1 /\ SourceOf(slots, m) = i
      BY <1>1, <3>1, SourceIs
    <3> QED BY <3>2 DEF ItemOf
  <2>2. ASSUME NEW m \in Those(i, z) PROVE m \in b..b + k - 1
    <3>1. m \in 0..VirtualLen(slots) - 1 /\ ItemOf(len, slots, m) = [source |-> i, item |-> z]
      OBVIOUS
    <3>2. SourceOf(slots, m) = i
      BY <3>1 DEF ItemOf
    <3>3. PICK j \in 1..Len(slots) : m \in UpTo(slots, j - 1)..UpTo(slots, j) - 1
      BY <1>1, <3>1, HasSource
    <3>4. SourceOf(slots, m) = j
      BY <1>1, <3>3, SourceIs
    <3>5. m \in UpTo(slots, i - 1)..UpTo(slots, i) - 1
      BY <3>2, <3>3, <3>4
    <3> QED BY <1>3, <3>5
  <2> HIDE DEF b, l, k
  <2>3. \A m \in b..b + k - 1 : m \in Those(i, z) <=> (m - b) % l = z
    BY <2>1
  <2> HIDE DEF Those
  <2> QED BY <2>2, <2>3
<1>5. ASSUME NEW z \in 0..l - 1
      PROVE  Drawn(i, z) = IF z < k % l THEN k \div l + 1 ELSE k \div l
  <2> HIDE DEF b, l, k, Those
  <2>1. Cardinality({m \in b..b + k - 1 : (m - b) % l = z}) = IF z < k % l THEN k \div l + 1 ELSE k \div l
    BY <1>3, Remainders
  <2> QED BY <1>4, <2>1
<1> DEFINE a == k \div l
<1>6. a \in Nat /\ a >= 1
  <2> HIDE DEF k, l
  <2>1. a \in Nat /\ k < l * (a + 1)
    BY <1>3, RoundedDown
  <2> HIDE DEF a
  <2>2. a # 0
    BY <1>3, <2>1
  <2> QED BY <2>1, <2>2
<1>7. x \in 0..l - 1 /\ y \in 0..l - 1
  OBVIOUS
<1> HIDE DEF k, l, Drawn
<1>8. Drawn(i, x) \in {a, a + 1} /\ Drawn(i, y) \in {a, a + 1}
  BY <1>5, <1>7
<1> HIDE DEF a
<1> QED BY <1>6, <1>8

Numbers(n) == [1..n -> Int]

(* Sums of combined numbers are combined sums.                             *)
LEMMA TotalOf ==
    ASSUME NEW n \in Nat, NEW a \in [1..n -> Int]
    PROVE  /\ Total(a) = UpTo(a, n) /\ Total(a) \in Int /\ UpTo(a, 0) = 0
           /\ \A i \in 0..n : UpTo(a, i) \in Int
           /\ \A i \in 1..n : UpTo(a, i) = UpTo(a, i - 1) + a[i]
<1>1. a \in Seq(Int) /\ Len(a) = n /\ n \in 0..n
  OBVIOUS
<1>2. UpTo(a, 0) = 0 /\ (\A i \in 0..n : UpTo(a, i) \in Int)
      /\ \A i \in 1..n : UpTo(a, i) = UpTo(a, i - 1) + a[i]
  BY <1>1, SumsOf
<1>3. Total(a) = UpTo(a, n)
  BY <1>1 DEF Total
<1> QED BY <1>1, <1>2, <1>3

LEMMA Distributes ==
    ASSUME NEW p \in Int, NEW q \in Int, NEW A \in Int, NEW B \in Int, NEW x \in Int, NEW y \in Int
    PROVE  p * (A + x) + q * (B + y) = (p * A + q * B) + (p * x + q * y)
  OBVIOUS

LEMMA Combined ==
    ASSUME NEW n \in Nat, NEW p \in Int, NEW q \in Int,
           NEW a \in Numbers(n), NEW b \in Numbers(n), NEW c \in Numbers(n),
           \A i \in 1..n : c[i] = p * a[i] + q * b[i]
    PROVE  Total(c) = p * Total(a) + q * Total(b)
<1> DEFINE A(i) == UpTo(a, i)
           B(i) == UpTo(b, i)
           C(i) == UpTo(c, i)
           Bad == {i \in 0..n : C(i) # p * A(i) + q * B(i)}
<1>1. /\ A(0) = 0 /\ B(0) = 0 /\ C(0) = 0
      /\ \A i \in 0..n : A(i) \in Int /\ B(i) \in Int /\ C(i) \in Int
      /\ \A i \in 1..n : A(i) = A(i - 1) + a[i] /\ B(i) = B(i - 1) + b[i] /\ C(i) = C(i - 1) + c[i]
      /\ Total(a) = A(n) /\ Total(b) = B(n) /\ Total(c) = C(n)
  BY TotalOf DEF Numbers
<1> HIDE DEF A, B, C
<1>2. Bad = {}
  <2>1. SUFFICES ASSUME Bad # {} PROVE FALSE
    OBVIOUS
  <2>2. Bad \in SUBSET Nat
    OBVIOUS
  <2> HIDE DEF Bad
  <2>3. PICK i \in Bad : \A k \in Bad : i <= k
    BY <2>1, <2>2, LeastNatural
  <2>4. i \in 0..n /\ C(i) # p * A(i) + q * B(i)
    BY <2>3 DEF Bad
  <2>5. i # 0
    BY <1>1, <2>4
  <2>6. i - 1 \in 0..n /\ i \in 1..n /\ i - 1 \notin Bad
    BY <2>3, <2>4, <2>5
  <2>7. C(i - 1) = p * A(i - 1) + q * B(i - 1)
    BY <2>6 DEF Bad
  <2>8. /\ A(i) = A(i - 1) + a[i] /\ B(i) = B(i - 1) + b[i] /\ C(i) = C(i - 1) + c[i]
        /\ A(i - 1) \in Int /\ B(i - 1) \in Int /\ a[i] \in Int /\ b[i] \in Int
        /\ c[i] = p * a[i] + q * b[i]
    BY <1>1, <2>6 DEF Numbers
  <2>9. p * (A(i - 1) + a[i]) + q * (B(i - 1) + b[i])
            = (p * A(i - 1) + q * B(i - 1)) + (p * a[i] + q * b[i])
    BY <2>8, Distributes
  <2>10. C(i) = p * A(i) + q * B(i)
    BY <2>7, <2>8, <2>9
  <2> QED BY <2>4, <2>10
<1>3. \A i \in 0..n : C(i) = p * A(i) + q * B(i)
  BY <1>2
<1>4. n \in 0..n
  OBVIOUS
<1> QED BY <1>1, <1>3, <1>4

(* What one more source adds to the weight, the sum and the sum of squares *)
(* leaves the variance at least zero.                                      *)
LEMMA SquareIsNatural ==
    ASSUME NEW x \in Int
    PROVE  x * x \in Nat
  OBVIOUS

LEMMA SpreadGrows ==
    ASSUME NEW W \in Nat, NEW M \in Int, NEW Q \in Nat, M * M <= W * Q, W = 0 => Q = 0,
           NEW e \in Nat \ {0}, NEW v \in Int, NEW t \in Nat, v * v <= t
    PROVE  (M + e * v) * (M + e * v) <= (W + e) * (Q + e * t)
<1> DEFINE d == W * v - M
           g == W * t + Q - 2 * (M * v)
<1>1. W * t \in Nat /\ M * v \in Int /\ W * v \in Int /\ v * v \in Int /\ M * M \in Int /\ W * Q \in Int
  OBVIOUS
<1>2. d * d = W * W * (v * v) - 2 * (W * (M * v)) + M * M
  OBVIOUS
<1>3. W * g = W * W * t + W * Q - 2 * (W * (M * v))
  OBVIOUS
<1>4. W * W * (v * v) <= W * W * t
  OBVIOUS
<1>5. d * d \in Nat
  BY <1>1, SquareIsNatural
<1>6. W * g >= 0
  <2> HIDE DEF d, g
  <2> QED BY <1>1, <1>2, <1>3, <1>4, <1>5
<1>7. g \in Int /\ g >= 0
  <2>1. g \in Int
    BY <1>1
  <2>2. CASE W = 0
    <3>1. M = 0
      BY <2>2
    <3> QED BY <2>2, <3>1
  <2>3. CASE W > 0
    <3> HIDE DEF g
    <3> QED BY <1>6, <2>1, <2>3
  <2> QED BY <2>1, <2>2, <2>3
<1>8. (W + e) * (Q + e * t) - (M + e * v) * (M + e * v)
          = (W * Q - M * M) + e * g + e * e * (t - v * v)
  OBVIOUS
<1>9. e * g >= 0
  <2> HIDE DEF g
  <2> QED BY <1>7
<1>10. e * e * (t - v * v) >= 0
  OBVIOUS
<1>11. (W + e) * (Q + e * t) \in Int /\ (M + e * v) * (M + e * v) \in Int /\ e * g \in Int /\ e * e * (t - v * v) \in Int
  BY <1>7
<1> HIDE DEF g
<1> QED BY <1>1, <1>8, <1>9, <1>10, <1>11

(* The weighted squares outweigh the square of the weighted sum.           *)
LEMMA SpreadIsNatural ==
    ASSUME NEW n \in Nat, NEW w \in [1..n -> Positive], NEW v \in Numbers(n), NEW t \in Numbers(n),
           \A i \in 1..n : v[i] * v[i] <= t[i],
           NEW m, NEW q, m = [i \in 1..n |-> w[i] * v[i]], q = [i \in 1..n |-> w[i] * t[i]]
    PROVE  Total(m) * Total(m) <= Total(w) * Total(q)
<1> DEFINE W(i) == UpTo(w, i)
           M(i) == UpTo(m, i)
           Q(i) == UpTo(q, i)
           SpreadAt(i) == M(i) * M(i) <= W(i) * Q(i) /\ W(i) \in Nat /\ Q(i) \in Nat /\ (W(i) = 0 => Q(i) = 0)
           Bad == {i \in 0..n : ~SpreadAt(i)}
<1>1. \A i \in 1..n : w[i] \in Nat \ {0} /\ v[i] \in Int /\ t[i] \in Nat
  <2> TAKE i \in 1..n
  <2>1. w[i] \in Nat \ {0} /\ v[i] \in Int /\ t[i] \in Int /\ v[i] * v[i] <= t[i]
    BY DEF Positive, Numbers
  <2>2. v[i] * v[i] \in Nat
    BY <2>1, SquareIsNatural
  <2> QED BY <2>1, <2>2
<1>2. m \in [1..n -> Int] /\ q \in [1..n -> Int] /\ w \in [1..n -> Int]
  <2>1. \A i \in 1..n : w[i] \in Int /\ w[i] * v[i] \in Int /\ w[i] * t[i] \in Int
    BY <1>1
  <2>2. w = [i \in 1..n |-> w[i]]
    OBVIOUS
  <2> QED BY <2>1, <2>2
<1>3. /\ W(0) = 0 /\ M(0) = 0 /\ Q(0) = 0
      /\ \A i \in 0..n : W(i) \in Int /\ M(i) \in Int /\ Q(i) \in Int
      /\ \A i \in 1..n : W(i) = W(i - 1) + w[i] /\ M(i) = M(i - 1) + m[i] /\ Q(i) = Q(i - 1) + q[i]
      /\ Total(w) = W(n) /\ Total(m) = M(n) /\ Total(q) = Q(n)
  BY <1>2, TotalOf
<1>4. \A i \in 1..n : m[i] = w[i] * v[i] /\ q[i] = w[i] * t[i]
  OBVIOUS
<1> HIDE DEF W, M, Q
<1>5. Bad = {}
  <2>1. SUFFICES ASSUME Bad # {} PROVE FALSE
    OBVIOUS
  <2>2. Bad \in SUBSET Nat
    OBVIOUS
  <2> HIDE DEF Bad
  <2>3. PICK i \in Bad : \A k \in Bad : i <= k
    BY <2>1, <2>2, LeastNatural
  <2>4. i \in 0..n /\ ~SpreadAt(i)
    BY <2>3 DEF Bad
  <2>5. i # 0
    BY <1>3, <2>4
  <2>6. i - 1 \in 0..n /\ i \in 1..n /\ i - 1 \notin Bad
    BY <2>3, <2>4, <2>5
  <2>7. SpreadAt(i - 1)
    BY <2>6 DEF Bad
  <2> DEFINE a == W(i - 1)
             b == M(i - 1)
             c == Q(i - 1)
             e == w[i]
             x == v[i]
             y == t[i]
  <2>8. /\ a \in Nat /\ b \in Int /\ c \in Nat /\ b * b <= a * c /\ (a = 0 => c = 0)
        /\ e \in Nat \ {0} /\ x \in Int /\ y \in Nat /\ x * x <= y
    BY <1>1, <1>3, <2>6, <2>7
  <2>9. W(i) = a + e /\ M(i) = b + e * x /\ Q(i) = c + e * y
    BY <1>3, <1>4, <2>6
  <2> HIDE DEF SpreadAt, a, b, c, e, x, y
  <2>10. (b + e * x) * (b + e * x) <= (a + e) * (c + e * y)
    BY <2>8, SpreadGrows
  <2>11. a + e \in Nat /\ c + e * y \in Nat /\ a + e # 0
    <3> DEFINE p == e * y
    <3>1. p \in Nat
      BY <2>8, Product
    <3> HIDE DEF p
    <3>2. c + p \in Nat /\ a + e \in Nat /\ a + e # 0
      BY <2>8, <3>1
    <3> QED BY <3>2 DEF p
  <2>12. SpreadAt(i)
    BY <2>9, <2>10, <2>11 DEF SpreadAt
  <2> QED BY <2>4, <2>12
<1>6. SpreadAt(n)
  <2>1. n \in 0..n
    OBVIOUS
  <2> HIDE DEF SpreadAt
  <2> QED BY <1>5, <2>1
<1> QED BY <1>3, <1>6

LEMMA IntegerProduct == \A x, y \in Int : x * y \in Int
  OBVIOUS

(* The mean, the variance and the count combine_dataset_stats makes of     *)
(* those of the sources are those of the mixed frames; that the variance   *)
(* is cut off at zero changes nothing.                                     *)
THEOREM StatsAreMixed ==
    ASSUME NEW n \in Nat \ {0}, NEW w \in [1..n -> Positive],
           NEW pairs \in [1..n -> [mean : Int, std : Nat]]
    PROVE  StatsAreOfMixture(pairs, w)
<1> DEFINE stats == [i \in 1..n |-> [x |-> [mean |-> pairs[i].mean, std |-> pairs[i].std,
                         min |-> pairs[i].mean - pairs[i].std, max |-> pairs[i].mean + pairs[i].std,
                         count |-> 2 * w[i]]]]
           high   == [i \in 1..n |-> pairs[i].mean + pairs[i].std]
           low    == [i \in 1..n |-> pairs[i].mean - pairs[i].std]
           Squares(v) == [i \in 1..n |-> v[i] * v[i]]
           mixed  == CombineStats(stats, w)["x"]
           mean   == [i \in 1..n |-> pairs[i].mean]
           square == [i \in 1..n |-> pairs[i].std * pairs[i].std + mean[i] * mean[i]]
           Of(v)  == [i \in 1..n |-> w[i] * v[i]]
           M == Total(Of(mean))
           Q == Total(Of(square))
           T == Total(w)
<1>1. DOMAIN w = 1..n /\ 1 \in 1..n
  OBVIOUS
<1>2. \A i \in 1..n : pairs[i].mean \in Int /\ pairs[i].std \in Nat /\ w[i] \in Nat \ {0}
  BY DEF Positive
<1>3. \A v : Weighted(w, v) = Total(Of(v))
  BY <1>1 DEF Weighted
<1>4. /\ mixed.mean = M
      /\ mixed.var = Max({T * Q - M * M, 0})
      /\ mixed.count = Total([i \in 1..n |-> 2 * w[i]])
  <2>1. "x" \in Common(stats)
    BY <1>1 DEF Common
  <2>2. DOMAIN stats = 1..n
    OBVIOUS
  <2>3. mixed = Combine(stats, w, "x")
    <3> HIDE DEF stats
    <3> QED BY <2>1 DEF CombineStats
  <2>4. [i \in DOMAIN stats |-> stats[i]["x"]["mean"]] = mean
    OBVIOUS
  <2>5. [i \in DOMAIN stats |-> stats[i]["x"]["count"]] = [i \in 1..n |-> 2 * w[i]]
    OBVIOUS
  <2>6. [i \in DOMAIN stats |-> stats[i]["x"].std * stats[i]["x"].std + mean[i] * mean[i]] = square
    OBVIOUS
  <2> HIDE DEF stats, mixed, mean, square, Of
  <2>7. /\ mixed.mean = Weighted(w, mean)
        /\ mixed.var = Max({Total(w) * Weighted(w, square) - Weighted(w, mean) * Weighted(w, mean), 0})
        /\ mixed.count = Total([i \in 1..n |-> 2 * w[i]])
    BY <2>3, <2>4, <2>5, <2>6 DEF Combine
  <2> QED BY <1>3, <2>7
<1>5. /\ Of(high) \in Numbers(n) /\ Of(low) \in Numbers(n) /\ Of(mean) \in Numbers(n)
      /\ Of(square) \in Numbers(n) /\ w \in Numbers(n)
      /\ Of(Squares(high)) \in Numbers(n) /\ Of(Squares(low)) \in Numbers(n)
  <2>1. ASSUME NEW i \in 1..n
        PROVE  /\ w[i] \in Int /\ w[i] * high[i] \in Int /\ w[i] * low[i] \in Int /\ w[i] * mean[i] \in Int
               /\ w[i] * square[i] \in Int
               /\ w[i] * (high[i] * high[i]) \in Int /\ w[i] * (low[i] * low[i]) \in Int
    <3>1. w[i] \in Int /\ high[i] \in Int /\ low[i] \in Int /\ mean[i] \in Int /\ square[i] \in Int
      BY <1>2
    <3> HIDE DEF high, low, mean, square
    <3>2. high[i] * high[i] \in Int /\ low[i] * low[i] \in Int
      BY <3>1, IntegerProduct
    <3> QED BY <3>1, <3>2, IntegerProduct
  <2>2. w = [i \in 1..n |-> w[i]]
    OBVIOUS
  <2>3. /\ Of(Squares(high)) = [i \in 1..n |-> w[i] * (high[i] * high[i])]
        /\ Of(Squares(low)) = [i \in 1..n |-> w[i] * (low[i] * low[i])]
    OBVIOUS
  <2> HIDE DEF high, low, mean, square, Squares
  <2> QED BY <2>1, <2>2, <2>3 DEF Numbers
<1> DEFINE spread == [i \in 1..n |-> w[i] * pairs[i].std]
           cross  == [i \in 1..n |-> w[i] * (pairs[i].mean * pairs[i].std)]
<1>6. spread \in Numbers(n) /\ cross \in Numbers(n)
  <2>1. ASSUME NEW i \in 1..n
        PROVE  w[i] * pairs[i].std \in Int /\ w[i] * (pairs[i].mean * pairs[i].std) \in Int
    <3>1. w[i] \in Int /\ pairs[i].std \in Int /\ pairs[i].mean \in Int
      BY <1>2
    <3>2. pairs[i].mean * pairs[i].std \in Int
      BY <3>1, IntegerProduct
    <3> QED BY <3>1, <3>2, IntegerProduct
  <2> QED BY <2>1 DEF Numbers
<1>7. ASSUME NEW i \in 1..n
      PROVE  /\ Of(high)[i] = 1 * Of(mean)[i] + 1 * spread[i]
             /\ Of(low)[i] = 1 * Of(mean)[i] + (-1) * spread[i]
             /\ Of(Squares(high))[i] = 1 * Of(square)[i] + 2 * cross[i]
             /\ Of(Squares(low))[i] = 1 * Of(square)[i] + (-2) * cross[i]
  <2> DEFINE e == w[i]
             a == pairs[i].mean
             d == pairs[i].std
  <2>1. e \in Int /\ a \in Int /\ d \in Int
    BY <1>2
  <2>2. /\ Of(high)[i] = e * (a + d) /\ Of(low)[i] = e * (a - d) /\ Of(mean)[i] = e * a
        /\ Of(square)[i] = e * (d * d + a * a) /\ spread[i] = e * d /\ cross[i] = e * (a * d)
        /\ Of(Squares(high))[i] = e * ((a + d) * (a + d)) /\ Of(Squares(low))[i] = e * ((a - d) * (a - d))
    OBVIOUS
  <2> HIDE DEF Of, Squares, spread, cross, high, low, mean, square, e, a, d
  <2>3. /\ e * (a + d) = 1 * (e * a) + 1 * (e * d)
        /\ e * (a - d) = 1 * (e * a) + (-1) * (e * d)
    BY <2>1
  <2>4. /\ e * ((a + d) * (a + d)) = 1 * (e * (d * d + a * a)) + 2 * (e * (a * d))
        /\ e * ((a - d) * (a - d)) = 1 * (e * (d * d + a * a)) + (-2) * (e * (a * d))
    BY <2>1
  <2> QED BY <2>2, <2>3, <2>4
<1>8. M \in Int /\ Q \in Int /\ T \in Int /\ Total(spread) \in Int /\ Total(cross) \in Int
  BY <1>5, <1>6, TotalOf DEF Numbers
<1>9. M * M <= T * Q
  <2> DEFINE m == Of(mean)
             q == Of(square)
  <2>1. mean \in Numbers(n) /\ square \in Numbers(n) /\ \A i \in 1..n : mean[i] * mean[i] <= square[i]
    <3>1. ASSUME NEW i \in 1..n
          PROVE  mean[i] \in Int /\ square[i] \in Nat /\ mean[i] * mean[i] <= square[i]
      <4> DEFINE d == pairs[i].std
      <4>1. mean[i] \in Int /\ d \in Nat /\ square[i] = d * d + mean[i] * mean[i]
        BY <1>2
      <4> HIDE DEF d, mean, square
      <4>2. d * d \in Nat /\ mean[i] * mean[i] \in Nat
        BY <4>1, SquareIsNatural
      <4> QED BY <4>1, <4>2
    <3>2. mean = [i \in 1..n |-> mean[i]] /\ square = [i \in 1..n |-> square[i]]
      OBVIOUS
    <3> HIDE DEF mean, square
    <3> QED BY <3>1, <3>2 DEF Numbers
  <2>2. m = [i \in 1..n |-> w[i] * mean[i]] /\ q = [i \in 1..n |-> w[i] * square[i]]
    OBVIOUS
  <2>3. n \in Nat /\ w \in [1..n -> Positive]
    OBVIOUS
  <2> HIDE DEF mean, square, m, q
  <2>4. Total(m) * Total(m) <= Total(w) * Total(q)
    BY ONLY <2>1, <2>2, <2>3, SpreadIsNatural
  <2> QED BY <2>4 DEF m, q
<1>10. Total([i \in 1..n |-> 2 * w[i]]) = 2 * T
  <2> DEFINE c == [i \in 1..n |-> 2 * w[i]]
  <2>1. c \in Numbers(n) /\ \A i \in 1..n : c[i] = 1 * w[i] + 1 * w[i]
    <3>1. \A i \in 1..n : w[i] \in Int
      BY <1>2
    <3>2. \A i \in 1..n : 2 * w[i] \in Int /\ 2 * w[i] = 1 * w[i] + 1 * w[i]
      BY ONLY <3>1
    <3> QED BY <3>2 DEF Numbers
  <2> HIDE DEF c, T
  <2>2. Total(c) = 1 * Total(w) + 1 * Total(w)
    <3>1. n \in Nat /\ w \in Numbers(n) /\ 1 \in Int
      BY <1>5
    <3> QED BY ONLY <2>1, <3>1, Combined
  <2> QED BY <1>8, <2>2 DEF c, T
<1> HIDE DEF Of, Squares, spread, cross, high, low, mean, square, mixed
<1>11. /\ Total(Of(high)) = M + Total(spread) /\ Total(Of(low)) = M - Total(spread)
       /\ Total(Of(Squares(high))) = Q + 2 * Total(cross) /\ Total(Of(Squares(low))) = Q - 2 * Total(cross)
  <2>1. Total(Of(high)) = 1 * M + 1 * Total(spread)
    BY <1>5, <1>6, <1>7, Combined
  <2>2. Total(Of(low)) = 1 * M + (-1) * Total(spread)
    BY <1>5, <1>6, <1>7, Combined
  <2>3. Total(Of(Squares(high))) = 1 * Q + 2 * Total(cross)
    BY <1>5, <1>6, <1>7, Combined
  <2>4. Total(Of(Squares(low))) = 1 * Q + (-2) * Total(cross)
    BY <1>5, <1>6, <1>7, Combined
  <2> DEFINE S == Total(spread)
             X == Total(cross)
  <2>5. S \in Int /\ X \in Int
    BY <1>8
  <2> HIDE DEF M, Q, S, X
  <2>6. 1 * M + 1 * S = M + S /\ 1 * M + (-1) * S = M - S /\ 1 * Q + 2 * X = Q + 2 * X /\ 1 * Q + (-2) * X = Q - 2 * X
    BY <1>8, <2>5
  <2> QED BY <2>1, <2>2, <2>3, <2>4, <2>6 DEF S, X
<1>12. mixed.var = T * Q - M * M
  <2> HIDE DEF T, Q, M
  <2> DEFINE d == T * Q - M * M
  <2>1. d \in Int /\ d >= 0
    <3>1. T * Q \in Int /\ M * M \in Int
      BY <1>8, IntegerProduct
    <3> QED BY <1>9, <3>1
  <2> HIDE DEF d
  <2>2. Max({d, 0}) = d
    BY <2>1, MostOf
  <2> QED BY <1>4, <2>2 DEF d
<1> DEFINE sum == Weighted(w, high) + Weighted(w, low)
           squares == Weighted(w, Squares(high)) + Weighted(w, Squares(low))
<1>13. sum = 2 * M /\ squares = 2 * Q
  <2> HIDE DEF M, Q
  <2> QED BY <1>3, <1>8, <1>11
<1>14. 2 * mixed.mean = sum /\ mixed.count = 2 * T
  BY <1>4, <1>10, <1>13
<1>15. 4 * mixed.var = 2 * T * squares - sum * sum
  <2> HIDE DEF sum, squares, T, Q, M
  <2>1. 4 * (T * Q - M * M) = 2 * T * (2 * Q) - (2 * M) * (2 * M)
    BY <1>8
  <2> QED BY <1>12, <1>13, <2>1
<1>16. StatsAreOfMixture(pairs, w) <=>
          /\ 2 * mixed.mean = sum /\ mixed.count = 2 * T
          /\ 4 * mixed.var = 2 * T * squares - sum * sum
  BY <1>1 DEF StatsAreOfMixture, mixed, high, low, Squares
<1> QED BY <1>14, <1>15, <1>16
=============================================================================

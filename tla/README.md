# kuavo-unified: formal models and proofs

TLA+ models of the parts of kuavo-unified whose correctness depends on the
order in which things happen (threads, callbacks, signals, network calls,
crashes, restarts, edits) and of the algorithms on which its datasets rest.
Each module is written from the source; `PROJECT.json` maps every definition to
the lines it models.  TLC checks the modules on small instances
(`tlc -config X.cfg M`), TLAPS proves theorems for all values of the constants
(`tlapm XProofs.tla`).

## 1. The system

kuavo-unified records demonstrations of the Kuavo humanoid, converts and
repairs them, trains manipulation policies on rented machines, and runs those on
the robot or in its simulator.

| Component | State it keeps | Operations | Talks to |
|---|---|---|---|
| `kuavo_deploy/kuavo_service/client.py` PolicyClient | action queue, RTC counters, one worker thread with two queues of size one | select_action, reset, close; worker: take, infer, put | evaluation loop (call), policy server (WebSocket) |
| `kuavo_policy_protocol` client and server | one socket per client; one handler thread per connection, one model, one lock | connect, infer, reset, close; reset model, metadata, infer, error | each other |
| `kuavo_deploy/src/scripts/script.py`, `controller.py` | paused, should_stop, a lock; the running task | go, run, go_run, here_run, back_to_zero; SIGUSR1, SIGUSR2 | the evaluation, through two ROS topics |
| `kuavo_deploy/src/eval/real_single_test.py` | pause and stop events, episode state | episode loop | environment, policy, diagnostics |
| `kuavo_deploy/src/eval/sim_auto_test.py` | four events, episode counter | first reset, wait for init, episode, reset | the simulator's referee (services init, reset, start; topic success) |
| `kuavo_deploy/kuavo_env`, `utils/obs_buffer.py`, adapters | per-topic deques filled by callbacks, queue of predicted actions, state of the robot's core | reset, step, exec_action, get_obs | ROS, evaluation loop |
| `kuavo_deploy/utils/gripper_latch.py` | hand, rows held, evidence | reset, apply | evaluation loop |
| `kuavo_deploy/utils/diagnostics.py` | bounded queues, writer and uploader threads, an upload pool | start, submit, close, finalize, upload, drain | evaluation loop |
| `kuavo_train/train_policy.py`, `checkpoint_retention.py` | weights, optimizer, counters; files of a run | epoch, save best, periodic, latest; prune; resume | file system |
| `kuavo_train/lingbot` | global step, sharded checkpoints | step, save, retention, resume | external checkpointer, other ranks |
| `kuavo_data` | stamps of a bag, frame buffer, saved episodes, error file | scan, align, convert a chunk, save | file system |
| `tools/audit_*.py`, `tools/rebuild_*.py`, `tools/export_beijing_*.py` | caches, reports, rebuilt datasets | audit, dry run, rebuild, export | bags, converted datasets |
| `lerobot_episode_editor_v8.py` | trim configuration, widgets, samples, plan, saved file | every panel of the page, export | datasets |
| `scripts/run_lingbot_v1_full_pipeline.sh`, `scripts/run_task2_a100_pipeline.sh`, `scripts/vast`, `tools/vast_*` | run directories, status.json, model repository, instance | bootstrap, launch, prepare, resume, train, upload, report, stop | cloud host, model hub |
| the rest | see section 7 | | |

What is hard in it:

* **Threads and callbacks.** The RTC worker overlaps inference with execution;
  handler threads of the policy server share one model; ROS callbacks append to
  two deques per topic while the loop copies them; diagnostics threads drain
  bounded queues.
* **Signals.** The operator's pause and stop run as Python signal handlers on
  the thread they interrupt and reach the evaluation through topics that drop
  messages nobody listens to; TERM and INT reach a pipeline in the middle of a
  command or of its exit handler.
* **Failure.** Timeouts and late answers, broken connections, a model or an
  episode that raises, an unreadable bag, an upload that arrives but fails.
* **Crash and restart.** Machines are preempted; what is on disk, or in the
  model repository, is what the next run goes on from.  Audits and rebuilds
  answer from caches of earlier runs, over bags that may be recorded again.
* **Agreement of separate computations.** The converter aligns in chunks, the
  audits measure, the rebuilds choose again; the editor counts the same frames
  in its playback, its export and its length table.

What makes each part correct: PolicyClient hands out, in each control period,
the action planned for that period; the protocol pairs answers with requests; a
stop stops and a pause pauses; the hand does not flutter and does what its latch
decided; an observation is what its stamps say; every episode is reported once; a
resumed run goes on from a consistent state and loses a bounded amount of work;
a job that reports success has delivered; what is converted, audited or rebuilt
is all of the recording, and of the recording as it is now.

## 2. Modules

| Module | Models | State and actions in the code's terms |
|---|---|---|
| `ActionStream` | abstract: what a chunked policy promises the control loop | one `Execute` per control period, `NewEpisode` per reset |
| `RtcClient` | PolicyClient with its `_AsyncPolicyWorker` threads | `pc` is the place in select_action/reset/close, `wpc[w]` in `_run`; `requests`, `results`, `busy` are the fields of worker `w` |
| `RtcClientProps` | its properties, fairness, the refinement of `ActionStream` | |
| `PolicySession` | WebSocket client and server | `pc[k]` client k inside infer/reset/_connect; `hpc[c]` handler of connection c; `fed` what the model remembers |
| `OperatorControl` | script.py, controller.py, callbacks and loop of the evaluation | `frames` is the stack of running signal handlers; `todo` the segments of the task |
| `EpisodeDiagnostics` | the evaluation's episodes with `diagnostics.py` | `main` is the place in the loop and its finally block, `threads[e][k]` the writer or snapshot thread of episode e, `pool` the upload pool |
| `RobotEnv`, `GripperLatch` | the environment's observations and commands, the adapters' queue, the latch | `data[k]`, `stamp[k]` are the two deques of a key, `arriving` a callback between its two appends, `look` a get_obs in progress |
| `ActionPostprocessing`, `MCRobotEnv` | blender, limiter and latch of action_postprocessing.py along a row of chunks | operators; the state of each is folded over the rows |
| `TrainCheckpoint` | train_policy.py with its files | a file is the set of what can be read from it, {} while missing or half written |
| `TrainingEpoch`, `MCTrain` | the weighted mixture of datasets, accumulation windows, planned updates | operators on lengths, weights and counts |
| `LingbotCheckpoints` | LingBot's checkpoints and retention | `disk[s][p]`: part p of checkpoint s absent, torn or good |
| `SimAutoTest` | sim_auto_test.py and the referee | `at` is the place in the evaluation, with a step each for the subscription, the reset of policy and environment, and the start; the four events as booleans, the referee as the environment |
| `BagAlignment` | the choice of a message for an instant, in the converter, the audits and the rebuilds; idle-frame trimming | operators on sequences of stamps |
| `RosbagConversion`, `MCConversion` | the chunked conversion | `chunk`, `buffer`, `episodes`, `failed`, `errorFile` as in populate_dataset_chunked |
| `HandEvents` | grasp events and the hand's answers in the audits | operators on streams of samples |
| `GripperReview` | grasp cycles of a dataset and the manual marking of bad episodes | operators on streams of sides and on lists of commands |
| `DatasetRebuild`, `MCRebuild` | four audits and four rebuilds with caches and outputs | `job` is the running tool with its phase, `cache[tool]`, `csv`, `lists`, `out` its files |
| `EpisodeExport` | lengths, groups, samples, trim plan, playback, export | operators on a trim configuration |
| `EpisodeEditor`, `MCEditor` | the editor's page, over the files a user may load | one action per event, each with the rerun of the script behind it |
| `CloudSteps` | the scripts as sequences of steps; run directories | |
| `CloudJob` | launches of these scripts on one instance | `step` is the number of the step, `stage` the place in the exit handler, `disk`, `repo`, `status` the places they write |

Proofs: `RtcClientProofs`, `PolicySessionProofs`, `TrainCheckpointProofs`,
`LingbotCheckpointsProofs`, `EpisodeDiagnosticsProofs` and `RobotEnvProofs` are
each about the module they are named for (the last also about `GripperLatch` and
`ActionPostprocessing`).  `OperatorControlProofs` is about the two evaluations an
operator can stop, `OperatorControl` and `SimAutoTest`; it extends both, so the
specification of `SimAutoTest` has names of its own (`SimInit`, `SimNext`,
`SimSpec`).  `DatasetRebuildProofs` is about the data tools: their pure
algorithms (`BagAlignment`, `HandEvents`, `GripperReview`), `DatasetRebuild`,
`EpisodeEditor` (`EditorSpec`) and `RosbagConversion` (`ConversionSpec`), which
share lemmas about least elements, ranks and streams.  `TrainCheckpointProofs`
also holds the proofs about `CloudJob` (`CloudSpec`), the jobs that start such a
training and carry its files away, and about `TrainingEpoch`, what its epochs
are made of.

How they compose.  `RtcClient` implements `ActionStream`
(`Stream == INSTANCE ActionStream WITH Horizon <- Keep`).  It sees of the server
only an answer or an error within the request timeout; that the protocol
delivers just that is `AnswerIsMine` and `InferEnds` of `PolicySession`.
`RobotEnv` extends the latch and takes the search for the nearest stamp from
`BagAlignment`; the converter, the rebuilds and their audits share that module
too, so that "what the rebuild holds is what the audit measured" is a statement
about one set of definitions.  The evaluation on the robot is in three modules
by concern: halting (`OperatorControl`), reporting (`EpisodeDiagnostics`),
observing and acting (`RobotEnv`).  `MCRebuild`, `MCRobotEnv` and `MCTrain` add to a
state machine the pure algorithms of the same part of the system, whose
assumptions TLC evaluates when it runs the machine; `MCConversion` lists the
recordings to convert, `MCEditor` the configurations in the files to load.

Each property is tested against a plausible bug of the code: `PROJECT.json`
lists under "mutants" which definition to replace by which variant, defined
just above it, for the property to fail.  No module uses these variants.

### Abstractions that matter

* **RTC.** An action is the observation it was planned from and its position in
  the chunk: two observations never give equal actions, so "the right action
  for this period" can be said.  An answer is the number of its actions, or an
  error.  The latency estimate is written into the request and read by no guard.
* **Session.** The model is the list of requests it saw since its last reset.
* **Training.** Weights are told apart by the number of optimizer steps they
  saw.  Files written in place are unreadable while they are written; an
  `epochbest` or `epochN` directory is written in one step (nothing in the
  training loop reads them).
* **LingBot.** The checkpointer is an external package, modelled by the parts
  `checkpoint_is_complete` looks for; `ExtraFirst` says that the per-rank
  `extra_state` files come before the shards' `.metadata`, and the results are
  under that order.
* **Simulator.** The referee is not in the repository.  `Pokes = TRUE` is the
  behaviour of `tools/ros_mock.py`, `FALSE` a referee that announces each reset
  once.  A reset that it carried out ends the episode it was judging; reset and
  start may fail, and the evaluation goes on.
* **Robot.** A message is its stamp.  A callback appends datum and stamp in two
  steps and the loop copies the two deques in two steps, as no lock covers
  either.  Buffers are full after warm-up.  `Percent` is the code's `ratio`.
  What an action contains (a chassis movement, a gripper intent) is chosen when
  it leaves the queue.  The wait for the stance ends whether or not the robot
  stands, as nothing looks at its result, and the arm then takes its command or
  not; the hand is what it was last commanded to be.  Clipping, images and close
  are left out.  The shipped configurations do not switch frame
  alignment on; the run covers both.
* **Post-processing, mixture, schedule.** Rows and statistics are fixed-point
  numbers; a weight is a whole number, and a fraction its share of the sum, so
  the rounding of floats is left out.  Which frame a seeded shuffle puts where is
  left out; that every frame of a source is drawn is not.
* **Diagnostics.** A thread whose cv2 import fails ends at once; an upload or a
  disk may hang for ever; an append to one of an episode's files may fail, which
  nobody is told.  The output directory is fresh.  The smoke test and
  the notifications, for which nobody waits, are left out.
* **Conversion.** Stamps of a topic increase strictly; "body" stands for each
  required low-dimensional topic.  An unreadable message fails its bag.
  Slices, scaling and images are left out, and the key listener.
* **Audits and rebuilds.** A recording is a version with a length, a size and a
  set of findings; every version has a modification time of its own, but two may
  have one size.  A worker looks at size and time in one step and reads the bag in
  another, in the order of its tool.  An old dataset is removed a file at a time.  A failed conversion shifts the indices of the
  converted dataset.  Numeric criteria are in `HandEvents`, for one channel,
  with times in microseconds and medians doubled.  The second pass of the task 3
  audit over nested ranges, partial audits and smoke-test limits are left out.
* **Editor.** The Streamlit library may forget the keys of widgets that are not
  on the page; the slider may answer its old or its new value; which samples a
  random number picks is open.  Save comes before the uploader on the page.
  Overwriting the source by the export (same root, overwrite on) is left out.
* **Cloud.** A command ends; an upload is one commit, which may arrive though
  the command fails; a stopped instance keeps its disk; one job at a time; the
  resume repository is the output repository.  The OpenPI pipeline is external.
  Terminal hangups and job profiles are left out.

## 3. Runs

All runs pass.

| Run | Instance | Shows |
|---|---|---|
| `rtc` | RTC on, horizon 3, threshold 2, execution horizon 2, answers of 1 or 4 actions, 4 periods, 2 episodes | QueueAligned, SentIsHeld, PutNeverBlocks, PrefixIsCommitted, the refinement StreamSpec; CallsEnd; no deadlock |
| `session` | 2 clients, 2 connections, 2 requests, faults | AnswerIsMine; InferEnds, ClosedHandlersEnd; no deadlock |
| `operator` | all five tasks, 4 signals, handlers nested 2 deep | FewLateMoves, PauseAgrees; PatientStopEnds |
| `train` | 4 epochs of 2 steps, limit 7, losses 1..3, snapshot every epoch, keep 2, 3 restarts | SelfContainedUnlessCut, BestIsKept, ResumesWhatWasSaved; `MCTrain` |
| `lingbot` | 2 ranks, 5 epochs of 2 steps, saves every 3 steps and every 2 epochs, keep 2, 3 crashes | RanksAgree, FinalReadable, LossBounded |
| `sim` | 2 episodes of 2 steps, a referee that repeats init, 1 pause, stop, failures | StartsOnReadyScene, SuccessIsEarned; EvaluationEnds |
| `diagnostics` | 2 episodes of 2 steps, queues of 1 frame, 2 threads started or files with missing rows, failures | ReportedOnce, VideoWhole; EvaluationReturns |
| `editor` | 2 datasets of 3 episodes of 2 frames, groups of 2, 3 events, 3 files to load, one with ranges outside the episode | FramesAgree, DecisionStands, PlanRespectsEdits |
| `cloud` | six scripts, 2 launches, 1 signal, 1 preemption, also inside a save, failures of any command | SuccessDelivers, ResumesWhole, StateSurvives |
| `conversion` | 2 bags of 7 instants, chunks of 1 frame, every second image, 1 failure of a step, 2 runs | ChunkedIsWhole, EpisodesAreWhole, MissingReported |
| `rebuild` | 2 bags, four workflows, 4 launches with 2 settings and 2 samplings, 1 new recording of 2 sizes, stops anywhere | NothingStale, ManifestMeansComplete, OldOutputSurvives; `MCRebuild` |
| `robot` | 2 keys, latch of 2 rows with holds of 3 and 1, chunks of 2, 2 episodes; once aligned, once with chassis movements and a claw | Aligned, NoFlutter, ActsOnOwnEpisode, HandFollowsLatch; `MCRobotEnv` |

The assumptions of the MC modules are evaluated once, before the states.
`MCRebuild`: the choices of a message, the trimming and the event windows of the
audits agree with their reference definitions on all streams of up to four
messages; cycles are found, and an episode marked bad or good again is listed
accordingly, for all short signals and sequences of commands.  `MCRobotEnv`: on
all short chunks, blended and limited rows start from the row before and keep
the limits, and gripper values are the latch's; the examples of
tests/test_action_postprocessing.py.  `MCTrain`: every frame of a source is drawn
in an epoch of the mixture, the mixed statistics are those of the mixture, every
batch belongs to one accumulation window, the planned updates are those made;
the examples of tests/test_dataset_mixture.py.

Why the bounds are enough.  *rtc:* four periods with a horizon of three let a
chunk run out, be merged with every delay from 0 to the whole horizon, and be
requested again; two episodes let a worker of the first live on in the second.
Answers of one action (shorter than every delay but 0) and of four (longer than
the horizon) are the two sides of both slices.  Without RTC there is no second
thread; that mode is covered by the theorems, which hold for both values of
`RtcEnabled`.  *session:* two clients share two connections, so a client either
meets the other or gives its connection up and comes back; two requests are what
an answer needs to be confused with.  *operator:* four signals let handlers nest
and a pause be undone and redone around a stop.  *train:* four epochs with two
kept snapshots prune twice, a limit of seven steps ends the run in the middle of
an epoch, three restarts resume from a state that was itself resumed.
*lingbot:* saves by step (3, 6, 9) and by epoch (4, 8) lie next to each other
without meeting, the final one (10) is neither; were two to meet, the complete
checkpoint would be written over in place and RanksAgree would fail (section 5).
*sim:* two episodes are what a success, an init or a stop needs to leak from one
into the next.  *diagnostics:* a queue of one frame is full after one step (the
code has two), a second episode sees the threads the first left behind; a bound
of two (`MaxEvents`) lets two threads live, two files miss rows, or one of each.
*editor:* three events are a decision, something in between, and the event that
could take it back; three episodes make a full and a partial group.
The files (`MCEditor`) drop an episode, restore all, or have a range that starts
below 0 and ends above the last frame and one that is inverted.  The two datasets are interchangeable (`DatasetSymmetry`; the run checks invariants only).  *cloud:* a
second launch finds what the first left after any failure, signal or preemption,
and the repository may hold any shorter training (`Earlier`).
*conversion:* `MCConversion` takes away any stretch of one stream of the first
bag (an empty one included); with chunks of one frame every message lies at the
edge of a window; the second run finds the first one's error file.  *rebuild:* four
launches are an audit, a dry run, a rebuild and one more that could answer from
their caches; a recording may change before, between or during them.
`Bounds` in `MCRebuild` lets bags be recorded again from the second launch on (what
happens in the first can happen there) and gives the claw audit one setting: the
low-dimensional audit answers from its cache in the same way and has both.
The two samplings choose equally many frames of a sound bag and different
numbers of a short one, so the comparison of frame counts sees the one and not
the other.  With 3.1 million states this is the largest run; `robot` has 2.9
million, `cloud` 1.6 million.  *robot:* in the
setup with the chassis five rows hold two switches and the hold between them; in
the one with alignment six stamps per key let both deques roll over while the
loop copies them (the other needs two, to warm up).

`CHECK_DEADLOCK FALSE` stands where the system stops by design: a task that
exited, a training run that is done, an evaluation that ended, a user who has no
events left, a last launch that ended.  `Rtc.cfg` and `Session.cfg` check for
deadlocks.

What the properties exclude.  `PauseAgrees` and `PatientStopEnds` speak of an
operator who sends one signal at a time and waits until the evaluation listens
(`hasty` is set otherwise).  `SelfContainedUnlessCut`, `BestIsKept` and
`ResumesWhatWasSaved` exclude runs in which a crash fell into a window they
name.  `SuccessDelivers` excludes settings that do not fit each other (`Fits`).
`VideoWhole` excludes a writer that outlived the wait for it.
`ManifestMeansComplete` excludes task 1, which writes its manifest before its
videos, from the claim about videos, and a dataset whose removal has begun;
`OldOutputSurvives` excludes the Beijing export, which deletes before it
extracts, and the part of `NothingStale` about outputs rebuild_task1 and
rebuild_task3, whose caches are not compared with the bag at all.
`SuccessIsEarned` excludes an episode before which the reset failed, `ReportedOnce` lets the
files an append to which failed have fewer rows, `MissingReported` lets a bag
without a frame have an episode of leftovers, and `StateSurvives` lets the save
of a newer state take the place of the older.  `HandFollowsLatch` is about hands
that a reset opens, not about the simulated gripper.  Section 5 says what happens in the excluded
cases.

### Fairness

* rtc: threads that can run are scheduled and every blocking call is bounded
  (the request timeout, the result timeout, the join's two seconds); nothing
  makes the control loop call select_action, reset or close.
* session: the same for client and handler threads; a waiting handler gets the
  lock if it is free again and again (SF: Python's locks are not fair but do not
  starve a thread for ever).  The model may hang, except where `ModelReturns`
  says otherwise.
* operator: the main thread runs, pending signals are handled, rospy connects
  and delivers.  Nothing makes the operator do anything.
* sim: the evaluation runs, the referee announces a reset it performed, pauses
  end, rospy delivers.  No fairness for the stop, failures or successes.
* diagnostics: the control thread alone.  Writers and uploads may stop for ever,
  because the code bounds every wait for them.
* cloud states that a script runs on; its checked properties are about safety
  and do not need it.
* train, lingbot, editor, conversion, rebuild and robot are checked for safety
  only and state no fairness.

## 4. Proofs

Every theorem rests only on the assumption about the constants that its module
names (the actions' domains are arbitrary); `PROJECT.json` lists the theorems.

**RtcClientProofs** (`ClientAssumption`: arbitrary horizons, chunk lengths,
numbers of periods and episodes): `TypeCorrect`, `QueueIsAligned`,
`SentMatchesWorker`, `WorkersNeverBlockOnPut`, `PrefixStaysCommitted`,
`PopNeverFails`, and `ClientIsActionStream`, step by step.  That the merged
queue is aligned needs to know for which period the arriving answer was asked,
which needs that request and answer of the current worker carry the period of
`sentAt`, which needs that there is at most one of them, which is what `busy`,
the two queues and the worker's place say together.  `IInv` is their
conjunction: types; the life of a worker as a function of its place; for the
current worker, that what it holds was asked in this episode at `sentAt`; the
relation of `period`, `actionCount` and `sentAt`; the places at which the queue
is not empty.  One lemma per action.  The refinement follows because
`ReturnAction` pops an aligned head and every other step but `FinishReset`
leaves the stream's variables alone.

**PolicySessionProofs** (any clients, connections, requests):
`SessionIsInPhase`, `AnswersAreMine`, `ModelIsNotShared`.  A late answer is not
excluded by looking at the connection it comes on but by how a connection is
used: `SessionInv` says that an open connection belongs to at most one client,
that its handler is in the phase the client's place allows, and that along it
(inbox, handler, outbox) at most one request is under way, the client's own.  A
client that gives up closes the connection, and no client takes it again.

**OperatorControlProofs** (any number of signals, any nesting): `LateMovesAreFew`
by the places of the main thread (`LateInv`: none since the check, one after the
move, two after a playback's last frame); `PausesAgree` by `AgreeInv`, which
follows one toggle through handler, controller and topic: while the operator is
patient, at most one handler and one message are under way and the difference
between the two flags is what they carry.
The module also proves the simulator's evaluation loop beside its referee
(SimAutoTest, any number of episodes): `ScenesAreReady` and
`SuccessesAreEarned`, by `SimInv`: a scene that is waited for or prepared was
announced, and a success on its way or noted is of the episode being played,
except after a stop, when nothing is judged any more, and in an episode before
which the reset failed.

**TrainCheckpointProofs** (any numbers of epochs, steps, losses, restarts):
`FilesAreInOrder`, and from it `MemoryIsSelfContained`, `BestSurvivesResumes`,
`SavedRunsResume`.  `FilesInv` relates the three files to the place between
their writes (`Written`), to each other (`Contained`) and to the run in memory
(`Best`, `Readable`), outside the windows recorded in `cuts`.

The same module has the cloud jobs (`CloudAssumption`: any of the six scripts,
any target, launches, signals, preemptions): `TrainingsAreDelivered`,
`ResumesAreWhole`, `StatesSurvive`.  `CloudInv` has five parts.  `CloudTyped` gives the types; `Launched` says with
which settings a launch starts and what holds before the first one, so that a
success reported or a stop carried out is one these settings ask for.
`Progress`: whatever holds a training state or a model has been trained for.
`Fetched` is about the steps from the download to the training: the directory
holds what the repository holds, and a trainer that has loaded is not behind its
directory.  `Published` is about the steps after: the directory holds the whole
training, what was uploaded lies in the repository, and upload status, exit code
and stop of the instance tell of a delivered training, given that the settings
fit each other.  `Order` says which step of which script comes before which and
is the only place where the scripts are unrolled; `Changes` and `Stepping` say
which part of the state a step may touch; `FetchedKept` and `PublishedKept`
follow the two directions of the files.  `Foremost` and `Outdone` are about the
newest state of a repository when one is added, `Lasting` and `Remembers` about
the trainer that deletes its directory's state to make room: it has a later one
in memory (`StateSurvives`).

It ends with what an epoch is made of (`TrainingEpoch`), for any number of
sources, frames, batches and ranks; `MCTrain` evaluates the same statements on
small inputs.  `EveryBatchCountsOnce`: a batch lies in the window that begins at
the multiple of the accumulation below it (`StepEndsWindow`), and the last
window is as short as it is divided by.  `ScheduleLasts` and
`ScheduleLastsOnRanks`: the updates are at most the windows begun, since two
batches that end a window end different ones (`UpdatesAtMost`), and the plan is
at least that many.  `EveryItemIsDrawn`: the slots of a source are those between
two partial sums (`SourceIs`, `HasSource`), a source has at least as many slots
as items (`SlotsShared`), and the remainders of so many numbers come up equally
often up to one (`Remainders`).  `StatsAreMixed`: sums of combined numbers are
combined sums (`Combined`), and the weighted squares outweigh the square of the
weighted sum (`SpreadIsNatural`), one source at a time (`SpreadGrows`).  Weights
are whole numbers here; the rounding errors of the code's fractions are not
modelled.

**LingbotCheckpointsProofs** (any ranks, steps, epochs, crashes):
`RanksStayTogether`, `LastIsReadable`, `LossIsBounded`.  `CheckpointInv` says in
which order the parts of a save reach the disk (`SharedLast`, `InOrder`), that
nothing ahead of the run is complete (`Fresh`), where in its epoch the run is
(`Place`), and for which reason a checkpoint exists (`Reasons`).  Two hypotheses
are needed and stated: `ExtraFirst`, the order in which the external
checkpointer writes, and `SavesApart`, that no epoch whose end is saved ends on a
step that was saved already (else a complete checkpoint is written over in
place).  The loss is bounded for SaveSteps > 0 and KeepLast # 1; section 5 has
the counterexample with one kept checkpoint.  `Covered` is its invariant: some
complete checkpoint is at most SaveSteps behind what was ever reached, and after
it no step of save_steps was passed without being saved.

**EpisodeDiagnosticsProofs** (any episodes, steps, queue sizes):
`DiagnosticsTypes`, `EveryEpisodeReportedOnce`, `StoredVideosAreWhole`.
`DiagnosticsInv` counts the bundles against the episodes that are over, relates
the recorder's rows to the step at each place of the loop (`Rows`: at most one
action ahead, and that only when the episode is cut short; fewer in the files
`missed`), and follows the video from the thread that writes it to the recorder that waits for that thread
(`Filming`).

**RobotEnvProofs**: `GripperNeverFlutters`, from `LatchInv`: the latch's three
numbers summarise the rows of the episode (its hand is the last one decided, its
evidence counts rows at the end of the trail, its dwell time reaches back at
most to the last switch).  `ActionsAreOfTheirEpisode` by the origin of the
queue's actions.  `HandFollowsItsLatch`: the hand is, at each place of the loop,
the one of the last row of the trail that was executed by arm and hand.
`ObservationsAreAligned` from `Sight`: until a callback is over the stamps may
lack one message against the data, never more, so the data copied first are
enough for the stamps copied after them, and a datum is that of its stamp unless
a callback came in between.  `LimiterKeepsItsLimits`: over any sequence of rows
every step of a limited joint is within its velocity and every change of a step
within its acceleration.  They hold for any thresholds, chunk sizes and setups.

**DatasetRebuildProofs**, the algorithms (streams of any length):
`NearestAgreement` (the converter's two searches and the audits' measure choose
the same message), `HoldMeasured` (the message a rebuild holds is the youngest
not after the frame and as old as the audit says), `TrimKeeps`,
`ClawWindowsAreApart`, `HeldWindowsAreApart`, `StableWindowsAreApart`,
`ClawsDoAlternate`; `EventsAreAccounted` (an invariant of the pairing, by the
number of events read) and `VerdictsAgree` (by the number of commands).

The rebuilds (any bags, settings, launches, recordings): `NothingIsStale`,
`ManifestsAreComplete`, `OldOutputsSurvive`, `TracesAgree`.  `RebuildInv` adds to
the properties the shape of job, caches and output, that a job past its work
phase has nothing left to do (`Worked`), that a result in hand was read since
the launch or noted with the size or time that a bag had then (`Current`), also
for those a worker holds between its look at the bag and its reading of it, and
which of the output's parts are written, or already removed, at which phase
(`Written`).  Versions only grow, so a result that was current stays not older
than the launch.

The editor (any episodes, frames, group sizes, edits): `DecisionsStand`,
`PlansRespectEdits`, `ExportShowsPlayback`.  `EditorInv` says what a widget may hold at every rerun of
the script (`Edited`) and that a decision that stands is the configuration's,
that its checkbox shows it or has forgotten its value, and that no uploaded file
is applied over it (`Standing`).  The frames of an export rest on lemmas about
lists of lists: cutting a list into groups and putting these together gives the
list (`ChunksWhole`), what is put together in two steps may be put together in
one (`FlattenTwice`), empty lists may be left out (`EmptyOnesMayGo`), and the
length of the whole is the total of the lengths (`FlattenLength`, `TotalIs`).
The loaded ranges are any integers: export and playback clamp them alike, and the
summary, which does not, announces at least as many frames.
Flattening and adding up are recursive functions; where a text would take
induction over a list, the lemmas take the function of its beginnings
(`PutTogether`, `Sums`) and the least place at which it could differ.

The conversion (any bags whose streams are in order, any chunk size, drop,
stride, failures and runs): `ChunksAlignAsWhole`, `EpisodesHoldTheirBag`,
`LossesAreReported`.  The first rests on `SourceIsAligned`: the frames of a chunk
lie between its first and its last instant, so a message within one frame time
of a frame is among those that the chunk reads, and as stamps do not repeat it is
the only one closest to the message that the whole bag has closest
(`NearestAgreement`).  The other two rest on `Collected`: before the bag that is
read, every bag of the order has failed or has an episode; the buffer holds
frames of failed bags and then exactly the frames of the chunks that were read;
no bag comes twice in an order.

What TLC checks alone.  All liveness (`CallsEnd`, `InferEnds`,
`ClosedHandlersEnd`, `PatientStopEnds`, `EvaluationEnds`, `EvaluationReturns`):
the prover has no ENABLED.  Every other property of a run is a theorem.  What
`MCTrain`, `MCRobotEnv` and `MCRebuild` evaluate of pure algorithms beyond these
theorems (the indices and the trimmed tails of the mixture, the examples of the
tests) is checked on the small inputs they name.

## 5. Known divergences

What the repository says and the models refute.  The definitions are in the
modules, marked "no run checks it"; the constants named here make TLC find the
counterexample.

1. `FirstInferenceIsFresh` (PolicySession; Clients = {ctl}, MaxConns = 3,
   MaxRequests = 3).  docs/policy_protocol_zh.md:110-111 promises a reset model
   per connection.  The model lock is released between a session's reset and its
   first request, and a request the client gave up may be inferred in between.
2. `StopArrives` (OperatorControl; Tasks = {"go_run"}, MaxSignals = 2).  A stop
   during the approach of go_run is forgotten when the evaluation starts.
3. `StopEnds` (OperatorControl; Tasks = {"go"}, MaxSignals = 1, MaxNesting = 1).
   A signal handler waits for a lock that the thread it interrupted holds.
4. `SelfContained` (TrainCheckpoint; MaxEpoch = 3, MaxTrainingStep = 0,
   KeepLast = 1, MaxStarts = 2).  The three files of the latest state are not
   written as one (train_policy.py:403 calls it self-contained).
5. `LossBounded` (LingbotCheckpoints; one rank, TrainSteps = 5, NumEpochs = 1,
   SaveSteps = 2, SaveEpochs = 0, KeepLast = 1, MaxCrashes = 1).  With one kept
   checkpoint a crash during a save loses all progress, not SAVE_STEPS.
6. `EvaluationEnds` (SimAutoTest; Pokes = MayStop = MayFail = FALSE).
   init_evt is cleared after the reset it answers, so a scene that is announced
   once can be missed.
7. `StopsAfterTraining` (CloudJob; Scripts = {"classic", "lingbot-v2"},
   RunPrefixes = {0, 1}, one launch, no signal, no preemption).  A run id that
   begins with `run_` is uploaded from another directory than it was trained in;
   with several GPUs the resume directories differ likewise
   (run_backend.sh:543, train_policy_with_accelerate.py:253).  A resume from an
   unreadable state exits 0, and the instance is stopped untrained.
8. `OneBagPerEpisode` (RosbagConversion).  The frames of a bag that failed after
   some chunks stay in the buffer and become part of the next saved episode;
   `EpisodesAreWhole` says what does hold.  error.txt survives a later good run.
   If the bag after the failed one has no frame, the leftovers are saved as its
   episode and error.txt does not name it (CvtRosbag2Lerobot.py:424-448), which
   `MissingReported` spells out.

What the code does at places where a reader would expect more, and what the
properties therefore allow:

* After a reset that failed the referee goes on with the old episode; its
  success counts for the new one from the subscription on
  (sim_auto_test.py:289, 433), and the answer to `/simulator/start` is not looked
  at (321).
* An append that fails is swallowed (diagnostics.py:578-586): rows of an
  episode's file are missing, and the bundle is uploaded as if complete.
* The editor takes the ranges of a loaded file as they are (1720-1723,
  2469-2473).  Export and playback clamp them, summarize_export (2768-2770,
  2784-2786) does not and announces more frames than are exported.
* The LingBot v1 pipeline keeps one checkpoint
  (run_lingbot_v1_full_pipeline.sh:19, 552), and checkpoint_retention.py:26-61
  deletes the only complete state before the next one is written: a signal or a
  preemption in the save loses the training since the repository's state.
* rebuild_task2 notes the size of a bag after it has read it (219, 293) and
  compares only sizes (196), and its cache does not know `--sample-drop` and
  `--camera-stride`: values of a replaced recording, or of another sampling with
  as many frames, are used again.
* A removal (`shutil.rmtree`) that is killed half way may leave a manifest whose
  values or videos are partly gone (rebuild_task1:131, rebuild_task2:455,
  rebuild_task3:252, export_beijing:447).
* step ignores whether the robot came to stand and logs "Successfully executed
  [Robot Stand]" (KuavoBaseRosEnv.py:384-387); the arm's refusal is swallowed and
  the hand is commanded all the same (421-438).
* A model whose reset raises ends its session before the metadata
  (kuavo_policy_protocol/server.py:61-62); the client sees a broken connection.

Seen while modelling and stated in comments: `controller.py` sends the same
toggle for `pause` and `resume`; `epochbest` is written before the best loss is
stored; a stop between two simulated episodes still resets and starts the next
scene; held edges of task 3 need not alternate, so a close, a short open and a
close again give two "close" events, the second of which no hand can answer
(audit_task3_lowdim_alignment.py:172-176 speaks of a new intent); the window of
a Beijing event may pass `end` when the next held edge lies beyond it; a bag in
which the claw is unreadable makes the low-dimensional audit crash on an empty
number; when no
observation is aligned within 1 / ros_rate, the next attempt accepts any
distance, so a stream that froze goes unnoticed (KuavoBaseRosEnv.py:498); the hand of an rq2f85 robot is not opened by reset
while its latch starts open; rows of a chassis movement count as hold time; a
drop marked elsewhere for the selected episode is undone by its checkbox
(lerobot_episode_editor_v8.py:2397).

Open hazards, which no property covers.  Counters of the accelerate loop are
stored before the state they belong to, and a state that loads in part is gone
on with (train_policy_with_accelerate.py:481).  An epoch of LingBot that ends on
a step just saved writes the complete checkpoint over in place
(train_lingbotvla.py:1068).  A port found ready belongs to whoever opened it
(policy_server_manager.py:102).  Saving with a file still in
the uploader writes the widgets' values for the selected episode while the page
shows the file's (lerobot_episode_editor_v8.py:2458), and sampled group indices
name other episodes after a drop with regrouping on (2269).  A resume
download of the LingBot v1 pipeline that was cut leaves a directory, and the
next launch skips the download and trains on from it
(run_lingbot_v1_full_pipeline.sh:508): `ResumesWhole` is about the runner's
scripts.  The bootstrap writes its manifest into the checkout it later requires
to be clean, so a second one refuses (remote_clone_and_restore.sh:57).

## 6. What is left

1. `AccelerateTraining`: ranks, barriers, partial loads; it shares with
   `TrainCheckpoint` an abstract specification of a resumable run, which
   `LingbotCheckpoints` could implement too.
2. `PolicyServerManager` with `eval_kuavo.py`: child process, port, teardown.

The runs are kept few, one per question: a module that is added brings one run
that carries its whole property set.

## 7. Not modelled, and why

* Policy wire schema and MessagePack encoding: pure validation; its outcome is
  an input of `RtcClient` and `PolicySession`.
* Distributed training with accelerate: what `save_state` does on disk belongs
  to a library outside the repository; see the open hazards.
* Policy server manager, ZeroMQ server and worker: one child process, one
  client with one request at a time.
* Simulator environment: a thin subclass of the robot's.
* Interactive menu: starts the task process and sends the signals that
  `OperatorControl` models.
* Neural networks, augmentation, statistics: tensor arithmetic.
* Container front end, deployment configuration, policy loading: command lines,
  parsing.
* Viewers, checks, checkpoint exports: no state outlives a call.
* Vendored patches, overlays, packaging, configuration files.

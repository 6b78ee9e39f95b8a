-------------------------------- MODULE CloudJob --------------------------------
(***************************************************************************)
(* A training job on a rented instance: how it gets there, the script that *)
(* prepares, resumes, trains and uploads, its report and the stop of the   *)
(* instance, over several launches on the same disk.                       *)
(*                                                                         *)
(* One instance runs one job at a time.  A command of a step may fail; one *)
(* that uploads may fail after the repository took the files.  Bash acts   *)
(* on a TERM when the running command has ended; an INT also ends that     *)
(* command, and only a job in the foreground gets one.                     *)
(***************************************************************************)
EXTENDS CloudSteps, FiniteSetsExt

CONSTANTS Scripts,         \* the scripts to consider
          RunPrefixes,     \* prefixes "run_" a user may put before an id
          Target,          \* the amount of training that is asked for
          MaxLaunches, MaxSignals, MaxPreemptions  \* bounds

ASSUME CloudAssumption ==
    /\ Scripts \subseteq Runner \cup Alone /\ RunPrefixes \subseteq {0, 1}
    /\ Target \in Nat \ {0, 1}
    /\ MaxLaunches \in Nat /\ MaxSignals \in Nat /\ MaxPreemptions \in Nat

VARIABLES script,    \* what this instance was rented for
          checkout,  \* the remote root: "absent", "git" or "tree"
          job,       \* the settings of the last launch
          stage,     \* "idle", "step", or how far the exit handler is
          step,      \* number of the step
          tries,     \* attempts made at the step
          mem,       \* what the trainer has in memory, -1 before it loaded
          upload,    \* UPLOAD_STATUS
          disk,      \* the run directories
          repo,      \* the model repository: final model, training states
          status,    \* state and phase in status.json of the last launch
          rc,        \* exit code: 0 or not
          told,      \* failure notifications of the last launch
          instance,  \* "running", "stopped" by the script, or "down"
          term,      \* a TERM waits for the running command
          gone,      \* the script ended before its exit handler reported
          launches, signals, preemptions
cloudVars == <<script, checkout, job, stage, step, tries, mem, upload, disk, repo, status, rc,
          told, instance, term, gone, launches, signals, preemptions>>
counts == <<launches, signals, preemptions>>

Dirs   == (1..MaxLaunches + 1) \X (0..2)
Dir(at, kind, whole) == [at |-> at, kind |-> kind, whole |-> whole]
Repo(at, kind, dcps) == [at |-> at, kind |-> kind, dcps |-> dcps]
NoJob  == [script |-> "none"]
Phases == Program(job.script)
Exits  == {"status", "notify", "stop"}
InStep == stage = "step"
Name   == Phases[step][1]
At(name) == InStep /\ Name = name
(* Newest training state in the repository, and what a resume downloads. *)
NewestOf(s) == IF s = {} THEN 0 ELSE Max(s)
Content == IF job.script = "classic" THEN Dir(repo.at, repo.kind, TRUE)
           ELSE Dir(NewestOf(repo.dcps), IF repo.dcps = {} THEN "none" ELSE "dcp", TRUE)

(* The repository may hold a shorter training by an earlier instance.      *)
Earlier == 1..Target - 1
CloudInit ==
    /\ script \in Scripts
    /\ checkout = "absent"
    /\ job = NoJob /\ stage = "idle" /\ step = 0 /\ tries = 1 /\ mem = -1
    /\ upload = "not_started"
    /\ disk = [d \in Dirs |-> Dir(0, "absent", TRUE)]
    /\ repo \in IF script = "classic"
                THEN {[at |-> n, kind |-> k, dcps |-> {}] :
                         n \in Earlier, k \in {"weights", "single", "multi"}}
                ELSE [at : {0}, kind : {"none"}, dcps : SUBSET Earlier]
    /\ status = [state |-> "none", phase |-> "none"]
    /\ rc = 0 /\ told = 0
    /\ instance = "running" /\ term = FALSE /\ gone = FALSE
    /\ launches = 0 /\ signals = 0 /\ preemptions = 0
-----------------------------------------------------------------------------
(* How the code gets to the instance.  The clone leaves its manifest in    *)
(* the checkout, so that a second clone finds it dirty and refuses.        *)
Bootstrap ==
    /\ stage = "idle" /\ instance = "running" /\ checkout = "absent"
    /\ checkout' = "git"
    /\ UNCHANGED <<script, job, stage, step, tries, mem, upload, disk, repo, status, rc,
                   told, instance, term, gone, counts>>
SyncWorkingTree ==
    /\ stage = "idle" /\ instance = "running"
    /\ checkout' = IF checkout = "absent" THEN "tree" ELSE checkout
    /\ UNCHANGED <<script, job, stage, step, tries, mem, upload, disk, repo, status, rc,
                   told, instance, term, gone, counts>>

(* Any launch starts the script anew: its own log directory and a status   *)
(* that says it is running.  Pipelines run alone keep no status.           *)
Start(j) ==
    /\ stage = "idle" /\ instance = "running" /\ launches < MaxLaunches
    /\ launches' = launches + 1
    /\ job' = j /\ stage' = "step" /\ step' = 1 /\ tries' = 1 /\ mem' = -1
    /\ upload' = "not_started"
    /\ status' = IF j.script \in Runner THEN [state |-> "running", phase |-> "bootstrap"]
                 ELSE [state |-> "none", phase |-> "none"]
    /\ rc' = 0 /\ told' = 0 /\ term' = FALSE /\ gone' = FALSE
    /\ UNCHANGED <<script, disk, repo, instance, signals, preemptions>>

Fresh == <<launches + 2, 0>>   \* a generated id: backend and time
Job(id, resumeId, resume, gpus, foreground, stop, optIn, tidy) ==
    [script |-> script, id |-> id, resumeId |-> IF resume THEN resumeId ELSE id, resume |-> resume,
     gpus |-> gpus, foreground |-> foreground, stop |-> stop, optIn |-> optIn, tidy |-> tidy]
Gpus == IF script \in {"classic", "a100"} THEN {1, 2} ELSE {1}

(* The wizard asks on the instance and the job runs in its terminal.  A    *)
(* resume keeps the id and needs a repository with a training state.       *)
Wizard ==
    /\ checkout # "absent" /\ script \in Runner
    /\ \E id \in {<<1, k>> : k \in RunPrefixes}, gpus \in Gpus :
         \/ \E new \in {id, Fresh} : Start(Job(new, id, FALSE, gpus, TRUE, TRUE, "no", FALSE))
         \/ /\ (IF script = "classic" THEN repo.kind ELSE IF repo.dcps = {} THEN "none" ELSE "dcp")
                 \in ResumeMarkers(script)
            /\ Start(Job(id, id, TRUE, gpus, TRUE, TRUE, "no", FALSE))
    /\ UNCHANGED checkout

(* launch_job.sh synchronizes code and private settings and starts the job *)
(* in the background; its RUN_ID comes from the settings or is generated,  *)
(* whatever the resume says.                                               *)
LaunchJob ==
    /\ script \in Runner
    /\ checkout' = IF checkout = "absent" THEN "tree" ELSE checkout
    /\ \E resumeId \in {<<1, k>> : k \in RunPrefixes}, id \in {<<1, 0>>, Fresh}, resume \in BOOLEAN,
          gpus \in Gpus, optIn \in {"failure", "upload"} :
         Start(Job(id, resumeId, resume, gpus, FALSE, TRUE, optIn, FALSE))

(* A pipeline of its own, in a terminal: its id is fixed or a time. *)
RunAlone ==
    /\ script \in Alone
    /\ \E resume \in IF script = "a100" THEN {FALSE} ELSE BOOLEAN, gpus \in Gpus, tidy \in BOOLEAN :
         LET id == IF script = "a100" THEN Fresh ELSE <<1, 0>>
         IN Start(Job(id, id, resume, gpus, TRUE, script = "v1 alone", "upload", tidy))
    /\ UNCHANGED checkout
-----------------------------------------------------------------------------
(* The end of a step: a TERM that waited is acted on before the next one,  *)
(* and after the last step the script ends well.                           *)
Leave(code) == /\ stage' = "status" /\ step' = 0 /\ mem' = -1
               /\ rc' = code /\ term' = FALSE
Advance ==
    /\ tries' = 1
    /\ IF term THEN Leave(1)
       ELSE IF step = Len(Phases) THEN Leave(0)
       ELSE step' = step + 1 /\ mem' = -1 /\ UNCHANGED <<stage, rc, term>>

(* Phases of the runner that are not written to the status file. *)
Silent == {"batch", "validate", "assets", "norm"} \cup
          (IF job.script = "lingbot-v2" THEN {"train"} ELSE {})
Announce == status' = IF job.script \in Runner \ Pipeline /\ Name \notin Silent
                      THEN [state |-> "running", phase |-> Name] ELSE status

Frame == UNCHANGED <<script, checkout, job, instance, told, gone, counts>>

(* A step whose work no other step looks at. *)
Effects == {"resume", "train", "export", "final", "dcp", "cleanup", "verify", "local",
            "artifacts", "upload", "openpi", "norm"}
Prepare ==
    /\ InStep /\ Name \notin Effects
    /\ Advance /\ Announce /\ Frame
    /\ UNCHANGED <<upload, disk, repo>>

(* The runner downloads whatever lies in the directory; the pipeline does  *)
(* so only if no checkpoint directory is there, complete or not.           *)
SkipsPresent == ~job.resume \/ disk[UploadDir(job)].kind # "absent"
SkipsResume  == ~job.resume \/ (job.script \in Pipeline /\ disk[RunDir(job)].kind = "dcp")
Download ==
    /\ At("resume")
    /\ disk' = IF SkipsResume THEN disk ELSE [disk EXCEPT ![UploadDir(job)] = Content]
    /\ Advance /\ (IF SkipsResume THEN UNCHANGED status ELSE Announce) /\ Frame
    /\ UNCHANGED <<upload, repo>>

(* The normalization of lingbot-v2 makes the run directory. *)
Norm ==
    /\ At("norm")
    /\ disk' = IF job.script = "lingbot-v2" /\ disk[UploadDir(job)].kind = "absent"
               THEN [disk EXCEPT ![UploadDir(job)].kind = "none"] ELSE disk
    /\ Advance /\ Announce /\ Frame
    /\ UNCHANGED <<upload, repo>>

(* The trainer first looks for a state to go on from.  One it cannot read  *)
(* ends the trainer of a single process with success and no training, the  *)
(* others start from scratch.                                              *)
Loadable(d) == disk[d].kind = Kind(job) /\ disk[d].whole
Resumes     == job.resume \/ job.script \in Pipeline
LoadFresh   == 0
LoadState   == IF Resumes /\ Loadable(UploadDir(job)) THEN disk[UploadDir(job)].at ELSE LoadFresh
Load ==
    /\ At("train") /\ mem = -1
    /\ \/ job.resume /\ Kind(job) = "single" /\ ~Loadable(UploadDir(job))
          /\ Advance
       \/ ~(job.resume /\ Kind(job) = "single" /\ ~Loadable(UploadDir(job)))
          /\ mem' = LoadState /\ UNCHANGED <<stage, step, tries, rc, term>>
    /\ Announce /\ Frame /\ UNCHANGED <<upload, disk, repo>>

(* The trainer saves its next state.  It first makes room: with one        *)
(* checkpoint to keep, the LingBot trainers delete the complete state on   *)
(* the disk, the others write over its files.  From there to the end of    *)
(* the save the directory holds nothing that a resume could read, and a    *)
(* command that ends in between leaves it so.                              *)
Partial == Dir(mem + 1, Kind(job), FALSE)
MakeRoom ==
    /\ At("train") /\ mem \in 0..Target - 1 /\ disk[TrainDir(job)] # Partial
    /\ disk' = [disk EXCEPT ![TrainDir(job)] = Partial]
    /\ Frame /\ UNCHANGED <<stage, step, tries, mem, rc, term, upload, status, repo>>
TrainEpoch ==
    /\ At("train") /\ mem \in 0..Target - 1 /\ disk[TrainDir(job)] = Partial
    /\ disk' = [disk EXCEPT ![TrainDir(job)] = Dir(mem + 1, Kind(job), TRUE)]
    /\ mem' = mem + 1
    /\ Frame /\ UNCHANGED <<stage, step, tries, rc, term, upload, status, repo>>
(* The state at the end is not saved again if it is there. *)
TrainEnd ==
    /\ At("train") /\ mem >= Target
    /\ Advance /\ Frame
    /\ UNCHANGED <<upload, status, disk, repo>>
-----------------------------------------------------------------------------
(* Export and artifact checks need what the trainer should have left. *)
Check ==
    /\ Name \in {"export", "artifacts"} /\ disk[UploadDir(job)].kind \in {"dcp", "single", "multi"}
    /\ Advance /\ Announce /\ Frame
    /\ UNCHANGED <<upload, disk, repo>>

(* What a completed upload leaves in the repository: files are added or    *)
(* replaced, never removed.                                                *)
Publishing == {"final", "dcp", "upload"}
Committed ==
    LET d == disk[UploadDir(job)] IN
    CASE Name = "final" -> Repo(d.at, "weights", repo.dcps)
      [] Name = "dcp"   -> Repo(repo.at, repo.kind, repo.dcps \cup {d.at})
      [] Name = "upload" ->
           IF d.kind = "none" THEN repo
           ELSE CASE job.script = "lingbot-v2" -> Repo(d.at, repo.kind, repo.dcps \cup {d.at})
                  [] job.script = "a100"       -> Repo(d.at, "weights", repo.dcps)
                  [] OTHER                     -> Repo(d.at, d.kind, repo.dcps)
Publish ==
    /\ InStep /\ Name \in Publishing
    /\ disk[UploadDir(job)].kind # "absent"
    /\ repo' = Committed
    /\ upload' = IF Name = "upload" /\ ~term THEN "success" ELSE upload
    /\ Advance /\ Announce /\ Frame /\ UNCHANGED disk

(* Training states other than the newest are deleted, then the repository  *)
(* is looked at.                                                           *)
Cleanup ==
    /\ At("cleanup")
    /\ repo' = Repo(repo.at, repo.kind, repo.dcps \cap {disk[UploadDir(job)].at})
    /\ Advance /\ Frame /\ UNCHANGED <<upload, status, disk>>
Verify ==
    /\ At("verify") /\ repo.at > 0 /\ (job.script \in Pipeline => repo.dcps # {})
    /\ Advance /\ Frame /\ UNCHANGED <<upload, status, disk, repo>>

(* The last step of a pipeline; a parent takes its success for an upload. *)
Local ==
    /\ At("local")
    /\ disk' = IF job.tidy THEN [disk EXCEPT ![RunDir(job)] = Dir(0, "none", TRUE)] ELSE disk
    /\ upload' = IF job.script \in Runner /\ ~term THEN "success" ELSE upload
    /\ Advance /\ Frame /\ UNCHANGED <<status, repo>>

(* openpi: a script outside the repository resumes, trains and uploads, or *)
(* leaves the upload out.                                                  *)
Delegate ==
    /\ At("openpi")
    /\ \E auto \in BOOLEAN :
         /\ repo' = IF auto THEN [repo EXCEPT !.at = Target] ELSE repo
         /\ upload' = IF term THEN upload ELSE IF auto THEN "success" ELSE "disabled"
    /\ Advance /\ Announce /\ Frame /\ UNCHANGED disk

Steady == Prepare \/ Download \/ Norm \/ Load \/ MakeRoom \/ TrainEpoch \/ TrainEnd
          \/ (InStep /\ Check) \/ Publish \/ Cleanup \/ Verify \/ Local \/ Delegate
-----------------------------------------------------------------------------
(* What a command leaves that failed or was cut: a resume may be in part   *)
(* on the disk, an upload may have arrived.                                *)
Torn == [Content EXCEPT !.whole = FALSE]
Leftovers ==
    \/ UNCHANGED <<disk, repo>>
    \/ /\ At("resume") /\ ~SkipsResume /\ Content.kind # "none"
       /\ disk' = [disk EXCEPT ![UploadDir(job)] = Torn]
       /\ UNCHANGED repo
    \/ /\ Name \in Publishing /\ disk[UploadDir(job)].kind # "absent"
       /\ repo' = Committed
       /\ UNCHANGED disk

(* Pipelines run alone notify some failures where they happen. *)
NotifiedAtOnce == IF job.script = "a100" THEN {"train", "upload"}
                  ELSE IF job.script = "v1 alone" THEN {"train"} ELSE {}
Fail ==
    /\ InStep /\ Leftovers
    /\ IF tries < Phases[step][2] /\ ~term
       THEN tries' = tries + 1 /\ UNCHANGED <<stage, step, mem, rc, term>>
       ELSE tries' = 1 /\ Leave(1)
    /\ told' = IF Name \in NotifiedAtOnce /\ stage' = "status" THEN 1 ELSE told
    /\ Announce
    /\ UNCHANGED <<script, checkout, job, instance, gone, upload, counts>>

Interrupt ==
    /\ InStep /\ job.foreground /\ signals < MaxSignals
    /\ signals' = signals + 1
    /\ Leftovers /\ tries' = 1 /\ Leave(1)
    /\ UNCHANGED <<script, checkout, job, upload, status, told, instance, gone, launches, preemptions>>
Terminate ==
    /\ InStep /\ ~term /\ signals < MaxSignals
    /\ signals' = signals + 1 /\ term' = TRUE
    /\ UNCHANGED <<script, checkout, job, stage, step, tries, mem, upload, disk, repo, status, rc,
                   told, instance, gone, launches, preemptions>>
-----------------------------------------------------------------------------
(* The exit handler: status, notification, stop.  A signal ends it where   *)
(* it is.                                                                  *)
ExitState == IF rc = 0 THEN [state |-> "success", phase |-> "complete"]
             ELSE [status EXCEPT !.state = "failed"]
Rest == UNCHANGED <<script, checkout, job, step, tries, mem, upload, disk, repo, rc, term, counts>>
ExitStatus ==
    /\ stage = "status"
    /\ status' = IF job.script \in Runner THEN ExitState ELSE status
    /\ stage' = "notify" /\ Rest /\ UNCHANGED <<told, instance, gone>>
FailNotified  == told > 0
ExitNotify ==
    /\ stage = "notify"
    /\ told' = IF rc = 0 \/ FailNotified THEN told ELSE told + 1
    /\ stage' = "stop" /\ Rest /\ UNCHANGED <<status, instance, gone>>

(* The runner stops after success and, if asked to, after a failure that   *)
(* followed the upload or after one that kept it out; the pipeline run     *)
(* alone after any end.  The request may fail.                             *)
MayStopAlways == TRUE
MayStopAfter  == \/ rc = 0
                 \/ upload # "success" /\ job.optIn = "upload"
                 \/ upload = "success" /\ job.optIn = "failure"
MayStop == job.stop /\ (job.script = "v1 alone" \/ MayStopAfter)
ExitStop ==
    /\ stage = "stop"
    /\ instance' \in IF MayStop THEN {"stopped", "running"} ELSE {"running"}
    /\ stage' = "idle" /\ Rest /\ UNCHANGED <<status, told, gone>>
SignalInExit ==
    /\ stage \in Exits /\ signals < MaxSignals
    /\ signals' = signals + 1
    /\ stage' = "idle" /\ gone' = (stage = "status")
    /\ UNCHANGED <<script, checkout, job, step, tries, mem, upload, disk, repo, status, rc,
                   told, instance, term, launches, preemptions>>

(* The instance goes away at any moment and comes back with its disk. *)
Preempt ==
    /\ instance = "running" /\ preemptions < MaxPreemptions
    /\ preemptions' = preemptions + 1
    /\ IF InStep THEN Leftovers ELSE UNCHANGED <<disk, repo>>
    /\ instance' = "down" /\ stage' = "idle" /\ step' = 0 /\ tries' = 1 /\ mem' = -1 /\ term' = FALSE
    /\ gone' = (gone \/ InStep \/ stage = "status")
    /\ UNCHANGED <<script, checkout, job, upload, status, rc, told, launches, signals>>
Return ==
    /\ instance # "running" /\ instance' = "running"
    /\ UNCHANGED <<script, checkout, job, stage, step, tries, mem, upload, disk, repo, status, rc,
                   told, term, gone, counts>>

Script == Steady \/ Fail \/ ExitStatus \/ ExitNotify \/ ExitStop
CloudNext ==
    \/ Bootstrap \/ SyncWorkingTree \/ Wizard \/ LaunchJob \/ RunAlone
    \/ Script \/ Interrupt \/ Terminate \/ SignalInExit \/ Preempt \/ Return
CloudSpec == CloudInit /\ [][CloudNext]_cloudVars /\ WF_cloudVars(Script)
-----------------------------------------------------------------------------
CloudTypeOK ==
    /\ stage \in Exits \cup {"idle", "step"} /\ (InStep => step \in 1..Len(Phases))
    /\ tries \in 1..3 /\ mem \in -1..Target /\ rc \in {0, 1} /\ told \in {0, 1}
    /\ upload \in {"not_started", "success", "disabled"}
    /\ \A d \in Dirs : disk[d].at \in 0..Target /\ disk[d].kind \in StateKinds
    /\ repo.at \in 0..Target /\ repo.kind \in StateKinds /\ repo.dcps \subseteq 1..Target
    /\ status.state \in {"none", "running", "success", "failed"}

(* Trainer and runner agree on the directory, and the trainer can read     *)
(* what was downloaded.  Neither is checked by the scripts.                *)
Fits == /\ TrainDir(job) = UploadDir(job)
        /\ job.resume /\ Kind(job) = "single" => repo.kind = "single"
Delivered == repo.at = Target /\ (job.script \in Pipeline => Target \in repo.dcps)

(* A job that reports success after an upload, or whose instance is        *)
(* stopped though nobody asked for that without an upload, has left the    *)
(* model of the full training in the repository, with signals, failures    *)
(* and earlier launches on the same disk: the settings must only fit.      *)
Reports == (status.state = "success" /\ upload = "success") \/ (instance = "stopped" /\ job.optIn # "upload")
SuccessDelivers == Reports /\ Fits /\ script # "openpi" => Delivered

(* The same for all settings, as the documentation has it: by default the  *)
(* instance stops only after training and upload, and is kept otherwise.   *)
(* Not so for the settings that Fits excludes, and no run checks it.       *)
StopsAfterTraining == instance = "stopped" /\ job.optIn # "upload" /\ upload = "success" => Delivered

(* The runner goes on from what the repository holds, whatever an earlier, *)
(* cut or failed download left in the run directory.                       *)
ResumesWhole ==
    [][mem = -1 /\ mem' >= 0 /\ job.resume /\ job.script \notin Pipeline
         /\ Content.kind = Kind(job) /\ Fits => mem' >= Content.at]_cloudVars

(* The pipeline loses no training state but the one its trainer is about   *)
(* to replace.  The newest complete state, on the disk or in the           *)
(* repository, only gives way to one at least as new, except when the      *)
(* trainer makes room for its next save, and then it has this very state   *)
(* in memory: what is cut before the save ends is lost.  The repository    *)
(* itself never falls behind, also between the upload of a new state and   *)
(* the deletion of old ones.                                               *)
Complete == {d \in Dirs : disk[d].kind = "dcp" /\ disk[d].whole}
MostAdvanced == Max({0} \cup repo.dcps \cup {disk[d].at : d \in Complete})
MakesRoom == At("train") /\ disk'[TrainDir(job)] = Partial /\ mem = MostAdvanced
KeepsStates == /\ NewestOf(repo.dcps') >= NewestOf(repo.dcps)
               /\ MostAdvanced' >= MostAdvanced \/ MakesRoom
StateSurvives == [][(script \in Pipeline) => KeepsStates]_cloudVars

=============================================================================

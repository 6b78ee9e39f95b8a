------------------------------- MODULE CloudSteps -------------------------------
(***************************************************************************)
(* The scripts of a training job in the cloud as sequences of steps, and   *)
(* the directories and repositories they read and write.  A step is a pair *)
(* <<name, attempts>>: a phase of the script, with how often a failing     *)
(* command of it is tried (retry 3 in the pipelines, once elsewhere).      *)
(*                                                                         *)
(* A run id is <<n, k>>: the name n behind k prefixes "run_".  So is a run *)
(* directory: <<n, 0>> is "n", <<n, 2>> is "run_run_n".                    *)
(***************************************************************************)
EXTENDS Naturals, SequencesExt

Once(names)   == [i \in DOMAIN names |-> <<names[i], 1>>]
Thrice(names) == [i \in DOMAIN names |-> <<names[i], 3>>]

(* dp and act, run by the backend runner. *)
ClassicPrepare == Once(<<"environment", "cuda", "batch">>)
ClassicRun     == Once(<<"dataset", "resume", "train", "upload">>)

(* lingbot-v2, run by the backend runner. *)
V2Prepare == Once(<<"environment", "validate">>)
V2Run     == Once(<<"dataset", "assets", "resume", "norm", "train", "upload">>)

(* lingbot-v1: a pipeline of its own, run alone or as a child. *)
V1Tools        == Thrice(<<"tools">>)
V1Code         == Thrice(<<"code">>)
V1Dependencies == Thrice(<<"dependencies">>) \o Once(<<"smoke">>)
V1Assets       == Thrice(<<"login", "dataset">>)
V1Norm         == Once(<<"norm">>)
V1Resume       == Thrice(<<"resume">>)
V1Train        == Once(<<"train", "export">>)
V1PublishEarly == Once(<<"repo">>) \o Thrice(<<"final">>) \o Once(<<"cleanup">>) \o Thrice(<<"dcp">>)
                  \o Once(<<"verify", "local">>)
V1Publish      == Once(<<"repo">>) \o Thrice(<<"final", "dcp">>) \o Once(<<"cleanup", "verify", "local">>)
V1             == V1Tools \o V1Code \o V1Dependencies \o V1Assets \o V1Norm
                  \o V1Resume \o V1Train \o V1Publish

(* The Task 2 pipeline on A100s, started by hand. *)
A100Prepare == Thrice(<<"tools", "code", "dependencies">>) \o Once(<<"gpus">>)
A100Data    == Thrice(<<"login", "dataset">>) \o Once(<<"check">>)
A100Train   == Once(<<"tensorboard", "train", "artifacts">>)
A100Publish == Once(<<"stage", "repo">>) \o Thrice(<<"upload">>) \o Once(<<"verify">>)

Runner   == {"classic", "lingbot-v2", "openpi", "lingbot-v1"}   \* run_backend.sh
Alone    == {"v1 alone", "a100"}
Pipeline == {"lingbot-v1", "v1 alone"}
Program(script) ==
    CASE script = "classic"    -> ClassicPrepare \o ClassicRun
      [] script = "lingbot-v2" -> V2Prepare \o V2Run
      [] script = "openpi"     -> Once(<<"openpi">>)
      [] script \in Pipeline   -> V1
      [] script = "a100"       -> A100Prepare \o A100Data \o A100Train \o A100Publish
-----------------------------------------------------------------------------
(* What a trainer can resume from, and where it writes. *)
StateKinds   == {"absent", "none", "weights", "single", "multi", "dcp"}
Kind(j) == IF j.script \in {"classic", "a100"}
           THEN IF j.gpus = 1 THEN "single" ELSE "multi"
           ELSE "dcp"

RunDirectoryName(id) == <<id[1], IF id[2] = 0 THEN 1 ELSE id[2]>>
Timestamped(id)      == <<id[1], id[2] + 1>>

RunDir(j) == IF j.resume THEN j.resumeId ELSE j.id   \* of a pipeline

TrainDir(j) ==
    IF j.script \in Pipeline THEN RunDir(j)
    ELSE IF j.resume /\ Kind(j) # "multi" THEN RunDirectoryName(j.resumeId)
    ELSE Timestamped(j.id)

UploadDir(j) ==
    CASE j.script \in Pipeline -> RunDir(j)
      [] j.script = "a100"     -> Timestamped(j.id)
      [] OTHER                 -> RunDirectoryName(IF j.resume THEN j.resumeId ELSE j.id)

(* The wizard takes a repository for a resume that holds one of these. *)
ResumeMarkers(script) == IF script = "classic" THEN {"single", "multi"} ELSE {"dcp"}
=============================================================================

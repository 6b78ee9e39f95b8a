----------------------------- MODULE SimAutoTest -----------------------------
(***************************************************************************)
(* The automatic evaluation in the simulator, sim_auto_test.py: the loop   *)
(* over the episodes, the flags its ROS callbacks set, and the referee in  *)
(* the simulator, which resets the scene on request, calls /simulator/init *)
(* when the scene is ready and publishes /simulator/success.               *)
(*                                                                         *)
(* The referee is not in the repository.  It is modelled from how the      *)
(* evaluation and tools/ros_mock.py use it: it announces each reset once   *)
(* (Pokes = FALSE), or pokes /simulator/init again and again as the mock   *)
(* does (Pokes = TRUE).  A reset that it carried out ends the episode it   *)
(* was started for; after a reset that failed that episode goes on.        *)
(***************************************************************************)
EXTENDS Integers, FiniteSets

CONSTANTS EvalEpisodes,  \* inference.eval_episodes
          MaxSteps,      \* inference.max_episode_steps
          FirstWaits,    \* how often the first init is waited for, 8 in the code
          Pokes,         \* the referee calls init again and again
          MayStop,       \* the operator may send the stop
          MayFail,       \* the two services and an episode may fail
          MaxPauses      \* bound

ASSUME SimAssumption ==
    /\ EvalEpisodes \in Nat \ {0} /\ MaxSteps \in Nat \ {0} /\ FirstWaits \in Nat \ {0}
    /\ Pokes \in BOOLEAN /\ MayStop \in BOOLEAN /\ MayFail \in BOOLEAN
    /\ MaxPauses \in Nat

VARIABLES
    at,          \* where kuavo_eval_autotest is
    episode,     \* the episode it runs or waits for, from 0
    step,        \* steps of the episode; before the first one, waits left
    initEvt,     \* init_evt
    successEvt,  \* success_evt
    pauseFlag,   \* pause_flag
    stopFlag,    \* stop_flag
    subscribed,  \* a subscriber of /simulator/success exists
    inFlight,    \* a success message is on its way to it
    counted,     \* the episodes counted as a success
    ready,       \* the referee called init since it reset the scene
    initDue,     \* the referee has still to announce the reset
    playing,     \* the episode the referee was started for, or NoEpisode
    achieved,    \* the episodes in which the referee saw the task done
    unreset,     \* the episodes before which the reset failed
    pauses       \* pauses so far

evalVars    == <<at, episode, step, counted>>
flagVars    == <<initEvt, successEvt, pauseFlag, stopFlag>>
successVars == <<subscribed, inFlight>>
refereeVars == <<ready, initDue, playing, achieved, unreset>>
simVars     == <<evalVars, flagVars, successVars, refereeVars, pauses>>
-----------------------------------------------------------------------------
Episodes  == 0..(EvalEpisodes - 1)
NoEpisode == EvalEpisodes

SimInit ==
    /\ at = "first"
    /\ episode = 0
    /\ step = FirstWaits
    /\ initEvt = FALSE /\ successEvt = FALSE
    /\ pauseFlag = FALSE /\ stopFlag = FALSE
    /\ subscribed = FALSE /\ inFlight = FALSE
    /\ counted = {}
    /\ ready = FALSE
    /\ initDue = TRUE
    /\ playing = NoEpisode
    /\ achieved = {} /\ unreset = {}
    /\ pauses = 0
-----------------------------------------------------------------------------
(***************************************************************************)
(* The callbacks.                                                          *)
(***************************************************************************)
\* The operator's signals, through /kuavo/pause_state and /kuavo/stop_state.
Stop ==
    /\ MayStop /\ ~stopFlag /\ at # "ended"
    /\ stopFlag' = TRUE
    /\ UNCHANGED <<evalVars, initEvt, successEvt, pauseFlag, successVars, refereeVars, pauses>>

Pause ==
    /\ ~pauseFlag /\ pauses < MaxPauses
    /\ pauseFlag' = TRUE
    /\ pauses' = pauses + 1
    /\ UNCHANGED <<evalVars, initEvt, successEvt, stopFlag, successVars, refereeVars>>

Unpause ==
    /\ pauseFlag
    /\ pauseFlag' = FALSE
    /\ UNCHANGED <<evalVars, initEvt, successEvt, stopFlag, successVars, refereeVars, pauses>>

\* /simulator/init, called by the referee.
EnvInit ==
    /\ initDue \/ Pokes
    /\ at # "ended"
    /\ initEvt' = TRUE
    /\ ready' = TRUE
    /\ initDue' = FALSE
    /\ UNCHANGED <<evalVars, successEvt, pauseFlag, stopFlag, successVars, playing,
                   achieved, unreset, pauses>>

\* The referee sees the task done; without a subscriber the message is lost.
TaskDone ==
    /\ playing # NoEpisode
    /\ achieved' = achieved \cup {playing}
    /\ inFlight' = subscribed
    /\ UNCHANGED <<evalVars, flagVars, subscribed, ready, initDue, playing, unreset, pauses>>

EnvSuccess ==
    /\ inFlight
    /\ inFlight' = FALSE
    /\ successEvt' = TRUE
    /\ UNCHANGED <<evalVars, initEvt, pauseFlag, stopFlag, subscribed, refereeVars, pauses>>
-----------------------------------------------------------------------------
(***************************************************************************)
(* kuavo_eval_autotest.  check_control_signals holds a paused evaluation   *)
(* that is not stopped.                                                    *)
(***************************************************************************)
Goto(there) == at' = there /\ UNCHANGED <<episode, step, counted>>

\* The first init is waited for FirstWaits times, with a check before each.
WaitedOut  == step <= 1

FirstWait ==
    /\ at = "first"
    /\ \/ /\ initEvt
          /\ Goto("reset")
       \/ /\ ~initEvt /\ stopFlag
          /\ Goto("ended")
       \/ /\ ~initEvt /\ ~pauseFlag /\ ~stopFlag
          /\ step' = step - 1
          /\ at' = IF WaitedOut THEN "reset" ELSE "first"
          /\ UNCHANGED <<episode, counted>>
    /\ UNCHANGED <<flagVars, successVars, refereeVars, pauses>>

\* safe_reset_service: the referee resets the scene; a call that fails, or a
\* reset the referee refuses, is logged and the evaluation goes on.
Reset ==
    /\ at = "reset"
    /\ \/ /\ ready' = FALSE
          /\ initDue' = TRUE
          /\ playing' = NoEpisode
          /\ UNCHANGED unreset
       \/ /\ MayFail
          /\ unreset' = unreset \cup {episode}
          /\ UNCHANGED <<ready, initDue, playing>>
    /\ Goto("clear")
    /\ UNCHANGED <<flagVars, successVars, achieved, pauses>>

\* The flags are cleared once the reset has returned (success_evt not after the
\* first reset, when nobody listens to it yet).
\* Mutants: init_evt, or success_evt, is not cleared.
InitKept       == initEvt
InitCleared    == FALSE
SuccessKept    == successEvt
SuccessCleared == FALSE

Clear ==
    /\ at = "clear"
    /\ initEvt' = InitCleared
    /\ successEvt' = SuccessCleared
    /\ Goto(IF episode < EvalEpisodes THEN "wait" ELSE "ended")
    /\ UNCHANGED <<pauseFlag, stopFlag, successVars, refereeVars, pauses>>

Wait ==
    /\ at = "wait"
    /\ \/ /\ initEvt
          /\ Goto("prepare")
       \/ /\ ~initEvt /\ stopFlag
          /\ Goto("ended")
    /\ UNCHANGED <<flagVars, successVars, refereeVars, pauses>>

\* run_single_episode up to its loop: subscribe, reset the policy and the
\* environment, call /simulator/start.  Callbacks run in between, and each of the
\* three may raise (Fail).
Subscribe ==
    /\ at = "prepare"
    /\ subscribed' = TRUE
    /\ Goto("subscribed")
    /\ UNCHANGED <<flagVars, inFlight, refereeVars, pauses>>

ResetEnv ==
    /\ at = "subscribed"
    /\ Goto("start")
    /\ UNCHANGED <<flagVars, successVars, refereeVars, pauses>>

\* The answer to the start is not looked at: a referee that refused it does not
\* keep the episode from running.
Start ==
    /\ at = "start"
    /\ playing' = episode \/ (MayFail /\ playing' = playing)
    /\ step' = 0
    /\ at' = "loop"
    /\ UNCHANGED <<episode, counted, flagVars, successVars, ready, initDue, achieved, unreset, pauses>>

\* One step of the episode: the time limit or success_evt ends it.
\* Mutant: the environment is used without its time limit.
NotTruncated == FALSE
Truncated    == step + 1 >= MaxSteps

StepEpisode ==
    /\ at = "loop" /\ ~pauseFlag /\ ~stopFlag
    /\ step' = IF step < MaxSteps THEN step + 1 ELSE step
    /\ at' = IF Truncated \/ successEvt THEN "judge" ELSE "loop"
    /\ UNCHANGED <<episode, counted, flagVars, successVars, refereeVars, pauses>>

\* A stop ends the episode as a failure and leaves the subscriber behind.
StopEpisode ==
    /\ at = "loop" /\ stopFlag
    /\ episode' = episode + 1
    /\ at' = "reset"
    /\ UNCHANGED <<step, counted, flagVars, successVars, refereeVars, pauses>>

\* The result is read when the videos are written; then the subscriber goes.
Judge ==
    /\ at = "judge"
    /\ counted' = IF successEvt THEN counted \cup {episode} ELSE counted
    /\ at' = "close"
    /\ UNCHANGED <<episode, step, flagVars, successVars, refereeVars, pauses>>

Close ==
    /\ at = "close"
    /\ subscribed' = FALSE
    /\ inFlight' = FALSE
    /\ episode' = episode + 1
    /\ at' = "reset"
    /\ UNCHANGED <<step, counted, flagVars, refereeVars, pauses>>

Started == {"prepare", "subscribed", "start", "loop", "judge", "close"}

\* An exception in the episode ends the evaluation after a reset.
Fail ==
    /\ MayFail /\ at \in Started
    /\ episode' = EvalEpisodes
    /\ counted' = counted \ {episode}
    /\ at' = "reset"
    /\ UNCHANGED <<step, flagVars, successVars, refereeVars, pauses>>

RosCallback == Stop \/ Pause \/ Unpause \/ EnvInit \/ TaskDone \/ EnvSuccess

Step == \/ FirstWait \/ Reset \/ Clear \/ Wait \/ Subscribe \/ ResetEnv \/ Start
        \/ StepEpisode \/ StopEpisode \/ Judge \/ Close

SimNext == RosCallback \/ Step \/ Fail

SimSpec == SimInit /\ [][SimNext]_simVars
-----------------------------------------------------------------------------
SimTypeOK ==
    /\ at \in Started \cup {"first", "reset", "clear", "wait", "ended"}
    /\ episode \in 0..EvalEpisodes /\ step \in 0..(FirstWaits + MaxSteps)
    /\ initEvt \in BOOLEAN /\ successEvt \in BOOLEAN
    /\ pauseFlag \in BOOLEAN /\ stopFlag \in BOOLEAN
    /\ subscribed \in BOOLEAN /\ inFlight \in BOOLEAN
    /\ counted \subseteq Episodes /\ achieved \subseteq Episodes
    /\ unreset \subseteq 0..EvalEpisodes
    /\ ready \in BOOLEAN /\ initDue \in BOOLEAN
    /\ playing \in 0..EvalEpisodes /\ pauses \in 0..MaxPauses

(* An episode is prepared and started only on a scene the referee announced  *)
(* after its last reset: an init that came before the reset does not start   *)
(* it, and nothing takes the scene back while the environment is reset.      *)
StartsOnReadyScene == at \in {"prepare", "subscribed", "start"} => ready

(* An episode counted as a success is one in which the referee saw the task  *)
(* done, or one before which the reset failed: then the referee still plays  *)
(* the episode before, whose success counts from the subscription on.  No    *)
(* other success of an earlier episode is counted again.                     *)
SuccessIsEarned == counted \subseteq achieved \cup unreset
-----------------------------------------------------------------------------
(***************************************************************************)
(* Liveness: the evaluation runs, the referee announces its resets, the    *)
(* operator ends each pause, rospy delivers.                               *)
(***************************************************************************)
SimFairSpec ==
    /\ SimSpec
    /\ WF_simVars(Step) /\ WF_simVars(EnvInit) /\ WF_simVars(Unpause) /\ WF_simVars(EnvSuccess)

(* The evaluation executes its episodes and ends.                            *)
EvaluationEnds == <>(at = "ended")
=============================================================================

--------------------------- MODULE OperatorControl ---------------------------
(***************************************************************************)
(* How an operator pauses and stops a robot task: script.py, its signal    *)
(* handler and ArmMoveController, and the evaluation loop of               *)
(* real_single_test.py, which listens to the two ROS topics the handler    *)
(* publishes to.                                                           *)
(*                                                                         *)
(* Python runs signal handlers on the main thread between two bytecodes:   *)
(* over the task, and over a handler that is already running.  frames is   *)
(* the stack of running handlers; only the topmost one steps, and the task *)
(* steps when there is none.  ArmMoveController.lock is not reentrant, so  *)
(* a handler that interrupts its holder waits for ever.                    *)
(*                                                                         *)
(* A task is a list of segments (interpolation, bag playback), followed by *)
(* the evaluation for the run tasks.  env.step never reports the end of an *)
(* episode, so the evaluation ends on a stop only.                         *)
(***************************************************************************)
EXTENDS Integers, Sequences, FiniteSets, SequencesExt

CONSTANTS Tasks,        \* the tasks --task may name
          MaxSignals,   \* bound: signals over a run
          MaxNesting    \* bound: handlers on the stack

ASSUME OperatorAssumption ==
    /\ Tasks \subseteq {"go", "run", "go_run", "here_run", "back_to_zero"}
    /\ MaxSignals \in Nat /\ MaxNesting \in Nat

VARIABLES
    task,        \* the task this process runs
    pc,          \* where the task is
    todo,        \* the segments still to play, the running one first
    paused,      \* ArmMoveController.paused
    shouldStop,  \* ArmMoveController.should_stop
    locked,      \* ArmMoveController.lock is held
    pending,     \* signals delivered to the process but not yet handled
    frames,      \* the running signal handlers, outermost first
    pauseTopic,  \* the messages in flight on /kuavo/pause_state, oldest first
    stopTopic,   \* a message is in flight on /kuavo/stop_state
    connected,   \* the evaluation's subscribers are connected
    evalPause,   \* pause_flag of the evaluation
    evalStop,    \* stop_flag of the evaluation
    signals,     \* signals sent so far
    hasty,       \* history: a signal was sent before the evaluation listened,
                 \* or while another one was being handled
    moved        \* history: commands to the arm since the pause or stop took
                 \* effect, 0 while neither did

taskVars  == <<task, pc, todo>>
armVars   == <<paused, shouldStop, locked>>
sigVars   == <<pending, frames, signals, hasty>>
topicVars == <<pauseTopic, stopTopic, connected, evalPause, evalStop>>
vars == <<taskVars, armVars, sigVars, topicVars, moved>>
-----------------------------------------------------------------------------
\* go, here_run, back_to_zero and go_run as segments.
Segments == CASE task \in {"go", "go_run"} -> <<"interpolate", "play">>
              [] task = "here_run"         -> <<"interpolate">>
              [] task = "back_to_zero"     -> <<"interpolate", "play", "interpolate">>
              [] task = "run"              -> <<>>

Runs == task \in {"run", "go_run", "here_run"}

Evaluating == pc \in {"loop", "act"}

\* Whether a pause or a stop is in force where the task is now.
Halted(p, s, ep, es) == IF Evaluating THEN ep \/ es ELSE p \/ s

Init ==
    /\ task \in Tasks
    /\ pc = "boot"
    /\ todo = Segments
    /\ paused = FALSE
    /\ shouldStop = FALSE
    /\ locked = FALSE
    /\ pending = {}
    /\ frames = <<>>
    /\ pauseTopic = <<>>
    /\ stopTopic = FALSE
    /\ connected = FALSE
    /\ evalPause = FALSE
    /\ evalStop = FALSE
    /\ signals = 0
    /\ hasty = FALSE
    /\ moved = 0
-----------------------------------------------------------------------------
(***************************************************************************)
(* The operator: controller.py pause, resume and stop, eval_kuavo.py, kill.*)
(***************************************************************************)
\* Before setup_signal_handlers the default action ends the process.
Signal(cmd) ==
    /\ pc # "exited"
    /\ signals < MaxSignals
    /\ signals' = signals + 1
    /\ hasty' = (hasty \/ ~connected \/ pending # {} \/ frames # <<>>)
    /\ IF pc = "boot"
       THEN /\ pc' = "exited"
            /\ UNCHANGED pending
       ELSE /\ pending' = pending \cup {cmd}
            /\ UNCHANGED pc
    /\ UNCHANGED <<task, todo, armVars, frames, topicVars, moved>>
-----------------------------------------------------------------------------
(***************************************************************************)
(* signal_handler.  pause and resume are the same signal, SIGUSR1; two of  *)
(* them that are pending together are one.                                 *)
(***************************************************************************)
Top == Last(frames)
Becomes(step) == frames' = [frames EXCEPT ![Len(frames)].step = step]

Interrupt ==
    /\ pending # {} /\ pc \notin {"boot", "exited"}
    /\ Len(frames) < MaxNesting
    /\ \E cmd \in pending :
          /\ pending' = IF cmd = "stop" THEN pending \ {"stop"}
                        ELSE pending \ {"pause", "resume"}
          /\ frames' = Append(frames, [cmd |-> cmd, step |-> "begin", seen |-> FALSE])
    /\ UNCHANGED <<taskVars, armVars, signals, hasty, topicVars, moved>>

\* Each method of the controller takes the lock first, or waits for it for ever.
\* Mutant: an unknown signal name falls through as a step.
FirstStep(cmd)     == IF cmd = "stop" THEN "stop" ELSE "look"

HandlerLocks ==
    /\ frames # <<>> /\ Top.step \in {"begin", "flip", "report"}
    /\ ~locked
    /\ locked' = TRUE
    /\ Becomes(CASE Top.step = "begin"  -> FirstStep(Top.cmd)
                 [] Top.step = "flip"   -> "flipping"
                 [] Top.step = "report" -> "reporting")
    /\ UNCHANGED <<taskVars, paused, shouldStop, pending, signals, hasty, topicVars, moved>>

HandlerLooks ==
    /\ frames # <<>> /\ Top.step = "look"
    /\ locked' = FALSE
    /\ frames' = [frames EXCEPT ![Len(frames)].step = "flip",
                                ![Len(frames)].seen = paused]
    /\ UNCHANGED <<taskVars, paused, shouldStop, pending, signals, hasty, topicVars, moved>>

\* resume() if the arm was seen paused, else pause().
HandlerFlips ==
    /\ frames # <<>> /\ Top.step = "flipping"
    /\ paused' = ~Top.seen
    /\ moved' = IF Halted(~Top.seen, shouldStop, evalPause, evalStop) THEN moved ELSE 0
    /\ locked' = FALSE
    /\ Becomes("publish")
    /\ UNCHANGED <<taskVars, shouldStop, pending, signals, hasty, topicVars>>

HandlerStops ==
    /\ frames # <<>> /\ Top.step = "stop"
    /\ shouldStop' = TRUE
    /\ locked' = FALSE
    /\ Becomes("publish")
    /\ UNCHANGED <<taskVars, paused, pending, signals, hasty, topicVars, moved>>

\* A topic without a connected subscriber drops what is published; with one the
\* message follows those in flight, or replaces one not yet sent (queue_size=1).
\* Mutant: the handler publishes what it saw, not what it set.
PublishedOld(f) == f.seen
Published(f) == ~f.seen

HandlerPublishes ==
    /\ frames # <<>> /\ Top.step = "publish"
    /\ IF ~connected
       THEN UNCHANGED <<pauseTopic, stopTopic>>
       ELSE IF Top.cmd = "stop"
       THEN /\ stopTopic' = TRUE
            /\ UNCHANGED pauseTopic
       ELSE /\ \/ pauseTopic' = Append(pauseTopic, Published(Top))
               \/ /\ pauseTopic # <<>>
                  /\ pauseTopic' = Append(Front(pauseTopic), Published(Top))
            /\ UNCHANGED stopTopic
    /\ Becomes("report")
    /\ UNCHANGED <<taskVars, armVars, pending, signals, hasty, connected, evalPause,
                   evalStop, moved>>

\* The last log line reads both flags under the lock; its two reads are one here.
HandlerReports ==
    /\ frames # <<>> /\ Top.step = "reporting"
    /\ locked' = FALSE
    /\ frames' = Front(frames)
    /\ UNCHANGED <<taskVars, paused, shouldStop, pending, signals, hasty, topicVars, moved>>
-----------------------------------------------------------------------------
(***************************************************************************)
(* The subscriber threads of the evaluation.                               *)
(***************************************************************************)
Connect ==
    /\ Evaluating /\ ~connected
    /\ connected' = TRUE
    /\ UNCHANGED <<taskVars, armVars, sigVars, pauseTopic, stopTopic, evalPause,
                   evalStop, moved>>

SetOrClear(data)  == data

PauseCallback ==
    /\ pauseTopic # <<>>
    /\ evalPause' = SetOrClear(Head(pauseTopic))
    /\ pauseTopic' = Tail(pauseTopic)
    /\ moved' = IF evalPause' \/ evalStop THEN moved ELSE 0
    /\ UNCHANGED <<taskVars, armVars, sigVars, stopTopic, connected, evalStop>>

StopCallback ==
    /\ stopTopic
    /\ evalStop' = TRUE
    /\ stopTopic' = FALSE
    /\ UNCHANGED <<taskVars, armVars, sigVars, pauseTopic, connected, evalPause, moved>>
-----------------------------------------------------------------------------
(***************************************************************************)
(* The task, on the main thread while no handler runs.                     *)
(***************************************************************************)
Running(where) == pc = where /\ frames = <<>>
Count == IF Halted(paused, shouldStop, evalPause, evalStop) THEN moved + 1 ELSE 0

\* The next segment, or what follows the last one.
Proceed(rest) ==
    /\ todo' = rest
    /\ pc' = IF rest # <<>> THEN "check" ELSE IF Runs THEN "import" ELSE "exited"

\* ArmMove.__init__ has installed the handlers.
Boot ==
    /\ Running("boot")
    /\ Proceed(todo)
    /\ UNCHANGED <<task, armVars, sigVars, topicVars, moved>>

\* _check_control_signals: is_paused and should_exit, each under the lock.
CheckLocks ==
    /\ pc \in {"check", "askStop", "held"} /\ frames = <<>>
    /\ ~locked
    /\ locked' = TRUE
    /\ pc' = CASE pc = "check" -> "readPaused" [] pc = "askStop" -> "readStop"
               [] pc = "held" -> "readStopHeld"
    /\ UNCHANGED <<task, todo, paused, shouldStop, sigVars, topicVars, moved>>

\* Mutant: the pause is not looked at.
PauseIgnored == FALSE
PauseSeen    == paused

ReadPaused ==
    /\ Running("readPaused")
    /\ locked' = FALSE
    /\ pc' = IF PauseSeen THEN "held" ELSE "askStop"
    /\ UNCHANGED <<task, todo, paused, shouldStop, sigVars, topicVars, moved>>

\* A stop ends the segment.  While paused without a stop, look again.
ReadStop ==
    /\ pc \in {"readStop", "readStopHeld"} /\ frames = <<>>
    /\ locked' = FALSE
    /\ IF shouldStop
       THEN Proceed(Tail(todo))
       ELSE /\ pc' = IF pc = "readStop" THEN "move" ELSE "check"
            /\ UNCHANGED todo
    /\ UNCHANGED <<task, paused, shouldStop, sigVars, topicVars, moved>>

\* One command of the segment; playback publishes the last frame once more
\* when its loop is over, without another check.
Move ==
    /\ Running("move")
    /\ moved' = Count
    /\ \/ /\ pc' = "check"
          /\ UNCHANGED todo
       \/ /\ Head(todo) = "play"
          /\ pc' = "lastFrame"
          /\ UNCHANGED todo
       \/ /\ Head(todo) = "interpolate"
          /\ Proceed(Tail(todo))
    /\ UNCHANGED <<task, armVars, sigVars, topicVars>>

LastFrame ==
    /\ Running("lastFrame")
    /\ moved' = Count
    /\ Proceed(Tail(todo))
    /\ UNCHANGED <<task, armVars, sigVars, topicVars>>

\* run(): importing real_single_test creates the subscribers.
Import ==
    /\ Running("import")
    /\ pc' = "loop"
    /\ moved' = 0
    /\ UNCHANGED <<task, todo, armVars, sigVars, topicVars>>

\* The top of the evaluation loop.  Mutant: a paused loop ignores the stop.
PausedForGood   == evalPause
PausedOnlyWaits == evalPause /\ ~evalStop

Loop ==
    /\ Running("loop")
    /\ ~PausedOnlyWaits
    /\ pc' = IF evalStop THEN "exited" ELSE "act"
    /\ UNCHANGED <<task, todo, armVars, sigVars, topicVars, moved>>

\* select_action and env.step.
Act ==
    /\ Running("act")
    /\ moved' = Count
    /\ pc' = "loop"
    /\ UNCHANGED <<task, todo, armVars, sigVars, topicVars>>
-----------------------------------------------------------------------------
Handler == \/ HandlerLocks \/ HandlerLooks \/ HandlerFlips \/ HandlerStops
           \/ HandlerPublishes \/ HandlerReports

MainStep == \/ Boot \/ CheckLocks \/ ReadPaused \/ ReadStop \/ Move \/ LastFrame
            \/ Import \/ Loop \/ Act

Callback == Connect \/ PauseCallback \/ StopCallback

Next == \/ \E cmd \in {"pause", "resume", "stop"} : Signal(cmd)
        \/ Interrupt \/ Handler \/ MainStep \/ Callback

Spec == Init /\ [][Next]_vars
-----------------------------------------------------------------------------
TypeOK ==
    /\ task \in Tasks /\ hasty \in BOOLEAN
    /\ pc \in {"boot", "check", "readPaused", "held", "readStopHeld", "askStop",
               "readStop", "move", "lastFrame", "import", "loop", "act", "exited"}
    /\ todo \in Seq({"interpolate", "play"})
    /\ paused \in BOOLEAN /\ shouldStop \in BOOLEAN /\ locked \in BOOLEAN
    /\ pending \subseteq {"pause", "resume", "stop"}
    /\ frames \in Seq([cmd : {"pause", "resume", "stop"}, seen : BOOLEAN,
           step : {"begin", "look", "flip", "flipping", "stop", "publish",
                   "report", "reporting"}])
    /\ pauseTopic \in Seq(BOOLEAN) /\ stopTopic \in BOOLEAN
    /\ connected \in BOOLEAN /\ evalPause \in BOOLEAN /\ evalStop \in BOOLEAN
    /\ signals \in 0..MaxSignals /\ moved \in Nat

(* What it is for: a stop the handler accepted is not lost, the evaluation   *)
(* knows of it or the message is on its way.  It is not so for a stop sent   *)
(* while go_run approaches, and no run checks it.                            *)
StopArrives ==
    shouldStop /\ frames = <<>> /\ Evaluating => evalStop \/ stopTopic

(* For an operator who waits until the evaluation listens and until the last *)
(* signal is handled, ArmMoveController and the evaluation agree on whether  *)
(* the robot is paused once the topic is drained; if they did not, the next  *)
(* SIGUSR1 would do the opposite of what he sees.                            *)
PauseAgrees ==
    ~hasty /\ Evaluating /\ frames = <<>> /\ pauseTopic = <<>>
        => evalPause = paused

(* A pause or a stop that took effect lets at most the command go out that   *)
(* was already checked, and after it the unchecked last frame of a playback. *)
FewLateMoves == moved <= 2
-----------------------------------------------------------------------------
(***************************************************************************)
(* Liveness: the main thread runs, and runs the handlers of signals that   *)
(* are pending; rospy connects and delivers; the task does not play one    *)
(* segment for ever.                                                       *)
(***************************************************************************)
Fairness ==
    /\ WF_vars(Interrupt) /\ WF_vars(Handler) /\ WF_vars(MainStep)
    /\ WF_vars(Connect) /\ WF_vars(PauseCallback) /\ WF_vars(StopCallback)

FairSpec == Spec /\ Fairness

(* A stop signal the process received ends the task: not so when it meets    *)
(* the lock that the interrupted thread holds, and no run checks it; ...     *)
StopEnds == "stop" \in pending ~> pc = "exited"

(* ... at least when it is sent on its own to a listening evaluation.        *)
PatientStopEnds == "stop" \in pending ~> pc = "exited" \/ hasty
=============================================================================

-------------------------- MODULE EpisodeDiagnostics --------------------------
(***************************************************************************)
(* The evaluation on the real robot and its diagnostics: the loop over the *)
(* episodes of real_single_test.py with its finally block, the two best-   *)
(* effort threads of an episode (video writer, snapshot uploader) behind   *)
(* their bounded queues, the jsonl recorder, the bundle an episode leaves  *)
(* and the one-thread pool that uploads the bundles (diagnostics.py).      *)
(*                                                                         *)
(* Nothing in diagnostics may hold up or stop the robot, and every episode *)
(* that ran has to be reported once, whatever ends it.  Pausing is left to *)
(* OperatorControl.                                                        *)
(***************************************************************************)
EXTENDS Naturals, Sequences, FiniteSets

CONSTANTS EvalEpisodes,  \* inference.eval_episodes
          MaxSteps,      \* inference.max_episode_steps
          QueueSize,     \* frames a thread's queue holds, 2 in the code
          MayFail,       \* policy, robot and log file may raise, appends fail
          MaxEvents      \* bound: threads an evaluation starts and files it
                         \* cannot add rows to, together

ASSUME DiagnosticsAssumption ==
    /\ EvalEpisodes \in Nat \ {0} /\ MaxSteps \in Nat \ {0} /\ QueueSize \in Nat \ {0}
    /\ MayFail \in BOOLEAN /\ MaxEvents \in Nat

Episodes == 1..EvalEpisodes
Kinds    == {"video", "snapshot"}
Absent   == [thread |-> "none", queue |-> <<>>, closed |-> FALSE, lost |-> FALSE]
Thread   == [thread: {"none", "waiting", "busy", "ended"},
             queue: Seq({"frame", "stop"}), closed: BOOLEAN, lost: BOOLEAN]

VARIABLES
    enabled,   \* the manager exists and KUAVO_DIAG_ENABLED is set
    main,      \* where main is
    episode,   \* active_episode, from 1
    step,      \* active_step
    ending,    \* how the episode's last step came out
    final,     \* the finally block has been entered
    finalized, \* active_finalized
    recorder,  \* active_recorder: "none", "null" or "files"
    active,    \* the threads whose recorder variable is not None
    threads,   \* the threads of each episode
    rows,      \* rows in the episode's actions, states and timings files
    missed,    \* history: those of the files that a row could not be added to
    video,     \* the episode's mp4: absent, open or whole
    late,      \* episodes whose video thread outlived the wait for it
    bundles,   \* the bundles made, in order
    pool       \* bundles the upload pool has not finished with, in order

evalVars   == <<enabled, main, episode, step, ending, final, finalized, recorder, active>>
threadVars == <<threads, video, late>>
reportVars == <<rows, missed, bundles, pool>>
vars == <<evalVars, threadVars, reportVars>>

Threads == {t \in Episodes \X Kinds : threads[t[1]][t[2]].thread # "none"}
NoRows == [actions |-> 0, states |-> 0, timings |-> 0]

(* KUAVO_DIAG_ENABLED may be unset, and the directories may not be made. *)
Configured == BOOLEAN

Init ==
    /\ enabled \in Configured
    /\ main = "next" /\ episode = 0 /\ step = 0 /\ ending = "running" /\ final = FALSE
    /\ finalized = TRUE /\ recorder = "none" /\ active = {}
    /\ threads = [e \in Episodes |-> [k \in Kinds |-> Absent]]
    /\ video = [e \in Episodes |-> "absent"]
    /\ late = {}
    /\ rows = NoRows /\ missed = {}
    /\ bundles = <<>> /\ pool = <<>>
-----------------------------------------------------------------------------
(* The threads.  A full queue drops the frame, a closed recorder takes none. *)
Submit(t) ==
    IF t.thread = "none" \/ t.closed \/ Len(t.queue) >= QueueSize THEN t
    ELSE [t EXCEPT !.queue = Append(@, "frame")]

Kept(v)     == v
Released(v) == IF v = "open" THEN "whole" ELSE v

Written(v)  == {v, "open"}  \* a frame that cannot be written is left out

Takes(e, k) ==
    LET t == threads[e][k] IN
    /\ t.thread = "waiting" /\ t.queue # <<>>
    /\ threads' = [threads EXCEPT ![e][k].queue = Tail(@),
                     ![e][k].thread = IF Head(t.queue) = "stop" THEN "ended" ELSE "busy"]
    /\ video' = IF k = "video" /\ Head(t.queue) = "stop"
                THEN [video EXCEPT ![e] = Released(@)] ELSE video
    /\ UNCHANGED <<evalVars, reportVars, late>>

(* One frame written, or one snapshot and the live files uploaded.  Errors *)
(* are swallowed: the thread waits for the next frame.                     *)
Works(e, k) ==
    /\ threads[e][k].thread = "busy"
    /\ threads' = [threads EXCEPT ![e][k].thread = "waiting"]
    /\ \E v \in IF k = "video" THEN Written(video[e]) ELSE {video[e]} :
        video' = [video EXCEPT ![e] = v]
    /\ UNCHANGED <<evalVars, reportVars, late>>
-----------------------------------------------------------------------------
(* The episode.  What cannot be started is replaced by nothing. *)
Recorders == IF enabled THEN {"files", "null"} ELSE {"null"}
Startable == IF enabled THEN SUBSET Kinds ELSE {{}}

Start ==
    /\ main = "next" /\ episode < EvalEpisodes
    /\ main' = "reset" /\ episode' = episode + 1 /\ step' = 0 /\ ending' = "running"
    /\ finalized' = FALSE
    /\ recorder' \in Recorders
    /\ rows' = NoRows /\ missed' = {}
    /\ UNCHANGED <<enabled, final, active, threadVars, bundles, pool>>

(* What an evaluation started and missed so far.                            *)
Events ==
    Cardinality(Threads) + Cardinality(missed)
    + Cardinality(UNION {{i} \X bundles[i].missed : i \in DOMAIN bundles})

(* A row to each of the files; _append_jsonl swallows every failure, so any *)
(* of them may not be written and nothing is told about it.                 *)
Log(files) ==
    IF recorder # "files" THEN UNCHANGED <<rows, missed>>
    ELSE \E written \in IF MayFail THEN SUBSET files ELSE {files} :
           /\ rows' = [f \in DOMAIN rows |-> IF f \in written THEN rows[f] + 1 ELSE rows[f]]
           /\ missed' = missed \cup (files \ written)
           /\ Cardinality(missed') - Cardinality(missed) <= MaxEvents - Events

(* The environment is reset and the threads that can be are started, each *)
(* with the first frame already in its queue.  A thread whose import of   *)
(* cv2 fails ends at once.                                                *)
Reset ==
    /\ main = "reset" /\ main' = "act"
    /\ Log({"states"})
    /\ \E started \in Startable, fate \in [Kinds -> {"waiting", "ended"}] :
        /\ Cardinality(started) <= MaxEvents - Events - Cardinality(missed' \ missed)
        /\ active' = started
        /\ threads' = [threads EXCEPT ![episode] = [k \in Kinds |->
                         IF k \in started THEN Submit([Absent EXCEPT !.thread = fate[k]])
                         ELSE Absent]]
    /\ UNCHANGED <<enabled, episode, step, ending, final, finalized, recorder,
                   video, late, bundles, pool>>

Act ==
    /\ main = "act" /\ main' = "execute"
    /\ Log({"actions"})
    /\ UNCHANGED <<enabled, episode, step, ending, final, finalized, recorder, active,
                   threadVars, bundles, pool>>

(* The step of the robot, its observation to both threads and its rows to *)
(* the recorder.  A snapshot goes in only when its interval has passed.    *)
Fed == {active, active \ {"snapshot"}}

Observe ==
    /\ main = "execute"
    /\ Log({"states", "timings"})
    /\ \E fed \in Fed :
        threads' = [threads EXCEPT ![episode] = [k \in Kinds |->
                      IF k \in fed THEN Submit(@[k]) ELSE @[k]]]
    /\ UNCHANGED <<enabled, episode, finalized, recorder, active, video, late, bundles, pool>>

Execute ==
    /\ Observe
    /\ step' = step + 1
    /\ ending' \in {"success"} \cup {IF step' = MaxSteps THEN "failure" ELSE "running"}
    /\ main' = IF ending' = "running" THEN "act" ELSE "wrapup"
    /\ UNCHANGED final

(* The observation is recorded, then the preprocessor raises. *)
PreprocessFails ==
    /\ MayFail /\ Observe
    /\ main' = "close" /\ final' = TRUE
    /\ UNCHANGED <<step, ending>>

(* The statistics are written and the recorders are about to be closed. *)
WrapUp ==
    /\ main = "wrapup" /\ main' = "close"
    /\ UNCHANGED <<enabled, episode, step, ending, final, finalized, recorder, active,
                   threadVars, reportVars>>

(* An exception, or the stop flag seen at the top of the loop: the finally *)
(* block closes what is active.                                            *)
Abort ==
    /\ \/ main = "act"
       \/ MayFail /\ main \in {"reset", "execute", "wrapup"}
    /\ main' = "close" /\ final' = TRUE
    /\ UNCHANGED <<enabled, episode, step, ending, finalized, recorder, active,
                   threadVars, reportVars>>
-----------------------------------------------------------------------------
(* Closing a recorder, the video first.  Its thread may take frames between *)
(* any two of these steps.                                                  *)
Current == IF "video" \in active THEN "video" ELSE "snapshot"

BeginClose ==
    /\ main = "close" /\ active # {}
    /\ main' = "put"
    /\ threads' = [threads EXCEPT ![episode][Current].closed = TRUE]
    /\ UNCHANGED <<enabled, episode, step, ending, final, finalized, recorder, active,
                   video, late, reportVars>>

PutStop ==
    /\ main = "put"
    /\ IF Len(threads[episode][Current].queue) < QueueSize
       THEN /\ threads' = [threads EXCEPT ![episode][Current].queue = Append(@, "stop")]
            /\ main' = "join"
       ELSE main' = "drop" /\ UNCHANGED threads
    /\ UNCHANGED <<enabled, episode, step, ending, final, finalized, recorder, active,
                   video, late, reportVars>>

(* Room is made by dropping the oldest frame; an empty queue here means the *)
(* thread took both frames meanwhile, and the stop is not put at all.       *)
DropOldest ==
    /\ main = "drop"
    /\ IF threads[episode][Current].queue = <<>>
       THEN threads' = [threads EXCEPT ![episode][Current].lost = TRUE] /\ main' = "join"
       ELSE threads' = [threads EXCEPT ![episode][Current].queue = Tail(@)] /\ main' = "put"
    /\ UNCHANGED <<enabled, episode, step, ending, final, finalized, recorder, active,
                   video, late, reportVars>>

StopsNever(e, k)     == FALSE
MayStopWaiting(e, k) == TRUE  \* join(timeout): 10 s for the video, 2 s for the snapshots

Join ==
    /\ main = "join"
    /\ threads[episode][Current].thread = "ended" \/ MayStopWaiting(episode, Current)
    /\ main' = "close" /\ active' = active \ {Current}
    /\ late' = IF Current = "video" /\ threads[episode]["video"].thread # "ended"
               THEN late \cup {episode} ELSE late
    /\ UNCHANGED <<enabled, episode, step, ending, final, finalized, recorder,
                   threads, video, reportVars>>

(* What the episode leaves: manifest, rows and every mp4 of it there is.   *)
(* Nothing is stored by a null recorder, nor when the disk fails.          *)
Bundles ==
    [episode: {episode}, success: {~final /\ ending = "success"}, partial: {final},
     steps: {step}, rows: {rows}, missed: {missed}, video: {video[episode]},
     stored: IF recorder = "files" THEN BOOLEAN ELSE {FALSE}]

ReportsNever == FALSE
Reports      == ~finalized /\ recorder # "none"

Queued(b) == IF b.stored THEN Append(pool, b.episode) ELSE pool

(* Closing done: the bundle is made and handed to the pool, in the finally *)
(* block only when the loop has not done so.                               *)
Finalize ==
    /\ main = "close" /\ active = {}
    /\ main' = IF final THEN "drain" ELSE "next"
    /\ IF final THEN UNCHANGED <<finalized, recorder>> ELSE finalized' = TRUE /\ recorder' = "none"
    /\ IF ~final \/ Reports
       THEN \E b \in Bundles :
              /\ bundles' = Append(bundles, b)
              /\ pool' = Queued(b)
       ELSE UNCHANGED <<bundles, pool>>
    /\ UNCHANGED <<enabled, episode, step, ending, final, active, threadVars, rows, missed>>

(* After the last episode, or an error between two, the finally block has  *)
(* nothing left to close.                                                  *)
Finish ==
    /\ main = "next"
    /\ episode = EvalEpisodes \/ MayFail
    /\ main' = "close" /\ final' = TRUE
    /\ UNCHANGED <<enabled, episode, step, ending, finalized, recorder, active,
                   threadVars, reportVars>>

(* manager.close waits for the tasks, 60 s at most, and never cancels one. *)
MayStopDraining == TRUE

Drain ==
    /\ main = "drain"
    /\ pool = <<>> \/ MayStopDraining
    /\ main' = "returned"
    /\ UNCHANGED <<enabled, episode, step, ending, final, finalized, recorder, active,
                   threadVars, reportVars>>

(* The pool's only thread runs its tasks in the order they came; a failed  *)
(* one is reported by a notification and forgotten.                        *)
Upload ==
    /\ pool # <<>>
    /\ pool' = Tail(pool)
    /\ UNCHANGED <<evalVars, threadVars, rows, missed, bundles>>

Main == Start \/ Reset \/ Act \/ Execute \/ PreprocessFails \/ WrapUp \/ Abort \/ BeginClose \/ PutStop
        \/ DropOldest \/ Join \/ Finalize \/ Finish \/ Drain
Work(e, k) == Takes(e, k) \/ Works(e, k)
Next == Main \/ Upload \/ \E e \in Episodes, k \in Kinds : Work(e, k)
Spec == Init /\ [][Next]_vars

(* Only the control thread runs on; a writer may be stuck on its disk and  *)
(* an upload may hang.                                                     *)
FairSpec == Spec /\ WF_vars(Main)
-----------------------------------------------------------------------------
TypeOK ==
    /\ enabled \in BOOLEAN /\ final \in BOOLEAN /\ finalized \in BOOLEAN
    /\ main \in {"next", "reset", "act", "execute", "wrapup", "close", "put", "drop",
                 "join", "drain", "returned"}
    /\ episode \in 0..EvalEpisodes /\ step \in 0..MaxSteps
    /\ ending \in {"running", "success", "failure"}
    /\ recorder \in {"none", "null", "files"} /\ active \subseteq Kinds
    /\ threads \in [Episodes -> [Kinds -> Thread]]
    /\ \A e \in Episodes, k \in Kinds : Len(threads[e][k].queue) <= QueueSize
    /\ rows \in [DOMAIN NoRows -> 0..(MaxSteps + 1)] /\ missed \subseteq DOMAIN NoRows
    /\ video \in [Episodes -> {"absent", "open", "whole"}]
    /\ late \subseteq Episodes

(* The rows the recorder was given by the end of an episode of b.steps     *)
(* steps: one action and one timing for each and one state more.  A partial *)
(* report is at most one action ahead of its last whole step.              *)
Counted(a, n, t) == [actions |-> a, states |-> n, timings |-> t]
GivenFor(n, partial) ==
    {Counted(n, n + 1, n)} \cup
    IF ~partial THEN {}
    ELSE {Counted(n + 1, n + 1, n), Counted(n + 1, n + 2, n + 1)} \cup IF n = 0 THEN {NoRows} ELSE {}

(* The files hold the rows w, less those that could not be added.          *)
Holds(r, miss, w) == \A f \in DOMAIN NoRows : IF f \in miss THEN r[f] < w[f] ELSE r[f] = w[f]

(* Every episode that began is reported exactly once, in the order they    *)
(* ran and also when the stop or an exception cuts it short, with what     *)
(* really happened: a success is one the robot saw through to its end, and *)
(* the rows are those of the steps it says, except in a file a row could   *)
(* not be added to, which is short of them and never ahead.  The pool loses *)
(* and repeats none of the stored bundles (_append_jsonl, finalize,        *)
(* upload_async, the finally block).                                       *)
ReportedOnce ==
    /\ \A i \in DOMAIN bundles : bundles[i].episode = i
    /\ main \in {"next", "drain", "returned"} => Len(bundles) = episode
    /\ \A i \in DOMAIN bundles : LET b == bundles[i] IN
        /\ b.partial => ~b.success /\ i = episode
        /\ b.stored => \E w \in GivenFor(b.steps, b.partial) : Holds(b.rows, b.missed, w)
    /\ \A i, j \in DOMAIN pool : i < j => pool[i] < pool[j]

(* The video in a bundle is never half written, except when its thread did *)
(* not end in the time it was given.                                       *)
VideoWhole ==
    \A i \in DOMAIN bundles : bundles[i].stored /\ bundles[i].video = "open" => bundles[i].episode \in late

(* Whatever the threads and the uploads do, the evaluation comes to its    *)
(* end (bounded queues that drop, joins and drains with a time limit).     *)
EvaluationReturns == <>(main = "returned")

=============================================================================

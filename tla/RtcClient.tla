------------------------------ MODULE RtcClient ------------------------------
(***************************************************************************)
(* PolicyClient of kuavo_deploy/kuavo_service/client.py: the control       *)
(* thread pops one action per control period from a queue that is refilled *)
(* by synchronous inference or, with real-time chunking (RTC), by a        *)
(* background _AsyncPolicyWorker that owns one connection and one          *)
(* in-flight request.                                                      *)
(*                                                                         *)
(* Threads: the control thread (pc), which alone calls the PolicyClient    *)
(* methods, and one worker thread per RTC episode (wpc), which may outlive *)
(* the episode because close() joins it for two seconds only.  They share  *)
(* the two queues of size one and the busy event of the worker.            *)
(*                                                                         *)
(* Abstracted: an action is the observation it was planned from (episode,  *)
(* control period) and its position in the chunk; a server answer is the   *)
(* number of actions it holds, or an error (transport, server or           *)
(* validation error: all of them only raise).  The latency estimate goes   *)
(* into the request payload and is read by no guard, so it is left out.    *)
(***************************************************************************)
EXTENDS Integers, Sequences

CONSTANTS RtcEnabled,        \* KUAVO_OPENPI_RTC_ENABLED
          ExecuteSteps,      \* execute_steps, used without RTC
          OpenLoopHorizon,   \* KUAVO_OPENPI_RTC_OPEN_LOOP_HORIZON
          QueueThreshold,    \* KUAVO_OPENPI_RTC_QUEUE_THRESHOLD
          ExecutionHorizon,  \* KUAVO_OPENPI_RTC_EXECUTION_HORIZON
          ChunkLengths,      \* how many actions a valid answer may hold
          MaxPeriods,        \* bound: control periods per episode
          MaxEpisodes        \* bound: episodes, and with them worker threads

\* The constructor's checks (lines 201 and 247-256), and what
\* validate_action_response enforces: an accepted answer is never empty.
ASSUME ClientAssumption ==
    /\ RtcEnabled \in BOOLEAN
    /\ ExecuteSteps \in Nat \ {0}
    /\ OpenLoopHorizon \in Nat /\ QueueThreshold \in Nat
    /\ ExecutionHorizon \in Nat
    /\ 1 <= ExecutionHorizon
    /\ ExecutionHorizon <= QueueThreshold
    /\ QueueThreshold <= OpenLoopHorizon
    /\ ChunkLengths \subseteq Nat \ {0}
    /\ MaxPeriods \in Nat
    /\ MaxEpisodes \in Nat \ {0}

VARIABLES
    pc,           \* where the control thread is
    actions,      \* _actions, the queue of actions still to execute
    sentAt,       \* _rtc_request_sent_at, or NoRequest
    actionCount,  \* _rtc_action_count
    warmedUp,     \* _rtc_warmed_up
    worker,       \* _rtc_worker, or NoWorker
    started,      \* worker threads started so far; the last one is started
    wpc,          \* where each worker thread is
    requests,     \* _requests of each worker, a queue of size one
    results,      \* _results of each worker, a queue of size one
    busy,         \* _busy of each worker
    current,      \* the request each worker is serving, Stop when it has none
    answer,       \* the result each worker is about to put, or NoAnswer
    \* history variables, read by no guard of the code
    episode,      \* index of the episode
    period,       \* select_action calls that returned in this episode
    executed,     \* the action returned last
    discarded     \* a result was taken and then raised, so it is gone

controlVars == <<actions, sentAt, actionCount, warmedUp, worker, started>>
workerVars  == <<wpc, requests, results, busy, current, answer>>
ghostVars   == <<episode, period, executed, discarded>>
vars == <<pc, controlVars, workerVars, ghostVars>>
-----------------------------------------------------------------------------
NoRequest == -1
NoWorker  == 0
Workers   == 1..MaxEpisodes

\* The length of xs[:n] for a list of m.
AtMost(m, n) == IF m <= n THEN m ELSE n

Action  == [ep : Nat, src : Nat, pos : Nat]
Nothing == [ep |-> 0, src |-> 0, pos |-> 0]

\* new_actions[from:to] of the chunk planned from the observation of period src.
Planned(ep, src, from, to) ==
    [i \in 1..(to - from) |-> [ep |-> ep, src |-> src, pos |-> from + i - 1]]

\* What travels through _requests: an inference request or the None sentinel.
Request == [kind : {"infer", "stop"}, ep : Nat, src : Nat, prefix : Seq(Action)]
Stop    == [kind |-> "stop", ep |-> 0, src |-> 0, prefix |-> <<>>]

\* What travels through _results: an answer of size actions, or size 0 for
\* _AsyncInferenceResult(error=...).
Result   == [ep : Nat, src : Nat, size : Nat]
NoAnswer == [ep |-> 0, src |-> 0, size |-> 0]

\* keep of select_action: how much of a synchronous chunk is queued.
Keep == IF RtcEnabled THEN OpenLoopHorizon ELSE ExecuteSteps

\* With a non-empty queue only RTC looks at the worker before popping.
Ready == IF RtcEnabled THEN "submit" ELSE "pop"
-----------------------------------------------------------------------------
Init ==
    /\ pc = "idle"
    /\ actions = <<>>
    /\ sentAt = NoRequest
    /\ actionCount = 0
    /\ warmedUp = FALSE
    /\ worker = NoWorker
    /\ started = 0
    /\ wpc = [w \in Workers |-> "unborn"]
    /\ requests = [w \in Workers |-> <<>>]
    /\ results = [w \in Workers |-> <<>>]
    /\ busy = [w \in Workers |-> FALSE]
    /\ current = [w \in Workers |-> Stop]
    /\ answer = [w \in Workers |-> NoAnswer]
    /\ episode = 1
    /\ period = 0
    /\ executed = Nothing
    /\ discarded = FALSE
-----------------------------------------------------------------------------
(***************************************************************************)
(* select_action, on the control thread.                                   *)
(***************************************************************************)
ResultReady == worker # NoWorker /\ results[worker] # <<>>

\* _consume_rtc_result: how many actions of the answer lie in the past, how
\* many it may contribute, and whether any of them is left to execute.
\* Mutants: the delay is ignored; the horizon is ignored.
NoDelay == 0
ActualDelay == actionCount - sentAt

UsableWhole(r) == r.size
Usable(r) == AtMost(r.size, OpenLoopHorizon)

Mergeable(r) == sentAt # NoRequest /\ ActualDelay < Usable(r)

\* poll found nothing: go on with what is queued, wait, or infer now.
SelectAction ==
    /\ pc = "idle"
    /\ period < MaxPeriods
    /\ ~(RtcEnabled /\ ResultReady)
    /\ pc' = IF actions # <<>> THEN Ready
             ELSE IF RtcEnabled /\ sentAt # NoRequest THEN "wait" ELSE "infer"
    /\ UNCHANGED <<controlVars, workerVars, ghostVars>>

\* The poll that opens select_action, or one inside _wait_for_rtc_result.
Polls == \/ pc = "idle" /\ period < MaxPeriods
         \/ pc = "wait"

\* The queue is replaced by the part of the chunk that is not yet past.
MergeResult ==
    /\ Polls /\ RtcEnabled /\ ResultReady
    /\ LET r == Head(results[worker])
       IN  /\ Mergeable(r)
           /\ actions' = Planned(r.ep, r.src, ActualDelay, Usable(r))
    /\ results' = [results EXCEPT ![worker] = Tail(@)]
    /\ sentAt' = NoRequest
    /\ pc' = "submit"
    /\ UNCHANGED <<actionCount, warmedUp, worker, started, wpc, requests,
                   busy, current, answer, ghostVars>>

\* An error result, or one that comes too late: the result is gone from the
\* queue, select_action raises, and the request stays recorded as sent.
RejectResult ==
    /\ Polls /\ RtcEnabled /\ ResultReady
    /\ ~Mergeable(Head(results[worker]))
    /\ results' = [results EXCEPT ![worker] = Tail(@)]
    /\ discarded' = TRUE
    /\ pc' = "idle"
    /\ UNCHANGED <<controlVars, wpc, requests, busy, current, answer,
                   episode, period, executed>>

\* KUAVO_OPENPI_RTC_RESULT_TIMEOUT_S passed between two polls.
WaitTimeout ==
    /\ pc = "wait"
    /\ pc' = "idle"
    /\ UNCHANGED <<controlVars, workerVars, ghostVars>>

\* Synchronous inference on the client's own connection; the queue it extends
\* is empty.
InferSync ==
    /\ pc = "infer"
    /\ \E n \in ChunkLengths :
          actions' = Planned(episode, period, 0, AtMost(n, Keep))
    /\ pc' = IF RtcEnabled THEN "warmup" ELSE "pop"
    /\ UNCHANGED <<sentAt, actionCount, warmedUp, worker, started,
                   workerVars, ghostVars>>

InferSyncRaises ==
    /\ pc = "infer"
    /\ pc' = "idle"
    /\ UNCHANGED <<controlVars, workerVars, ghostVars>>

NeedsWorker == ~warmedUp /\ worker = NoWorker

\* _warmup_rtc: two throw-away inferences, then the worker thread starts.
WarmupRtc ==
    /\ pc = "warmup"
    /\ pc' = "submit"
    /\ IF NeedsWorker
       THEN /\ started' = started + 1
            /\ worker' = started + 1
            /\ wpc' = [wpc EXCEPT ![started + 1] = "get"]
       ELSE UNCHANGED <<worker, started, wpc>>
    /\ warmedUp' = TRUE
    /\ UNCHANGED <<actions, sentAt, actionCount, requests, results, busy,
                   current, answer, ghostVars>>

WarmupRaises ==
    /\ pc = "warmup"
    /\ ~warmedUp
    /\ pc' = "idle"
    /\ UNCHANGED <<controlVars, workerVars, ghostVars>>

\* The guard of _submit_rtc_if_needed.  Mutant: it trusts the busy event to
\* tell that the last request is settled.
WantsAnyChunk == /\ worker # NoWorker
                 /\ 0 < Len(actions) /\ Len(actions) <= QueueThreshold
WantsChunk == /\ worker # NoWorker
              /\ sentAt = NoRequest
              /\ 0 < Len(actions) /\ Len(actions) <= QueueThreshold

\* _make_rtc_request: the observation of this period and the actions the
\* robot is committed to execute while the worker infers.  Mutant: the prefix
\* is taken as if this period's action had been popped already.
RtcRequestShifted ==
    [kind |-> "infer", ep |-> episode, src |-> period,
     prefix |-> SubSeq(actions, 2, AtMost(ExecutionHorizon, Len(actions)))]
RtcRequest ==
    [kind |-> "infer", ep |-> episode, src |-> period,
     prefix |-> SubSeq(actions, 1, AtMost(ExecutionHorizon, Len(actions)))]

\* _AsyncPolicyWorker.submit refuses while busy; otherwise it raises busy and
\* puts the request, and lowers busy again if the queue is full.
SubmitRtc ==
    /\ pc = "submit"
    /\ IF WantsChunk /\ ~busy[worker]
       THEN LET accepted == requests[worker] = <<>>
            IN  /\ busy' = [busy EXCEPT ![worker] = accepted]
                /\ requests' = IF accepted
                               THEN [requests EXCEPT ![worker] = <<RtcRequest>>]
                               ELSE requests
                /\ sentAt' = IF accepted THEN actionCount ELSE sentAt
       ELSE UNCHANGED <<busy, requests, sentAt>>
    /\ pc' = "pop"
    /\ UNCHANGED <<actions, actionCount, warmedUp, worker, started, wpc,
                   results, current, answer, ghostVars>>

\* popleft, and the action goes back to the control loop.
ReturnAction ==
    /\ pc = "pop"
    /\ actions # <<>>
    /\ executed' = Head(actions)
    /\ actions' = Tail(actions)
    /\ actionCount' = IF RtcEnabled THEN actionCount + 1 ELSE actionCount
    /\ period' = period + 1
    /\ pc' = "idle"
    /\ UNCHANGED <<sentAt, warmedUp, worker, started, workerVars,
                   episode, discarded>>
-----------------------------------------------------------------------------
(***************************************************************************)
(* reset and close, on the control thread.                                 *)
(***************************************************************************)
\* _AsyncPolicyWorker.close: the sentinel is dropped when the queue is full.
PutSentinel ==
    requests' = IF worker # NoWorker /\ requests[worker] = <<>>
                THEN [requests EXCEPT ![worker] = <<Stop>>]
                ELSE requests

BeginReset ==
    /\ pc = "idle"
    /\ episode < MaxEpisodes
    /\ PutSentinel
    /\ pc' = "resetting"
    /\ UNCHANGED <<controlVars, wpc, results, busy, current, answer,
                   ghostVars>>

BeginClose ==
    /\ pc = "idle"
    /\ PutSentinel
    /\ pc' = "closing"
    /\ UNCHANGED <<controlVars, wpc, results, busy, current, answer,
                   ghostVars>>

\* join(timeout=2.0) is over, whether or not the thread ended.
\* Mutant: join without a timeout.
JoinWaits(call) == pc = call /\ (worker # NoWorker => wpc[worker] = "dead")
JoinReturns(call) == pc = call

\* The reconnect that ends reset may raise; nothing modelled depends on it.
FinishReset ==
    /\ JoinReturns("resetting")
    /\ worker' = NoWorker
    /\ actions' = <<>>
    /\ sentAt' = NoRequest
    /\ actionCount' = 0
    /\ warmedUp' = FALSE
    /\ pc' = "idle"
    /\ episode' = episode + 1
    /\ period' = 0
    /\ executed' = Nothing
    /\ discarded' = FALSE
    /\ UNCHANGED <<started, workerVars>>

FinishClose ==
    /\ JoinReturns("closing")
    /\ worker' = NoWorker
    /\ actions' = <<>>
    /\ pc' = "idle"
    /\ UNCHANGED <<sentAt, actionCount, warmedUp, started, workerVars, ghostVars>>
-----------------------------------------------------------------------------
(***************************************************************************)
(* _AsyncPolicyWorker._run, on worker thread w.                            *)
(***************************************************************************)
\* requests.get returns.
GetReturns(w) == requests[w] # <<>>

\* On the sentinel the thread closes its connection and ends.
WorkerTake(w) ==
    /\ wpc[w] = "get"
    /\ GetReturns(w)
    /\ requests' = [requests EXCEPT ![w] = <<>>]
    /\ IF Head(requests[w]).kind = "stop"
       THEN /\ wpc' = [wpc EXCEPT ![w] = "dead"]
            /\ UNCHANGED current
       ELSE /\ wpc' = [wpc EXCEPT ![w] = "infer"]
            /\ current' = [current EXCEPT ![w] = Head(requests[w])]
    /\ UNCHANGED <<pc, controlVars, results, busy, answer, ghostVars>>

\* The first request opens the connection; the server answers with n actions,
\* or connecting, the server or the transport fails (n = 0).
\* Mutant: a failed inference is logged and leaves no result.
WorkerInferDrops(w) ==
    /\ wpc[w] = "infer"
    /\ \E n \in ChunkLengths \cup {0} :
          /\ answer' = [answer EXCEPT ![w] =
                [ep |-> current[w].ep, src |-> current[w].src, size |-> n]]
          /\ wpc' = [wpc EXCEPT ![w] = IF n = 0 THEN "clear" ELSE "put"]
    /\ current' = [current EXCEPT ![w] = Stop]
    /\ UNCHANGED <<pc, controlVars, requests, results, busy, ghostVars>>

WorkerInfer(w) ==
    /\ wpc[w] = "infer"
    /\ \E n \in ChunkLengths \cup {0} :
          answer' = [answer EXCEPT ![w] =
                        [ep |-> current[w].ep, src |-> current[w].src, size |-> n]]
    /\ current' = [current EXCEPT ![w] = Stop]
    /\ wpc' = [wpc EXCEPT ![w] = "put"]
    /\ UNCHANGED <<pc, controlVars, requests, results, busy, ghostVars>>

\* results.put blocks while the queue is full.
WorkerPut(w) ==
    /\ wpc[w] = "put"
    /\ results[w] = <<>>
    /\ results' = [results EXCEPT ![w] = <<answer[w]>>]
    /\ answer' = [answer EXCEPT ![w] = NoAnswer]
    /\ wpc' = [wpc EXCEPT ![w] = "clear"]
    /\ UNCHANGED <<pc, controlVars, requests, busy, current, ghostVars>>

WorkerClear(w) ==
    /\ wpc[w] = "clear"
    /\ busy' = [busy EXCEPT ![w] = FALSE]
    /\ wpc' = [wpc EXCEPT ![w] = "get"]
    /\ UNCHANGED <<pc, controlVars, requests, results, current, answer, ghostVars>>
-----------------------------------------------------------------------------
Select == \/ SelectAction \/ MergeResult \/ RejectResult \/ WaitTimeout
          \/ InferSync \/ InferSyncRaises \/ WarmupRtc \/ WarmupRaises
          \/ SubmitRtc \/ ReturnAction

Teardown == BeginReset \/ BeginClose \/ FinishReset \/ FinishClose

WorkerStep(w) == \/ WorkerTake(w) \/ WorkerInfer(w) \/ WorkerPut(w)
                 \/ WorkerClear(w)

Next == Select \/ Teardown \/ \E w \in Workers : WorkerStep(w)

Spec == Init /\ [][Next]_vars
=============================================================================

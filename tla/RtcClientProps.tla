--------------------------- MODULE RtcClientProps ---------------------------
(***************************************************************************)
(* The correctness properties of RtcClient.                                *)
(***************************************************************************)
EXTENDS RtcClient

(* The one type invariant of the module. *)
TypeOK ==
    /\ pc \in {"idle", "wait", "infer", "warmup", "submit", "pop",
               "resetting", "closing"}
    /\ actions \in Seq(Action)
    /\ sentAt \in Nat \cup {NoRequest}
    /\ actionCount \in Nat
    /\ warmedUp \in BOOLEAN
    /\ worker \in Workers \cup {NoWorker}
    /\ started \in Workers \cup {0}
    /\ wpc \in [Workers -> {"unborn", "get", "infer", "put", "clear", "dead"}]
    /\ requests \in [Workers -> Seq(Request)]
    /\ results \in [Workers -> Seq(Result)]
    /\ busy \in [Workers -> BOOLEAN]
    /\ current \in [Workers -> Request]
    /\ answer \in [Workers -> Result]
    /\ episode \in 1..MaxEpisodes
    /\ period \in Nat
    /\ executed \in Action
    /\ discarded \in BOOLEAN

(* Every queued action belongs to the running episode and is planned for     *)
(* the very period in which it will be popped, however chunks were merged,   *)
(* late, short or dropped before (lines 354-374, 444, 449-451).              *)
QueueAligned ==
    \A i \in DOMAIN actions :
        /\ actions[i].ep = episode
        /\ actions[i].src + actions[i].pos = period + i - 1
        /\ actions[i].pos < Keep

(* The worker of this episode holds a request: queued, being served, or      *)
(* answered but not yet polled.                                              *)
Held(w) == \/ requests[w] # <<>> /\ Head(requests[w]).kind = "infer"
           \/ wpc[w] \in {"infer", "put"}
           \/ results[w] # <<>>

(* _rtc_request_sent_at and the worker agree: while the worker lives, a      *)
(* request is recorded as sent exactly when the worker holds it, unless its  *)
(* result was taken and rejected.  If they drift apart the client either     *)
(* waits for an answer nobody computes or merges one it did not ask for.     *)
SentIsHeld ==
    worker # NoWorker =>
        /\ Held(worker) => sentAt # NoRequest
        /\ sentAt # NoRequest /\ ~discarded => Held(worker)

(* The result queue has room whenever a worker is about to put: the          *)
(* blocking put of line 149 never blocks, also after the client is gone.     *)
PutNeverBlocks ==
    \A w \in Workers : wpc[w] = "put" => results[w] = <<>>

(* While the worker infers, the actions the robot executes are the prefix    *)
(* it was told about: the queue still starts with what is left of it.        *)
Committed(m) ==
    \A i \in DOMAIN m.prefix :
        i > ActualDelay => /\ i - ActualDelay <= Len(actions)
                           /\ actions[i - ActualDelay] = m.prefix[i]

PrefixIsCommitted ==
    worker # NoWorker /\ pc \notin {"resetting", "closing"} =>
        /\ wpc[worker] = "infer" => Committed(current[worker])
        /\ requests[worker] # <<>> => Committed(Head(requests[worker]))

(* popleft never meets an empty queue: every path of select_action that does *)
(* not raise leaves an action to return.                                     *)
PopHasAction == pc \in {"submit", "pop", "warmup"} => actions # <<>>

(* Client and workers together keep the promise of ActionStream: the action  *)
(* executed in period t was planned for t from a recent observation of this  *)
(* episode.                                                                  *)
Stream == INSTANCE ActionStream WITH Horizon <- Keep
StreamSpec == Stream!StreamSpec
-----------------------------------------------------------------------------
(***************************************************************************)
(* Liveness.  Threads that can run are scheduled, and every blocking call  *)
(* of the code is bounded: infer by the request timeout, the wait loop by  *)
(* the result timeout, join by two seconds.  Nothing forces the control    *)
(* loop to call select_action, reset or close.                             *)
(***************************************************************************)
ControlStep == \/ MergeResult \/ RejectResult \/ WaitTimeout \/ InferSync
               \/ InferSyncRaises \/ WarmupRtc \/ WarmupRaises \/ SubmitRtc
               \/ ReturnAction \/ FinishReset \/ FinishClose

Fairness == /\ WF_vars(pc # "idle" /\ ControlStep)
            /\ \A w \in Workers : WF_vars(WorkerStep(w))

FairSpec == Spec /\ Fairness

(* Every call returns or raises: in particular reset and close end although  *)
(* the sentinel may have been dropped and the thread may never end.          *)
CallsEnd == pc # "idle" ~> pc = "idle"

=============================================================================

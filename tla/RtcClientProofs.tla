--------------------------- MODULE RtcClientProofs ---------------------------
(***************************************************************************)
(* Proofs about RtcClient, for every value of its constants.  IInv is the  *)
(* inductive invariant; its first part bounds what a worker thread may     *)
(* hold, its second part ties what the current worker holds to the         *)
(* client's own books, its third part aligns the queue with time.          *)
(***************************************************************************)
EXTENDS RtcClientProps, SequenceTheorems, TLAPS

InferQueued(w) == requests[w] # <<>> /\ Head(requests[w]).kind = "infer"
StopQueued(w)  == requests[w] # <<>> /\ Head(requests[w]).kind = "stop"

\* What every worker thread, current or abandoned, looks like.
WorkerShape(w) ==
    /\ InferQueued(w) => wpc[w] = "get" /\ results[w] = <<>>
    /\ wpc[w] \in {"infer", "put"} => results[w] = <<>>
    /\ InferQueued(w) \/ wpc[w] \in {"infer", "put", "clear"} => busy[w]
    /\ requests[w] # <<>> => Len(requests[w]) = 1
    /\ results[w] # <<>> => Len(results[w]) = 1
    /\ w > started => /\ wpc[w] = "unborn" /\ ~busy[w]
                      /\ requests[w] = <<>> /\ results[w] = <<>>

\* m was asked for by this client in this episode and is still awaited.
Ours(m) == m.ep = episode /\ m.src = sentAt

\* What the current worker holds is what the client recorded as sent.
CurrentWorker ==
    worker # NoWorker =>
        /\ worker = started /\ warmedUp
        /\ wpc[worker] # "unborn"
        /\ wpc[worker] = "dead" \/ StopQueued(worker)
              => pc \in {"resetting", "closing"}
        /\ InferQueued(worker) => Ours(Head(requests[worker]))
        /\ wpc[worker] = "infer" => Ours(current[worker])
        /\ wpc[worker] = "put" => Ours(answer[worker])
        /\ results[worker] # <<>> => Ours(Head(results[worker]))

\* The client's own counters.
Books ==
    /\ started <= episode
    /\ ~warmedUp => started < episode /\ sentAt = NoRequest /\ worker = NoWorker
    /\ sentAt <= actionCount
    /\ RtcEnabled => actionCount = period
    /\ ~RtcEnabled => ~warmedUp
    /\ pc \in {"wait", "warmup"} => RtcEnabled
    /\ pc = "resetting" => episode < MaxEpisodes

\* With RTC the client infers by itself only while no request is out, so that
\* nothing but the worker's own answer replaces the queue.
InferAlone == RtcEnabled /\ pc = "infer" => sentAt = NoRequest

IInv == /\ TypeOK
        /\ \A w \in Workers : WorkerShape(w)
        /\ CurrentWorker
        /\ Books
        /\ QueueAligned
        /\ SentIsHeld
        /\ InferAlone
        /\ PrefixIsCommitted
        /\ PopHasAction
-----------------------------------------------------------------------------
(***************************************************************************)
(* Typing.  The Boolean variables are kept apart from the rest because the *)
(* provers want them in obligations of their own.                          *)
(***************************************************************************)
BoolTypes ==
    /\ warmedUp \in BOOLEAN
    /\ discarded \in BOOLEAN
    /\ busy \in [Workers -> BOOLEAN]

DataTypes ==
    /\ pc \in {"idle", "wait", "infer", "warmup", "submit", "pop",
               "resetting", "closing"}
    /\ actions \in Seq(Action)
    /\ sentAt \in Nat \cup {NoRequest}
    /\ actionCount \in Nat
    /\ worker \in Workers \cup {NoWorker}
    /\ started \in Workers \cup {0}
    /\ wpc \in [Workers -> {"unborn", "get", "infer", "put", "clear", "dead"}]
    /\ requests \in [Workers -> Seq(Request)]
    /\ results \in [Workers -> Seq(Result)]
    /\ current \in [Workers -> Request]
    /\ answer \in [Workers -> Result]
    /\ episode \in 1..MaxEpisodes
    /\ period \in Nat
    /\ executed \in Action

LEMMA TypeParts == TypeOK <=> BoolTypes /\ DataTypes
  BY Zenon DEF TypeOK, BoolTypes, DataTypes

LEMMA ConstantTypes ==
    /\ ExecuteSteps \in Nat \ {0} /\ OpenLoopHorizon \in Nat \ {0}
    /\ QueueThreshold \in Nat /\ ExecutionHorizon \in Nat \ {0}
    /\ ChunkLengths \subseteq Nat \ {0} /\ MaxEpisodes \in Nat \ {0}
    /\ Keep \in Nat \ {0}
<1>1. /\ ExecuteSteps \in Nat \ {0} /\ OpenLoopHorizon \in Nat \ {0}
      /\ QueueThreshold \in Nat /\ ExecutionHorizon \in Nat \ {0}
      /\ ChunkLengths \subseteq Nat \ {0} /\ MaxEpisodes \in Nat \ {0}
  BY ClientAssumption
<1>2. Keep \in Nat \ {0}
  BY <1>1 DEF Keep
<1>3. QED
  BY <1>1, <1>2

(* A slice of a chunk is a sequence of actions planned for consecutive       *)
(* periods.                                                                  *)
LEMMA PlannedIsSeq ==
    ASSUME NEW ep \in Nat, NEW src \in Nat, NEW from \in Nat, NEW to \in Nat,
           from <= to
    PROVE  /\ Planned(ep, src, from, to) \in Seq(Action)
           /\ Len(Planned(ep, src, from, to)) = to - from
           /\ \A i \in 1..(to - from) :
                 Planned(ep, src, from, to)[i]
                    = [ep |-> ep, src |-> src, pos |-> from + i - 1]
<1>1. to - from \in Nat
  OBVIOUS
<1>2. \A i \in 1..(to - from) :
         [ep |-> ep, src |-> src, pos |-> from + i - 1] \in Action
  BY DEF Action
<1>3. QED
  BY <1>1, <1>2 DEF Planned

(* The committed prefix is a sequence of actions.                            *)
LEMMA PrefixIsSeq ==
    ASSUME actions \in Seq(Action), episode \in Nat, period \in Nat
    PROVE  RtcRequest \in Request
<1>1. AtMost(ExecutionHorizon, Len(actions)) \in 0..Len(actions)
  BY ConstantTypes DEF AtMost
<1>2. SubSeq(actions, 1, AtMost(ExecutionHorizon, Len(actions))) \in Seq(Action)
  BY <1>1
<1>3. QED
  BY <1>2 DEF RtcRequest, Request

LEMMA MessageTypes ==
    /\ Stop \in Request /\ NoAnswer \in Result /\ Nothing \in Action
    /\ <<Stop>> \in Seq(Request) /\ <<>> \in Seq(Request)
    /\ <<>> \in Seq(Result) /\ <<>> \in Seq(Action)
<1>1. <<>> \in Seq(Action)
  OBVIOUS
<1>2. Stop \in Request /\ NoAnswer \in Result /\ Nothing \in Action
  BY <1>1 DEF Stop, Request, NoAnswer, Result, Nothing, Action
<1>3. QED
  BY <1>1, <1>2

LEMMA InitTypeOK == Init => TypeOK
<1> SUFFICES ASSUME Init PROVE TypeOK
  OBVIOUS
<1>1. DataTypes
  <2>1. /\ requests \in [Workers -> Seq(Request)]
        /\ results \in [Workers -> Seq(Result)]
        /\ actions \in Seq(Action) /\ executed \in Action
        /\ current \in [Workers -> Request]
        /\ answer \in [Workers -> Result]
    BY MessageTypes DEF Init
  <2>2. QED
    BY <2>1, ConstantTypes DEF Init, DataTypes
<1>2. BoolTypes
  BY DEF Init, BoolTypes
<1>3. QED
  BY <1>1, <1>2, TypeParts

(* Every step keeps the Boolean variables Boolean.                           *)
LEMMA NextBoolTypes ==
    ASSUME BoolTypes, Next
    PROVE  BoolTypes'
<1> USE DEF BoolTypes, controlVars, workerVars, ghostVars
<1>1. CASE Select
  BY <1>1 DEF Select, SelectAction, MergeResult, RejectResult, WaitTimeout,
     InferSync, InferSyncRaises, WarmupRtc, NeedsWorker, WarmupRaises, SubmitRtc, ReturnAction
<1>2. CASE Teardown
  BY <1>2 DEF Teardown, BeginReset, BeginClose, FinishReset, JoinReturns, FinishClose
<1>3. ASSUME NEW w \in Workers, WorkerStep(w) PROVE BoolTypes'
  BY <1>3 DEF WorkerStep, WorkerTake, GetReturns, WorkerInfer, WorkerPut, WorkerClear
<1>4. QED
  BY <1>1, <1>2, <1>3 DEF Next

(* The steps of the control thread keep the rest in its type.                *)
LEMMA SelectDataTypes ==
    ASSUME DataTypes, Books, Select
    PROVE  DataTypes'
<1> USE DEF DataTypes
<1>1. CASE SelectAction
  BY <1>1 DEF SelectAction, Ready, controlVars, workerVars, ghostVars
<1>2. CASE MergeResult
  <2> DEFINE r == Head(results[worker])
  <2>1. r \in Result /\ results[worker] # <<>> /\ worker \in Workers
    BY <1>2 DEF MergeResult, ResultReady
  <2>2. ActualDelay \in Nat /\ Usable(r) \in Nat /\ ActualDelay <= Usable(r)
    <3>1. Mergeable(r) /\ r.size \in Nat /\ sentAt \in Nat \cup {NoRequest}
          /\ actionCount \in Nat /\ sentAt <= actionCount
      BY <1>2, <2>1 DEF MergeResult, Result, Books
    <3>2. QED
      BY <3>1, ConstantTypes DEF Mergeable, ActualDelay, Usable, AtMost, NoRequest
  <2>3. actions' \in Seq(Action)
    BY <1>2, <2>1, <2>2, PlannedIsSeq DEF MergeResult, Result
  <2>4. results' \in [Workers -> Seq(Result)]
    BY <1>2, <2>1 DEF MergeResult
  <2>5. QED
    BY <1>2, <2>3, <2>4 DEF MergeResult, ghostVars
<1>3. CASE RejectResult
  <2>1. results[worker] # <<>> /\ worker \in Workers
    BY <1>3 DEF RejectResult, ResultReady
  <2>2. results' \in [Workers -> Seq(Result)]
    BY <1>3, <2>1 DEF RejectResult
  <2>3. QED
    BY <1>3, <2>2 DEF RejectResult, controlVars
<1>4. CASE WaitTimeout
  BY <1>4 DEF WaitTimeout, controlVars, workerVars, ghostVars
<1>5. CASE InferSync
  <2>1. PICK n \in ChunkLengths : actions' = Planned(episode, period, 0, AtMost(n, Keep))
    BY <1>5 DEF InferSync
  <2>2. AtMost(n, Keep) \in Nat /\ episode \in Nat
    BY ConstantTypes DEF AtMost
  <2>3. actions' \in Seq(Action)
    BY <2>1, <2>2, PlannedIsSeq
  <2>4. QED
    BY <1>5, <2>3 DEF InferSync, workerVars, ghostVars
<1>6. CASE InferSyncRaises
  BY <1>6 DEF InferSyncRaises, controlVars, workerVars, ghostVars
<1>7. CASE WarmupRtc
  <2>1. /\ worker' \in Workers \cup {NoWorker} /\ started' \in Workers \cup {0}
        /\ wpc' \in [Workers -> {"unborn", "get", "infer", "put", "clear", "dead"}]
    <3>1. CASE warmedUp \/ worker # NoWorker
      BY <1>7, <3>1 DEF WarmupRtc, NeedsWorker
    <3>2. CASE ~(warmedUp \/ worker # NoWorker)
      <4>1. started < episode
        BY <3>2 DEF Books
      <4>2. started + 1 \in Workers
        BY <4>1, ConstantTypes DEF Workers
      <4>3. QED
        BY <1>7, <3>2, <4>2 DEF WarmupRtc, NeedsWorker
    <3>3. QED
      BY <3>1, <3>2
  <2>2. QED
    BY <1>7, <2>1 DEF WarmupRtc, NeedsWorker, ghostVars
<1>8. CASE WarmupRaises
  BY <1>8 DEF WarmupRaises, controlVars, workerVars, ghostVars
<1>9. CASE SubmitRtc
  <2>1. RtcRequest \in Request
    BY PrefixIsSeq, ConstantTypes
  <2>2. <<RtcRequest>> \in Seq(Request)
    BY <2>1
  <2>3. CASE WantsChunk /\ ~busy[worker] /\ requests[worker] = <<>>
    <3>1. /\ requests' = [requests EXCEPT ![worker] = <<RtcRequest>>]
          /\ sentAt' = actionCount
      BY <1>9, <2>3 DEF SubmitRtc
    <3>2. QED
      BY <1>9, <2>2, <3>1 DEF SubmitRtc, ghostVars
  <2>4. CASE ~(WantsChunk /\ ~busy[worker] /\ requests[worker] = <<>>)
    <3>1. requests' = requests /\ sentAt' = sentAt
      BY <1>9, <2>4 DEF SubmitRtc
    <3>2. QED
      BY <1>9, <3>1 DEF SubmitRtc, ghostVars
  <2>5. QED
    BY <2>3, <2>4
<1>10. CASE ReturnAction
  BY <1>10 DEF ReturnAction, workerVars
<1>11. QED
  BY <1>1, <1>2, <1>3, <1>4, <1>5, <1>6, <1>7, <1>8, <1>9, <1>10 DEF Select

LEMMA TeardownDataTypes ==
    ASSUME DataTypes, Books, Teardown
    PROVE  DataTypes'
<1> USE DEF DataTypes
<1>1. ASSUME PutSentinel PROVE requests' \in [Workers -> Seq(Request)]
  BY <1>1, MessageTypes DEF PutSentinel
<1>2. CASE BeginReset
  BY <1>1, <1>2 DEF BeginReset, controlVars, ghostVars
<1>3. CASE BeginClose
  BY <1>1, <1>3 DEF BeginClose, controlVars, ghostVars
<1>4. CASE FinishReset
  <2>1. episode' \in 1..MaxEpisodes
    BY <1>4, ConstantTypes DEF FinishReset, JoinReturns, Books
  <2>2. QED
    BY <1>4, <2>1, MessageTypes DEF FinishReset, JoinReturns, workerVars
<1>5. CASE FinishClose
  BY <1>5, MessageTypes DEF FinishClose, JoinReturns, workerVars, ghostVars
<1>6. QED
  BY <1>2, <1>3, <1>4, <1>5 DEF Teardown

LEMMA WorkerDataTypes ==
    ASSUME DataTypes, NEW w \in Workers, WorkerStep(w)
    PROVE  DataTypes'
<1> USE DEF DataTypes
<1>1. CASE WorkerTake(w)
  <2>1. requests' \in [Workers -> Seq(Request)] /\ current' \in [Workers -> Request]
    <3>1. Head(requests[w]) \in Request
      BY <1>1 DEF WorkerTake, GetReturns
    <3>2. QED
      BY <1>1, <3>1, MessageTypes DEF WorkerTake, GetReturns
  <2>2. wpc' \in [Workers -> {"unborn", "get", "infer", "put", "clear", "dead"}]
    BY <1>1 DEF WorkerTake, GetReturns
  <2>3. QED
    BY <1>1, <2>1, <2>2 DEF WorkerTake, GetReturns, controlVars, ghostVars
<1>2. CASE WorkerInfer(w)
  <2> DEFINE a(n) == [ep |-> current[w].ep, src |-> current[w].src, size |-> n]
  <2>1. PICK n \in ChunkLengths \cup {0} : answer' = [answer EXCEPT ![w] = a(n)]
    BY <1>2 DEF WorkerInfer
  <2>2. a(n) \in Result
    <3>1. n \in Nat
      BY ConstantTypes
    <3>2. current[w].ep \in Nat /\ current[w].src \in Nat
      BY DEF Request
    <3>3. QED
      BY <3>1, <3>2 DEF Result
  <2> HIDE DEF a
  <2>3. answer' \in [Workers -> Result]
    BY <2>1, <2>2
  <2>4. current' \in [Workers -> Request]
    BY <1>2, MessageTypes DEF WorkerInfer
  <2>5. wpc' \in [Workers -> {"unborn", "get", "infer", "put", "clear", "dead"}]
    BY <1>2 DEF WorkerInfer
  <2>6. QED
    BY <1>2, <2>3, <2>4, <2>5 DEF WorkerInfer, controlVars, ghostVars
<1>3. CASE WorkerPut(w)
  <2>1. results' \in [Workers -> Seq(Result)] /\ answer' \in [Workers -> Result]
    BY <1>3, MessageTypes DEF WorkerPut
  <2>2. QED
    BY <1>3, <2>1 DEF WorkerPut, controlVars, ghostVars
<1>4. CASE WorkerClear(w)
  BY <1>4 DEF WorkerClear, controlVars, ghostVars
<1>5. QED
  BY <1>1, <1>2, <1>3, <1>4 DEF WorkerStep

LEMMA NextTypeOK ==
    ASSUME TypeOK, Books, Next
    PROVE  TypeOK'
<1>1. DataTypes /\ BoolTypes
  BY TypeParts
<1>2. DataTypes'
  BY <1>1, SelectDataTypes, TeardownDataTypes, WorkerDataTypes DEF Next
<1>3. BoolTypes'
  BY <1>1, NextBoolTypes
<1>4. QED
  BY <1>2, <1>3, TypeParts DEF TypeOK, DataTypes, BoolTypes
-----------------------------------------------------------------------------
(***************************************************************************)
(* The worker threads and the client's books.                              *)
(***************************************************************************)
LEMMA NextBooks ==
    ASSUME DataTypes, Books, CurrentWorker, Next
    PROVE  Books'
<1> USE DEF Books, controlVars, workerVars, ghostVars
<1>1. /\ actionCount \in Nat /\ period \in Nat /\ episode \in Nat
      /\ started \in Nat /\ sentAt \in Nat \cup {NoRequest}
  BY ConstantTypes DEF DataTypes, Workers
<1>2. CASE SelectAction
  BY <1>1, <1>2 DEF SelectAction, Ready
<1>3. CASE MergeResult
  BY <1>1, <1>3 DEF MergeResult, NoRequest
<1>4. CASE RejectResult
  BY <1>1, <1>4 DEF RejectResult
<1>5. CASE WaitTimeout \/ InferSyncRaises \/ WarmupRaises
  BY <1>1, <1>5 DEF WaitTimeout, InferSyncRaises, WarmupRaises
<1>6. CASE InferSync
  BY <1>1, <1>6 DEF InferSync
<1>7. CASE WarmupRtc
  BY <1>1, <1>7 DEF WarmupRtc, NeedsWorker, CurrentWorker
<1>8. CASE SubmitRtc
  <2>1. CASE WantsChunk
    BY <1>1, <1>8, <2>1 DEF SubmitRtc, WantsChunk
  <2>2. CASE ~WantsChunk
    BY <1>1, <1>8, <2>2 DEF SubmitRtc
  <2>3. QED
    BY <2>1, <2>2
<1>9. CASE ReturnAction
  BY <1>1, <1>9 DEF ReturnAction, NoRequest
<1>10. CASE BeginReset \/ BeginClose
  BY <1>1, <1>10 DEF BeginReset, BeginClose
<1>11. CASE FinishReset
  BY <1>1, <1>11 DEF FinishReset, JoinReturns, NoRequest
<1>12. CASE FinishClose
  BY <1>1, <1>12 DEF FinishClose, JoinReturns
<1>13. ASSUME NEW w \in Workers, WorkerStep(w) PROVE Books'
  BY <1>1, <1>13 DEF WorkerStep, WorkerTake, GetReturns, WorkerInfer, WorkerPut, WorkerClear
<1>14. QED
  BY <1>2, <1>3, <1>4, <1>5, <1>6, <1>7, <1>8, <1>9, <1>10, <1>11, <1>12, <1>13
  DEF Next, Select, Teardown

LEMMA TailOfOne ==
    ASSUME NEW S, NEW s \in Seq(S), Len(s) = 1
    PROVE  Tail(s) = <<>>
<1>1. s # <<>>
  BY EmptySeq
<1>2. Tail(s) \in Seq(S) /\ Len(Tail(s)) = 0
  BY <1>1, HeadTailProperties
<1>3. QED
  BY <1>2, EmptySeq

(* A worker's own step keeps its shape; the sentinel may be added to it.     *)
LEMMA WorkerStepShape ==
    ASSUME DataTypes, BoolTypes, NEW v \in Workers, WorkerStep(v),
           \A w \in Workers : WorkerShape(w)
    PROVE  \A w \in Workers : WorkerShape(w)'
<1> SUFFICES ASSUME NEW w \in Workers PROVE WorkerShape(w)'
  OBVIOUS
<1>1. CASE w # v
  <2>1. wpc'[w] = wpc[w] /\ requests'[w] = requests[w] /\ results'[w] = results[w]
    BY <1>1 DEF WorkerStep, WorkerTake, GetReturns, WorkerInfer, WorkerPut, WorkerClear,
       DataTypes
  <2>2. busy'[w] = busy[w] /\ started' = started
    BY <1>1 DEF WorkerStep, WorkerTake, GetReturns, WorkerInfer, WorkerPut, WorkerClear,
       BoolTypes, controlVars
  <2>3. WorkerShape(w)
    OBVIOUS
  <2>4. QED
    BY <2>1, <2>2, <2>3 DEF WorkerShape, InferQueued
<1>2. CASE w = v
  <2> USE DEF DataTypes
  <2>1. CASE WorkerTake(v)
    <3>1. /\ wpc[v] = "get" /\ requests[v] # <<>> /\ requests'[v] = <<>>
          /\ wpc'[v] = IF Head(requests[v]).kind = "stop" THEN "dead" ELSE "infer"
          /\ UNCHANGED <<results, busy, started>>
      BY <2>1 DEF WorkerTake, GetReturns, controlVars
    <3>2. Head(requests[v]).kind \in {"infer", "stop"}
      <4>1. Head(requests[v]) \in Request
        BY <3>1
      <4>2. QED
        BY <4>1 DEF Request
    <3>3. Head(requests[v]).kind = "infer" => results[v] = <<>> /\ busy[v]
      BY <3>1 DEF WorkerShape, InferQueued
    <3>4. ~(v > started) /\ (results[v] # <<>> => Len(results[v]) = 1)
      BY <3>1 DEF WorkerShape
    <3>5. QED
      BY <1>2, <3>1, <3>2, <3>3, <3>4 DEF WorkerShape, InferQueued
  <2>2. CASE WorkerInfer(v)
    <3>1. /\ wpc[v] = "infer" /\ wpc'[v] = "put"
          /\ UNCHANGED <<requests, results, busy, started>>
      BY <2>2 DEF WorkerInfer, controlVars
    <3>2. QED
      BY <1>2, <3>1 DEF WorkerShape, InferQueued
  <2>3. CASE WorkerPut(v)
    <3>1. /\ wpc[v] = "put" /\ wpc'[v] = "clear" /\ results'[v] = <<answer[v]>>
          /\ UNCHANGED <<requests, busy, started>>
      BY <2>3 DEF WorkerPut, controlVars
    <3>2. QED
      BY <1>2, <3>1 DEF WorkerShape, InferQueued
  <2>4. CASE WorkerClear(v)
    <3>1. /\ wpc[v] = "clear" /\ wpc'[v] = "get"
          /\ UNCHANGED <<requests, results, started>>
      BY <2>4 DEF WorkerClear, controlVars
    <3>2. ~InferQueued(v) /\ ~(v > started)
      BY <3>1 DEF WorkerShape
    <3>3. QED
      BY <1>2, <3>1, <3>2 DEF WorkerShape, InferQueued
  <2>5. QED
    BY <2>1, <2>2, <2>3, <2>4 DEF WorkerStep
<1>3. QED
  BY <1>1, <1>2

(* The client only touches its current worker: it takes a result, or submits *)
(* to a worker that is neither busy nor stopped.                             *)
LEMMA ControlShape ==
    ASSUME DataTypes, BoolTypes, Books, CurrentWorker, Select \/ Teardown,
           \A w \in Workers : WorkerShape(w)
    PROVE  \A w \in Workers : WorkerShape(w)'
<1> SUFFICES ASSUME NEW w \in Workers PROVE WorkerShape(w)'
  OBVIOUS
<1> USE DEF WorkerShape, InferQueued, controlVars, workerVars, ghostVars
<1>1. CASE SelectAction \/ WaitTimeout \/ InferSync \/ InferSyncRaises
           \/ WarmupRaises \/ ReturnAction \/ FinishReset \/ FinishClose
  BY <1>1 DEF SelectAction, WaitTimeout, InferSync, InferSyncRaises,
     WarmupRaises, ReturnAction, FinishReset, JoinReturns, FinishClose
<1>2. CASE MergeResult \/ RejectResult
  <2>1. results' = [results EXCEPT ![worker] = Tail(@)] /\ worker \in Workers
        /\ results[worker] # <<>>
    BY <1>2 DEF MergeResult, RejectResult, ResultReady, DataTypes
  <2>2. Tail(results[worker]) = <<>>
    BY <2>1, TailOfOne DEF DataTypes
  <2>3. results'[w] = results[w] \/ results'[w] = <<>>
    BY <2>1, <2>2 DEF DataTypes
  <2>4. UNCHANGED <<wpc, requests, busy, started>>
    BY <1>2 DEF MergeResult, RejectResult
  <2>5. QED
    BY <2>3, <2>4
<1>3. CASE WarmupRtc
  <2>1. CASE warmedUp \/ worker # NoWorker
    BY <1>3, <2>1 DEF WarmupRtc, NeedsWorker
  <2>2. CASE ~(warmedUp \/ worker # NoWorker)
    <3>1. started < episode
      BY <2>2 DEF Books
    <3>2. started \in Nat /\ started + 1 \in Workers
      BY <3>1, ConstantTypes DEF DataTypes, Workers
    <3>3. /\ started' = started + 1 /\ wpc' = [wpc EXCEPT ![started + 1] = "get"]
          /\ UNCHANGED <<requests, busy, results>>
      BY <1>3, <2>2 DEF WarmupRtc, NeedsWorker
    <3>4. CASE w = started + 1
      <4>1. wpc'[w] = "get"
        BY <3>2, <3>3, <3>4 DEF DataTypes
      <4>2. ~busy[w] /\ requests[w] = <<>> /\ results[w] = <<>>
        BY <3>2, <3>4
      <4>3. ~(w > started')
        BY <3>2, <3>3, <3>4
      <4>4. QED
        BY <3>3, <4>1, <4>2, <4>3
    <3>5. CASE w # started + 1
      <4>1. wpc'[w] = wpc[w]
        BY <3>2, <3>3, <3>5 DEF DataTypes
      <4>2. w > started' => w > started
        BY <3>2, <3>3 DEF Workers
      <4>3. QED
        BY <3>3, <4>1, <4>2
    <3>6. QED
      BY <3>4, <3>5
  <2>3. QED
    BY <2>1, <2>2
<1>4. CASE SubmitRtc
  <2>1. CASE WantsChunk /\ ~busy[worker] /\ requests[worker] = <<>>
    <3>1. worker \in Workers /\ worker = started /\ sentAt = NoRequest
          /\ pc = "submit"
      BY <1>4, <2>1 DEF SubmitRtc, WantsChunk, CurrentWorker, DataTypes
    <3>2. wpc[worker] = "get"
      BY <2>1, <3>1 DEF CurrentWorker, DataTypes, NoWorker, WantsChunk
    <3>3. results[worker] = <<>>
      <4>1. results[worker] # <<>> => Head(results[worker]) \in Result
        BY <3>1 DEF DataTypes
      <4>2. QED
        BY <2>1, <3>1, <4>1 DEF CurrentWorker, Ours, WantsChunk, Result, NoRequest
    <3>4. /\ requests' = [requests EXCEPT ![worker] = <<RtcRequest>>]
          /\ busy' = [busy EXCEPT ![worker] = TRUE]
          /\ UNCHANGED <<wpc, results, started>>
      BY <1>4, <2>1 DEF SubmitRtc
    <3>5. CASE w = worker
      <4>1. /\ requests'[w] = <<RtcRequest>> /\ busy'[w] = TRUE
            /\ wpc'[w] = "get" /\ results'[w] = <<>>
        BY <3>1, <3>2, <3>3, <3>4, <3>5 DEF DataTypes, BoolTypes
      <4>2. ~(w > started')
        BY <3>1, <3>4, <3>5 DEF DataTypes, Workers
      <4>3. QED
        BY <4>1, <4>2
    <3>6. CASE w # worker
      BY <3>4, <3>6
    <3>7. QED
      BY <3>5, <3>6
  <2>2. CASE ~(WantsChunk /\ ~busy[worker] /\ requests[worker] = <<>>)
    <3>1. CASE WantsChunk /\ ~busy[worker]
      <4>1. UNCHANGED requests /\ busy' = [busy EXCEPT ![worker] = FALSE]
        BY <1>4, <2>2, <3>1 DEF SubmitRtc
      <4>2. busy' = busy
        <5>1. worker \in Workers
          BY <3>1 DEF WantsChunk, DataTypes
        <5>2. QED
          BY <3>1, <4>1, <5>1, Zenon DEF BoolTypes
      <4>3. QED
        BY <1>4, <4>1, <4>2 DEF SubmitRtc
    <3>2. CASE ~(WantsChunk /\ ~busy[worker])
      BY <1>4, <3>2 DEF SubmitRtc
    <3>3. QED
      BY <3>1, <3>2
  <2>3. QED
    BY <2>1, <2>2
<1>5. CASE BeginReset \/ BeginClose
  <2>1. PutSentinel /\ UNCHANGED <<wpc, results, busy, started, worker>>
    BY <1>5 DEF BeginReset, BeginClose
  <2>2. CASE w = worker /\ requests[w] = <<>>
    <3>1. requests'[w] = <<Stop>>
      BY <2>1, <2>2 DEF PutSentinel, DataTypes, NoWorker, Workers
    <3>2. w <= started
      BY <2>2 DEF CurrentWorker, DataTypes, Workers, NoWorker
    <3>3. QED
      BY <2>1, <3>1, <3>2 DEF Stop, DataTypes, Workers
  <2>3. CASE ~(w = worker /\ requests[w] = <<>>)
    BY <2>1, <2>3 DEF PutSentinel
  <2>4. QED
    BY <2>2, <2>3
<1>6. QED
  BY <1>1, <1>2, <1>3, <1>4, <1>5 DEF Select, Teardown

(* What SubmitRtc does when the worker accepts: the worker was idle.         *)
LEMMA AcceptedSubmit ==
    ASSUME DataTypes, BoolTypes, Books, CurrentWorker,
           \A w \in Workers : WorkerShape(w), SubmitRtc,
           WantsChunk /\ ~busy[worker] /\ requests[worker] = <<>>
    PROVE  /\ worker \in Workers /\ worker = started /\ RtcEnabled
           /\ wpc[worker] = "get" /\ results[worker] = <<>>
           /\ requests' = [requests EXCEPT ![worker] = <<RtcRequest>>]
           /\ busy' = [busy EXCEPT ![worker] = TRUE]
           /\ sentAt' = actionCount
<1>1. /\ worker \in Workers /\ worker = started /\ sentAt = NoRequest
      /\ pc = "submit"
  BY DEF SubmitRtc, WantsChunk, CurrentWorker, DataTypes
<1>2. wpc[worker] = "get"
  BY <1>1 DEF CurrentWorker, DataTypes, NoWorker, WantsChunk, WorkerShape
<1>3. results[worker] = <<>>
  <2>1. results[worker] # <<>> => Head(results[worker]) \in Result
    BY <1>1 DEF DataTypes
  <2>2. QED
    BY <1>1, <2>1 DEF CurrentWorker, Ours, WantsChunk, Result, NoRequest
<1>4. /\ requests' = [requests EXCEPT ![worker] = <<RtcRequest>>]
      /\ busy' = [busy EXCEPT ![worker] = TRUE]
      /\ sentAt' = actionCount
  BY DEF SubmitRtc
<1>5. RtcEnabled
  BY DEF CurrentWorker, WantsChunk, Books
<1>6. QED
  BY <1>1, <1>2, <1>3, <1>4, <1>5

LEMMA RefusedSubmit ==
    ASSUME BoolTypes, DataTypes, SubmitRtc,
           ~(WantsChunk /\ ~busy[worker] /\ requests[worker] = <<>>)
    PROVE  UNCHANGED <<busy, requests, sentAt>>
<1>1. CASE WantsChunk /\ ~busy[worker]
  <2>1. UNCHANGED <<requests, sentAt>> /\ busy' = [busy EXCEPT ![worker] = FALSE]
    BY <1>1 DEF SubmitRtc
  <2>2. worker \in Workers
    BY <1>1 DEF WantsChunk, DataTypes
  <2>3. busy' = busy
    BY <1>1, <2>1, <2>2, Zenon DEF BoolTypes
  <2>4. QED
    BY <2>1, <2>3
<1>2. CASE ~(WantsChunk /\ ~busy[worker])
  BY <1>2 DEF SubmitRtc
<1>3. QED
  BY <1>1, <1>2

(* Taking a result empties the result queue of the current worker.           *)
LEMMA TakenResult ==
    ASSUME DataTypes, \A w \in Workers : WorkerShape(w),
           MergeResult \/ RejectResult
    PROVE  /\ worker \in Workers /\ results[worker] # <<>>
           /\ results' = [results EXCEPT ![worker] = <<>>]
           /\ UNCHANGED <<wpc, requests, busy, started, worker>>
           /\ ~InferQueued(worker) /\ wpc[worker] \notin {"infer", "put"}
<1>1. results' = [results EXCEPT ![worker] = Tail(@)] /\ worker \in Workers
      /\ results[worker] # <<>>
  BY DEF MergeResult, RejectResult, ResultReady, DataTypes
<1>2. Tail(results[worker]) = <<>>
  BY <1>1, TailOfOne DEF DataTypes, WorkerShape
<1>3. UNCHANGED <<wpc, requests, busy, started, worker>>
  BY DEF MergeResult, RejectResult, controlVars
<1>4. ~InferQueued(worker) /\ wpc[worker] \notin {"infer", "put"}
  BY <1>1 DEF WorkerShape
<1>5. QED
  BY <1>1, <1>2, <1>3, <1>4

(* The client's books name exactly what its worker holds.                    *)
LEMMA NextCurrentWorker ==
    ASSUME DataTypes, BoolTypes, Books, CurrentWorker, Next,
           \A w \in Workers : WorkerShape(w)
    PROVE  CurrentWorker'
<1> USE DEF CurrentWorker, InferQueued, StopQueued, Ours
<1>1. CASE SelectAction \/ WaitTimeout \/ InferSync \/ InferSyncRaises
           \/ WarmupRaises \/ ReturnAction
  BY <1>1 DEF SelectAction, WaitTimeout, InferSync, InferSyncRaises, Ready,
     WarmupRaises, ReturnAction, controlVars, workerVars, ghostVars
<1>2. CASE MergeResult \/ RejectResult
  <2>1. /\ pc \notin {"resetting", "closing"} /\ warmedUp' = warmedUp
        /\ pc' \notin {"resetting", "closing"}
    BY <1>2 DEF MergeResult, RejectResult, Polls, controlVars
  <2>2. results'[worker] = <<>>
    BY <1>2, TakenResult DEF DataTypes
  <2>3. QED
    BY <1>2, <2>1, <2>2, TakenResult
<1>3. CASE WarmupRtc
  <2>1. CASE warmedUp \/ worker # NoWorker
    BY <1>3, <2>1 DEF WarmupRtc, NeedsWorker, Books, ghostVars
  <2>2. CASE ~(warmedUp \/ worker # NoWorker)
    <3>1. started < episode
      BY <2>2 DEF Books
    <3>2. started \in Nat /\ started + 1 \in Workers
      BY <3>1, ConstantTypes DEF DataTypes, Workers
    <3>3. /\ started' = started + 1 /\ worker' = started + 1 /\ warmedUp'
          /\ wpc' = [wpc EXCEPT ![started + 1] = "get"]
          /\ UNCHANGED <<requests, results>>
      BY <1>3, <2>2 DEF WarmupRtc, NeedsWorker
    <3>4. requests[started + 1] = <<>> /\ results[started + 1] = <<>>
      BY <3>2 DEF WorkerShape
    <3>5. wpc'[started + 1] = "get"
      BY <3>2, <3>3 DEF DataTypes
    <3>6. QED
      BY <3>3, <3>4, <3>5
  <2>3. QED
    BY <2>1, <2>2
<1>4. CASE SubmitRtc
  <2>1. /\ pc \notin {"resetting", "closing"} /\ pc' \notin {"resetting", "closing"}
        /\ UNCHANGED <<worker, started, warmedUp, wpc, results, current, answer, episode>>
    BY <1>4 DEF SubmitRtc, ghostVars
  <2>2. CASE WantsChunk /\ ~busy[worker] /\ requests[worker] = <<>>
    <3>1. requests'[worker] = <<RtcRequest>> /\ worker \in Workers
      BY <1>4, <2>2, AcceptedSubmit DEF DataTypes
    <3>2. RtcRequest.ep = episode /\ RtcRequest.src = period
          /\ RtcRequest.kind = "infer"
      BY DEF RtcRequest
    <3>3. sentAt' = period
      BY <1>4, <2>2, AcceptedSubmit DEF Books
    <3>4. wpc[worker] = "get" /\ results[worker] = <<>>
      BY <1>4, <2>2, AcceptedSubmit
    <3>5. QED
      BY <2>1, <3>1, <3>2, <3>3, <3>4
  <2>3. CASE ~(WantsChunk /\ ~busy[worker] /\ requests[worker] = <<>>)
    BY <1>4, <2>1, <2>3, RefusedSubmit
  <2>4. QED
    BY <2>2, <2>3
<1>5. CASE BeginReset \/ BeginClose
  <2>1. /\ PutSentinel /\ pc' \in {"resetting", "closing"}
        /\ UNCHANGED <<worker, started, warmedUp, wpc, results, current, answer,
                       sentAt, episode>>
    BY <1>5 DEF BeginReset, BeginClose, controlVars, ghostVars
  <2>2. CASE worker # NoWorker /\ requests[worker] = <<>>
    <3>1. requests'[worker] = <<Stop>>
      BY <2>1, <2>2 DEF PutSentinel, DataTypes
    <3>2. QED
      BY <2>1, <2>2, <3>1 DEF Stop
  <2>3. CASE ~(worker # NoWorker /\ requests[worker] = <<>>)
    BY <2>1, <2>3 DEF PutSentinel
  <2>4. QED
    BY <2>2, <2>3
<1>6. CASE FinishReset \/ FinishClose
  BY <1>6 DEF FinishReset, JoinReturns, FinishClose
<1>7. ASSUME NEW v \in Workers, WorkerStep(v) PROVE CurrentWorker'
  <2>1. UNCHANGED <<pc, worker, started, warmedUp, sentAt, episode>>
    BY <1>7 DEF WorkerStep, WorkerTake, GetReturns, WorkerInfer, WorkerPut, WorkerClear,
       controlVars, ghostVars
  <2>2. CASE worker # v
    <3>1. worker # NoWorker =>
             /\ wpc'[worker] = wpc[worker] /\ requests'[worker] = requests[worker]
             /\ results'[worker] = results[worker]
             /\ current'[worker] = current[worker] /\ answer'[worker] = answer[worker]
      BY <1>7, <2>2 DEF WorkerStep, WorkerTake, GetReturns, WorkerInfer, WorkerPut,
         WorkerClear, DataTypes
    <3>2. QED
      BY <2>1, <3>1
  <2>3. CASE worker = v
    <3> USE DEF DataTypes
    <3>0. worker # NoWorker
      BY <2>3 DEF Workers, NoWorker
    <3>1. CASE WorkerTake(v)
      <4>1. /\ wpc[v] = "get" /\ requests[v] # <<>> /\ requests'[v] = <<>>
            /\ results' = results
        BY <3>1 DEF WorkerTake, GetReturns
      <4>2. CASE Head(requests[v]).kind = "stop"
        <5>1. wpc'[v] = "dead" /\ current' = current
          BY <3>1, <4>2 DEF WorkerTake, GetReturns
        <5>2. QED
          BY <2>1, <2>3, <3>0, <4>1, <4>2, <5>1
      <4>3. CASE Head(requests[v]).kind # "stop"
        <5>1. Head(requests[v]) \in Request
          BY <4>1
        <5>2. Head(requests[v]).kind = "infer"
          BY <4>3, <5>1 DEF Request
        <5>3. wpc'[v] = "infer" /\ current'[v] = Head(requests[v])
          BY <3>1, <4>3 DEF WorkerTake, GetReturns
        <5>4. QED
          BY <2>1, <2>3, <3>0, <4>1, <5>2, <5>3
      <4>4. QED
        BY <4>2, <4>3
    <3>2. CASE WorkerInfer(v)
      <4>1. /\ wpc[v] = "infer" /\ wpc'[v] = "put"
            /\ UNCHANGED <<requests, results>>
        BY <3>2 DEF WorkerInfer
      <4>2. answer'[v].ep = current[v].ep /\ answer'[v].src = current[v].src
        BY <3>2 DEF WorkerInfer
      <4>3. QED
        BY <2>1, <2>3, <3>0, <4>1, <4>2
    <3>3. CASE WorkerPut(v)
      <4>1. /\ wpc[v] = "put" /\ wpc'[v] = "clear" /\ results'[v] = <<answer[v]>>
            /\ UNCHANGED requests
        BY <3>3 DEF WorkerPut
      <4>2. QED
        BY <2>1, <2>3, <3>0, <4>1
    <3>4. CASE WorkerClear(v)
      <4>1. /\ wpc[v] = "clear" /\ wpc'[v] = "get"
            /\ UNCHANGED <<requests, results, current, answer>>
        BY <3>4 DEF WorkerClear
      <4>2. QED
        BY <2>1, <2>3, <3>0, <4>1
    <3>5. QED
      BY <1>7, <3>1, <3>2, <3>3, <3>4 DEF WorkerStep
  <2>4. QED
    BY <2>2, <2>3
<1>8. QED
  BY <1>1, <1>2, <1>3, <1>4, <1>5, <1>6, <1>7 DEF Next, Select, Teardown

(* A worker's step hands its request on and never loses it.                  *)
LEMMA WorkerKeepsHolding ==
    ASSUME DataTypes, NEW v \in Workers, WorkerStep(v), NEW w \in Workers,
           \A u \in Workers : WorkerShape(u)
    PROVE  Held(w)' <=> Held(w)
<1> USE DEF Held, DataTypes
<1>1. CASE w # v
  <2>1. wpc'[w] = wpc[w] /\ requests'[w] = requests[w] /\ results'[w] = results[w]
    BY <1>1 DEF WorkerStep, WorkerTake, GetReturns, WorkerInfer, WorkerPut, WorkerClear
  <2>2. QED
    BY <2>1
<1>2. CASE w = v
  <2>1. CASE WorkerTake(v)
    <3>1. wpc[v] = "get" /\ requests[v] # <<>> /\ requests'[v] = <<>>
          /\ results' = results
      BY <2>1 DEF WorkerTake, GetReturns
    <3>2. Head(requests[v]).kind = "stop" => wpc'[v] = "dead"
      BY <2>1 DEF WorkerTake, GetReturns
    <3>3. Head(requests[v]).kind # "stop"
             => wpc'[v] = "infer" /\ Head(requests[v]).kind = "infer"
      <4>1. Head(requests[v]) \in Request
        BY <3>1
      <4>2. Head(requests[v]).kind \in {"infer", "stop"}
        BY <4>1 DEF Request
      <4>3. QED
        BY <2>1, <4>2 DEF WorkerTake, GetReturns
    <3>4. QED
      BY <1>2, <3>1, <3>2, <3>3
  <2>2. CASE WorkerInfer(v)
    BY <1>2, <2>2 DEF WorkerInfer
  <2>3. CASE WorkerPut(v)
    BY <1>2, <2>3 DEF WorkerPut
  <2>4. CASE WorkerClear(v)
    BY <1>2, <2>4 DEF WorkerClear
  <2>5. QED
    BY <2>1, <2>2, <2>3, <2>4 DEF WorkerStep
<1>3. QED
  BY <1>1, <1>2

(* Nothing is held for a client that recorded nothing as sent.               *)
LEMMA NothingSentNothingHeld ==
    ASSUME DataTypes, CurrentWorker, worker # NoWorker, Held(worker)
    PROVE  sentAt # NoRequest
<1>1. worker \in Workers
  BY DEF DataTypes
<1>2. CASE InferQueued(worker)
  <2>1. Head(requests[worker]) \in Request
    BY <1>1, <1>2 DEF DataTypes, InferQueued
  <2>2. QED
    BY <1>2, <2>1 DEF CurrentWorker, Ours, Request, NoRequest
<1>3. CASE wpc[worker] = "infer"
  <2>1. current[worker] \in Request
    BY <1>1 DEF DataTypes
  <2>2. QED
    BY <1>3, <2>1 DEF CurrentWorker, Ours, Request, NoRequest
<1>4. CASE wpc[worker] = "put"
  <2>1. answer[worker] \in Result
    BY <1>1 DEF DataTypes
  <2>2. QED
    BY <1>4, <2>1 DEF CurrentWorker, Ours, Result, NoRequest
<1>5. CASE results[worker] # <<>>
  <2>1. Head(results[worker]) \in Result
    BY <1>1, <1>5 DEF DataTypes
  <2>2. QED
    BY <1>5, <2>1 DEF CurrentWorker, Ours, Result, NoRequest
<1>6. QED
  BY <1>2, <1>3, <1>4, <1>5 DEF Held, InferQueued

(* The other direction: what is recorded as sent stays held until its result *)
(* is merged or rejected.                                                    *)
LEMMA SentStaysHeld ==
    ASSUME DataTypes, BoolTypes, Books, CurrentWorker, Next, SentIsHeld,
           \A w \in Workers : WorkerShape(w),
           (worker # NoWorker)', (sentAt # NoRequest)', ~discarded'
    PROVE  Held(worker)'
<1>1. CASE SelectAction \/ WaitTimeout \/ InferSync \/ InferSyncRaises
           \/ WarmupRaises \/ ReturnAction
  BY <1>1 DEF SelectAction, WaitTimeout, InferSync, InferSyncRaises, SentIsHeld,
     Held, WarmupRaises, ReturnAction, controlVars, workerVars, ghostVars
<1>2. CASE MergeResult \/ RejectResult
  BY <1>2 DEF MergeResult, RejectResult
<1>3. CASE WarmupRtc
  <2>1. CASE warmedUp \/ worker # NoWorker
    BY <1>3, <2>1 DEF WarmupRtc, NeedsWorker, SentIsHeld, Held, ghostVars
  <2>2. CASE ~(warmedUp \/ worker # NoWorker)
    BY <1>3, <2>2 DEF WarmupRtc, NeedsWorker, Books
  <2>3. QED
    BY <2>1, <2>2
<1>4. CASE SubmitRtc
  <2>1. UNCHANGED <<worker, wpc, results, discarded>>
    BY <1>4 DEF SubmitRtc, ghostVars
  <2>2. CASE WantsChunk /\ ~busy[worker] /\ requests[worker] = <<>>
    <3>1. requests'[worker] = <<RtcRequest>>
      BY <1>4, <2>2, AcceptedSubmit DEF DataTypes
    <3>2. QED
      BY <2>1, <3>1 DEF Held, RtcRequest
  <2>3. CASE ~(WantsChunk /\ ~busy[worker] /\ requests[worker] = <<>>)
    <3>1. UNCHANGED <<requests, sentAt>>
      BY <1>4, <2>3, RefusedSubmit
    <3>2. QED
      BY <2>1, <3>1 DEF Held, SentIsHeld
  <2>4. QED
    BY <2>2, <2>3
<1>5. CASE BeginReset \/ BeginClose
  <2>1. PutSentinel /\ UNCHANGED <<worker, wpc, results, sentAt, discarded>>
    BY <1>5 DEF BeginReset, BeginClose, controlVars, ghostVars
  <2>2. Held(worker)
    BY <2>1 DEF SentIsHeld
  <2>3. requests[worker] # <<>> => requests'[worker] = requests[worker]
    BY <2>1 DEF PutSentinel
  <2>4. QED
    BY <2>1, <2>2, <2>3 DEF Held
<1>6. CASE FinishReset \/ FinishClose
  BY <1>6 DEF FinishReset, JoinReturns, FinishClose
<1>7. ASSUME NEW v \in Workers, WorkerStep(v) PROVE Held(worker)'
  <2>1. UNCHANGED <<worker, sentAt, discarded>>
    BY <1>7 DEF WorkerStep, WorkerTake, GetReturns, WorkerInfer, WorkerPut, WorkerClear,
       controlVars, ghostVars
  <2>2. worker \in Workers /\ Held(worker)
    BY <2>1 DEF DataTypes, SentIsHeld
  <2>3. PICK w \in Workers : w = worker
    BY <2>2
  <2>4. Held(w)'
    BY <1>7, <2>2, <2>3, WorkerKeepsHolding
  <2>5. w = worker'
    BY <2>1, <2>3
  <2>6. QED
    BY <2>4, <2>5 DEF Held
<1>8. QED
  BY <1>1, <1>2, <1>3, <1>4, <1>5, <1>6, <1>7 DEF Next, Select, Teardown

LEMMA NextSentIsHeld ==
    ASSUME DataTypes, BoolTypes, Books, CurrentWorker, Next, SentIsHeld,
           \A w \in Workers : WorkerShape(w), DataTypes', CurrentWorker'
    PROVE  SentIsHeld'
<1>1. (worker # NoWorker)' /\ Held(worker)' => (sentAt # NoRequest)'
  BY NothingSentNothingHeld, PTL
<1>2. (worker # NoWorker)' /\ (sentAt # NoRequest)' /\ ~discarded' => Held(worker)'
  BY SentStaysHeld
<1>3. QED
  BY <1>1, <1>2 DEF SentIsHeld
-----------------------------------------------------------------------------
(***************************************************************************)
(* The queue.                                                              *)
(***************************************************************************)
LEMMA NextQueueAligned ==
    ASSUME DataTypes, Books, CurrentWorker, QueueAligned, Next
    PROVE  QueueAligned'
<1> USE DEF QueueAligned
<1>1. CASE SelectAction \/ RejectResult \/ WaitTimeout \/ InferSyncRaises
           \/ WarmupRtc \/ WarmupRaises \/ SubmitRtc \/ BeginReset \/ BeginClose
  BY <1>1 DEF SelectAction, RejectResult, WaitTimeout, InferSyncRaises, WarmupRtc, NeedsWorker,
     WarmupRaises, SubmitRtc, BeginReset, BeginClose, controlVars, ghostVars
<1>2. CASE MergeResult
  <2> DEFINE r == Head(results[worker])
  <2>1. r \in Result /\ results[worker] # <<>> /\ worker \in Workers /\ worker # NoWorker
    BY <1>2 DEF MergeResult, ResultReady, DataTypes
  <2>2. r.ep = episode /\ r.src = sentAt
    BY <2>1 DEF CurrentWorker, Ours
  <2>3. /\ Mergeable(r) /\ RtcEnabled /\ r.size \in Nat /\ sentAt \in Nat
        /\ actionCount \in Nat /\ sentAt <= actionCount /\ actionCount = period
        /\ episode \in Nat
    BY <1>2, <2>1, <2>2, ConstantTypes DEF MergeResult, Result, Books, DataTypes
  <2>4. /\ ActualDelay = period - sentAt /\ ActualDelay \in Nat
        /\ Usable(r) \in Nat /\ ActualDelay < Usable(r) /\ Usable(r) <= Keep
    BY <2>3, ConstantTypes DEF Mergeable, ActualDelay, Usable, AtMost, Keep
  <2>5. actions' = Planned(episode, sentAt, ActualDelay, Usable(r))
    BY <1>2, <2>2 DEF MergeResult
  <2>6. DOMAIN actions' = 1..(Usable(r) - ActualDelay)
    BY <2>5 DEF Planned
  <2>7. UNCHANGED <<episode, period>>
    BY <1>2 DEF MergeResult, ghostVars
  <2> HIDE DEF r
  <2>8. ASSUME NEW i \in DOMAIN actions'
        PROVE  /\ actions'[i].ep = episode /\ actions'[i].src = sentAt
               /\ actions'[i].pos = ActualDelay + i - 1
    BY <2>5, <2>6 DEF Planned
  <2>9. ASSUME NEW i \in DOMAIN actions'
        PROVE  /\ sentAt + (ActualDelay + i - 1) = period + i - 1
               /\ ActualDelay + i - 1 < Keep
    BY SMTT(20), <2>3, <2>4, <2>6, ConstantTypes
  <2>10. QED
    BY <2>7, <2>8, <2>9
<1>3. CASE InferSync
  <2>1. PICK n \in ChunkLengths : actions' = Planned(episode, period, 0, AtMost(n, Keep))
    BY <1>3 DEF InferSync
  <2>2. n \in Nat /\ AtMost(n, Keep) \in Nat /\ AtMost(n, Keep) <= Keep
        /\ period \in Nat /\ UNCHANGED <<episode, period>>
    BY <1>3, ConstantTypes DEF AtMost, DataTypes, InferSync, ghostVars
  <2>3. QED
    BY <2>1, <2>2, ConstantTypes DEF Planned
<1>4. CASE ReturnAction
  <2>1. /\ actions \in Seq(Action) /\ actions # <<>> /\ period \in Nat
        /\ actions' = Tail(actions) /\ period' = period + 1 /\ UNCHANGED episode
    BY <1>4 DEF ReturnAction, DataTypes
  <2>2. ASSUME NEW i \in DOMAIN actions'
        PROVE  i \in Nat /\ i + 1 \in DOMAIN actions /\ actions'[i] = actions[i + 1]
    BY <2>1
  <2>3. QED
    BY <2>1, <2>2
<1>5. CASE FinishReset \/ FinishClose
  BY <1>5 DEF FinishReset, JoinReturns, FinishClose
<1>6. ASSUME NEW v \in Workers, WorkerStep(v) PROVE QueueAligned'
  BY <1>6 DEF WorkerStep, WorkerTake, GetReturns, WorkerInfer, WorkerPut, WorkerClear,
     controlVars, ghostVars
<1>7. QED
  BY <1>1, <1>2, <1>3, <1>4, <1>5, <1>6 DEF Next, Select, Teardown

LEMMA NextInferAlone ==
    ASSUME InferAlone, Next
    PROVE  InferAlone'
<1> USE DEF InferAlone, Ready, controlVars, workerVars
<1>1. CASE Select
  BY <1>1 DEF Select, SelectAction, MergeResult, RejectResult, WaitTimeout,
     InferSync, InferSyncRaises, WarmupRtc, NeedsWorker, WarmupRaises, SubmitRtc, ReturnAction
<1>2. CASE Teardown
  BY <1>2 DEF Teardown, BeginReset, BeginClose, FinishReset, JoinReturns, FinishClose
<1>3. ASSUME NEW w \in Workers, WorkerStep(w) PROVE InferAlone'
  BY <1>3 DEF WorkerStep, WorkerTake, GetReturns, WorkerInfer, WorkerPut, WorkerClear
<1>4. QED
  BY <1>1, <1>2, <1>3 DEF Next

LEMMA NextPopHasAction ==
    ASSUME DataTypes, Books, PopHasAction, Next
    PROVE  PopHasAction'
<1> USE DEF PopHasAction, controlVars, workerVars
<1>1. CASE SelectAction \/ RejectResult \/ WaitTimeout \/ InferSyncRaises
           \/ WarmupRtc \/ WarmupRaises \/ SubmitRtc \/ ReturnAction
  BY <1>1 DEF SelectAction, Ready, RejectResult, WaitTimeout, InferSyncRaises,
     WarmupRtc, NeedsWorker, WarmupRaises, SubmitRtc, ReturnAction
<1>2. CASE MergeResult
  <2> DEFINE r == Head(results[worker])
  <2>1. r \in Result
    BY <1>2 DEF MergeResult, ResultReady, DataTypes
  <2>2. ActualDelay \in Int /\ Usable(r) \in Int /\ ActualDelay < Usable(r)
    BY <1>2, <2>1, ConstantTypes
    DEF MergeResult, Mergeable, ActualDelay, Usable, AtMost, DataTypes, Result, NoRequest
  <2>3. actions' = Planned(r.ep, r.src, ActualDelay, Usable(r))
    BY <1>2 DEF MergeResult
  <2> HIDE DEF r
  <2>4. 1 \in DOMAIN actions'
    BY <2>2, <2>3 DEF Planned
  <2>5. QED
    BY <2>4
<1>3. CASE InferSync
  <2>1. PICK n \in ChunkLengths : actions' = Planned(episode, period, 0, AtMost(n, Keep))
    BY <1>3 DEF InferSync
  <2>2. AtMost(n, Keep) \in Nat \ {0}
    BY ConstantTypes DEF AtMost
  <2>3. 1 \in DOMAIN actions'
    BY <2>1, <2>2 DEF Planned
  <2>4. QED
    BY <2>3
<1>4. CASE Teardown
  BY <1>4 DEF Teardown, BeginReset, BeginClose, FinishReset, JoinReturns, FinishClose
<1>5. ASSUME NEW w \in Workers, WorkerStep(w) PROVE PopHasAction'
  BY <1>5 DEF WorkerStep, WorkerTake, GetReturns, WorkerInfer, WorkerPut, WorkerClear
<1>6. QED
  BY <1>1, <1>2, <1>3, <1>4, <1>5 DEF Next, Select
-----------------------------------------------------------------------------
(***************************************************************************)
(* The committed prefix.                                                   *)
(***************************************************************************)
\* Popping an action moves the queue and the delay together.
LEMMA PopKeepsCommitted ==
    ASSUME DataTypes, NEW m \in Request, Committed(m), ReturnAction, RtcEnabled,
           sentAt \in Nat
    PROVE  Committed(m)'
<1>1. /\ actions \in Seq(Action) /\ actions # <<>> /\ actions' = Tail(actions)
      /\ actionCount \in Nat /\ actionCount' = actionCount + 1 /\ sentAt' = sentAt
  BY DEF DataTypes, ReturnAction
<1>2. ActualDelay' = ActualDelay + 1 /\ ActualDelay \in Int
  BY <1>1 DEF ActualDelay
<1>3. DOMAIN m.prefix \subseteq Nat
  BY DEF Request
<1>4. ASSUME NEW i \in DOMAIN m.prefix, i > ActualDelay'
      PROVE  /\ i - ActualDelay' <= Len(actions')
             /\ actions'[i - ActualDelay'] = m.prefix[i]
  <2>1. /\ i > ActualDelay /\ i - ActualDelay <= Len(actions)
        /\ actions[i - ActualDelay] = m.prefix[i]
    BY <1>2, <1>3, <1>4 DEF Committed
  <2>2. i - ActualDelay' \in 1..(Len(actions) - 1) /\ i - ActualDelay' + 1 = i - ActualDelay
    BY <1>1, <1>2, <1>3, <1>4, <2>1
  <2>3. Len(Tail(actions)) = Len(actions) - 1
        /\ \A j \in 1..(Len(actions) - 1) : Tail(actions)[j] = actions[j + 1]
    BY <1>1
  <2>4. QED
    BY <1>1, <2>1, <2>2, <2>3
<1>5. QED
  BY <1>4 DEF Committed

\* The prefix of a new request is the front of the queue.
LEMMA SubmitCommits ==
    ASSUME DataTypes, NEW m, m = RtcRequest, sentAt' = actionCount,
           UNCHANGED <<actions, actionCount>>
    PROVE  Committed(m)'
<1> DEFINE k == AtMost(ExecutionHorizon, Len(actions))
<1>1. k \in 0..Len(actions) /\ actions \in Seq(Action)
  BY ConstantTypes DEF AtMost, DataTypes
<1>2. m.prefix = SubSeq(actions, 1, k)
  BY DEF RtcRequest
<1> HIDE DEF k
<1>3. DOMAIN m.prefix = 1..k /\ \A i \in 1..k : m.prefix[i] = actions[i]
  BY <1>1, <1>2
<1>4. ActualDelay' = 0
  BY DEF ActualDelay, DataTypes
<1>5. QED
  BY <1>1, <1>3, <1>4 DEF Committed

\* While the worker holds a request the queue is not refilled.
LEMMA HeldRequestFreezesQueue ==
    ASSUME DataTypes, Books, CurrentWorker, InferAlone,
           \A w \in Workers : WorkerShape(w), worker # NoWorker,
           requests[worker] # <<>> \/ wpc[worker] = "infer",
           pc \notin {"resetting", "closing"}
    PROVE  ~InferSync /\ ~MergeResult
<1>1. worker \in Workers /\ (InferQueued(worker) \/ wpc[worker] = "infer")
  <2>1. worker \in Workers
    BY DEF DataTypes
  <2>2. CASE requests[worker] # <<>>
    <3>1. Head(requests[worker]) \in Request
      BY <2>1, <2>2 DEF DataTypes
    <3>2. QED
      BY <2>1, <2>2, <3>1 DEF CurrentWorker, StopQueued, InferQueued, Request
  <2>3. QED
    BY <2>1, <2>2
<1>2. Held(worker) /\ worker \in Workers
  BY <1>1 DEF Held, InferQueued, DataTypes
<1>3. ~InferSync
  BY <1>2, NothingSentNothingHeld DEF InferSync, InferAlone, CurrentWorker, Books
<1>4. ~MergeResult
  BY <1>1, TakenResult
<1>5. QED
  BY <1>3, <1>4

\* Committed(m) reads nothing but the queue and the delay.
LEMMA CommittedFrame ==
    ASSUME NEW m, Committed(m), UNCHANGED <<actions, actionCount, sentAt>>
    PROVE  Committed(m)'
  BY DEF Committed, ActualDelay

LEMMA NextPrefixIsCommitted ==
    ASSUME DataTypes, BoolTypes, Books, CurrentWorker, InferAlone,
           PrefixIsCommitted, Next, \A w \in Workers : WorkerShape(w)
    PROVE  PrefixIsCommitted'
<1> SUFFICES ASSUME (worker # NoWorker)', (pc \notin {"resetting", "closing"})'
             PROVE  /\ wpc'[worker'] = "infer" => Committed(current[worker])'
                    /\ requests'[worker'] # <<>> => Committed(Head(requests[worker]))'
  BY DEF PrefixIsCommitted
<1> DEFINE Holds(m) == \/ wpc[worker] = "infer" /\ m = current[worker]
                       \/ requests[worker] # <<>> /\ m = Head(requests[worker])
<1>1. ASSUME worker # NoWorker, pc \notin {"resetting", "closing"},
             NEW m, Holds(m)
      PROVE  /\ Committed(m) /\ m \in Request /\ sentAt \in Nat /\ RtcEnabled
             /\ ~InferSync /\ ~MergeResult
  <2>1. worker \in Workers /\ m \in Request /\ Committed(m)
    BY <1>1 DEF DataTypes, PrefixIsCommitted
  <2>2. m.kind = "infer" \/ wpc[worker] = "infer"
    BY <1>1, <2>1 DEF CurrentWorker, StopQueued, Request
  <2>3. Held(worker)
    BY <1>1, <2>2 DEF Held
  <2>4. sentAt \in Nat
    BY <1>1, <2>3, NothingSentNothingHeld DEF DataTypes
  <2>5. RtcEnabled
    BY <1>1 DEF CurrentWorker, Books
  <2>6. ~InferSync /\ ~MergeResult
    BY <1>1, HeldRequestFreezesQueue
  <2>7. QED
    BY <2>1, <2>4, <2>5, <2>6
<1>2. ASSUME worker # NoWorker, pc \notin {"resetting", "closing"}, worker' = worker,
             NEW m, Holds(m),
             UNCHANGED <<actions, actionCount, sentAt>> \/ ReturnAction
      PROVE  Committed(m)'
  BY <1>1, <1>2, PopKeepsCommitted, CommittedFrame
<1>3. ASSUME worker # NoWorker, pc \notin {"resetting", "closing"}, worker' = worker,
             UNCHANGED <<requests, wpc, current>>,
             UNCHANGED <<actions, actionCount, sentAt>> \/ ReturnAction
      PROVE  /\ wpc'[worker'] = "infer" => Committed(current[worker])'
             /\ requests'[worker'] # <<>> => Committed(Head(requests[worker]))'
  <2>1. wpc'[worker'] = "infer" => Committed(current[worker])'
    <3>1. SUFFICES ASSUME wpc[worker] = "infer" PROVE Committed(current[worker])'
      BY <1>3
    <3>2. PICK m : m = current[worker]
      OBVIOUS
    <3>3. Committed(m)'
      BY <1>2, <1>3, <3>1, <3>2
    <3>4. m = current'[worker']
      BY <1>3, <3>2
    <3>5. QED
      BY <3>3, <3>4 DEF Committed
  <2>2. requests'[worker'] # <<>> => Committed(Head(requests[worker]))'
    <3>1. SUFFICES ASSUME requests[worker] # <<>> PROVE Committed(Head(requests[worker]))'
      BY <1>3
    <3>2. PICK m : m = Head(requests[worker])
      OBVIOUS
    <3>3. Committed(m)'
      BY <1>2, <1>3, <3>1, <3>2
    <3>4. m = Head(requests'[worker'])
      BY <1>3, <3>2
    <3>5. QED
      BY <3>3, <3>4 DEF Committed
  <2>3. QED
    BY <2>1, <2>2
<1>4. CASE SelectAction \/ RejectResult \/ WaitTimeout \/ InferSyncRaises
           \/ WarmupRaises \/ ReturnAction
  BY <1>3, <1>4 DEF SelectAction, RejectResult, WaitTimeout, InferSyncRaises, Polls,
     WarmupRaises, ReturnAction, controlVars, workerVars
<1>5. CASE MergeResult \/ InferSync
  <2>1. UNCHANGED <<worker, wpc, requests>> /\ pc \notin {"resetting", "closing"}
    BY <1>5 DEF MergeResult, InferSync, Polls, workerVars
  <2>2. ~(wpc[worker] = "infer") /\ requests[worker] = <<>>
    BY <1>5, <2>1, HeldRequestFreezesQueue
  <2>3. QED
    BY <2>1, <2>2
<1>6. CASE WarmupRtc
  <2>1. CASE warmedUp \/ worker # NoWorker
    BY <1>3, <1>6, <2>1 DEF WarmupRtc, NeedsWorker
  <2>2. CASE ~(warmedUp \/ worker # NoWorker)
    <3>1. started < episode
      BY <2>2 DEF Books
    <3>2. started \in Nat /\ started + 1 \in Workers
      BY <3>1, ConstantTypes DEF DataTypes, Workers
    <3>3. /\ worker' = started + 1 /\ wpc' = [wpc EXCEPT ![started + 1] = "get"]
          /\ UNCHANGED requests
      BY <1>6, <2>2 DEF WarmupRtc, NeedsWorker
    <3>4. requests[started + 1] = <<>>
      BY <3>2 DEF WorkerShape
    <3>5. wpc'[started + 1] = "get"
      BY <3>2, <3>3 DEF DataTypes
    <3>6. QED
      BY <3>3, <3>4, <3>5
  <2>3. QED
    BY <2>1, <2>2
<1>7. CASE SubmitRtc
  <2>1. /\ UNCHANGED <<worker, wpc, current, actions, actionCount>>
        /\ pc \notin {"resetting", "closing"}
    BY <1>7 DEF SubmitRtc
  <2>2. CASE WantsChunk /\ ~busy[worker] /\ requests[worker] = <<>>
    <3>1. /\ wpc'[worker'] = "get" /\ requests'[worker'] = <<RtcRequest>>
          /\ sentAt' = actionCount
      BY <1>7, <2>1, <2>2, AcceptedSubmit DEF DataTypes
    <3>2. PICK m : m = RtcRequest
      OBVIOUS
    <3>3. Committed(m)'
      BY <2>1, <3>1, <3>2, SubmitCommits
    <3>4. Head(requests'[worker']) = m
      BY <3>1, <3>2
    <3>5. QED
      BY <3>1, <3>3, <3>4 DEF Committed
  <2>3. CASE ~(WantsChunk /\ ~busy[worker] /\ requests[worker] = <<>>)
    BY <1>3, <1>7, <2>1, <2>3, RefusedSubmit
  <2>4. QED
    BY <2>2, <2>3
<1>8. CASE Teardown
  BY <1>8 DEF Teardown, BeginReset, BeginClose, FinishReset, JoinReturns, FinishClose
<1>9. ASSUME NEW v \in Workers, WorkerStep(v)
      PROVE  /\ wpc'[worker'] = "infer" => Committed(current[worker])'
             /\ requests'[worker'] # <<>> => Committed(Head(requests[worker]))'
  <2>1. /\ UNCHANGED <<pc, worker, actions, actionCount, sentAt>>
        /\ worker \in Workers /\ worker # NoWorker
    BY <1>9 DEF WorkerStep, WorkerTake, GetReturns, WorkerInfer, WorkerPut, WorkerClear,
       controlVars, DataTypes
  <2>2. wpc'[worker] = "infer"
           => \/ wpc[worker] = "infer" /\ current'[worker] = current[worker]
              \/ requests[worker] # <<>> /\ current'[worker] = Head(requests[worker])
    BY <1>9, <2>1 DEF WorkerStep, WorkerTake, GetReturns, WorkerInfer, WorkerPut, WorkerClear,
       DataTypes
  <2>3. requests'[worker] # <<>> => requests'[worker] = requests[worker]
    BY <1>9, <2>1 DEF WorkerStep, WorkerTake, GetReturns, WorkerInfer, WorkerPut, WorkerClear,
       DataTypes
  <2>4. wpc'[worker'] = "infer" => Committed(current[worker])'
    <3>1. SUFFICES ASSUME wpc'[worker] = "infer" PROVE Committed(current[worker])'
      BY <2>1
    <3>2. PICK m : m = current'[worker']
      OBVIOUS
    <3>3. Holds(m)
      BY <2>1, <2>2, <3>1, <3>2
    <3>4. Committed(m)'
      BY <1>2, <2>1, <3>3
    <3>5. QED
      BY <3>2, <3>4 DEF Committed
  <2>5. requests'[worker'] # <<>> => Committed(Head(requests[worker]))'
    <3>1. SUFFICES ASSUME requests'[worker] # <<>> PROVE Committed(Head(requests[worker]))'
      BY <2>1
    <3>2. PICK m : m = Head(requests'[worker'])
      OBVIOUS
    <3>3. Holds(m)
      BY <2>1, <2>3, <3>1, <3>2
    <3>4. Committed(m)'
      BY <1>2, <2>1, <3>3
    <3>5. QED
      BY <3>2, <3>4 DEF Committed
  <2>6. QED
    BY <2>4, <2>5
<1>10. QED
  BY <1>4, <1>5, <1>6, <1>7, <1>8, <1>9 DEF Next, Select
-----------------------------------------------------------------------------
(***************************************************************************)
(* The inductive invariant and what follows from it.                       *)
(***************************************************************************)
LEMMA InitIInv == Init => IInv
<1> SUFFICES ASSUME Init PROVE IInv
  OBVIOUS
<1>1. TypeOK
  BY InitTypeOK
<1>2. \A w \in Workers : WorkerShape(w)
  BY DEF Init, WorkerShape, InferQueued, Workers
<1>3. CurrentWorker /\ SentIsHeld /\ PrefixIsCommitted
  BY DEF Init, CurrentWorker, SentIsHeld, PrefixIsCommitted
<1>4. Books
  BY ConstantTypes DEF Init, Books, NoRequest, NoWorker
<1>5. QueueAligned /\ InferAlone /\ PopHasAction
  BY DEF Init, QueueAligned, InferAlone, PopHasAction
<1>6. QED
  BY <1>1, <1>2, <1>3, <1>4, <1>5 DEF IInv

LEMMA NextIInv == IInv /\ [Next]_vars => IInv'
<1> SUFFICES ASSUME IInv, [Next]_vars PROVE IInv'
  OBVIOUS
<1>1. CASE Next
  <2>1. TypeOK' /\ DataTypes /\ BoolTypes /\ DataTypes'
    BY <1>1, NextTypeOK, TypeParts DEF IInv, TypeOK, BoolTypes, DataTypes
  <2>2. Books' /\ CurrentWorker'
    BY <1>1, <2>1, NextBooks, NextCurrentWorker DEF IInv
  <2>3. \A w \in Workers : WorkerShape(w)'
    <3>1. CASE Select \/ Teardown
      BY <2>1, <3>1, ControlShape DEF IInv
    <3>2. ASSUME NEW v \in Workers, WorkerStep(v)
          PROVE  \A w \in Workers : WorkerShape(w)'
      BY <2>1, <3>2, WorkerStepShape DEF IInv
    <3>3. QED
      BY <1>1, <3>1, <3>2 DEF Next
  <2>4. QueueAligned' /\ InferAlone' /\ PopHasAction'
    BY <1>1, <2>1, NextQueueAligned, NextInferAlone, NextPopHasAction DEF IInv
  <2>5. SentIsHeld' /\ PrefixIsCommitted'
    BY <1>1, <2>1, <2>2, NextSentIsHeld, NextPrefixIsCommitted DEF IInv
  <2>6. QED
    BY <2>1, <2>2, <2>3, <2>4, <2>5 DEF IInv
<1>2. CASE UNCHANGED vars
  BY <1>2 DEF vars, controlVars, workerVars, ghostVars, IInv, TypeOK, WorkerShape,
     InferQueued, CurrentWorker, StopQueued, Ours, Books, QueueAligned, SentIsHeld,
     Held, InferAlone, PrefixIsCommitted, Committed, ActualDelay, PopHasAction
<1>3. QED
  BY <1>1, <1>2

THEOREM InductiveInvariant == Spec => []IInv
  BY InitIInv, NextIInv, PTL DEF Spec

(* Every variable keeps its type in every run of the client, whatever the    *)
(* configuration and however many threads outlive their episode.             *)
THEOREM TypeCorrect == Spec => []TypeOK
<1>1. IInv => TypeOK
  BY DEF IInv
<1>2. QED
  BY <1>1, InductiveInvariant, PTL

(* Every queued action belongs to the running episode and to the period in   *)
(* which it will be popped (_consume_rtc_result, select_action, reset).      *)
THEOREM QueueIsAligned == Spec => []QueueAligned
<1>1. IInv => QueueAligned
  BY DEF IInv
<1>2. QED
  BY <1>1, InductiveInvariant, PTL

(* _rtc_request_sent_at agrees with what the live worker holds.              *)
THEOREM SentMatchesWorker == Spec => []SentIsHeld
<1>1. IInv => SentIsHeld
  BY DEF IInv
<1>2. QED
  BY <1>1, InductiveInvariant, PTL

(* The blocking results.put of _AsyncPolicyWorker._run finds room, also for  *)
(* the threads of past episodes: WorkerShape bounds what each one holds.     *)
THEOREM WorkersNeverBlockOnPut == Spec => []PutNeverBlocks
<1>1. IInv => PutNeverBlocks
  BY DEF IInv, PutNeverBlocks, WorkerShape
<1>2. QED
  BY <1>1, InductiveInvariant, PTL

(* The actions executed while the worker infers are the prefix it was told.  *)
THEOREM PrefixStaysCommitted == Spec => []PrefixIsCommitted
<1>1. IInv => PrefixIsCommitted
  BY DEF IInv
<1>2. QED
  BY <1>1, InductiveInvariant, PTL

(* popleft never raises IndexError.                                          *)
THEOREM PopNeverFails == Spec => []PopHasAction
<1>1. IInv => PopHasAction
  BY DEF IInv
<1>2. QED
  BY <1>1, InductiveInvariant, PTL
-----------------------------------------------------------------------------
(***************************************************************************)
(* PolicyClient implements ActionStream.                                   *)
(***************************************************************************)
LEMMA InitStream == Init => Stream!StreamInit
  BY DEF Init, Stream!StreamInit, Nothing, Stream!Nothing

\* The head of the queue is an action the stream may execute now.
LEMMA HeadIsExecutable ==
    ASSUME IInv, actions # <<>>
    PROVE  \E age \in 0..(Keep - 1) :
              /\ age <= period
              /\ Head(actions) = [ep |-> episode, src |-> period - age, pos |-> age]
<1>1. actions \in Seq(Action) /\ period \in Nat
  BY DEF IInv, TypeOK
<1>2. Head(actions) \in Action /\ Head(actions) = actions[1] /\ 1 \in DOMAIN actions
  BY <1>1
<1>3. /\ Head(actions).ep = episode
      /\ Head(actions).src + Head(actions).pos = period + 1 - 1
      /\ Head(actions).pos < Keep
  BY <1>2 DEF IInv, QueueAligned
<1>4. /\ Head(actions).src \in Nat /\ Head(actions).pos \in Nat
      /\ Head(actions) = [ep |-> Head(actions).ep, src |-> Head(actions).src,
                          pos |-> Head(actions).pos]
  BY <1>2 DEF Action
<1>5. /\ Head(actions).pos \in 0..(Keep - 1) /\ Head(actions).pos <= period
      /\ Head(actions).src = period - Head(actions).pos
  BY <1>1, <1>3, <1>4, ConstantTypes
<1>6. QED
  BY <1>3, <1>4, <1>5

LEMMA NextStream ==
    ASSUME IInv, [Next]_vars
    PROVE  [Stream!StreamNext]_(Stream!streamVars)
<1> USE DEF Stream!StreamNext, Stream!streamVars
<1>1. CASE ReturnAction
  <2>1. /\ actions # <<>> /\ executed' = Head(actions) /\ period' = period + 1
        /\ UNCHANGED episode
    BY <1>1 DEF ReturnAction
  <2>2. Stream!Execute
    BY <2>1, HeadIsExecutable DEF Stream!Execute
  <2>3. QED
    BY <2>2
<1>2. CASE FinishReset
  BY <1>2 DEF FinishReset, JoinReturns, Stream!NewEpisode, Nothing, Stream!Nothing
<1>3. CASE Next /\ ~ReturnAction /\ ~FinishReset
  <2>1. UNCHANGED <<episode, period, executed>>
    BY <1>3 DEF Next, Select, Teardown, SelectAction, MergeResult, RejectResult,
       WaitTimeout, InferSync, InferSyncRaises, WarmupRtc, NeedsWorker, WarmupRaises, SubmitRtc,
       BeginReset, BeginClose, FinishClose, JoinReturns, WorkerStep, WorkerTake, GetReturns, WorkerInfer,
       WorkerPut, WorkerClear, ghostVars
  <2>2. QED
    BY <2>1
<1>4. CASE UNCHANGED vars
  BY <1>4 DEF vars, ghostVars
<1>5. QED
  BY <1>1, <1>2, <1>3, <1>4

(* The client with all its threads, queues and late answers is an            *)
(* ActionStream: period t executes an action planned for t in this episode.  *)
THEOREM ClientIsActionStream == Spec => StreamSpec
<1>1. Init => Stream!StreamInit
  BY InitStream
<1>2. IInv /\ [Next]_vars => [Stream!StreamNext]_(Stream!streamVars)
  BY NextStream
<1>3. QED
  BY <1>1, <1>2, InductiveInvariant, PTL DEF Spec, StreamSpec, Stream!StreamSpec
=============================================================================

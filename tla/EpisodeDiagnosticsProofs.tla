----------------------- MODULE EpisodeDiagnosticsProofs -----------------------
(***************************************************************************)
(* Proofs about EpisodeDiagnostics, for any number of episodes, steps and  *)
(* queue sizes: every episode that began is reported once and truthfully,  *)
(* and no bundle holds a half written video unless its thread was given up.*)
(***************************************************************************)
EXTENDS EpisodeDiagnostics, TLAPS

Phases  == {"next", "reset", "act", "execute", "wrapup", "close", "put", "drop", "join",
            "drain", "returned"}
Running == {"reset", "act", "execute", "wrapup"}
Closing == {"close", "put", "drop", "join"}
Over    == {"drain", "returned"}

(* Types, without the bounds of the counters.                              *)
Typed ==
    /\ enabled \in BOOLEAN /\ final \in BOOLEAN /\ finalized \in BOOLEAN
    /\ main \in Phases /\ ending \in {"running", "success", "failure"}
    /\ episode \in 0..EvalEpisodes /\ step \in 0..MaxSteps
    /\ recorder \in {"none", "null", "files"} /\ active \subseteq Kinds
    /\ threads \in [Episodes -> [Kinds -> Thread]]
    /\ \A e \in Episodes, k \in Kinds : Len(threads[e][k].queue) <= QueueSize
    /\ video \in [Episodes -> {"absent", "open", "whole"}]
    /\ late \subseteq Episodes

(* What the phase of main says: an episode under way has a recorder and is *)
(* not finalized, and only the finally block leaves one before its end.    *)
Phased ==
    /\ main \in Running => ~finalized /\ ~final
    /\ main = "next" => finalized /\ ~final
    /\ main = "reset" => active = {} /\ step = 0
    /\ main \in {"act", "execute"} => step < MaxSteps
    /\ main \in {"put", "drop", "join"} => active # {}
    /\ main \in Closing /\ ~final => ~finalized
    /\ main \in Over => final
    /\ finalized => active = {}
    /\ ~finalized => episode > 0
    /\ finalized <=> recorder = "none"

(* The rows the episode's recorder was given follow its steps: at most one *)
(* action ahead of them, and that only when the episode is cut short.  The *)
(* files hold them, less those that could not be added.                    *)
Even == Counted(step, step + 1, step)
RowsTyped == rows \in [DOMAIN NoRows -> 0..(MaxSteps + 1)] /\ missed \subseteq DOMAIN NoRows
Rows ==
    /\ RowsTyped
    /\ recorder = "files" =>
         /\ main = "reset" => Holds(rows, missed, NoRows)
         /\ main \in {"act", "wrapup"} => Holds(rows, missed, Even)
         /\ main = "execute" => Holds(rows, missed, Counted(step + 1, step + 1, step))
         /\ main \in Closing => \E w \in GivenFor(step, final) : Holds(rows, missed, w)

(* What a bundle tells is what happened.                                   *)
Honest(b) ==
    /\ b.partial => ~b.success
    /\ b.stored => \E w \in GivenFor(b.steps, b.partial) : Holds(b.rows, b.missed, w)

Bundle == [episode : Episodes, success : BOOLEAN, partial : BOOLEAN, steps : 0..MaxSteps,
           rows : [DOMAIN NoRows -> 0..(MaxSteps + 1)], missed : SUBSET DOMAIN NoRows,
           video : {"absent", "open", "whole"}, stored : BOOLEAN]

(* One bundle per episode that is over; a partial one only at the very end.*)
Unfinished == ~finalized /\ main \notin Over
Reported ==
    /\ bundles \in Seq(Bundle)
    /\ Len(bundles) = IF Unfinished THEN episode - 1 ELSE episode
    /\ \A i \in DOMAIN bundles : /\ bundles[i].episode = i
                                 /\ Honest(bundles[i])
                                 /\ bundles[i].partial => i = episode /\ main \in Over
Queueing ==
    /\ pool \in Seq(Episodes)
    /\ \A i \in DOMAIN pool : pool[i] <= Len(bundles)
    /\ \A i, j \in DOMAIN pool : i < j => pool[i] < pool[j]

(* Only a thread that is at work leaves a video half written, and once the *)
(* recorder is closed it is one that was given up.                         *)
Filming ==
    /\ \A e \in Episodes : threads[e]["video"].thread \in {"none", "ended"} => video[e] # "open"
    /\ \A e \in Episodes : e > episode \/ (e = episode /\ main = "reset") => threads[e]["video"].thread = "none"
    /\ main \in {"act", "execute", "wrapup"} \cup Closing /\ ~finalized /\ "video" \notin active =>
          \/ threads[episode]["video"].thread \in {"none", "ended"}
          \/ episode \in late
    /\ VideoWhole

DiagnosticsInv == Typed /\ Phased /\ Rows /\ Reported /\ Queueing /\ Filming
-----------------------------------------------------------------------------
(* The threads.                                                            *)
Fits(t) == t \in Thread /\ Len(t.queue) <= QueueSize

LEMMA AbsentFits == Fits(Absent)
BY DiagnosticsAssumption DEF Fits, Absent, Thread

(* A submission keeps a thread what it is and its queue within its bound.  *)
LEMMA SubmitFits ==
    ASSUME NEW t, Fits(t)
    PROVE  Fits(Submit(t)) /\ Submit(t).thread = t.thread
<1>1. t \in Thread /\ Len(t.queue) <= QueueSize
  BY DEF Fits
<1>2. CASE t.thread = "none" \/ t.closed \/ Len(t.queue) >= QueueSize
  BY <1>1, <1>2 DEF Submit, Fits
<1>3. CASE ~(t.thread = "none" \/ t.closed \/ Len(t.queue) >= QueueSize)
  <2>1. Submit(t) = [t EXCEPT !.queue = Append(@, "frame")]
    BY <1>3 DEF Submit
  <2>2. PICK q \in Seq({"frame", "stop"}) : q = t.queue
    BY <1>1 DEF Thread
  <2>3. Append(q, "frame") \in Seq({"frame", "stop"}) /\ Len(Append(q, "frame")) = Len(q) + 1
    BY <2>2
  <2>4. QueueSize \in Nat /\ Len(q) \in Nat /\ Len(q) < QueueSize
    BY <1>3, <2>2, DiagnosticsAssumption
  <2>5. Submit(t) \in Thread /\ Submit(t).queue = Append(q, "frame") /\ Submit(t).thread = t.thread
    BY <1>1, <2>1, <2>2, <2>3 DEF Thread
  <2> QED BY <2>3, <2>4, <2>5 DEF Fits
<1> QED BY <1>2, <1>3

LEMMA ThreadFits ==
    ASSUME Typed, NEW e \in Episodes, NEW k \in Kinds
    PROVE  Fits(threads[e][k])
BY DEF Typed, Fits

(* A step that replaces one thread.                                        *)
Replaces(e, k, t) ==
    /\ threads' \in [Episodes -> [Kinds -> Thread]]
    /\ \A f \in Episodes, l \in Kinds : Len(threads'[f][l].queue) <= QueueSize
    /\ threads'[e][k] = t
    /\ \A f \in Episodes, l \in Kinds : f # e \/ l # k => threads'[f][l] = threads[f][l]

LEMMA OneThread ==
    ASSUME Typed, NEW e \in Episodes, NEW k \in Kinds, NEW t, Fits(t),
           threads' = [threads EXCEPT ![e] = [@ EXCEPT ![k] = t]]
    PROVE  Replaces(e, k, t)
<1>1. threads \in [Episodes -> [Kinds -> Thread]] /\ t \in Thread /\ Len(t.queue) <= QueueSize
  BY DEF Typed, Fits
<1>2. threads' \in [Episodes -> [Kinds -> Thread]]
  BY <1>1
<1>3. threads'[e][k] = t
  BY <1>1
<1>4. \A f \in Episodes, l \in Kinds : f # e \/ l # k => threads'[f][l] = threads[f][l]
  BY <1>1
<1>5. \A f \in Episodes, l \in Kinds : Len(threads'[f][l].queue) <= QueueSize
  BY <1>1, <1>3, <1>4 DEF Typed
<1> QED BY <1>2, <1>3, <1>4, <1>5 DEF Replaces

(* A step that replaces the threads of one episode.                        *)
LEMMA OneEpisode ==
    ASSUME Typed, NEW e \in Episodes, NEW ts \in [Kinds -> Thread], \A k \in Kinds : Fits(ts[k]),
           threads' = [threads EXCEPT ![e] = ts]
    PROVE  /\ threads' \in [Episodes -> [Kinds -> Thread]]
           /\ \A f \in Episodes, l \in Kinds : Len(threads'[f][l].queue) <= QueueSize
           /\ threads'[e] = ts
           /\ \A f \in Episodes : f # e => threads'[f] = threads[f]
<1>1. threads \in [Episodes -> [Kinds -> Thread]]
  BY DEF Typed
<1>2. threads' \in [Episodes -> [Kinds -> Thread]]
  BY <1>1
<1>3. threads'[e] = ts /\ \A f \in Episodes : f # e => threads'[f] = threads[f]
  BY <1>1
<1>4. \A f \in Episodes, l \in Kinds : Len(threads'[f][l].queue) <= QueueSize
  BY <1>3 DEF Fits, Typed
<1> QED BY <1>2, <1>3, <1>4

(* A thread that takes the head of its queue, or comes back from its work. *)
Taken(t) == [t EXCEPT !.queue = Tail(@), !.thread = IF Head(t.queue) = "stop" THEN "ended" ELSE "busy"]
Back(t)  == [t EXCEPT !.thread = "waiting"]
LEMMA TakesOne ==
    ASSUME Typed, NEW e \in Episodes, NEW k \in Kinds, Takes(e, k)
    PROVE  /\ Fits(Taken(threads[e][k]))
           /\ threads' = [threads EXCEPT ![e] = [@ EXCEPT ![k] = Taken(threads[e][k])]]
<1>1. PICK t : t = threads[e][k]
  OBVIOUS
<1>2. t \in Thread /\ Len(t.queue) <= QueueSize /\ t.queue # <<>>
  BY <1>1, ThreadFits DEF Takes, Fits
<1>3. PICK q \in Seq({"frame", "stop"}) : q = t.queue
  BY <1>2 DEF Thread
<1>4. Tail(q) \in Seq({"frame", "stop"}) /\ Len(Tail(q)) <= QueueSize
  BY <1>2, <1>3, DiagnosticsAssumption
<1>5. Taken(t) \in Thread /\ Taken(t).queue = Tail(q)
  BY <1>2, <1>3, <1>4 DEF Taken, Thread
<1>6. threads' = [threads EXCEPT ![e] = [@ EXCEPT ![k] = Taken(threads[e][k])]]
  BY DEF Takes, Taken, Typed
<1> QED BY <1>1, <1>4, <1>5, <1>6 DEF Fits

LEMMA WorksOne ==
    ASSUME Typed, NEW e \in Episodes, NEW k \in Kinds, Works(e, k)
    PROVE  /\ Fits(Back(threads[e][k]))
           /\ threads' = [threads EXCEPT ![e] = [@ EXCEPT ![k] = Back(threads[e][k])]]
<1>1. Fits(Back(threads[e][k]))
  BY ThreadFits DEF Back, Fits, Thread
<1>2. threads' = [threads EXCEPT ![e] = [@ EXCEPT ![k] = Back(threads[e][k])]]
  BY DEF Works, Back, Typed
<1> QED BY <1>1, <1>2

(* Closing works on a thread of the episode under way.                     *)
LEMMA CurrentKind ==
    ASSUME Typed, Phased, active # {}
    PROVE  Current \in active /\ Current \in Kinds /\ episode \in Episodes /\ ~finalized
<1>1. ~finalized
  BY DEF Phased
<1>2. episode \in Episodes
  BY <1>1 DEF Typed, Phased, Episodes
<1>3. active \subseteq {"video", "snapshot"}
  BY DEF Typed, Kinds
<1>4. Current \in active
  BY <1>3 DEF Current
<1> QED BY <1>1, <1>2, <1>3, <1>4 DEF Kinds

(* What closing does to that thread.                                       *)
LEMMA ClosingFits ==
    ASSUME NEW t, Fits(t)
    PROVE  /\ Fits([t EXCEPT !.closed = TRUE])
           /\ Fits([t EXCEPT !.lost = TRUE])
           /\ t.queue # <<>> => Fits([t EXCEPT !.queue = Tail(@)])
           /\ Len(t.queue) < QueueSize => Fits([t EXCEPT !.queue = Append(@, "stop")])
<1>1. t \in Thread /\ Len(t.queue) <= QueueSize /\ QueueSize \in Nat
  BY DiagnosticsAssumption DEF Fits
<1>2. PICK q \in Seq({"frame", "stop"}) : q = t.queue
  BY <1>1 DEF Thread
<1>3. Fits([t EXCEPT !.closed = TRUE]) /\ Fits([t EXCEPT !.lost = TRUE])
  BY <1>1 DEF Fits, Thread
<1>4. ASSUME q # <<>> PROVE Fits([t EXCEPT !.queue = Tail(@)])
  <2>1. Tail(q) \in Seq({"frame", "stop"}) /\ Len(Tail(q)) <= QueueSize
    BY <1>1, <1>2, <1>4
  <2> QED BY <1>1, <1>2, <2>1 DEF Fits, Thread
<1>5. ASSUME Len(q) < QueueSize PROVE Fits([t EXCEPT !.queue = Append(@, "stop")])
  <2>1. Append(q, "stop") \in Seq({"frame", "stop"}) /\ Len(Append(q, "stop")) <= QueueSize
    BY <1>1, <1>2, <1>5
  <2> QED BY <1>1, <1>2, <2>1 DEF Fits, Thread
<1> QED BY <1>2, <1>3, <1>4, <1>5

(* The step of the robot offers its observation to the threads.            *)
LEMMA ObserveOne ==
    ASSUME Typed, Phased, Observe
    PROVE  /\ episode \in Episodes
           /\ \E ts \in [Kinds -> Thread] :
                /\ \A k \in Kinds : Fits(ts[k]) /\ ts[k].thread = threads[episode][k].thread
                /\ threads' = [threads EXCEPT ![episode] = ts]
<1>1. episode \in Episodes
  BY DEF Observe, Phased, Typed, Running, Episodes
<1>2. PICK fed \in Fed : threads' = [threads EXCEPT ![episode] = [k \in Kinds |->
                                        IF k \in fed THEN Submit(@[k]) ELSE @[k]]]
  BY DEF Observe
<1> DEFINE ts == [k \in Kinds |-> IF k \in fed THEN Submit(threads[episode][k]) ELSE threads[episode][k]]
<1>3. threads' = [threads EXCEPT ![episode] = ts]
  BY <1>1, <1>2 DEF Typed
<1>4. \A k \in Kinds : Fits(ts[k]) /\ ts[k].thread = threads[episode][k].thread
  BY <1>1, ThreadFits, SubmitFits
<1>5. ts \in [Kinds -> Thread]
  BY <1>4 DEF Fits
<1> HIDE DEF ts
<1> QED BY <1>1, <1>3, <1>4, <1>5

(* A reset starts the threads it can.                                      *)
LEMMA ResetOne ==
    ASSUME Typed, Phased, Reset
    PROVE  /\ episode \in Episodes /\ active' \subseteq Kinds
           /\ \E ts \in [Kinds -> Thread] :
                /\ \A k \in Kinds : Fits(ts[k]) /\ (k \notin active' => ts[k].thread = "none")
                /\ threads' = [threads EXCEPT ![episode] = ts]
<1>1. episode \in Episodes
  BY DEF Reset, Phased, Typed, Running, Episodes
<1>2. PICK started \in Startable, fate \in [Kinds -> {"waiting", "ended"}] :
          /\ active' = started
          /\ threads' = [threads EXCEPT ![episode] = [k \in Kinds |->
                           IF k \in started THEN Submit([Absent EXCEPT !.thread = fate[k]])
                           ELSE Absent]]
  BY DEF Reset
<1> DEFINE ts == [k \in Kinds |-> IF k \in started THEN Submit([Absent EXCEPT !.thread = fate[k]])
                                  ELSE Absent]
<1>3. threads' = [threads EXCEPT ![episode] = ts]
  BY <1>2
<1>4. ASSUME NEW k \in Kinds PROVE Fits(ts[k]) /\ (k \notin started => ts[k].thread = "none")
  <2>1. fate[k] \in {"waiting", "ended"}
    OBVIOUS
  <2>2. Fits([Absent EXCEPT !.thread = fate[k]])
    BY <2>1, AbsentFits DEF Fits, Absent, Thread
  <2>3. ts[k] = IF k \in started THEN Submit([Absent EXCEPT !.thread = fate[k]]) ELSE Absent
    OBVIOUS
  <2>4. Absent.thread = "none"
    BY DEF Absent
  <2> HIDE DEF ts
  <2> QED BY <2>2, <2>3, <2>4, AbsentFits, SubmitFits
<1>5. ts \in [Kinds -> Thread]
  BY <1>4 DEF Fits
<1>6. started \subseteq Kinds
  BY DEF Startable
<1> HIDE DEF ts
<1> QED BY <1>1, <1>2, <1>3, <1>4, <1>5, <1>6

(* The threads keep their types in every step that closes or feeds them.   *)
ThreadsTyped == /\ threads \in [Episodes -> [Kinds -> Thread]]
                /\ \A e \in Episodes, k \in Kinds : Len(threads[e][k].queue) <= QueueSize

LEMMA CloseKeepsThreads ==
    ASSUME Typed, Phased, BeginClose \/ PutStop \/ DropOldest
    PROVE  /\ ThreadsTyped'
           /\ \A e \in Episodes, k \in Kinds : threads'[e][k].thread = threads[e][k].thread
<1>1. active # {}
  BY DEF BeginClose, PutStop, DropOldest, Phased
<1>2. PICK e \in Episodes, k \in Kinds : e = episode /\ k = Current
  BY <1>1, CurrentKind
<1>3. PICK t : t = threads[e][k]
  OBVIOUS
<1>4. Fits(t) /\ threads[e][k] = t /\ t \in Thread
  BY <1>3, ThreadFits DEF Fits
<1>5. ASSUME NEW u, Fits(u), u.thread = t.thread,
             threads' = [threads EXCEPT ![e] = [@ EXCEPT ![k] = u]]
      PROVE  /\ ThreadsTyped'
             /\ \A f \in Episodes, l \in Kinds : threads'[f][l].thread = threads[f][l].thread
  <2>1. /\ ThreadsTyped' /\ threads'[e][k] = u
        /\ \A f \in Episodes, l \in Kinds : f # e \/ l # k => threads'[f][l] = threads[f][l]
    <3>1. Replaces(e, k, u)
      BY <1>5, OneThread
    <3> QED BY <3>1 DEF Replaces, ThreadsTyped
  <2>2. ASSUME NEW f \in Episodes, NEW l \in Kinds
        PROVE  threads'[f][l].thread = threads[f][l].thread
    <3>1. CASE f = e /\ l = k
      <4>1. threads'[e][k].thread = threads[e][k].thread
        BY <1>4, <1>5, <2>1
      <4> QED BY <3>1, <4>1
    <3>2. CASE f # e \/ l # k
      BY <2>1, <3>2
    <3> QED BY <3>1, <3>2
  <2> QED BY <2>1, <2>2
<1>6. CASE UNCHANGED threads
  BY <1>6 DEF Typed, ThreadsTyped
<1>7. CASE BeginClose
  <2>1. threads' = [threads EXCEPT ![e] = [@ EXCEPT ![k] = [t EXCEPT !.closed = TRUE]]]
    BY <1>2, <1>4, <1>7 DEF BeginClose, Typed
  <2>2. [t EXCEPT !.closed = TRUE].thread = t.thread
    BY <1>4 DEF Thread
  <2> QED BY <1>4, <1>5, <2>1, <2>2, ClosingFits
<1>8. CASE PutStop /\ ~UNCHANGED threads
  <2>1. /\ threads' = [threads EXCEPT ![e] = [@ EXCEPT ![k] = [t EXCEPT !.queue = Append(@, "stop")]]]
        /\ Len(t.queue) < QueueSize
    BY <1>2, <1>4, <1>8 DEF PutStop, Typed
  <2>2. [t EXCEPT !.queue = Append(@, "stop")].thread = t.thread
    BY <1>4 DEF Thread
  <2> QED BY <1>4, <1>5, <2>1, <2>2, ClosingFits
<1>9. CASE DropOldest
  <2>1. CASE t.queue = <<>>
    <3>1. threads' = [threads EXCEPT ![e] = [@ EXCEPT ![k] = [t EXCEPT !.lost = TRUE]]]
      BY <1>2, <1>4, <1>9, <2>1 DEF DropOldest, Typed
    <3>2. [t EXCEPT !.lost = TRUE].thread = t.thread
      BY <1>4 DEF Thread
    <3> QED BY <1>4, <1>5, <3>1, <3>2, ClosingFits
  <2>2. CASE t.queue # <<>>
    <3>1. threads' = [threads EXCEPT ![e] = [@ EXCEPT ![k] = [t EXCEPT !.queue = Tail(@)]]]
      BY <1>2, <1>4, <1>9, <2>2 DEF DropOldest, Typed
    <3>2. [t EXCEPT !.queue = Tail(@)].thread = t.thread
      BY <1>4 DEF Thread
    <3> QED BY <1>4, <1>5, <2>2, <3>1, <3>2, ClosingFits
  <2> QED BY <2>1, <2>2
<1> QED BY <1>6, <1>7, <1>8, <1>9

(* The control state and the types.                                        *)
LEMMA ControlStep ==
    ASSUME Typed, Phased, [Next]_vars
    PROVE  Typed' /\ Phased'
<1> USE DiagnosticsAssumption DEF Phases, Running, Closing, Over
<1>0. ThreadsTyped
  BY DEF Typed, ThreadsTyped
<1>1. CASE UNCHANGED <<evalVars, video, late>> /\ ThreadsTyped'
  <2>1. Typed'
    BY <1>1 DEF Typed, evalVars, ThreadsTyped
  <2>2. Phased'
    BY <1>1 DEF Phased, evalVars
  <2> QED BY <2>1, <2>2
<1>2. CASE Start
  <2>1. /\ main = "next" /\ episode < EvalEpisodes /\ main' = "reset" /\ episode' = episode + 1
        /\ step' = 0 /\ ending' = "running" /\ finalized' = FALSE /\ recorder' \in {"null", "files"}
        /\ UNCHANGED <<enabled, final, active, threads, video, late>>
    BY <1>2 DEF Start, Recorders, threadVars
  <2>2. episode' \in 0..EvalEpisodes /\ episode' > 0
    BY <2>1 DEF Typed
  <2>3. ThreadsTyped' /\ video' \in [Episodes -> {"absent", "open", "whole"}] /\ late' \subseteq Episodes
    BY <1>0, <2>1 DEF Typed, ThreadsTyped
  <2>4. enabled' \in BOOLEAN /\ final' \in BOOLEAN /\ active' \subseteq Kinds
    BY <2>1 DEF Typed
  <2>5. /\ finalized' \in BOOLEAN
        /\ main' \in Phases /\ ending' \in {"running", "success", "failure"} /\ step' \in 0..MaxSteps
        /\ recorder' \in {"none", "null", "files"}
    <3>1. 0 \in 0..MaxSteps
      OBVIOUS
    <3>2. finalized' \in BOOLEAN
      BY <2>1
    <3> QED BY <2>1, <3>1, <3>2
  <2>7. Typed'
    BY <2>2, <2>3, <2>4, <2>5 DEF Typed, ThreadsTyped
  <2>6. Phased'
    BY <2>1, <2>2 DEF Phased
  <2> QED BY <2>6, <2>7
<1>3. CASE Reset
  <2>1. ThreadsTyped' /\ active' \subseteq Kinds
    BY <1>3, ResetOne, OneEpisode DEF ThreadsTyped
  <2> QED BY <1>3, <2>1 DEF Reset, Typed, Phased, ThreadsTyped
<1>4. CASE Act
  BY <1>0, <1>4 DEF Act, Typed, Phased, threadVars
<1>6. CASE Execute
  <2>1. /\ main = "execute" /\ step' = step + 1 /\ step < MaxSteps /\ step \in 0..MaxSteps
        /\ ending' \in {"success"} \cup {IF step' = MaxSteps THEN "failure" ELSE "running"}
        /\ main' = IF ending' = "running" THEN "act" ELSE "wrapup"
        /\ UNCHANGED <<enabled, episode, final, finalized, recorder, active, video, late>>
    BY <1>6 DEF Execute, Observe, Phased, Typed
  <2>2. /\ step' \in 0..MaxSteps /\ main' \in {"act", "wrapup"}
        /\ ending' \in {"running", "success", "failure"}
        /\ main' = "act" => step' < MaxSteps
    BY <2>1
  <2>3. ThreadsTyped'
    BY <1>6, ObserveOne, OneEpisode DEF Execute, ThreadsTyped
  <2>4. Typed'
    BY <2>1, <2>2, <2>3 DEF Typed, ThreadsTyped
  <2>5. Phased'
    BY <2>1, <2>2 DEF Phased
  <2> QED BY <2>4, <2>5
<1>7. CASE PreprocessFails
  <2>1. /\ main = "execute" /\ main' = "close" /\ final'
        /\ UNCHANGED <<enabled, episode, step, ending, finalized, recorder, active, video, late>>
    BY <1>7 DEF PreprocessFails, Observe
  <2>2. ThreadsTyped'
    BY <1>7, ObserveOne, OneEpisode DEF PreprocessFails, ThreadsTyped
  <2>3. Typed'
    BY <1>7, <2>1, <2>2 DEF Typed, ThreadsTyped, PreprocessFails
  <2>4. Phased'
    BY <2>1 DEF Phased
  <2> QED BY <2>3, <2>4
<1>8. CASE WrapUp
  BY <1>0, <1>8 DEF WrapUp, Typed, Phased, threadVars
<1>9. CASE Abort
  BY <1>0, <1>9 DEF Abort, Typed, Phased, threadVars
<1>10. CASE BeginClose \/ PutStop \/ DropOldest
  <2>1. ThreadsTyped'
    BY <1>10, CloseKeepsThreads
  <2>2. /\ main \in Closing /\ main' \in Closing /\ active # {}
        /\ UNCHANGED <<enabled, episode, step, ending, final, finalized, recorder, active, video, late>>
    BY <1>10 DEF BeginClose, PutStop, DropOldest, Phased
  <2>3. Typed'
    BY <2>1, <2>2 DEF Typed, ThreadsTyped
  <2>4. Phased'
    BY <2>2 DEF Phased
  <2> QED BY <2>3, <2>4
<1>11. CASE Join
  <2>1. /\ main = "join" /\ main' = "close" /\ active' \subseteq active
        /\ late' \subseteq late \cup {episode} /\ episode \in Episodes
        /\ UNCHANGED <<enabled, episode, step, ending, final, finalized, recorder, threads, video>>
    BY <1>11, CurrentKind DEF Join, Phased
  <2>2. Typed'
    BY <1>0, <2>1 DEF Typed, ThreadsTyped
  <2>3. Phased'
    BY <2>1 DEF Phased
  <2> QED BY <2>2, <2>3
<1>12. CASE Finalize
  BY <1>0, <1>12 DEF Finalize, Typed, Phased, threadVars
<1>13. CASE Finish
  BY <1>0, <1>13 DEF Finish, Typed, Phased, threadVars
<1>14. CASE Drain
  BY <1>0, <1>14 DEF Drain, Typed, Phased, threadVars
<1>15. CASE Upload
  BY <1>0, <1>1, <1>15 DEF Upload, threadVars, ThreadsTyped
<1>16. ASSUME NEW e \in Episodes, NEW k \in Kinds, Work(e, k)
       PROVE  Typed' /\ Phased'
  <2>1. ThreadsTyped'
    <3>1. CASE Takes(e, k)
      BY <3>1, TakesOne, OneThread DEF Replaces, ThreadsTyped
    <3>2. CASE Works(e, k)
      BY <3>2, WorksOne, OneThread DEF Replaces, ThreadsTyped
    <3> QED BY <1>16, <3>1, <3>2 DEF Work
  <2>2. video' \in [Episodes -> {"absent", "open", "whole"}]
    BY <1>16 DEF Work, Takes, Works, Released, Written, Typed
  <2>3. UNCHANGED <<evalVars, late>>
    BY <1>16 DEF Work, Takes, Works
  <2>4. Typed'
    BY <2>1, <2>2, <2>3 DEF Typed, ThreadsTyped, evalVars
  <2>5. Phased'
    BY <2>3 DEF Phased, evalVars
  <2> QED BY <2>4, <2>5
<1>17. CASE UNCHANGED vars
  BY <1>0, <1>1, <1>17 DEF vars, threadVars, ThreadsTyped
<1> QED BY <1>2, <1>3, <1>4, <1>6, <1>7, <1>8, <1>9, <1>10, <1>11, <1>12, <1>13, <1>14, <1>15, <1>16, <1>17
        DEF Next, Main
-----------------------------------------------------------------------------
(* The rows.                                                               *)
LEMMA CountedRows ==
    ASSUME NEW a \in 0..(MaxSteps + 1), NEW s \in 0..(MaxSteps + 1), NEW t \in 0..(MaxSteps + 1)
    PROVE  Counted(a, s, t) \in [DOMAIN NoRows -> 0..(MaxSteps + 1)]
BY DEF Counted, NoRows

(* Adding a row to some files, of which any may be missed.                 *)
LEMMA LogHolds ==
    ASSUME RowsTyped, NEW files \in SUBSET DOMAIN NoRows, recorder = "files", Log(files),
           NEW w \in [DOMAIN NoRows -> 0..(MaxSteps + 1)], Holds(rows, missed, w),
           NEW v \in [DOMAIN NoRows -> 0..(MaxSteps + 1)],
           \A f \in DOMAIN NoRows : v[f] = IF f \in files THEN w[f] + 1 ELSE w[f]
    PROVE  RowsTyped' /\ Holds(rows, missed, v)'
<1> DEFINE D == DOMAIN NoRows
<1>1. PICK written \in SUBSET files :
          /\ rows' = [f \in DOMAIN rows |-> IF f \in written THEN rows[f] + 1 ELSE rows[f]]
          /\ missed' = missed \cup (files \ written)
  BY Zenon DEF Log
<1>2. rows \in [D -> 0..(MaxSteps + 1)] /\ missed \subseteq D
  BY DEF RowsTyped
<1> HIDE DEF D
<1>3. ASSUME NEW f \in D
      PROVE  /\ IF f \in missed' THEN rows'[f] < v[f] ELSE rows'[f] = v[f]
             /\ rows'[f] \in 0..(MaxSteps + 1)
  <2>1. rows[f] \in Nat /\ w[f] \in Nat /\ v[f] \in 0..(MaxSteps + 1)
    BY <1>2, <1>3, DiagnosticsAssumption DEF D
  <2>2. rows'[f] = IF f \in written THEN rows[f] + 1 ELSE rows[f]
    BY <1>1, <1>2, <1>3
  <2>3. IF f \in missed THEN rows[f] < w[f] ELSE rows[f] = w[f]
    BY <1>3 DEF Holds, D
  <2>4. v[f] = IF f \in files THEN w[f] + 1 ELSE w[f]
    BY <1>3 DEF D
  <2>5. f \in missed' <=> f \in missed \/ (f \in files /\ f \notin written)
    BY <1>1
  <2>6. f \in written => f \in files
    BY <1>1
  <2> QED BY <2>1, <2>2, <2>3, <2>4, <2>5, <2>6, DiagnosticsAssumption
<1>4. rows' \in [D -> 0..(MaxSteps + 1)]
  BY <1>1, <1>2, <1>3
<1>5. missed' \subseteq D
  BY <1>1, <1>2 DEF D
<1> QED BY <1>3, <1>4, <1>5 DEF RowsTyped, Holds, D

LEMMA LogCounted ==
    ASSUME RowsTyped, NEW files, recorder = "files", Log(files),
           NEW a \in 0..(MaxSteps + 1), NEW s \in 0..(MaxSteps + 1), NEW t \in 0..(MaxSteps + 1),
           NEW b \in 0..(MaxSteps + 1), NEW n \in 0..(MaxSteps + 1), NEW u \in 0..(MaxSteps + 1),
           Holds(rows, missed, Counted(a, s, t)),
           \/ files = {"states"} /\ b = a /\ n = s + 1 /\ u = t
           \/ files = {"actions"} /\ b = a + 1 /\ n = s /\ u = t
           \/ files = {"states", "timings"} /\ b = a /\ n = s + 1 /\ u = t + 1
    PROVE  RowsTyped' /\ Holds(rows, missed, Counted(b, n, u))'
<1>1. PICK w, v : w = Counted(a, s, t) /\ v = Counted(b, n, u)
  OBVIOUS
<1>2. w \in [DOMAIN NoRows -> 0..(MaxSteps + 1)] /\ v \in [DOMAIN NoRows -> 0..(MaxSteps + 1)]
  BY <1>1, CountedRows
<1>3. DOMAIN NoRows = {"actions", "states", "timings"}
  BY DEF NoRows
<1>4. \A f \in DOMAIN NoRows : v[f] = IF f \in files THEN w[f] + 1 ELSE w[f]
  BY <1>1, <1>3 DEF Counted
<1>5. files \in SUBSET DOMAIN NoRows
  BY <1>3
<1>6. Holds(rows, missed, w)
  BY <1>1
<1>7. RowsTyped' /\ Holds(rows, missed, v)'
  BY <1>2, <1>4, <1>5, <1>6, LogHolds
<1> QED BY <1>1, <1>7

(* What the recorder may have been given when an episode of these steps    *)
(* ends, whole or cut short.                                               *)
LEMMA GivenNow ==
    ASSUME Typed
    PROVE  /\ Even \in GivenFor(step, final)
           /\ final => /\ Counted(step + 1, step + 1, step) \in GivenFor(step, final)
                       /\ Counted(step + 1, step + 2, step + 1) \in GivenFor(step, final)
                       /\ step = 0 => NoRows \in GivenFor(step, final)
BY Zenon DEF GivenFor, Even

LEMMA RowsStep ==
    ASSUME Typed, Phased, Rows, [Next]_vars
    PROVE  Rows'
<1> USE DiagnosticsAssumption DEF Running, Closing, Over
<1>0. /\ step \in 0..MaxSteps /\ step \in Nat /\ RowsTyped /\ NoRows = Counted(0, 0, 0)
  BY DEF Typed, Rows, NoRows, Counted
<1>1. CASE UNCHANGED <<evalVars, rows, missed>>
  BY <1>1 DEF Rows, RowsTyped, evalVars, Even
<1>2. CASE Start
  <2>1. rows' = NoRows /\ missed' = {} /\ main' = "reset"
    BY <1>2 DEF Start
  <2>2. Holds(NoRows, {}, NoRows)
    BY Zenon DEF Holds
  <2>3. NoRows \in [DOMAIN NoRows -> 0..(MaxSteps + 1)]
    <3>1. 0 \in 0..(MaxSteps + 1)
      OBVIOUS
    <3>2. Counted(0, 0, 0) \in [DOMAIN NoRows -> 0..(MaxSteps + 1)]
      BY <3>1, CountedRows
    <3> QED BY <1>0, <3>2
  <2> QED BY <2>1, <2>2, <2>3 DEF Rows, RowsTyped
<1>3. ASSUME NEW files, Log(files), recorder # "files", UNCHANGED recorder
      PROVE  Rows'
  BY <1>0, <1>3 DEF Log, Rows, RowsTyped
<1>4. CASE Reset
  <2>1. /\ main = "reset" /\ main' = "act" /\ Log({"states"}) /\ step = 0
        /\ UNCHANGED <<step, final, recorder>>
    BY <1>4 DEF Reset, Phased
  <2>2. CASE recorder = "files"
    <3>1. Holds(rows, missed, Counted(0, 0, 0))
      BY <1>0, <2>1, <2>2 DEF Rows
    <3>2. RowsTyped' /\ Holds(rows, missed, Counted(0, 1, 0))'
      <4>1. 0 \in 0..(MaxSteps + 1) /\ 1 \in 0..(MaxSteps + 1) /\ 1 = 0 + 1
        OBVIOUS
      <4> QED BY <1>0, <2>1, <2>2, <3>1, <4>1, LogCounted
    <3>3. Even' = Counted(0, 1, 0)
      BY <2>1 DEF Even
    <3> QED BY <2>1, <3>2, <3>3 DEF Rows
  <2> QED BY <1>3, <2>1, <2>2
<1>5. CASE Act
  <2>1. /\ main = "act" /\ main' = "execute" /\ Log({"actions"}) /\ step < MaxSteps
        /\ UNCHANGED <<step, final, recorder>>
    BY <1>5 DEF Act, Phased
  <2>2. CASE recorder = "files"
    <3>1. Holds(rows, missed, Counted(step, step + 1, step))
      BY <2>1, <2>2 DEF Rows, Even
    <3>2. RowsTyped' /\ Holds(rows, missed, Counted(step + 1, step + 1, step))'
      <4>1. step \in 0..(MaxSteps + 1) /\ step + 1 \in 0..(MaxSteps + 1)
        BY <1>0, <2>1
      <4>2. PICK n \in 0..(MaxSteps + 1), k \in 0..(MaxSteps + 1) : n = step /\ k = step + 1
        BY <4>1
      <4>3. RowsTyped' /\ Holds(rows, missed, Counted(k, k, n))'
        BY <1>0, <2>1, <2>2, <3>1, <4>2, LogCounted
      <4> QED BY <2>1, <4>2, <4>3 DEF Holds
    <3> QED BY <2>1, <3>2 DEF Rows
  <2> QED BY <1>3, <2>1, <2>2
<1>6. CASE Execute \/ PreprocessFails
  <2>1. /\ main = "execute" /\ Log({"states", "timings"}) /\ step < MaxSteps
        /\ UNCHANGED recorder
    BY <1>6 DEF Execute, PreprocessFails, Observe, Phased
  <2>2. CASE recorder = "files"
    <3>1. Holds(rows, missed, Counted(step + 1, step + 1, step))
      BY <2>1, <2>2 DEF Rows
    <3>2. PICK n \in 0..(MaxSteps + 1), k \in 0..(MaxSteps + 1), m \in 0..(MaxSteps + 1) :
              n = step /\ k = step + 1 /\ m = step + 2
      BY <1>0, <2>1
    <3>3. RowsTyped' /\ Holds(rows', missed', Counted(k, m, k))
      <4>1. m = k + 1 /\ k = n + 1
        BY <1>0, <3>2
      <4> QED BY <1>0, <2>1, <2>2, <3>1, <3>2, <4>1, LogCounted
    <3>4. CASE Execute
      <4>1. step' = step + 1 /\ main' \in {"act", "wrapup"}
        BY <3>4 DEF Execute
      <4>2. Even' = Counted(k, m, k)
        BY <1>0, <3>2, <4>1 DEF Even
      <4> QED BY <3>3, <4>1, <4>2 DEF Rows
    <3>5. CASE PreprocessFails
      <4>1. step' = step /\ main' = "close" /\ final'
        BY <3>5 DEF PreprocessFails
      <4>2. Counted(k, m, k) \in GivenFor(step', final')
        BY <3>2, <4>1 DEF GivenFor
      <4> QED BY <3>3, <4>1, <4>2 DEF Rows
    <3> QED BY <1>6, <3>4, <3>5
  <2> QED BY <1>3, <2>1, <2>2
<1>7. CASE WrapUp
  <2>1. main = "wrapup" /\ main' = "close" /\ UNCHANGED <<step, final, recorder, rows, missed>>
    BY <1>7 DEF WrapUp, reportVars
  <2>2. RowsTyped'
    BY <1>0, <2>1 DEF RowsTyped
  <2> QED BY <2>1, <2>2, GivenNow DEF Rows
<1>8. CASE Abort
  <2>1. /\ main \in Running /\ main' = "close" /\ final' /\ UNCHANGED <<step, recorder, rows, missed>>
        /\ main = "reset" => step = 0
    BY <1>8 DEF Abort, reportVars, Phased
  <2>2. RowsTyped'
    BY <1>0, <2>1 DEF RowsTyped
  <2>3. /\ Even \in GivenFor(step', final')
        /\ Counted(step + 1, step + 1, step) \in GivenFor(step', final')
        /\ step = 0 => NoRows \in GivenFor(step', final')
    BY <2>1, Zenon DEF GivenFor, Even
  <2> QED BY <2>1, <2>2, <2>3 DEF Rows
<1>9. CASE BeginClose \/ PutStop \/ DropOldest \/ Join
  <2>1. main \in Closing /\ main' \in Closing /\ UNCHANGED <<step, final, recorder, rows, missed>>
    BY <1>9 DEF BeginClose, PutStop, DropOldest, Join, reportVars
  <2> QED BY <2>1 DEF Rows, RowsTyped, Even
<1>10. CASE Finalize
  BY <1>10 DEF Finalize, Rows, RowsTyped, Phased
<1>11. CASE Finish
  BY <1>11 DEF Finish, Rows, RowsTyped, Phased, reportVars
<1>12. CASE Drain
  BY <1>12 DEF Drain, Rows, RowsTyped, reportVars
<1>13. CASE Upload \/ \E e \in Episodes, k \in Kinds : Work(e, k)
  BY <1>1, <1>13 DEF Upload, Work, Takes, Works, reportVars
<1>14. CASE UNCHANGED vars
  BY <1>1, <1>14 DEF vars, reportVars
<1> QED BY <1>2, <1>4, <1>5, <1>6, <1>7, <1>8, <1>9, <1>10, <1>11, <1>12, <1>13, <1>14 DEF Next, Main
-----------------------------------------------------------------------------
(* The bundle of an episode tells what happened.                           *)
LEMMA BundleIsHonest ==
    ASSUME Typed, Phased, Rows, main = "close", ~finalized, NEW b \in Bundles
    PROVE  /\ b \in Bundle /\ Honest(b)
           /\ b.episode = episode /\ b.video = video[episode] /\ b.partial = final
<1> USE DiagnosticsAssumption DEF Running, Closing, Over
<1>1. /\ b.episode = episode /\ b.success = (~final /\ ending = "success") /\ b.partial = final
      /\ b.steps = step /\ b.rows = rows /\ b.missed = missed /\ b.video = video[episode] /\ b.stored \in BOOLEAN
      /\ b = [episode |-> b.episode, success |-> b.success, partial |-> b.partial, steps |-> b.steps,
              rows |-> b.rows, missed |-> b.missed, video |-> b.video, stored |-> b.stored]
  BY DEF Bundles
<1>2. b.stored => recorder = "files"
  BY DEF Bundles
<1>3. episode \in Episodes /\ step \in 0..MaxSteps /\ step \in Nat /\ final \in BOOLEAN
  BY DEF Typed, Phased, Episodes
<1>4. b \in Bundle
  <2>1. b.success \in BOOLEAN
    BY <1>1
  <2>2. video[episode] \in {"absent", "open", "whole"} /\ RowsTyped
    BY <1>3 DEF Typed, Rows
  <2> QED BY <1>1, <1>3, <2>1, <2>2 DEF Bundle, RowsTyped
<1>5. b.partial => ~b.success
  <2>1. CASE final
    <3>1. b.success = FALSE
      BY <1>1, <2>1
    <3> QED BY <3>1
  <2>2. CASE ~final
    BY <1>1, <2>2
  <2> QED BY <2>1, <2>2
<1>6. b.stored => \E w \in GivenFor(step, final) : Holds(rows, missed, w)
  BY <1>2 DEF Rows
<1>7. Honest(b)
  BY <1>1, <1>5, <1>6 DEF Honest
<1> QED BY <1>1, <1>4, <1>7

LEMMA ReportStep ==
    ASSUME Typed, Phased, Rows, Reported, Queueing, [Next]_vars
    PROVE  Reported' /\ Queueing'
<1> USE DEF Running, Closing, Over
<1>0. /\ bundles \in Seq(Bundle) /\ pool \in Seq(Episodes) /\ episode \in Nat
      /\ finalized \in BOOLEAN /\ Len(bundles) \in Nat
  BY DEF Reported, Queueing, Typed
<1>1. CASE UNCHANGED <<bundles, pool, episode, finalized>> /\ (main \in Over <=> main' \in Over)
  <2>1. Unfinished' = Unfinished
    BY <1>1 DEF Unfinished
  <2>2. Reported'
    BY <1>1, <2>1 DEF Reported
  <2>3. Queueing'
    BY <1>1 DEF Queueing
  <2> QED BY <2>2, <2>3
<1>2. CASE Start
  <2>1. /\ finalized /\ ~finalized' /\ episode' = episode + 1 /\ main = "next" /\ main' = "reset"
        /\ UNCHANGED <<bundles, pool>>
    BY <1>2 DEF Start, Phased
  <2>2. ~Unfinished /\ Unfinished' /\ episode' - 1 = episode
    BY <1>0, <2>1 DEF Unfinished
  <2>3. Reported'
    BY <2>1, <2>2 DEF Reported
  <2>4. Queueing'
    BY <2>1 DEF Queueing
  <2> QED BY <2>3, <2>4
<1>3. CASE Reset \/ Act \/ Execute \/ PreprocessFails \/ WrapUp \/ Abort \/ Finish
  BY <1>1, <1>3 DEF Reset, Act, Execute, PreprocessFails, Observe, WrapUp, Abort, Finish, reportVars
<1>4. CASE BeginClose \/ PutStop \/ DropOldest \/ Join \/ Drain
  BY <1>1, <1>4 DEF BeginClose, PutStop, DropOldest, Join, Drain, reportVars
<1>5. CASE Finalize /\ finalized
  <2>1. /\ final /\ main = "close" /\ main' = "drain" /\ UNCHANGED <<finalized, bundles, pool, episode>>
    BY <1>5 DEF Finalize, Phased, Reports
  <2>2. ~Unfinished /\ ~Unfinished'
    BY <1>5, <2>1 DEF Unfinished
  <2>3. \A i \in DOMAIN bundles : ~bundles[i].partial
    BY <2>1 DEF Reported
  <2>4. Reported'
    BY <2>1, <2>2, <2>3 DEF Reported
  <2>5. Queueing'
    BY <2>1 DEF Queueing
  <2> QED BY <2>4, <2>5
<1>6. CASE Finalize /\ ~finalized
  <2>1. /\ main = "close" /\ UNCHANGED <<episode, final>>
        /\ main' = IF final THEN "drain" ELSE "next"
        /\ ~final => finalized'
    BY <1>6 DEF Finalize
  <2>2. PICK b \in Bundles : bundles' = Append(bundles, b) /\ pool' = Queued(b)
    BY <1>6 DEF Finalize, Reports, Phased
  <2>3. /\ b \in Bundle /\ Honest(b) /\ b.episode = episode /\ b.partial = final
    BY <1>6, <2>1, BundleIsHonest
  <2>4. PICK n \in Nat : n = Len(bundles)
    BY <1>0
  <2>5. n + 1 = episode /\ Unfinished /\ ~Unfinished'
    BY <1>0, <1>6, <2>1, <2>4 DEF Reported, Unfinished
  <2>6. /\ bundles' \in Seq(Bundle) /\ Len(bundles') = n + 1 /\ bundles'[n + 1] = b
        /\ \A i \in 1..n : bundles'[i] = bundles[i]
    BY <1>0, <2>2, <2>3, <2>4
  <2>7. \A i \in 1..n : /\ bundles[i].episode = i /\ Honest(bundles[i])
                        /\ ~bundles[i].partial
    BY <1>0, <2>1, <2>4 DEF Reported
  <2>8. \A i \in 1..(n + 1) : /\ bundles'[i].episode = i /\ Honest(bundles'[i])
                              /\ bundles'[i].partial => i = n + 1 /\ main' \in Over
    <3> TAKE i \in 1..(n + 1)
    <3>1. CASE i = n + 1
      BY <2>1, <2>3, <2>5, <2>6, <3>1
    <3>2. CASE i # n + 1
      <4>1. i \in 1..n
        BY <3>2
      <4> QED BY <2>6, <2>7, <4>1
    <3> QED BY <3>1, <3>2
  <2>9. Reported'
    <3>1. DOMAIN bundles' = 1..(n + 1)
      BY <2>6
    <3>2. (Len(bundles) = IF Unfinished THEN episode - 1 ELSE episode)'
      BY <2>1, <2>5, <2>6
    <3>3. episode' = n + 1
      BY <2>1, <2>5
    <3> HIDE DEF Over
    <3> QED BY <2>6, <2>8, <3>1, <3>2, <3>3 DEF Reported
  <2>10. PICK m \in Nat : m = Len(pool)
    BY <1>0
  <2>11. /\ \A i \in 1..m : pool[i] <= n /\ pool[i] \in Nat
         /\ \A i, j \in 1..m : i < j => pool[i] < pool[j]
    <3>1. DOMAIN pool = 1..m /\ \A i \in 1..m : pool[i] \in Episodes
      BY <1>0, <2>10
    <3>2. \A i \in 1..m : pool[i] \in Nat
      BY <3>1, DiagnosticsAssumption DEF Episodes
    <3>3. \A i \in 1..m : pool[i] <= n
      BY <2>4, <3>1 DEF Queueing
    <3>4. \A i, j \in 1..m : i < j => pool[i] < pool[j]
      BY <3>1 DEF Queueing
    <3> QED BY <3>2, <3>3, <3>4
  <2>12. Queueing'
    <3>1. CASE pool' = pool
      BY <1>0, <2>6, <2>10, <2>11, <3>1 DEF Queueing
    <3>2. CASE pool' = Append(pool, episode)
      <4>0. episode \in Episodes
        BY <1>6, <2>5 DEF Typed, Phased, Episodes
      <4>1. /\ pool' \in Seq(Episodes) /\ Len(pool') = m + 1 /\ pool'[m + 1] = n + 1
            /\ \A i \in 1..m : pool'[i] = pool[i]
        BY <1>0, <2>5, <2>10, <3>2, <4>0
      <4>2. \A i \in 1..(m + 1) : pool'[i] <= n + 1
        BY <2>11, <4>1
      <4>3. \A i, j \in 1..(m + 1) : i < j => pool'[i] < pool'[j]
        <5> TAKE i, j \in 1..(m + 1)
        <5> HAVE i < j
        <5>1. i \in 1..m
          OBVIOUS
        <5>2. CASE j = m + 1
          BY <2>11, <4>1, <5>1, <5>2
        <5>3. CASE j # m + 1
          <6>1. j \in 1..m
            BY <5>3
          <6> QED BY <2>11, <4>1, <5>1, <6>1
        <5> QED BY <5>2, <5>3
      <4>4. DOMAIN pool' = 1..(m + 1)
        BY <4>1
      <4> QED BY <2>6, <4>1, <4>2, <4>3, <4>4 DEF Queueing
    <3> QED BY <2>2, <2>3, <3>1, <3>2 DEF Queued
  <2> QED BY <2>9, <2>12
<1>7. CASE Upload
  <2>1. pool # <<>> /\ pool' = Tail(pool) /\ UNCHANGED <<evalVars, bundles>>
    BY <1>7 DEF Upload
  <2>2. Reported'
    BY <2>1 DEF Reported, Unfinished, evalVars
  <2>3. PICK m \in Nat : m = Len(pool) /\ m > 0
    BY <1>0, <2>1
  <2>4. /\ pool' \in Seq(Episodes) /\ Len(pool') = m - 1
        /\ \A i \in 1..(m - 1) : pool'[i] = pool[i + 1]
    BY <1>0, <2>1, <2>3
  <2>5. /\ \A i \in 1..m : pool[i] <= Len(bundles)
        /\ \A i, j \in 1..m : i < j => pool[i] < pool[j]
    BY <1>0, <2>3 DEF Queueing
  <2>6. \A i \in 1..(m - 1) : pool'[i] <= Len(bundles)
    BY <2>3, <2>4, <2>5
  <2>7. \A i, j \in 1..(m - 1) : i < j => pool'[i] < pool'[j]
    <3> TAKE i, j \in 1..(m - 1)
    <3> HAVE i < j
    <3>1. i + 1 \in 1..m /\ j + 1 \in 1..m /\ i + 1 < j + 1
      BY <2>3
    <3> QED BY <2>4, <2>5, <3>1
  <2>8. DOMAIN pool' = 1..(m - 1)
    BY <2>3, <2>4
  <2>9. Queueing'
    BY <2>1, <2>4, <2>6, <2>7, <2>8 DEF Queueing
  <2> QED BY <2>2, <2>9
<1>8. CASE \E e \in Episodes, k \in Kinds : Work(e, k)
  BY <1>1, <1>8 DEF Work, Takes, Works, evalVars, reportVars
<1>9. CASE UNCHANGED vars
  BY <1>1, <1>9 DEF vars, evalVars, reportVars
<1> QED BY <1>2, <1>3, <1>4, <1>5, <1>6, <1>7, <1>8, <1>9 DEF Next, Main
-----------------------------------------------------------------------------
(* The videos.  What Filming says of one episode, and of the current one.  *)
Shot(e) == threads[e]["video"].thread \in {"none", "ended"} => video[e] # "open"
Stopped == \/ threads[episode]["video"].thread \in {"none", "ended"}
           \/ episode \in late
Unseen  == \A e \in Episodes : e > episode \/ (e = episode /\ main = "reset")
                                  => threads[e]["video"].thread = "none"
Shooting == main \in {"act", "execute", "wrapup"} \cup Closing /\ ~finalized /\ "video" \notin active

LEMMA FilmingParts ==
    Filming <=> (\A e \in Episodes : Shot(e)) /\ Unseen /\ (Shooting => Stopped) /\ VideoWhole
BY DEF Filming, Shot, Unseen, Shooting, Stopped

LEMMA FilmingStep ==
    ASSUME Typed, Phased, Rows, Reported, Filming, [Next]_vars
    PROVE  Filming'
<1> USE DEF Running, Closing, Over
<1>0. /\ \A e \in Episodes : Shot(e)
      /\ Unseen /\ (Shooting => Stopped) /\ VideoWhole
      /\ "video" \in Kinds /\ threads \in [Episodes -> [Kinds -> Thread]]
      /\ video \in [Episodes -> {"absent", "open", "whole"}]
      /\ episode \in 0..EvalEpisodes /\ EvalEpisodes \in Nat
  BY FilmingParts, DiagnosticsAssumption DEF Kinds, Typed
<1>00. ASSUME ~finalized' PROVE episode' \in Episodes
  BY <1>00, ControlStep DEF Typed, Phased, Episodes
<1>000. ASSUME ~finalized PROVE episode \in Episodes
  BY <1>000 DEF Typed, Phased, Episodes
(* Steps in which no thread starts or ends and no video changes.           *)
<1>1. ASSUME \A e \in Episodes, k \in Kinds : threads'[e][k].thread = threads[e][k].thread,
             UNCHANGED <<video, late, bundles, episode>>,
             main # "reset" => main' # "reset", Shooting' => Stopped
      PROVE  Filming'
  <2>1. \A e \in Episodes : Shot(e)'
    BY <1>0, <1>1 DEF Shot
  <2>2. Unseen'
    BY <1>0, <1>1 DEF Unseen
  <2>3. ASSUME Shooting' PROVE Stopped'
    <3>1. episode' = episode /\ episode \in Episodes /\ Stopped
      BY <1>00, <1>1, <2>3 DEF Shooting
    <3> QED BY <1>0, <1>1, <3>1 DEF Stopped
  <2>4. VideoWhole'
    BY <1>0, <1>1 DEF VideoWhole
  <2> QED BY <2>1, <2>2, <2>3, <2>4 DEF Filming, Shot, Unseen, Shooting, Stopped
<1>2. CASE UNCHANGED <<evalVars, threads, video, late, bundles>>
  BY <1>0, <1>1, <1>2 DEF evalVars, Shooting
<1>3. CASE Start
  <2>1. /\ main = "next" /\ main' = "reset" /\ episode' = episode + 1
        /\ UNCHANGED <<threads, video, late, bundles>>
    BY <1>3 DEF Start, threadVars
  <2>2. Unseen'
    BY <1>0, <2>1 DEF Unseen, Episodes
  <2>3. (\A e \in Episodes : Shot(e))' /\ VideoWhole' /\ ~Shooting'
    BY <1>0, <2>1 DEF Shot, VideoWhole, Shooting
  <2> QED BY <2>2, <2>3 DEF Filming, Shot, Unseen, Shooting, Stopped
<1>4. CASE Reset
  <2>1. PICK ts \in [Kinds -> Thread] :
            /\ \A k \in Kinds : Fits(ts[k]) /\ (k \notin active' => ts[k].thread = "none")
            /\ threads' = [threads EXCEPT ![episode] = ts]
    BY <1>4, ResetOne
  <2>2. /\ main = "reset" /\ main' = "act" /\ UNCHANGED <<episode, video, late, bundles>>
        /\ episode \in Episodes
    BY <1>4, ResetOne DEF Reset
  <2>3. threads'[episode] = ts /\ \A e \in Episodes : e # episode => threads'[e] = threads[e]
    BY <2>1, <2>2, OneEpisode
  <2>4. video[episode] # "open"
    BY <1>0, <2>2 DEF Shot, Unseen
  <2>5. ASSUME NEW e \in Episodes PROVE Shot(e)'
    BY <1>0, <2>2, <2>3, <2>4 DEF Shot
  <2>6. Unseen'
    BY <1>0, <2>2, <2>3 DEF Unseen, Episodes
  <2>7. Shooting' => Stopped'
    BY <1>0, <2>1, <2>2, <2>3 DEF Shooting, Stopped
  <2>8. VideoWhole'
    BY <1>0, <2>2 DEF VideoWhole
  <2> QED BY <2>5, <2>6, <2>7, <2>8 DEF Filming, Shot, Unseen, Shooting, Stopped
<1>5. CASE Act \/ WrapUp
  BY <1>0, <1>1, <1>5 DEF Act, WrapUp, Shooting, threadVars, reportVars
<1>6. CASE Execute \/ PreprocessFails
  <2>1. Observe
    BY <1>6 DEF Execute, PreprocessFails
  <2>2. PICK ts \in [Kinds -> Thread] :
            /\ \A k \in Kinds : Fits(ts[k]) /\ ts[k].thread = threads[episode][k].thread
            /\ threads' = [threads EXCEPT ![episode] = ts]
    BY <2>1, ObserveOne
  <2>3. /\ main = "execute" /\ main' # "reset" /\ UNCHANGED <<episode, finalized, active, video, late, bundles>>
        /\ episode \in Episodes
    BY <1>6, <2>1, ObserveOne DEF Observe, Execute, PreprocessFails
  <2>4. threads'[episode] = ts /\ \A e \in Episodes : e # episode => threads'[e] = threads[e]
    BY <2>2, <2>3, OneEpisode
  <2>5. ASSUME NEW e \in Episodes, NEW k \in Kinds
        PROVE  threads'[e][k].thread = threads[e][k].thread
    <3>1. CASE e = episode
      BY <2>2, <2>4, <3>1
    <3>2. CASE e # episode
      BY <2>4, <3>2
    <3> QED BY <3>1, <3>2
  <2>6. Shooting' => Stopped
    BY <1>0, <2>3 DEF Shooting
  <2> QED BY <1>1, <2>3, <2>5, <2>6
<1>7. CASE Abort
  <2>1. /\ main \in {"reset", "act", "execute", "wrapup"} /\ main' = "close"
        /\ UNCHANGED <<episode, finalized, active, threads, video, late, bundles>>
    BY <1>7 DEF Abort, threadVars, reportVars
  <2>2. Shooting' => Stopped
    <3>1. CASE main = "reset"
      BY <1>0, <1>000, <2>1, <3>1 DEF Shooting, Stopped, Unseen, Phased
    <3>2. CASE main # "reset"
      BY <1>0, <2>1, <3>2 DEF Shooting
    <3> QED BY <3>1, <3>2
  <2> QED BY <1>1, <2>1, <2>2
<1>8. CASE BeginClose \/ PutStop \/ DropOldest
  <2>1. \A e \in Episodes, k \in Kinds : threads'[e][k].thread = threads[e][k].thread
    BY <1>8, CloseKeepsThreads
  <2>2. /\ main \in Closing /\ main' \in Closing
        /\ UNCHANGED <<episode, finalized, active, video, late, bundles>>
    BY <1>8 DEF BeginClose, PutStop, DropOldest, reportVars
  <2>3. Shooting' => Stopped
    BY <1>0, <2>2 DEF Shooting
  <2> QED BY <1>1, <2>1, <2>2, <2>3
<1>9. CASE Join
  <2>1. /\ main = "join" /\ main' = "close" /\ active' = active \ {Current}
        /\ late' = (IF Current = "video" /\ threads[episode]["video"].thread # "ended"
                    THEN late \cup {episode} ELSE late)
        /\ UNCHANGED <<episode, finalized, threads, video, bundles>>
    BY <1>9 DEF Join, reportVars
  <2>2. (\A e \in Episodes : Shot(e))' /\ Unseen' /\ VideoWhole'
    BY <1>0, <2>1 DEF Shot, Unseen, VideoWhole
  <2>3. ASSUME Shooting' PROVE Stopped'
    <3>1. CASE Current = "video"
      BY <2>1, <3>1 DEF Stopped
    <3>2. CASE Current # "video"
      <4>1. "video" \notin active
        BY <3>2 DEF Current
      <4> QED BY <1>0, <2>1, <2>3, <3>2, <4>1 DEF Shooting, Stopped
    <3> QED BY <3>1, <3>2
  <2> QED BY <2>2, <2>3 DEF Filming, Shot, Unseen, Shooting, Stopped
<1>10. CASE Finalize /\ bundles' = bundles
  <2>1. /\ main = "close" /\ main' \in {"next", "drain"} /\ UNCHANGED <<episode, threads, video, late>>
    BY <1>10 DEF Finalize, threadVars
  <2>2. ~Shooting'
    BY <2>1 DEF Shooting
  <2> QED BY <1>1, <1>10, <2>1, <2>2
<1>11. CASE Finalize /\ bundles' # bundles
  <2>1. /\ main = "close" /\ main' \in {"next", "drain"} /\ active = {}
        /\ UNCHANGED <<episode, threads, video, late>>
    BY <1>11 DEF Finalize, threadVars
  <2>2. ~finalized
    BY <1>11, <2>1 DEF Finalize, Reports, Phased
  <2>3. PICK b \in Bundles : bundles' = Append(bundles, b)
    BY <1>11 DEF Finalize
  <2>4. b.episode = episode /\ b.video = video[episode] /\ b \in Bundle
    BY <2>1, <2>2, <2>3, BundleIsHonest
  <2>5. b.video = "open" => b.episode \in late
    <3>1. Shooting /\ episode \in Episodes
      BY <1>000, <2>1, <2>2 DEF Shooting
    <3> QED BY <1>0, <2>4, <3>1 DEF Stopped, Shot
  <2>6. VideoWhole'
    <3>1. bundles \in Seq(Bundle)
      BY DEF Reported
    <3>2. \A i \in DOMAIN bundles' : (i \in DOMAIN bundles /\ bundles'[i] = bundles[i]) \/ bundles'[i] = b
      BY <2>3, <2>4, <3>1
    <3> QED BY <1>0, <2>1, <2>5, <3>2 DEF VideoWhole
  <2>7. (\A e \in Episodes : Shot(e))' /\ Unseen' /\ ~Shooting'
    BY <1>0, <2>1 DEF Shot, Unseen, Shooting
  <2> QED BY <2>6, <2>7 DEF Filming, Shot, Unseen, Shooting, Stopped
<1>12. CASE Finish
  <2>1. /\ main = "next" /\ main' = "close" /\ finalized'
        /\ UNCHANGED <<episode, threads, video, late, bundles>>
    BY <1>12 DEF Finish, Phased, threadVars, reportVars
  <2>2. ~Shooting'
    BY <2>1 DEF Shooting
  <2> QED BY <1>1, <2>1, <2>2
<1>13. CASE Drain
  BY <1>0, <1>1, <1>13 DEF Drain, Shooting, threadVars, reportVars
<1>14. CASE Upload
  BY <1>2, <1>14 DEF Upload, threadVars
<1>15. ASSUME NEW e \in Episodes, NEW k \in Kinds, Takes(e, k)
       PROVE  Filming'
  <2>1. /\ threads'[e][k] = Taken(threads[e][k])
        /\ \A f \in Episodes, l \in Kinds : f # e \/ l # k => threads'[f][l] = threads[f][l]
    BY <1>15, TakesOne, OneThread DEF Replaces
  <2>2. /\ threads[e][k].thread = "waiting" /\ UNCHANGED <<evalVars, late, bundles>>
        /\ video' = IF k = "video" /\ Head(threads[e][k].queue) = "stop"
                    THEN [video EXCEPT ![e] = Released(@)] ELSE video
    BY <1>15 DEF Takes, reportVars
  <2>3. /\ threads'[e][k].thread = IF Head(threads[e][k].queue) = "stop" THEN "ended" ELSE "busy"
    <3>1. threads[e][k] \in Thread
      BY <1>0
    <3> QED BY <2>1, <3>1 DEF Taken, Thread
  <2>4. \A f \in Episodes : Shot(f)'
    <3> TAKE f \in Episodes
    <3>1. CASE f = e /\ k = "video"
      BY <1>0, <2>2, <2>3, <3>1 DEF Shot, Released
    <3>2. CASE ~(f = e /\ k = "video")
      BY <1>0, <2>1, <2>2, <3>2 DEF Shot
    <3> QED BY <3>1, <3>2
  <2>5. Unseen'
    BY <1>0, <2>1, <2>2 DEF Unseen, evalVars
  <2>6. ASSUME Shooting' PROVE Stopped'
    <3>1. Shooting /\ episode' = episode /\ episode \in Episodes
      BY <1>000, <2>2, <2>6 DEF Shooting, evalVars
    <3>2. CASE episode = e /\ k = "video"
      BY <1>0, <2>2, <3>1, <3>2 DEF Stopped
    <3>3. CASE ~(episode = e /\ k = "video")
      BY <1>0, <2>1, <2>2, <3>1, <3>3 DEF Stopped
    <3> QED BY <3>2, <3>3
  <2>7. VideoWhole'
    BY <1>0, <2>2 DEF VideoWhole
  <2> QED BY <2>4, <2>5, <2>6, <2>7 DEF Filming, Shot, Unseen, Shooting, Stopped
<1>16. ASSUME NEW e \in Episodes, NEW k \in Kinds, Works(e, k)
       PROVE  Filming'
  <2>1. /\ threads'[e][k] = Back(threads[e][k])
        /\ \A f \in Episodes, l \in Kinds : f # e \/ l # k => threads'[f][l] = threads[f][l]
    BY <1>16, WorksOne, OneThread DEF Replaces
  <2>2. /\ threads[e][k].thread = "busy" /\ UNCHANGED <<evalVars, late, bundles>>
        /\ k # "video" => video' = video
        /\ \A f \in Episodes : f # e => video'[f] = video[f]
    BY <1>0, <1>16 DEF Works, reportVars
  <2>3. threads'[e][k].thread = "waiting"
    <3>1. threads[e][k] \in Thread
      BY <1>0
    <3> QED BY <2>1, <3>1 DEF Back, Thread
  <2>4. \A f \in Episodes : Shot(f)'
    <3> TAKE f \in Episodes
    <3>1. CASE f = e /\ k = "video"
      BY <2>3, <3>1 DEF Shot
    <3>2. CASE ~(f = e /\ k = "video")
      BY <1>0, <2>1, <2>2, <3>2 DEF Shot
    <3> QED BY <3>1, <3>2
  <2>5. Unseen'
    BY <1>0, <2>1, <2>2 DEF Unseen, evalVars
  <2>6. ASSUME Shooting' PROVE Stopped'
    <3>1. Shooting /\ episode' = episode /\ episode \in Episodes
      BY <1>000, <2>2, <2>6 DEF Shooting, evalVars
    <3>2. CASE episode = e /\ k = "video"
      BY <1>0, <2>2, <3>1, <3>2 DEF Stopped
    <3>3. CASE ~(episode = e /\ k = "video")
      BY <1>0, <2>1, <2>2, <3>1, <3>3 DEF Stopped
    <3> QED BY <3>2, <3>3
  <2>7. VideoWhole'
    BY <1>0, <2>2 DEF VideoWhole
  <2> QED BY <2>4, <2>5, <2>6, <2>7 DEF Filming, Shot, Unseen, Shooting, Stopped
<1>17. CASE UNCHANGED vars
  BY <1>2, <1>17 DEF vars, threadVars, reportVars
<1> QED BY <1>3, <1>4, <1>5, <1>6, <1>7, <1>8, <1>9, <1>10, <1>11, <1>12, <1>13, <1>14, <1>15, <1>16, <1>17
        DEF Next, Main, Work
-----------------------------------------------------------------------------
(* The inductive invariant.                                                *)
LEMMA DiagnosticsInvariant == Spec => []DiagnosticsInv
<1> USE DiagnosticsAssumption
<1>1. Init => DiagnosticsInv
  <2> SUFFICES ASSUME Init PROVE DiagnosticsInv
    OBVIOUS
  <2>1. Typed
    <3>1. /\ enabled \in BOOLEAN /\ final = FALSE /\ finalized = TRUE /\ main = "next"
          /\ ending = "running" /\ episode = 0 /\ step = 0 /\ recorder = "none" /\ active = {}
          /\ threads = [e \in Episodes |-> [k \in Kinds |-> Absent]]
          /\ video = [e \in Episodes |-> "absent"] /\ late = {}
      BY DEF Init, Configured
    <3>2. Absent \in Thread /\ Len(Absent.queue) <= QueueSize
      BY AbsentFits DEF Fits
    <3>3. /\ threads \in [Episodes -> [Kinds -> Thread]]
          /\ \A e \in Episodes, k \in Kinds : Len(threads[e][k].queue) <= QueueSize
      BY <3>1, <3>2
    <3>4. 0 \in 0..EvalEpisodes /\ 0 \in 0..MaxSteps
      OBVIOUS
    <3> QED BY <3>1, <3>3, <3>4 DEF Typed, Phases
  <2>2. Phased
    BY DEF Init, Phased, Running, Closing, Over
  <2>3. Rows
    BY CountedRows DEF Init, Rows, RowsTyped, NoRows, Counted
  <2>4. Reported /\ Queueing
    BY DEF Init, Reported, Queueing, Unfinished
  <2>5. Filming
    BY DEF Init, Filming, VideoWhole, Absent, Episodes, Kinds
  <2> QED BY <2>1, <2>2, <2>3, <2>4, <2>5 DEF DiagnosticsInv
<1>2. DiagnosticsInv /\ [Next]_vars => DiagnosticsInv'
  BY ControlStep, RowsStep, ReportStep, FilmingStep DEF DiagnosticsInv
<1> QED BY <1>1, <1>2, PTL DEF Spec

(* All parts of the evaluation's state stay within their types: queues are *)
(* bounded and an episode has no more steps than it may.                   *)
THEOREM DiagnosticsTypes == Spec => []TypeOK
<1>1. DiagnosticsInv => TypeOK
  BY DEF DiagnosticsInv, Typed, Rows, RowsTyped, TypeOK, Phases
<1> QED BY <1>1, DiagnosticsInvariant, PTL

(* Every episode that began is reported once, in order, and with what      *)
(* really happened, wherever the stop or an exception cuts the evaluation  *)
(* and whichever rows the recorder failed to add.                          *)
THEOREM EveryEpisodeReportedOnce == Spec => []ReportedOnce
<1>1. DiagnosticsInv => ReportedOnce
  <2> SUFFICES ASSUME DiagnosticsInv PROVE ReportedOnce
    OBVIOUS
  <2> USE DEF DiagnosticsInv, Reported, Queueing, Phased, Over, Unfinished
  <2>1. \A i \in DOMAIN bundles : bundles[i].episode = i
    OBVIOUS
  <2>2. main \in {"next", "drain", "returned"} => Len(bundles) = episode
    OBVIOUS
  <2>3. \A i \in DOMAIN bundles : LET b == bundles[i] IN
        /\ b.partial => ~b.success /\ i = episode
        /\ b.stored => \E w \in GivenFor(b.steps, b.partial) : Holds(b.rows, b.missed, w)
    BY DEF Honest
  <2>4. \A i, j \in DOMAIN pool : i < j => pool[i] < pool[j]
    OBVIOUS
  <2> QED BY <2>1, <2>2, <2>3, <2>4 DEF ReportedOnce
<1> QED BY <1>1, DiagnosticsInvariant, PTL

(* A stored video that is half written is one whose thread was given up.   *)
THEOREM StoredVideosAreWhole == Spec => []VideoWhole
<1>1. DiagnosticsInv => VideoWhole
  BY DEF DiagnosticsInv, Filming
<1> QED BY <1>1, DiagnosticsInvariant, PTL
=============================================================================

-------------------------- MODULE OperatorControlProofs --------------------------
(***************************************************************************)
(* Proofs about OperatorControl: how many commands follow a pause or stop, *)
(* and that the task and the evaluation agree on the pause, for any number *)
(* of signals and any nesting of their handlers.  And about SimAutoTest: an*)
(* episode starts on a ready scene and counts only its own success, for any*)
(* number of episodes.                                                     *)
(***************************************************************************)
EXTENDS OperatorControl, SimAutoTest, SequenceTheorems, TLAPS

HaltedNow == Halted(paused, shouldStop, evalPause, evalStop)

Places == {"boot", "check", "readPaused", "held", "readStopHeld", "askStop", "readStop", "move",
           "lastFrame", "import", "loop", "act", "exited"}

Typed ==
    /\ pc \in Places /\ moved \in Nat /\ pauseTopic \in Seq(BOOLEAN)
    /\ paused \in BOOLEAN /\ shouldStop \in BOOLEAN /\ evalPause \in BOOLEAN /\ evalStop \in BOOLEAN

(* How many commands can have gone out since the halt, by where the task   *)
(* is: none when it has just found no halt, one after the move, two after  *)
(* the last frame of a playback.                                           *)
LateInv ==
    /\ ~HaltedNow /\ pc # "exited" => moved = 0
    /\ pc \in {"askStop", "readStop"} => shouldStop \/ moved = 0
    /\ pc \in {"move", "act"} => moved = 0
    /\ pc \in {"lastFrame", "loop"} => moved <= 1
    /\ moved <= 2

LEMMA InitTyped == Init => Typed
<1> SUFFICES ASSUME Init PROVE Typed
  OBVIOUS
<1>1. pc \in Places /\ moved \in Nat /\ pauseTopic \in Seq(BOOLEAN)
  BY DEF Init, Places
<1>2. /\ paused \in BOOLEAN /\ shouldStop \in BOOLEAN
      /\ evalPause \in BOOLEAN /\ evalStop \in BOOLEAN
  BY Zenon DEF Init
<1> QED BY <1>1, <1>2 DEF Typed

LEMMA TypedKept ==
    ASSUME Typed, Next
    PROVE  Typed'
<1> USE DEF taskVars, armVars, sigVars, topicVars
<1>1. ASSUME NEW cmd \in {"pause", "resume", "stop"}, Signal(cmd) PROVE Typed'
  BY <1>1 DEF Signal, Typed, Places
<1>2. CASE Interrupt \/ HandlerLocks \/ HandlerLooks \/ HandlerReports
  BY <1>2 DEF Interrupt, HandlerLocks, HandlerLooks, HandlerReports, Typed
<1>3. CASE HandlerFlips
  BY <1>3 DEF HandlerFlips, Typed
<1>4. CASE HandlerStops
  BY <1>4 DEF HandlerStops, Typed
<1>5. CASE HandlerPublishes
  <2>1. pauseTopic' \in Seq(BOOLEAN)
    <3>1. Published(Top) \in BOOLEAN
      BY DEF Published
    <3>2. pauseTopic # <<>> => Front(pauseTopic) \in Seq(BOOLEAN)
      BY DEF Front, Typed
    <3>3. CASE pauseTopic' = pauseTopic
      BY <3>3 DEF Typed
    <3>4. CASE pauseTopic' = Append(pauseTopic, Published(Top))
      BY <3>1, <3>4 DEF Typed
    <3>5. CASE pauseTopic # <<>> /\ pauseTopic' = Append(Front(pauseTopic), Published(Top))
      BY <3>1, <3>2, <3>5
    <3> QED BY <1>5, <3>3, <3>4, <3>5 DEF HandlerPublishes
  <2> QED BY <1>5, <2>1 DEF HandlerPublishes, Typed
<1>6. CASE Callback
  <2>1. CASE PauseCallback
    <3>1. Head(pauseTopic) \in BOOLEAN /\ Tail(pauseTopic) \in Seq(BOOLEAN)
      BY <2>1 DEF PauseCallback, Typed
    <3> QED BY <2>1, <3>1 DEF PauseCallback, SetOrClear, Typed
  <2> QED BY <1>6, <2>1 DEF Callback, Connect, StopCallback, Typed
<1>7. CASE MainStep
  <2>1. moved' \in Nat
    BY <1>7 DEF MainStep, Boot, CheckLocks, ReadPaused, ReadStop, Move, LastFrame, Import, Loop, Act,
                 Count, Typed
  <2>2. pc' \in Places
    BY <1>7 DEF MainStep, Boot, CheckLocks, ReadPaused, ReadStop, Move, LastFrame, Import, Loop, Act,
                 Proceed, Typed, Places
  <2> QED BY <1>7, <2>1, <2>2 DEF MainStep, Boot, CheckLocks, ReadPaused, ReadStop, Move, LastFrame,
                 Import, Loop, Act, Typed
<1> QED BY <1>1, <1>2, <1>3, <1>4, <1>5, <1>6, <1>7 DEF Next, Handler

LEMMA LateKept ==
    ASSUME Typed, LateInv, Next
    PROVE  LateInv'
<1> USE DEF taskVars, armVars, sigVars, topicVars
<1>0. Typed'
  BY TypedKept
<1>1. ASSUME NEW cmd \in {"pause", "resume", "stop"}, Signal(cmd) PROVE LateInv'
  BY <1>1 DEF Signal, LateInv, HaltedNow, Halted, Evaluating
<1>2. CASE Interrupt \/ HandlerLocks \/ HandlerLooks \/ HandlerPublishes \/ HandlerReports
  BY <1>2 DEF Interrupt, HandlerLocks, HandlerLooks, HandlerPublishes, HandlerReports,
              LateInv, HaltedNow, Halted, Evaluating
<1>3. CASE HandlerFlips
  BY <1>0, <1>3 DEF HandlerFlips, LateInv, HaltedNow, Halted, Evaluating, Typed
<1>4. CASE HandlerStops
  BY <1>4 DEF HandlerStops, LateInv, HaltedNow, Halted, Evaluating
<1>5. CASE Callback
  BY <1>0, <1>5 DEF Callback, Connect, PauseCallback, StopCallback, LateInv, HaltedNow, Halted, Evaluating, Typed
<1>6. CASE MainStep
  <2> USE DEF LateInv, HaltedNow, Halted, Evaluating, Running, Count, Typed
  <2>1. CASE Boot
    BY <2>1 DEF Boot, Proceed
  <2>2. CASE CheckLocks
    BY <2>2 DEF CheckLocks
  <2>3. CASE ReadPaused
    BY <2>3 DEF ReadPaused, PauseSeen
  <2>4. CASE ReadStop
    BY <2>4 DEF ReadStop, Proceed
  <2>5. CASE Move
    BY <2>5 DEF Move, Proceed
  <2>6. CASE LastFrame
    BY <2>6 DEF LastFrame, Proceed
  <2>7. CASE Import
    BY <2>7 DEF Import
  <2>8. CASE Loop
    BY <2>8 DEF Loop, PausedOnlyWaits
  <2>9. CASE Act
    BY <2>9 DEF Act
  <2> QED BY <1>6, <2>1, <2>2, <2>3, <2>4, <2>5, <2>6, <2>7, <2>8, <2>9 DEF MainStep
<1> QED BY <1>1, <1>2, <1>3, <1>4, <1>5, <1>6 DEF Next, Handler

(* A pause or a stop that took effect lets at most the command go out that *)
(* was already checked, and the unchecked last frame of a playback         *)
(* (ArmMove.play_bag), however often the operator signals.                 *)
THEOREM LateMovesAreFew == Spec => []FewLateMoves
<1>1. Init => Typed /\ LateInv
  BY InitTyped DEF Init, LateInv
<1>2. Typed /\ LateInv /\ [Next]_vars => Typed' /\ LateInv'
  <2>1. ASSUME Typed, LateInv, UNCHANGED vars PROVE Typed' /\ LateInv'
    BY <2>1 DEF vars, taskVars, armVars, sigVars, topicVars, Typed, LateInv, HaltedNow, Halted,
                Evaluating
  <2> QED BY <2>1, TypedKept, LateKept
<1>3. LateInv => FewLateMoves
  BY DEF LateInv, FewLateMoves
<1> QED BY <1>1, <1>2, <1>3, PTL DEF Spec
-----------------------------------------------------------------------------
(* What the evaluation will know of the pause once the topic is drained.   *)
Told == IF pauseTopic = <<>> THEN evalPause ELSE Last(pauseTopic)

(* The one handler of a patient operator, and what it knows in each step.  *)
Commands == {"pause", "resume", "stop"}
Moments  == {"begin", "look", "flip", "flipping", "stop", "publish", "report", "reporting"}
InStep(cmd, moment, seen) ==
    \/ moment \in {"begin", "report", "reporting"} /\ Told = paused
    \/ moment = "look" /\ cmd # "stop" /\ Told = paused
    \/ moment = "stop" /\ cmd = "stop" /\ Told = paused
    \/ moment \in {"flip", "flipping"} /\ cmd # "stop" /\ Told = paused /\ seen = paused
    \/ moment = "publish" /\ cmd = "stop" /\ Told = paused
    \/ moment = "publish" /\ cmd # "stop" /\ paused = ~seen
Patient ==
    /\ ~connected => pending = {} /\ frames = <<>> /\ ~paused /\ ~evalPause /\ pauseTopic = <<>>
    /\ pending # {} => frames = <<>> /\ \E cmd \in Commands : pending = {cmd}
    /\ frames = <<>> => Told = paused
    /\ frames # <<>> => \E cmd \in Commands, moment \in Moments, seen \in BOOLEAN :
                            /\ frames = <<[cmd |-> cmd, step |-> moment, seen |-> seen]>>
                            /\ InStep(cmd, moment, seen)
AgreeInv == hasty \in BOOLEAN /\ (~hasty => Patient)

LEMMA OneHandler ==
    ASSUME Patient, frames # <<>>
    PROVE  /\ connected /\ pending = {} /\ Len(frames) = 1
           /\ \E cmd \in Commands, moment \in Moments, seen \in BOOLEAN :
                  /\ frames = <<[cmd |-> cmd, step |-> moment, seen |-> seen]>>
                  /\ Top = [cmd |-> cmd, step |-> moment, seen |-> seen]
                  /\ InStep(cmd, moment, seen)
                  /\ Front(frames) = <<>>
                  /\ \A next : Becomes(next) => frames' = <<[cmd |-> cmd, step |-> next, seen |-> seen]>>
<1>1. PICK cmd \in Commands, moment \in Moments, seen \in BOOLEAN :
          /\ frames = <<[cmd |-> cmd, step |-> moment, seen |-> seen]>>
          /\ InStep(cmd, moment, seen)
  BY DEF Patient
<1>2. Len(frames) = 1 /\ frames[1] = [cmd |-> cmd, step |-> moment, seen |-> seen]
  BY <1>1
<1>3. Top = [cmd |-> cmd, step |-> moment, seen |-> seen]
  BY <1>2 DEF Top, Last
<1>4. Front(frames) = <<>>
  BY <1>2, SubSeqEmpty DEF Front
<1>5. ASSUME NEW next, Becomes(next)
      PROVE  frames' = <<[cmd |-> cmd, step |-> next, seen |-> seen]>>
  <2>1. frames' = [frames EXCEPT ![1].step = next]
    BY <1>2, <1>5 DEF Becomes
  <2> QED BY <1>1, <2>1
<1> QED BY <1>1, <1>2, <1>3, <1>4, <1>5 DEF Patient

LEMMA Topic ==
    ASSUME Typed, NEW data \in BOOLEAN,
           \/ pauseTopic' = Append(pauseTopic, data)
           \/ pauseTopic # <<>> /\ pauseTopic' = Append(Front(pauseTopic), data)
    PROVE  Told' = data
<1>1. pauseTopic \in Seq(BOOLEAN) /\ (pauseTopic # <<>> => Front(pauseTopic) \in Seq(BOOLEAN))
  BY DEF Typed, Front
<1>2. PICK before \in Seq(BOOLEAN) : pauseTopic' = Append(before, data)
  BY <1>1
<1>3. pauseTopic' # <<>> /\ pauseTopic'[Len(pauseTopic')] = data
  BY <1>2, AppendProperties
<1> QED BY <1>3 DEF Told, Last

LEMMA NextPhase ==
    ASSUME NEW cmd \in Commands, NEW moment \in Moments, NEW seen \in BOOLEAN,
           frames' = <<[cmd |-> cmd, step |-> moment, seen |-> seen]>>, InStep(cmd, moment, seen)',
           connected', pending' = {}
    PROVE  Patient'
<1>1. Len(frames') = 1 /\ frames' # <<>>
  OBVIOUS
<1>2. (\E c \in Commands, s \in Moments, n \in BOOLEAN :
          /\ frames = <<[cmd |-> c, step |-> s, seen |-> n]>>
          /\ InStep(c, s, n))'
  BY Zenon
<1> QED BY <1>1, <1>2 DEF Patient

LEMMA AgreeKept ==
    ASSUME Typed, AgreeInv, Next
    PROVE  AgreeInv'
<1> USE DEF taskVars, armVars, sigVars, topicVars
<1>1. ASSUME NEW cmd \in Commands, Signal(cmd) PROVE AgreeInv'
  <2>1. /\ hasty' = (hasty \/ ~connected \/ pending # {} \/ frames # <<>>)
        /\ pending' \in {pending, pending \cup {cmd}}
        /\ UNCHANGED <<frames, connected, paused, pauseTopic, evalPause>>
    BY <1>1 DEF Signal
  <2>2. ASSUME ~hasty' PROVE Patient'
    <3>1. Patient /\ connected /\ pending = {} /\ frames = <<>> /\ Told' = Told
      BY <2>1, <2>2 DEF AgreeInv, Told
    <3> QED BY <2>1, <3>1 DEF Patient
  <2> QED BY <2>1, <2>2 DEF AgreeInv
<1>2. CASE ~hasty /\ (Interrupt \/ Handler)
  <2>0. Patient
    BY <1>2 DEF AgreeInv
  <2>1. hasty' = hasty /\ UNCHANGED <<connected, evalPause>>
    BY <1>2 DEF Interrupt, Handler, HandlerLocks, HandlerLooks, HandlerFlips, HandlerStops,
                HandlerPublishes, HandlerReports
  <2>2. CASE Interrupt
    <3>1. PICK cmd \in pending :
             /\ pending' = IF cmd = "stop" THEN pending \ {"stop"} ELSE pending \ {"pause", "resume"}
             /\ frames' = Append(frames, [cmd |-> cmd, step |-> "begin", seen |-> FALSE])
             /\ UNCHANGED <<paused, pauseTopic>>
      BY <2>2 DEF Interrupt
    <3>2. frames = <<>> /\ cmd \in Commands /\ pending = {cmd} /\ Told = paused /\ connected
      BY <2>0, <3>1 DEF Patient
    <3>3. pending' = {} /\ frames' = <<[cmd |-> cmd, step |-> "begin", seen |-> FALSE]>>
      BY <3>1, <3>2 DEF Commands
    <3>4. InStep(cmd, "begin", FALSE)'
      BY <2>1, <3>1, <3>2 DEF InStep, Told
    <3>5. Patient'
      BY <2>1, <3>2, <3>3, <3>4, NextPhase DEF Moments
    <3> QED BY <1>2, <2>1, <3>5 DEF AgreeInv
  <2>3. ASSUME Handler
        PROVE  AgreeInv'
    <3>1. frames # <<>> /\ pending' = pending
      BY <2>3 DEF Handler, HandlerLocks, HandlerLooks, HandlerFlips, HandlerStops,
                  HandlerPublishes, HandlerReports
    <3>2. connected /\ pending = {}
      BY <2>0, <3>1, OneHandler
    <3>3. PICK cmd \in Commands, moment \in Moments, seen \in BOOLEAN :
              /\ frames = <<[cmd |-> cmd, step |-> moment, seen |-> seen]>>
              /\ Top = [cmd |-> cmd, step |-> moment, seen |-> seen]
              /\ InStep(cmd, moment, seen)
              /\ Front(frames) = <<>>
              /\ \A next : Becomes(next) => frames' = <<[cmd |-> cmd, step |-> next, seen |-> seen]>>
      BY <2>0, <3>1, OneHandler
    <3>4. Top.cmd = cmd /\ Top.step = moment /\ Top.seen = seen
      BY <3>3
    <3>5. ASSUME NEW next \in Moments, NEW s \in BOOLEAN,
                 frames' = <<[cmd |-> cmd, step |-> next, seen |-> s]>>, InStep(cmd, next, s)'
          PROVE  AgreeInv'
      BY <1>2, <2>1, <3>1, <3>2, <3>5, NextPhase DEF AgreeInv
    <3>6. CASE HandlerLocks
      <4>1. UNCHANGED <<paused, pauseTopic>> /\ moment \in {"begin", "flip", "report"}
        BY <3>4, <3>6 DEF HandlerLocks
      <4>2. Becomes(CASE moment = "begin" -> FirstStep(cmd) [] moment = "flip" -> "flipping"
                      [] moment = "report" -> "reporting")
        BY <3>4, <3>6 DEF HandlerLocks
      <4>3. CASE moment = "begin"
        <5>1. frames' = <<[cmd |-> cmd, step |-> FirstStep(cmd), seen |-> seen]>>
          BY <3>3, <4>2, <4>3
        <5>2. InStep(cmd, FirstStep(cmd), seen)'
          BY <2>1, <3>3, <4>1, <4>3 DEF InStep, Told, FirstStep
        <5>3. FirstStep(cmd) \in Moments
          BY DEF FirstStep, Moments
        <5> QED BY <3>5, <5>1, <5>2, <5>3
      <4>4. CASE moment = "flip"
        <5>1. frames' = <<[cmd |-> cmd, step |-> "flipping", seen |-> seen]>>
          BY <3>3, <4>2, <4>4
        <5>2. InStep(cmd, "flipping", seen)'
          BY <2>1, <3>3, <4>1, <4>4 DEF InStep, Told
        <5> QED BY <3>5, <5>1, <5>2 DEF Moments
      <4>5. CASE moment = "report"
        <5>1. frames' = <<[cmd |-> cmd, step |-> "reporting", seen |-> seen]>>
          BY <3>3, <4>2, <4>5
        <5>2. InStep(cmd, "reporting", seen)'
          BY <2>1, <3>3, <4>1, <4>5 DEF InStep, Told
        <5> QED BY <3>5, <5>1, <5>2 DEF Moments
      <4> QED BY <4>1, <4>3, <4>4, <4>5
    <3>7. CASE HandlerLooks
      <4>1. UNCHANGED <<paused, pauseTopic>> /\ moment = "look"
            /\ frames' = [frames EXCEPT ![Len(frames)].step = "flip", ![Len(frames)].seen = paused]
        BY <3>4, <3>7 DEF HandlerLooks
      <4>2. PICK now \in BOOLEAN : now = paused
        BY DEF Typed
      <4>3. frames' = [frames EXCEPT ![1].step = "flip", ![1].seen = now]
        <5>1. Len(frames) = 1
          BY <3>3
        <5> QED BY <4>1, <4>2, <5>1
      <4>4. frames' = <<[cmd |-> cmd, step |-> "flip", seen |-> now]>>
        <5> DEFINE flip == [frames EXCEPT ![1].step = "flip"]
        <5>1. flip = <<[cmd |-> cmd, step |-> "flip", seen |-> seen]>>
          BY <3>3
        <5>2. frames' = [flip EXCEPT ![1].seen = now]
          BY <4>3
        <5> HIDE DEF flip
        <5> QED BY <5>1, <5>2
      <4>5. InStep(cmd, "flip", now)'
        BY <2>1, <3>3, <4>1, <4>2 DEF InStep, Told
      <4> QED BY <3>5, <4>4, <4>5 DEF Moments
    <3>8. CASE HandlerFlips
      <4>1. moment = "flipping" /\ paused' = ~seen /\ pauseTopic' = pauseTopic /\ Becomes("publish")
        BY <3>4, <3>8 DEF HandlerFlips
      <4>2. frames' = <<[cmd |-> cmd, step |-> "publish", seen |-> seen]>>
        BY <3>3, <4>1
      <4>3. InStep(cmd, "publish", seen)'
        BY <3>3, <4>1 DEF InStep
      <4> QED BY <3>5, <4>2, <4>3 DEF Moments
    <3>9. CASE HandlerStops
      <4>1. moment = "stop" /\ UNCHANGED <<paused, pauseTopic>> /\ Becomes("publish")
        BY <3>4, <3>9 DEF HandlerStops
      <4>2. frames' = <<[cmd |-> cmd, step |-> "publish", seen |-> seen]>>
        BY <3>3, <4>1
      <4>3. InStep(cmd, "publish", seen)'
        BY <2>1, <3>3, <4>1 DEF InStep, Told
      <4> QED BY <3>5, <4>2, <4>3 DEF Moments
    <3>10. CASE HandlerPublishes
      <4>1. moment = "publish" /\ paused' = paused /\ Becomes("report")
        BY <3>4, <3>10 DEF HandlerPublishes
      <4>2. frames' = <<[cmd |-> cmd, step |-> "report", seen |-> seen]>>
        BY <3>3, <4>1
      <4>3. Told' = paused'
        <5>1. CASE cmd = "stop"
          BY <2>1, <3>2, <3>3, <3>4, <3>10, <4>1, <5>1 DEF HandlerPublishes, InStep, Told
        <5>2. CASE cmd # "stop"
          <6>1. paused = ~seen /\ Published(Top) = ~seen
            BY <3>3, <3>4, <4>1, <5>2 DEF InStep, Published
          <6>2. \/ pauseTopic' = Append(pauseTopic, ~seen)
                \/ pauseTopic # <<>> /\ pauseTopic' = Append(Front(pauseTopic), ~seen)
            BY <3>2, <3>4, <3>10, <5>2, <6>1 DEF HandlerPublishes
          <6>3. Told' = ~seen
            BY <6>2, Topic
          <6> QED BY <4>1, <6>1, <6>3
        <5> QED BY <5>1, <5>2
      <4>4. InStep(cmd, "report", seen)'
        BY <4>3 DEF InStep
      <4> QED BY <3>5, <4>2, <4>4 DEF Moments
    <3>11. CASE HandlerReports
      <4>1. moment = "reporting" /\ UNCHANGED <<paused, pauseTopic>> /\ frames' = <<>>
        BY <3>3, <3>4, <3>11 DEF HandlerReports
      <4>2. Told' = paused'
        BY <2>1, <3>3, <4>1 DEF InStep, Told
      <4> QED BY <1>2, <2>1, <3>1, <3>2, <4>1, <4>2 DEF AgreeInv, Patient
    <3> QED BY <2>3, <3>6, <3>7, <3>8, <3>9, <3>10, <3>11 DEF Handler
  <2> QED BY <1>2, <2>2, <2>3
<1>3. CASE hasty /\ (Interrupt \/ Handler)
  BY <1>3 DEF AgreeInv, Interrupt, Handler, HandlerLocks, HandlerLooks, HandlerFlips, HandlerStops,
              HandlerPublishes, HandlerReports
<1>4. CASE Callback
  <2>1. UNCHANGED <<hasty, pending, frames, paused>>
    BY <1>4 DEF Callback, Connect, PauseCallback, StopCallback
  <2>2. ASSUME Patient PROVE Patient'
    <3>1. Told' = Told
      <4>1. CASE PauseCallback
        <5>1. /\ pauseTopic \in Seq(BOOLEAN) /\ pauseTopic # <<>>
              /\ evalPause' = Head(pauseTopic) /\ pauseTopic' = Tail(pauseTopic)
          BY <4>1 DEF PauseCallback, SetOrClear, Typed
        <5>2. CASE Tail(pauseTopic) = <<>>
          <6>1. Len(pauseTopic) = 1
            <7>1. Len(Tail(pauseTopic)) = Len(pauseTopic) - 1 /\ Len(pauseTopic) \in Nat
              BY <5>1, HeadTailProperties
            <7>2. Len(Tail(pauseTopic)) = 0
              BY <5>1, <5>2, EmptySeq, HeadTailProperties
            <7> QED BY <7>1, <7>2
          <6>2. Last(pauseTopic) = Head(pauseTopic)
            BY <5>1, <6>1 DEF Last
          <6> QED BY <5>1, <5>2, <6>2 DEF Told
        <5>3. CASE Tail(pauseTopic) # <<>>
          <6>1. Last(Tail(pauseTopic)) = Last(pauseTopic)
            BY <5>1, <5>3 DEF Last
          <6> QED BY <5>1, <5>3, <6>1 DEF Told
        <5> QED BY <5>2, <5>3
      <4>2. CASE Connect \/ StopCallback
        BY <4>2 DEF Connect, StopCallback, Told
      <4> QED BY <1>4, <4>1, <4>2 DEF Callback
    <3>2. connected' = connected \/ connected' = TRUE
      BY <1>4 DEF Callback, Connect, PauseCallback, StopCallback
    <3>3. ~connected' => UNCHANGED <<pauseTopic, evalPause>> /\ ~connected
      BY <1>4, <2>2, <3>2 DEF Callback, Connect, PauseCallback, StopCallback, Patient
    <3> QED BY <2>1, <2>2, <3>1, <3>3 DEF Patient, InStep
  <2> QED BY <2>1, <2>2 DEF AgreeInv
<1>5. CASE MainStep
  <2>1. UNCHANGED <<hasty, pending, frames, paused, connected, pauseTopic, evalPause>>
    BY <1>5 DEF MainStep, Boot, CheckLocks, ReadPaused, ReadStop, Move, LastFrame, Import, Loop, Act
  <2> QED BY <2>1 DEF AgreeInv, Patient, InStep, Told
<1> QED BY <1>1, <1>2, <1>3, <1>4, <1>5 DEF Next, Commands, AgreeInv

(* When the operator waits until the evaluation listens and sends one      *)
(* signal at a time, it never believes the opposite of what                *)
(* ArmMoveController holds about the pause, once its topic is drained.     *)
THEOREM PausesAgree == Spec => []PauseAgrees
<1>1. Init => Typed /\ AgreeInv
  <2> SUFFICES ASSUME Init PROVE Typed /\ AgreeInv
    OBVIOUS
  <2>1. /\ pending = {} /\ frames = <<>> /\ pauseTopic = <<>>
        /\ paused = FALSE /\ evalPause = FALSE /\ hasty = FALSE
    BY DEF Init
  <2>2. Told = paused
    BY <2>1 DEF Told
  <2> QED BY <2>1, <2>2, InitTyped, Zenon DEF AgreeInv, Patient
<1>2. Typed /\ AgreeInv /\ [Next]_vars => Typed' /\ AgreeInv'
  <2>1. ASSUME Typed, AgreeInv, UNCHANGED vars PROVE Typed' /\ AgreeInv'
    BY <2>1 DEF vars, taskVars, armVars, sigVars, topicVars, Typed, AgreeInv, Patient, InStep, Told
  <2> QED BY <2>1, TypedKept, AgreeKept
<1>3. AgreeInv => PauseAgrees
  BY DEF AgreeInv, Patient, Told, PauseAgrees
<1> QED BY <1>1, <1>2, <1>3, PTL DEF Spec

-----------------------------------------------------------------------------
(* The evaluation in the simulator.  What holds at each place of the loop: *)
(* a scene that is waited for or prepared was announced; the referee plays *)
(* the episode, nothing, or, where the reset failed, an earlier one; and a *)
(* success that is on its way or noted is of what it plays.  After a stop  *)
(* the latter is not so, the subscriber of the stopped episode stays; but  *)
(* then no episode is judged any more.                                     *)
Placed ==
    /\ at = "first" => step > 0
    /\ at \in Started \cup {"wait"} => episode < EvalEpisodes
Announced ==
    /\ at = "wait" /\ initEvt => ready
    /\ at \in {"prepare", "subscribed", "start"} => ready
Played ==
    /\ at \in {"first", "clear", "wait", "prepare", "subscribed", "start"} =>
           playing = NoEpisode \/ episode \in unreset
    /\ at \in {"loop", "judge", "close"} =>
           playing \in {NoEpisode, episode} \/ episode \in unreset
Attributed ==
    /\ at \in {"judge", "close"} \/ (at \in {"subscribed", "start", "loop"} /\ ~stopFlag) =>
           (inFlight \/ successEvt => episode \in achieved \cup unreset)
    /\ at \in {"wait", "prepare"} /\ ~stopFlag => ~subscribed /\ ~inFlight /\ ~successEvt
    /\ at \in {"first", "reset", "clear"} /\ ~stopFlag /\ episode < EvalEpisodes => ~subscribed /\ ~inFlight
SimInv == SimTypeOK /\ Placed /\ Announced /\ Played /\ Attributed /\ SuccessIsEarned

LEMMA SimStarts == SimInit => SimInv
<1> SUFFICES ASSUME SimInit PROVE SimInv
  OBVIOUS
<1>1. SimTypeOK /\ Placed
  <2>1. /\ initEvt \in BOOLEAN /\ successEvt \in BOOLEAN /\ pauseFlag \in BOOLEAN /\ stopFlag \in BOOLEAN
        /\ subscribed \in BOOLEAN /\ inFlight \in BOOLEAN /\ ready \in BOOLEAN /\ initDue \in BOOLEAN
    BY Zenon DEF SimInit
  <2> QED BY <2>1, SimAssumption DEF SimInit, SimTypeOK, Placed, Episodes, NoEpisode, Started
<1>2. Announced /\ Played /\ Attributed /\ SuccessIsEarned
  BY DEF SimInit, Announced, Played, Attributed, SuccessIsEarned
<1> QED BY <1>1, <1>2 DEF SimInv

LEMMA SimKept ==
    ASSUME SimInv, SimNext
    PROVE  SimInv'
<1> USE SimAssumption DEF evalVars, flagVars, successVars, refereeVars
<1> USE DEF SimInv, SimTypeOK, Placed, Announced, Played, Attributed, SuccessIsEarned, Started
<1>1. CASE Stop
  BY <1>1 DEF Stop
<1>15. CASE Pause
  BY <1>15 DEF Pause
<1>16. CASE Unpause
  <2>1. pauseFlag' \in BOOLEAN
    BY <1>16, Zenon DEF Unpause
  <2> QED BY <1>16, <2>1 DEF Unpause
<1>2. CASE EnvInit
  <2>1. /\ initEvt' = TRUE /\ ready' = TRUE /\ initDue' = FALSE
        /\ UNCHANGED <<evalVars, successEvt, pauseFlag, stopFlag, successVars, playing,
                       achieved, unreset, pauses>>
    BY <1>2, Zenon DEF EnvInit
  <2>2. SimTypeOK'
    BY <2>1 DEF successVars
  <2>3. (Placed /\ Announced /\ Played)'
    BY <2>1
  <2>4. (Attributed /\ SuccessIsEarned)'
    BY <2>1 DEF successVars
  <2> QED BY <2>2, <2>3, <2>4
<1>3. CASE TaskDone
  BY <1>3 DEF TaskDone, NoEpisode, Episodes
<1>4. CASE EnvSuccess
  BY ZenonT(30), <1>4 DEF EnvSuccess
<1>5. CASE FirstWait
  BY <1>5 DEF FirstWait, Goto, WaitedOut
<1>6. CASE Reset
  <2>1. ready' \in BOOLEAN /\ initDue' \in BOOLEAN
    BY <1>6, Zenon DEF Reset
  <2>2. playing' \in 0..EvalEpisodes
    BY <1>6 DEF Reset, NoEpisode
  <2> QED BY <1>6, <2>1, <2>2 DEF Reset, Goto
<1>7. CASE Clear
  <2>1. initEvt' \in BOOLEAN /\ successEvt' \in BOOLEAN
    BY <1>7, Zenon DEF Clear, InitCleared, SuccessCleared
  <2> QED BY <1>7, <2>1 DEF Clear, Goto, InitCleared, SuccessCleared
<1>8. CASE Wait
  BY <1>8 DEF Wait, Goto
<1>9. CASE Subscribe
  <2>1. subscribed' \in BOOLEAN
    BY <1>9, Zenon DEF Subscribe
  <2>2. /\ at = "prepare" /\ at' = "subscribed"
        /\ UNCHANGED <<episode, step, counted, initEvt, successEvt, pauseFlag, stopFlag,
                       inFlight, ready, initDue, playing, achieved, unreset, pauses>>
    BY <1>9 DEF Subscribe, Goto
  <2> QED BY <2>1, <2>2
<1>18. CASE ResetEnv
  BY <1>18 DEF ResetEnv, Goto
<1>17. CASE Start
  <2>1. playing' \in {NoEpisode, episode} \/ episode \in unreset
    BY <1>17 DEF Start
  <2> QED BY <1>17, <2>1 DEF Start
<1>10. CASE StepEpisode
  BY <1>10 DEF StepEpisode, Truncated
<1>11. CASE StopEpisode
  BY <1>11 DEF StopEpisode
<1>12. CASE Judge
  BY <1>12 DEF Judge, Episodes
<1>13. CASE Close
  <2>1. ~subscribed' /\ ~inFlight' /\ subscribed' \in BOOLEAN /\ inFlight' \in BOOLEAN
    BY <1>13, Zenon DEF Close
  <2>2. episode' \in 0..EvalEpisodes
    BY <1>13 DEF Close
  <2> QED BY <1>13, <2>1, <2>2 DEF Close
<1>14. CASE Fail
  BY <1>14 DEF Fail
<1> QED BY <1>1, <1>2, <1>3, <1>4, <1>5, <1>6, <1>7, <1>8, <1>9, <1>10, <1>11, <1>12, <1>13, <1>14, <1>15, <1>16, <1>17, <1>18
        DEF SimNext, RosCallback, Step

LEMMA SimInvHolds == SimSpec => []SimInv
<1>1. SimInv /\ [SimNext]_simVars => SimInv'
  <2>1. SUFFICES ASSUME SimInv, UNCHANGED simVars PROVE SimInv'
    BY SimKept
  <2> QED BY <2>1 DEF simVars, evalVars, flagVars, successVars, refereeVars, SimInv, SimTypeOK,
                      Placed, Announced, Played, Attributed, SuccessIsEarned
<1> QED BY SimStarts, <1>1, PTL DEF SimSpec

(* An episode is prepared and started only on a scene that the referee     *)
(* announced after its last reset, for any number of episodes and any      *)
(* failures and stops (kuavo_eval_autotest clears init_evt once the reset  *)
(* has returned).                                                          *)
THEOREM ScenesAreReady == SimSpec => []StartsOnReadyScene
<1>1. SimInv => StartsOnReadyScene
  BY DEF SimInv, Announced, StartsOnReadyScene
<1> QED BY SimInvHolds, <1>1, PTL

(* An episode is counted only if the referee saw its own task done, or the *)
(* reset before it failed, whenever the referee's messages arrive between  *)
(* the subscription, the resets, the start and the end of the episode.     *)
THEOREM SuccessesAreEarned == SimSpec => []SuccessIsEarned
<1>1. SimInv => SuccessIsEarned
  BY DEF SimInv
<1> QED BY SimInvHolds, <1>1, PTL
===============================================================================

------------------------------- MODULE RobotEnv -------------------------------
(***************************************************************************)
(* The robot's environment and the control loop that drives it: the        *)
(* callbacks that fill the observation buffer (obs_buffer.py), the         *)
(* observation that the loop reads from it meanwhile (KuavoBaseRosEnv.py), *)
(* the queue of predicted actions (the adapters), the gripper latch and    *)
(* the order of the commands in step.                                      *)
(*                                                                         *)
(* A message is its stamp.  Images, joint values and the content of an     *)
(* action other than "move the chassis" and the gripper's intent are left  *)
(* out; pausing and stopping are the subject of OperatorControl.           *)
(***************************************************************************)
EXTENDS GripperLatch, BagAlignment

CONSTANTS NumKeys,      \* the buffer's keys, numbered in their configured order
          Freq,         \* messages kept per key (maxlen of its deques)
          Percent,      \* share of the buffer that is searched ("ratio")
          MaxDt,        \* deviation allowed at the first attempt (1 / ros_rate)
          Chunk,        \* actions per prediction
          Averaged,     \* observations averaged by reset
          Setups,       \* configurations, with bounds: [aligned, onlyArm, claw, steps, stamps]
          Episodes,     \* episodes of the run
          MaxGap        \* bound on the distance of two messages of a key

Keys == 1..NumKeys
ASSUME EnvAssumption ==
    /\ NumKeys \in Nat \ {0} /\ Freq \in [Keys -> Nat \ {0, 1}]
    /\ Percent \in 1..100 /\ MaxDt \in Nat /\ Chunk \in Nat \ {0} /\ Averaged \in Nat
    /\ \A s \in Setups : s.aligned \in BOOLEAN /\ s.onlyArm \in BOOLEAN /\ s.claw \in BOOLEAN
                         /\ s.steps \in Nat \ {0} /\ s.stamps \in Nat

VARIABLES setup,        \* the configuration
          data, stamp,  \* key -> deque of data and deque of its stamps
          arriving,     \* key -> stamp of the message whose callback is halfway, 0: none
          pc,           \* where the control loop is
          look,         \* get_obs in progress: attempt, key, reference, copy, result
          due,          \* observations reset still has to take, including its last
          at,           \* [episode, step]
          queue,        \* predicted actions: the observation each was predicted from
          act,          \* the action under way
          robot,        \* state of the robot's core: "stance" or "moving"
          sent,         \* the last command: its kind, and whether the arm took it
          hand,         \* what the hand was last commanded to be
          latch, trail  \* the latch; per row of this episode what was asked and decided
buffers == <<data, stamp, arriving>>
control == <<due, at, queue, act, sent, hand, latch, trail>>
vars    == <<setup, data, stamp, arriving, pc, look, due, at, queue, act, robot, sent, hand, latch, trail>>

None    == [stamp |-> 0, value |-> 0, whole |-> TRUE]
Nothing == [try |-> 1, key |-> 1, ref |-> 0, copy |-> <<>>, got |-> [k \in Keys |-> None]]
NoAct   == [from |-> [episode |-> 0, step |-> 0], move |-> FALSE]

Init == /\ setup \in Setups
        /\ data = [k \in Keys |-> <<>>] /\ stamp = data /\ arriving = [k \in Keys |-> 0]
        /\ pc = "warm" /\ look = Nothing /\ due = 0 /\ at = [episode |-> 0, step |-> 0]
        /\ queue = <<>> /\ act = NoAct /\ robot = "stance" /\ sent = [kind |-> "none", taken |-> TRUE]
        /\ hand \in Hands /\ latch = ResetLatch("open") /\ trail = <<>>
-----------------------------------------------------------------------------
(* A callback appends to two bounded deques, one after the other.          *)
Last(s)         == s[Len(s)]
Push(s, max, x) == IF Len(s) = max THEN Append(Tail(s), x) ELSE Append(s, x)
Newer(k)        == LET last == IF stamp[k] = <<>> THEN 0 ELSE Last(stamp[k])
                   IN {t \in 1..setup.stamps : last < t /\ t <= last + MaxGap}
Arrive(k) == /\ pc # "done" /\ arriving[k] = 0
             /\ \E t \in Newer(k) : /\ data' = [data EXCEPT ![k] = Push(@, Freq[k], t)]
                                    /\ arriving' = [arriving EXCEPT ![k] = t]
             /\ UNCHANGED <<setup, stamp, pc, look, robot, control>>
Stamped(k) == /\ arriving[k] # 0
              /\ stamp' = [stamp EXCEPT ![k] = Push(@, Freq[k], arriving[k])]
              /\ arriving' = [arriving EXCEPT ![k] = 0]
              /\ UNCHANGED <<setup, data, pc, look, robot, control>>
(* The chassis comes to a halt, by itself or because stance was asked for. *)
Settle == /\ robot = "moving" /\ robot' = "stance"
          /\ UNCHANGED <<setup, buffers, pc, look, control>>

Full     == \A k \in Keys : Len(data[k]) = Freq[k]
WarmedUp == /\ pc = "warm" /\ Full /\ pc' = "begin"
            /\ UNCHANGED <<setup, buffers, look, robot, control>>
-----------------------------------------------------------------------------
(* get_obs: the reference is the oldest of the newest stamps; then, key by *)
(* key, the data is copied, the stamps are copied, and the closest stamp   *)
(* selects the datum at its position.  If a key has none close enough all  *)
(* of it is repeated without the limit.                                    *)
StartLook == /\ pc' = IF setup.aligned THEN "reference" ELSE "latest"
             /\ look' = Nothing
LastKey   == look.key = NumKeys
NextKey   == IF LastKey THEN 1 ELSE look.key + 1

OldestLast(ref, t) == IF ref = 0 \/ t < ref THEN t ELSE ref
Reference ==
    /\ pc = "reference"
    /\ pc' = IF LastKey THEN "data" ELSE pc
    /\ look' = [look EXCEPT !.ref = OldestLast(@, Last(stamp[look.key])),
                            !.key = NextKey]
    /\ UNCHANGED <<setup, buffers, robot, control>>

(* s[-n:], which is all of s for n = 0.                                    *)
Searched(k)   == (Len(data[k]) * Percent) \div 100
LastOf(s, n)  == IF n = 0 \/ n > Len(s) THEN s ELSE SubSeq(s, Len(s) - n + 1, Len(s))
CopyData ==
    /\ pc = "data" /\ pc' = "stamps"
    /\ look' = [look EXCEPT !.copy = LastOf(data[look.key], Searched(look.key))]
    /\ UNCHANGED <<setup, buffers, robot, control>>

TooFar(t)  == look.try = 1 /\ Distance(t, look.ref) > MaxDt
Chosen(ts) == LET i == NearestFirst(ts, look.ref)
              IN IF TooFar(ts[i]) THEN None
                 ELSE [stamp |-> ts[i], value |-> look.copy[i], whole |-> look.copy = ts]
RetryNever(got) == FALSE
Repeat(got)     == \E k \in Keys : got[k] = None
Seen(got)  == IF Repeat(got)
              THEN [Nothing EXCEPT !.try = 2]
              ELSE [look EXCEPT !.got = got, !.key = 1, !.copy = <<>>]
AfterLook  == IF due = 0 THEN "decide" ELSE "averaging"
CopyStamps ==
    /\ pc = "stamps"
    /\ LET ts  == LastOf(stamp[look.key], Searched(look.key))
           got == [look.got EXCEPT ![look.key] = Chosen(ts)]
       IN IF LastKey
          THEN /\ look' = Seen(got)
               /\ pc' = IF Repeat(got) THEN "reference" ELSE AfterLook
          ELSE /\ look' = [look EXCEPT !.got = got, !.key = @ + 1, !.copy = <<>>]
               /\ pc' = "data"
    /\ UNCHANGED <<setup, buffers, robot, control>>

(* Without alignment: the newest datum of every key.                       *)
Latest ==
    /\ pc = "latest"
    /\ pc' = IF LastKey THEN AfterLook ELSE pc
    /\ look' = [look EXCEPT !.got[look.key] =
                               [None EXCEPT !.value = Last(data[look.key])],
                            !.key = NextKey]
    /\ UNCHANGED <<setup, buffers, robot, control>>
-----------------------------------------------------------------------------
(* A new episode: the policy forgets its queue, the latch is a new one,    *)
(* and reset opens the hand and averages some observations.  The simulated *)
(* gripper (rq2f85) is left as it is.                                      *)
Opened(h) == IF setup.claw THEN "open" ELSE h
QueueKept    == queue
QueueCleared == <<>>
Begin == /\ pc = "begin"
         /\ at' = [episode |-> at.episode + 1, step |-> 0]
         /\ queue' = QueueCleared /\ act' = NoAct
         /\ latch' = ResetLatch("open") /\ trail' = <<>>
         /\ due' = Averaged
         /\ sent' = [kind |-> "open hand", taken |-> TRUE] /\ hand' = Opened(hand)
         /\ StartLook
         /\ UNCHANGED <<setup, buffers, robot>>
Average == /\ pc = "averaging" /\ due' = due - 1 /\ StartLook
           /\ UNCHANGED <<setup, buffers, robot, at, queue, act, sent, hand, latch, trail>>

(* select_action, then the latch on the one row it returns.                *)
Predicted == IF queue = <<>> THEN [i \in 1..Chunk |-> at] ELSE queue
Decide ==
    /\ pc = "decide" /\ at.step < setup.steps /\ pc' = "act" /\ look' = Nothing
    /\ queue' = Tail(Predicted)
    /\ \E intent \in Intents, move \in IF setup.onlyArm THEN {FALSE} ELSE BOOLEAN :
          /\ act' = [from |-> Head(Predicted), move |-> move]
          /\ latch' = LatchRow(latch, intent)
          /\ trail' = Append(trail, [intent |-> intent, hand |-> latch'.hand, move |-> move])
    /\ UNCHANGED <<setup, buffers, robot, due, at, sent, hand>>
(* The policy, its connection or the shape of its answer fails, or a call  *)
(* of the robot does: the loop's finally clause ends the run.              *)
Fails == /\ pc \in {"begin", "act"} \/ (pc = "decide" /\ at.step < setup.steps)
         /\ pc' = "done" /\ look' = Nothing
         /\ UNCHANGED <<setup, buffers, robot, control>>
(* After its last step an episode is truncated.                            *)
Truncated == /\ pc = "decide" /\ at.step = setup.steps /\ look' = Nothing
             /\ pc' = IF at.episode < Episodes THEN "begin" ELSE "done"
             /\ UNCHANGED <<setup, buffers, robot, control>>

(* step: a chassis movement sends nothing to arm and hand.                 *)
Rolls == setup.onlyArm = FALSE /\ act.move
Roll  == /\ pc = "act" /\ Rolls /\ robot' = "moving"
         /\ sent' = [kind |-> "chassis", taken |-> TRUE]
         /\ pc' = "sleep"
         /\ UNCHANGED <<setup, buffers, look, due, at, queue, act, hand, latch, trail>>
(* Any other action asks a robot that does not stand to stand, and waits.  *)
(* The wait is bounded and its result is not looked at: meanwhile the      *)
(* robot may settle or not.  The arm refuses a robot that does not stand;  *)
(* the refusal is swallowed and the hand is commanded all the same.        *)
Taken        == robot = "stance"
HandWithArm  == IF Taken THEN latch.hand ELSE hand
HandAnyway   == latch.hand
Exec  == /\ pc = "act" /\ ~Rolls
         /\ sent' = [kind |-> "arm and hand", taken |-> Taken] /\ hand' = HandAnyway
         /\ pc' = "sleep"
         /\ UNCHANGED <<setup, buffers, robot, look, due, at, queue, act, latch, trail>>

Sleep == /\ pc = "sleep" /\ StartLook
         /\ at' = [at EXCEPT !.step = @ + 1]
         /\ UNCHANGED <<setup, buffers, robot, due, queue, act, sent, hand, latch, trail>>

Next == \/ \E k \in Keys : Arrive(k) \/ Stamped(k)
        \/ Settle \/ WarmedUp \/ Reference \/ CopyData \/ CopyStamps \/ Latest
        \/ Begin \/ Average \/ Decide \/ Fails \/ Truncated \/ Roll \/ Exec \/ Sleep
Spec == Init /\ [][Next]_vars
-----------------------------------------------------------------------------
(* A switch of the gripper needs IntentSteps rows in a row that all ask    *)
(* for it, and comes no earlier than the minimum hold after the switch     *)
(* before, over any sequence of borderline rows.                           *)
HandBefore(i) == IF i = 1 THEN "open" ELSE trail[i - 1].hand
SwitchAt(i)   == trail[i].hand # HandBefore(i)
NoFlutter ==
    \A i \in 1..Len(trail) : SwitchAt(i) =>
        /\ i >= IntentSteps
        /\ \A j \in (i - IntentSteps + 1)..i : Opposes(trail[j].intent, HandBefore(i))
        /\ \A j \in 1..(i - 1) : SwitchAt(j) => i - j >= MinHold(HandBefore(i))

(* An aligned observation has a datum for every key; one whose key was not *)
(* written to between the copies of its data and its stamps is the datum   *)
(* of the stamp that was chosen, and at the first attempt all such data    *)
(* were sent within twice max_dt of each other.                            *)
LookDone == setup.aligned /\ pc \in {"decide", "averaging"}
Aligned ==
    LookDone => \A k \in Keys :
        /\ look.got[k] # None
        /\ look.got[k].whole => look.got[k].value = look.got[k].stamp
        /\ look.try = 1 => \A l \in Keys :
              look.got[k].whole /\ look.got[l].whole
                  => Distance(look.got[k].value, look.got[l].value) <= 2 * MaxDt

(* Every executed action was predicted in its own episode, from an         *)
(* observation fewer than Chunk steps old.                                 *)
ActsOnOwnEpisode ==
    pc \in {"act", "sleep"} => /\ act.from.episode = at.episode
                               /\ at.step - act.from.step \in 0..(Chunk - 1)

(* Between two steps the hand is what the latch decided in the last row    *)
(* that was not a chassis movement, open before the first: also when the   *)
(* robot never came to stand and the arm refused, after any number of      *)
(* chassis movements, and over the resets.  The latch counts on it, for it *)
(* holds and opens by its own memory and never looks at the hand.          *)
LastGrip(i) == ~trail[i].move /\ \A j \in i + 1..Len(trail) : trail[j].move
InEpisode   == at.episode > 0 /\ pc \notin {"act", "done"}
HandFollowsLatch ==
    setup.claw /\ InEpisode =>
        hand = IF \E i \in DOMAIN trail : LastGrip(i)
               THEN trail[CHOOSE i \in DOMAIN trail : LastGrip(i)].hand
               ELSE "open"
=============================================================================

---------------------------- MODULE RobotEnvProofs ----------------------------
(***************************************************************************)
(* Proofs about RobotEnv: the gripper latch, the provenance of the         *)
(* executed actions, what the hand was commanded and the alignment of the          *)
(* observations, for every value of the constants; and about the limiter   *)
(* of ActionPostprocessing.                                                *)
(***************************************************************************)
EXTENDS RobotEnv, ActionPostprocessing, TLAPS, SequenceTheorems, WellFoundedInduction

Row     == [intent : Intents, hand : Hands, move : BOOLEAN]
Moments == [episode : Nat, step : Nat]

(* The part of the state the three properties depend on is well typed.     *)
LatchType == /\ latch \in [hand : Hands, steps : Nat, opposite : Nat]
             /\ trail \in Seq(Row)

(* What the latch remembers of the rows: its state is the last one         *)
(* decided, its evidence counts rows at the end of the trail that oppose   *)
(* that state, and its dwell time reaches back at most to the last switch. *)
Summary ==
    /\ latch.hand = HandBefore(Len(trail) + 1)
    /\ latch.opposite <= Len(trail)
    /\ \A j \in (Len(trail) - latch.opposite + 1)..Len(trail) : Opposes(trail[j].intent, latch.hand)
    /\ \A j \in 1..Len(trail) : SwitchAt(j) => latch.steps <= Len(trail) + 1 - j
LatchInv == LatchType /\ Summary /\ NoFlutter

(* A row through the latch keeps types.                                    *)
LEMMA LatchRowType ==
    ASSUME NEW l \in [hand : Hands, steps : Nat, opposite : Nat], NEW intent \in Intents
    PROVE  LatchRow(l, intent) \in [hand : Hands, steps : Nat, opposite : Nat]
BY DEF LatchRow, Evidence, Other, Hands

(* One row: the trail grows by what the latch was asked and decided.       *)
LEMMA RowKeepsLatchInv ==
    ASSUME LatchInv, NEW intent \in Intents, NEW move \in BOOLEAN,
           latch' = LatchRow(latch, intent),
           trail' = Append(trail, [intent |-> intent, hand |-> latch'.hand, move |-> move])
    PROVE  LatchInv'
<1> USE LatchAssumption
<1>0. PICK n \in Nat : n = Len(trail)
  BY DEF LatchInv, LatchType
<1>1. /\ n \in Nat /\ n = Len(trail) /\ trail \in Seq(Row)
      /\ latch \in [hand : Hands, steps : Nat, opposite : Nat]
  BY <1>0 DEF LatchInv, LatchType
<1>2. latch' \in [hand : Hands, steps : Nat, opposite : Nat]
  BY <1>1, LatchRowType
<1>3. [intent |-> intent, hand |-> latch'.hand, move |-> move] \in Row
  BY <1>2 DEF Row
<1>4. /\ Len(trail') = n + 1
      /\ \A i \in 1..n : trail'[i] = trail[i]
      /\ trail'[n + 1].intent = intent
      /\ trail'[n + 1].hand = latch'.hand
      /\ trail' \in Seq(Row)
  BY <1>1, <1>3
<1>5. LatchType'
  BY <1>2, <1>4 DEF LatchType
<1>6. \A i \in 1..n + 1 : HandBefore(i)' = HandBefore(i)
  BY <1>1, <1>4 DEF HandBefore
<1>7. \A i \in 1..n : SwitchAt(i)' = SwitchAt(i)
  BY <1>1, <1>4, <1>6 DEF SwitchAt
<1>8. /\ HandBefore(n + 1) = latch.hand
      /\ latch.opposite <= n
      /\ \A j \in (n - latch.opposite + 1)..n : Opposes(trail[j].intent, latch.hand)
      /\ \A j \in 1..n : SwitchAt(j) => latch.steps <= n + 1 - j
  BY <1>1 DEF LatchInv, Summary
<1>9. SwitchAt(n + 1)' <=> latch'.hand # latch.hand
  BY <1>1, <1>4, <1>6, <1>8 DEF SwitchAt
<1>10. HandBefore(n + 2)' = latch'.hand
  BY <1>1, <1>4 DEF HandBefore
<1>. DEFINE Fair(i) == /\ i >= IntentSteps
                       /\ \A j \in (i - IntentSteps + 1)..i : Opposes(trail[j].intent, HandBefore(i))
                       /\ \A j \in 1..(i - 1) : SwitchAt(j) => i - j >= MinHold(HandBefore(i))
<1>11. ASSUME NEW i \in 1..n, SwitchAt(i)'
       PROVE  Fair(i)'
  <2>1. SwitchAt(i)
    BY <1>7, <1>11
  <2>2. Fair(i)
    BY <1>1, <2>1 DEF LatchInv, NoFlutter
  <2>3. HandBefore(i)' = HandBefore(i)
    BY <1>1, <1>6
  <2>4. \A j \in (i - IntentSteps + 1)..i : Opposes(trail'[j].intent, HandBefore(i)')
    BY <1>1, <1>4, <2>2, <2>3
  <2>5. \A j \in 1..(i - 1) : SwitchAt(j)' => i - j >= MinHold(HandBefore(i)')
    BY <1>1, <1>7, <2>2, <2>3
  <2> QED BY <2>2, <2>4, <2>5
<1>12. CASE Switches(latch, intent)
  <2>1. latch' = [hand |-> Other(latch.hand), steps |-> 1, opposite |-> 0]
    BY <1>12 DEF LatchRow
  <2>2. /\ latch.steps >= MinHold(latch.hand)
        /\ latch.opposite + 1 >= IntentSteps
        /\ Opposes(intent, latch.hand)
    BY <1>1, <1>12 DEF Switches, Evidence
  <2>3. Summary'
    BY <1>1, <1>4, <1>10, <2>1 DEF Summary
  <2>4. HandBefore(n + 1)' = latch.hand
    BY <1>1, <1>6, <1>8
  <2>5. n + 1 >= IntentSteps
    BY <1>1, <1>8, <2>2
  <2>6. \A j \in (n + 1 - IntentSteps + 1)..(n + 1) : Opposes(trail'[j].intent, latch.hand)
    BY <1>1, <1>4, <1>8, <2>2
  <2>7. \A j \in 1..n : SwitchAt(j)' => (n + 1) - j >= MinHold(latch.hand)
    BY <1>1, <1>7, <1>8, <2>2 DEF MinHold
  <2>8. NoFlutter'
    <3>1. SUFFICES ASSUME NEW i \in 1..(n + 1), SwitchAt(i)'
                   PROVE  Fair(i)'
      BY <1>4 DEF NoFlutter
    <3>2. CASE i = n + 1
      <4>1. HandBefore(i)' = latch.hand
        BY <3>2, <2>4 DEF HandBefore
      <4>2. \A j \in (i - IntentSteps + 1)..i : Opposes(trail'[j].intent, HandBefore(i)')
        <5> TAKE j \in (i - IntentSteps + 1)..i
        <5>1. j \in (n + 1 - IntentSteps + 1)..(n + 1)
          BY <3>2
        <5>2. Opposes(trail'[j].intent, latch.hand)
          BY <2>6, <5>1
        <5> QED BY <5>2, <4>1 DEF Opposes
      <4>3. \A j \in 1..(i - 1) : SwitchAt(j)' => i - j >= MinHold(HandBefore(i)')
        BY <3>2, <2>7, <4>1
      <4> QED BY <3>2, <2>5, <4>2, <4>3
    <3>3. CASE i # n + 1
      <4>1. i \in 1..n
        BY <3>3
      <4> HIDE DEF Fair
      <4> QED BY <3>1, <4>1, <1>11
    <3> QED BY <3>2, <3>3
  <2> QED BY <1>5, <2>3, <2>8 DEF LatchInv
<1>13. CASE ~Switches(latch, intent)
  <2>1. /\ latch'.hand = latch.hand
        /\ latch'.steps = latch.steps + 1
        /\ latch'.opposite = Evidence(latch, intent)
    BY <1>1, <1>13 DEF LatchRow
  <2>2. Summary'
    <3>1. \A j \in 1..(n + 1) : SwitchAt(j)' => latch'.steps <= (n + 1) + 1 - j
      BY <1>1, <1>7, <1>8, <1>9, <2>1
    <3>2. CASE Opposes(intent, latch.hand)
      <4>1. latch'.opposite = latch.opposite + 1
        BY <2>1, <3>2 DEF Evidence
      <4>2. \A j \in (n + 1 - latch'.opposite + 1)..(n + 1) : Opposes(trail'[j].intent, latch.hand)
        <5> TAKE j \in (n + 1 - latch'.opposite + 1)..(n + 1)
        <5>1. CASE j = n + 1
          BY <1>4, <3>2, <5>1
        <5>2. CASE j # n + 1
          <6>1. latch.opposite \in Nat
            BY <1>1
          <6>2. j \in (n - latch.opposite + 1)..n /\ j \in 1..n
            BY <1>8, <4>1, <5>2, <6>1
          <6> QED BY <1>4, <1>8, <6>2
        <5> QED BY <5>1, <5>2
      <4>3. latch'.opposite <= n + 1
        BY <1>1, <1>8, <4>1
      <4>4. \A j \in (n + 1 - latch'.opposite + 1)..(n + 1) : Opposes(trail'[j].intent, latch'.hand)
        BY <2>1, <4>2
      <4>5. (latch.hand = HandBefore(Len(trail) + 1))'
        BY <1>4, <1>1 DEF HandBefore
      <4>6. (\A j \in (Len(trail) - latch.opposite + 1)..Len(trail) : Opposes(trail[j].intent, latch.hand))'
        <5> SUFFICES ASSUME NEW j \in (Len(trail) - latch.opposite + 1)'..Len(trail)'
                     PROVE  Opposes(trail'[j].intent, latch'.hand)
          OBVIOUS
        <5>1. j \in (n + 1 - latch'.opposite + 1)..(n + 1)
          BY <1>1, <1>2, <1>4
        <5> QED BY <4>4, <5>1
      <4>7. (\A j \in 1..Len(trail) : SwitchAt(j) => latch.steps <= Len(trail) + 1 - j)'
        BY <1>1, <1>4, <3>1
      <4> QED BY <1>1, <1>4, <4>3, <4>5, <4>6, <4>7 DEF Summary
    <3>3. CASE ~Opposes(intent, latch.hand)
      <4>1. latch'.opposite = 0
        BY <2>1, <3>3 DEF Evidence
      <4> QED BY <1>1, <1>4, <1>10, <2>1, <3>1, <4>1 DEF Summary
    <3> QED BY <3>2, <3>3
  <2>3. NoFlutter'
    <3>1. SUFFICES ASSUME NEW i \in 1..(n + 1), SwitchAt(i)'
                   PROVE  Fair(i)'
      BY <1>4 DEF NoFlutter
    <3>2. i # n + 1
      BY <1>9, <2>1, <3>1
    <3>3. i \in 1..n
      BY <3>2
    <3> HIDE DEF Fair
    <3> QED BY <3>1, <3>3, <1>11
  <2> QED BY <1>5, <2>2, <2>3 DEF LatchInv
<1> QED BY <1>12, <1>13

(* A fresh latch over an empty trail.                                      *)
LEMMA FreshLatch ==
    ASSUME latch' = ResetLatch("open"), trail' = <<>>
    PROVE  LatchInv'
BY LatchAssumption DEF Hands, LatchInv, LatchType, Summary, NoFlutter, ResetLatch, MinHold, HandBefore, Row

(* The latch is touched by Decide, one row at a time, and by Begin.        *)
THEOREM LatchInvariant == Spec => []LatchInv
<1>1. Init => LatchInv
  BY LatchAssumption DEF Init, Hands, LatchInv, LatchType, Summary, NoFlutter, ResetLatch, MinHold, HandBefore, Row
<1>2. LatchInv /\ [Next]_vars => LatchInv'
  <2> SUFFICES ASSUME LatchInv, [Next]_vars PROVE LatchInv'
    OBVIOUS
  <2>1. CASE Begin
    BY <2>1, FreshLatch DEF Begin
  <2>2. CASE Decide
    BY <2>2, RowKeepsLatchInv DEF Decide
  <2>3. CASE UNCHANGED <<latch, trail>>
    BY <2>3 DEF LatchInv, LatchType, Summary, NoFlutter, HandBefore, SwitchAt
  <2>4. CASE \E k \in Keys : Arrive(k) \/ Stamped(k)
    BY <2>3, <2>4 DEF Arrive, Stamped, control
  <2>5. CASE Settle \/ WarmedUp \/ Reference \/ CopyData \/ CopyStamps \/ Latest \/ Fails \/ Truncated
    BY <2>3, <2>5 DEF Settle, WarmedUp, Reference, CopyData, CopyStamps, Latest, Fails, Truncated, control
  <2>6. CASE Average \/ Roll \/ Exec \/ Sleep
    BY <2>3, <2>6 DEF Average, Roll, Exec, Sleep
  <2>7. CASE UNCHANGED vars
    BY <2>3, <2>7 DEF vars
  <2> QED BY <2>1, <2>2, <2>4, <2>5, <2>6, <2>7 DEF Next
<1> QED BY <1>1, <1>2, PTL DEF Spec

(* No sequence of rows makes the gripper switch without IntentSteps rows   *)
(* that ask for it, or before its minimum hold is over.                    *)
THEOREM GripperNeverFlutters == Spec => []NoFlutter
<1>1. LatchInv => NoFlutter
  BY DEF LatchInv
<1> QED BY <1>1, LatchInvariant, PTL
-----------------------------------------------------------------------------
(* The hand after the first n rows of the trail: as decided in the last of *)
(* them that was not a chassis movement.                                   *)
GripsLast(i, n) == ~trail[i].move /\ \A j \in i + 1..n : trail[j].move
HandUpTo(n)     == IF \E i \in 1..n : GripsLast(i, n)
                   THEN \A i \in 1..n : GripsLast(i, n) => hand = trail[i].hand
                   ELSE hand = "open"

(* A row that was decided and not commanded yet is the last of the trail.  *)
Pending == /\ Len(trail) > 0 /\ HandUpTo(Len(trail) - 1)
           /\ trail[Len(trail)].hand = latch.hand
           /\ trail[Len(trail)].move <=> act.move
           /\ act.move => ~setup.onlyArm
Following == setup.claw /\ at.episode > 0 /\ pc # "done" =>
                 /\ pc = "act" => Pending
                 /\ pc # "act" => HandUpTo(Len(trail))
Gripping == LatchType /\ setup \in Setups /\ at \in Moments /\ Following

LEMMA RowsStay ==
    ASSUME Gripping, UNCHANGED <<setup, hand, trail, latch, act>>,
           at' \in Moments, at'.episode = at.episode,
           pc' = pc \/ (pc # "act" /\ pc' # "act") \/ pc' = "done", pc = "done" => pc' = "done"
    PROVE  Gripping'
<1>1. UNCHANGED HandUpTo(Len(trail)) /\ UNCHANGED HandUpTo(Len(trail) - 1)
  BY DEF HandUpTo, GripsLast
<1>2. LatchType'
  BY DEF Gripping, LatchType
<1> QED BY <1>1, <1>2 DEF Gripping, Following, Pending

LEMMA DecideFollows ==
    ASSUME Gripping, Decide, LatchType'
    PROVE  Gripping'
<1>1. PICK intent \in Intents, move \in IF setup.onlyArm THEN {FALSE} ELSE BOOLEAN :
          /\ act' = [from |-> Head(Predicted), move |-> move]
          /\ latch' = LatchRow(latch, intent)
          /\ trail' = Append(trail, [intent |-> intent, hand |-> latch'.hand, move |-> move])
  BY DEF Decide
<1>2. pc = "decide" /\ pc' = "act" /\ UNCHANGED <<setup, at, hand>>
  BY DEF Decide
<1>3. PICK n \in Nat : n = Len(trail)
  BY DEF Gripping, LatchType
<1>4. /\ Len(trail') = n + 1 /\ \A i \in 1..n : trail'[i] = trail[i]
      /\ trail'[n + 1].hand = latch'.hand /\ trail'[n + 1].move = move
  BY <1>1, <1>3 DEF Gripping, LatchType
<1>5. HandUpTo(n) => HandUpTo(n)'
  <2>1. \A i \in 1..n : GripsLast(i, n)' <=> GripsLast(i, n)
    BY <1>4 DEF GripsLast
  <2> QED BY <1>2, <1>4, <2>1 DEF HandUpTo
<1>6. Following'
  <2>1. Len(trail') > 0 /\ Len(trail') - 1 = n
    BY <1>4
  <2>2. (act'.move <=> move) /\ (move => ~setup'.onlyArm)
    BY <1>1, <1>2
  <2>3. setup.claw /\ at.episode > 0 => HandUpTo(n)
    BY <1>2, <1>3 DEF Gripping, Following
  <2> QED BY <1>1, <1>2, <1>4, <1>5, <2>1, <2>2, <2>3 DEF Following, Pending
<1> QED BY <1>2, <1>6 DEF Gripping

(* A command: after it the hand is as decided in all the rows.             *)
LEMMA CommandFollows ==
    ASSUME Gripping, pc = "act", pc' = "sleep", UNCHANGED <<setup, at, trail, latch>>,
           Pending /\ act.move => hand' = hand, ~act.move => hand' = latch.hand
    PROVE  Gripping'
<1>1. LatchType'
  BY DEF Gripping, LatchType
<1>2. PICK n \in Nat : n = Len(trail)
  BY DEF Gripping, LatchType
<1>3. ASSUME Pending PROVE HandUpTo(Len(trail))'
  <2>1. /\ n > 0 /\ HandUpTo(n - 1) /\ trail[n].hand = latch.hand /\ (trail[n].move <=> act.move)
        /\ trail' = trail
    BY <1>2, <1>3 DEF Pending
  <2>2. CASE act.move
    <3>1. \A i \in 1..n - 1 : GripsLast(i, n) <=> GripsLast(i, n - 1)
      BY <1>2, <2>1, <2>2 DEF GripsLast
    <3>2. ~GripsLast(n, n)
      BY <2>1, <2>2 DEF GripsLast
    <3>3. HandUpTo(n)
      BY <1>2, <2>1, <3>1, <3>2 DEF HandUpTo
    <3>4. hand' = hand
      BY <1>3, <2>2
    <3> QED BY <1>2, <2>1, <3>3, <3>4 DEF HandUpTo, GripsLast
  <2>3. CASE ~act.move
    <3>1. GripsLast(n, n) /\ \A i \in 1..n - 1 : ~GripsLast(i, n)
      BY <1>2, <2>1, <2>3 DEF GripsLast
    <3>2. hand' = trail[n].hand /\ n \in 1..n
      BY <1>2, <2>1, <2>3
    <3>3. \A i \in 1..n : GripsLast(i, n)' <=> GripsLast(i, n)
      BY <2>1 DEF GripsLast
    <3>4. \A i \in 1..n : GripsLast(i, n) => i = n
      BY <1>2, <3>1
    <3> QED BY <1>2, <2>1, <3>1, <3>2, <3>3, <3>4 DEF HandUpTo
  <2> QED BY <2>2, <2>3
<1>4. Following'
  BY <1>3 DEF Gripping, Following
<1> QED BY <1>1, <1>4 DEF Gripping

(* Whatever fails or refuses, the hand is what the latch last decided for  *)
(* it, in every configuration that opens it at a reset.                    *)
THEOREM HandFollowsItsLatch == Spec => []HandFollowsLatch
<1>1. LatchInv => LatchType
  BY DEF LatchInv
<1>2. Init /\ LatchType => Gripping
  BY DEF Init, Gripping, Moments, Following
<1>3. Gripping /\ LatchType' /\ [Next]_vars => Gripping'
  <2> SUFFICES ASSUME Gripping, LatchType', [Next]_vars PROVE Gripping'
    OBVIOUS
  <2>1. CASE Begin
    <3>1. setup' = setup /\ trail' = <<>> /\ hand' = Opened(hand) /\ pc' # "act"
      BY <2>1 DEF Begin, StartLook
    <3>2. setup.claw => HandUpTo(Len(trail))'
      BY <3>1, EmptySeq DEF HandUpTo, Opened
    <3>3. at' \in Moments
      <4>1. at \in Moments
        BY DEF Gripping
      <4>2. at' = [episode |-> at.episode + 1, step |-> 0]
        BY <2>1 DEF Begin
      <4> QED BY <4>1, <4>2 DEF Moments
    <3>4. setup' \in Setups
      BY <3>1 DEF Gripping
    <3>5. Following'
      BY <3>1, <3>2 DEF Following
    <3> QED BY <3>3, <3>4, <3>5 DEF Gripping
  <2>2. CASE Decide
    BY <2>2, DecideFollows
  <2>3. CASE Roll
    BY <2>3, CommandFollows DEF Roll, Rolls
  <2>4. CASE Exec
    <3>1. setup.onlyArm \in BOOLEAN
      BY EnvAssumption DEF Gripping
    <3>2. Pending => ~act.move
      BY <2>4, <3>1 DEF Exec, Rolls, Pending
    <3> QED BY <2>4, <3>2, CommandFollows DEF Exec, HandAnyway
  <2>5. CASE \E k \in Keys : Arrive(k) \/ Stamped(k)
    BY <2>5, RowsStay DEF Arrive, Stamped, control, Gripping
  <2>6. CASE Settle \/ WarmedUp \/ Reference \/ CopyData \/ CopyStamps \/ Latest
    <3>1. UNCHANGED <<setup, hand, trail, latch, act>> /\ at' = at
      BY <2>6 DEF Settle, WarmedUp, Reference, CopyData, CopyStamps, Latest, control
    <3>2. pc' = pc \/ (pc # "act" /\ pc' # "act" /\ pc # "done")
      <4>1. CASE Settle \/ WarmedUp \/ Reference
        BY <4>1 DEF Settle, WarmedUp, Reference
      <4>2. CASE CopyData \/ Latest
        BY <4>2 DEF CopyData, Latest, AfterLook
      <4>3. CASE CopyStamps
        <5>1. pc = "stamps" /\ pc' \in {"data", "reference", "decide", "averaging"}
          BY <4>3 DEF CopyStamps, AfterLook
        <5> QED BY <5>1
      <4> QED BY <2>6, <4>1, <4>2, <4>3
    <3>3. at' \in Moments /\ at'.episode = at.episode /\ (pc' = pc \/ (pc # "act" /\ pc' # "act") \/ pc' = "done")
          /\ (pc = "done" => pc' = "done")
      BY <3>1, <3>2 DEF Gripping
    <3> QED BY <3>1, <3>3, RowsStay
  <2>7. CASE Fails \/ Truncated
    BY <2>7, RowsStay DEF Fails, Truncated, control, Gripping
  <2>8. CASE Average \/ Sleep
    <3>1. UNCHANGED <<setup, hand, trail, latch, act>> /\ pc # "act" /\ pc # "done" /\ pc' # "act"
      BY <2>8 DEF Average, Sleep, StartLook
    <3>2. at' \in Moments /\ at'.episode = at.episode
      BY <2>8 DEF Average, Sleep, Gripping, Moments
    <3> QED BY <3>1, <3>2, RowsStay
  <2>9. CASE UNCHANGED vars
    BY <2>9, RowsStay DEF vars, Gripping
  <2> QED BY <2>1, <2>2, <2>3, <2>4, <2>5, <2>6, <2>7, <2>8, <2>9 DEF Next
<1>4. Gripping => HandFollowsLatch
  <2> SUFFICES ASSUME Gripping, setup.claw, InEpisode
               PROVE  hand = IF \E i \in DOMAIN trail : LastGrip(i)
                             THEN trail[CHOOSE i \in DOMAIN trail : LastGrip(i)].hand
                             ELSE "open"
    BY DEF HandFollowsLatch
  <2>1. HandUpTo(Len(trail)) /\ DOMAIN trail = 1..Len(trail)
    BY DEF Gripping, Following, InEpisode, LatchType
  <2>2. \A i : GripsLast(i, Len(trail)) <=> LastGrip(i)
    BY DEF GripsLast, LastGrip
  <2>3. CASE \E i \in DOMAIN trail : LastGrip(i)
    <3> DEFINE last == CHOOSE i \in DOMAIN trail : LastGrip(i)
    <3>1. last \in DOMAIN trail /\ LastGrip(last)
      BY <2>3
    <3> HIDE DEF last
    <3>2. hand = trail[last].hand
      BY <2>1, <2>2, <3>1 DEF HandUpTo
    <3> QED BY <2>3, <3>2 DEF last
  <2>4. CASE ~\E i \in DOMAIN trail : LastGrip(i)
    BY <2>1, <2>2, <2>4 DEF HandUpTo
  <2> QED BY <2>3, <2>4
<1> QED BY <1>1, <1>2, <1>3, <1>4, LatchInvariant, PTL DEF Spec
-----------------------------------------------------------------------------
(* The queue holds the rest of one prediction of this episode: together,   *)
(* its age and its length never exceed Chunk; the action under way is as   *)
(* old as the queue behind it, until a call of the robot fails.            *)
Acting == pc \in {"act", "sleep"}
Steps  == IF Acting THEN 1 ELSE 0
Origin ==
    /\ at \in Moments /\ act.from \in Moments
    /\ queue \in Seq(Moments) /\ Len(queue) < Chunk
    /\ pc # "done" =>
          \A i \in 1..Len(queue) : /\ queue[i].episode = at.episode
                                   /\ queue[i].step + Chunk = at.step + Len(queue) + Steps
    /\ ActsOnOwnEpisode

LEMMA DecideKeepsOrigin == Origin /\ Decide => Origin'
<1> SUFFICES ASSUME Origin, Decide PROVE Origin'
  OBVIOUS
<1> USE EnvAssumption
<1>1. /\ pc = "decide" /\ pc' = "act" /\ at' = at /\ queue' = Tail(Predicted)
      /\ act'.from = Head(Predicted)
  BY DEF Decide
<1>2. at \in Moments /\ at.step \in Nat /\ at.episode \in Nat
  BY DEF Origin, Moments
<1>3. CASE queue = <<>>
  <2>1. /\ Predicted \in Seq(Moments) /\ Len(Predicted) = Chunk
        /\ \A i \in 1..Chunk : Predicted[i] = at
    BY <1>2, <1>3 DEF Predicted
  <2>2. /\ Head(Predicted) = at
        /\ Tail(Predicted) \in Seq(Moments) /\ Len(Tail(Predicted)) = Chunk - 1
        /\ \A i \in 1..(Chunk - 1) : Tail(Predicted)[i] = at
    BY <2>1
  <2>3. ActsOnOwnEpisode'
    BY <1>1, <1>2, <2>2 DEF ActsOnOwnEpisode
  <2>4. (\A i \in 1..Len(queue) : /\ queue[i].episode = at.episode
                                 /\ queue[i].step + Chunk = at.step + Len(queue) + Steps)'
    <3>1. Len(queue') = Chunk - 1 /\ Steps' = 1
      BY <1>1, <2>2 DEF Steps, Acting
    <3>2. \A i \in 1..(Chunk - 1) : queue'[i] = at
      BY <1>1, <2>2
    <3>3. Chunk - 1 \in Nat /\ at.step + Chunk = at.step + (Chunk - 1) + 1
      BY <1>2
    <3> QED BY <1>1, <3>1, <3>2, <3>3
  <2> QED BY <1>1, <1>2, <2>2, <2>3, <2>4 DEF Origin
<1>4. CASE queue # <<>>
  <2>1. /\ queue \in Seq(Moments) /\ Len(queue) \in 1..(Chunk - 1) /\ Predicted = queue
        /\ \A i \in 1..Len(queue) : /\ queue[i].episode = at.episode
                                    /\ queue[i].step + Chunk = at.step + Len(queue)
                                    /\ queue[i] \in Moments
    <3>1. Steps = 0 /\ Predicted = queue
      BY <1>1, <1>4 DEF Steps, Acting, Predicted
    <3>2. queue \in Seq(Moments) /\ Len(queue) \in Nat /\ Len(queue) # 0 /\ Len(queue) < Chunk
      BY <1>4 DEF Origin
    <3> QED BY <1>1, <1>2, <3>1, <3>2 DEF Origin
  <2>2. /\ Head(queue) = queue[1] /\ Tail(queue) \in Seq(Moments)
        /\ Len(Tail(queue)) = Len(queue) - 1
        /\ \A i \in 1..(Len(queue) - 1) : Tail(queue)[i] = queue[i + 1]
    BY <2>1
  <2>3. /\ Head(queue) \in Moments /\ Head(queue).episode = at.episode
        /\ Head(queue).step \in Nat
        /\ at.step - Head(queue).step \in 0..(Chunk - 1)
    <3>1. Head(queue) \in Moments /\ Head(queue).episode = at.episode
          /\ Head(queue).step + Chunk = at.step + Len(queue)
      BY <2>1, <2>2
    <3>2. at.step \in Nat /\ Head(queue).step \in Nat /\ Chunk \in Nat
      BY <1>2, <3>1 DEF Moments
    <3>3. Len(queue) \in 1..(Chunk - 1)
      BY <2>1
    <3>4. at.step - Head(queue).step \in 0..(Chunk - 1)
      BY <3>1, <3>2, <3>3
    <3> QED BY <3>1, <3>2, <3>4
  <2>4. ActsOnOwnEpisode'
    BY <1>1, <2>1, <2>3 DEF ActsOnOwnEpisode
  <2>5. (\A i \in 1..Len(queue) : /\ queue[i].episode = at.episode
                                 /\ queue[i].step + Chunk = at.step + Len(queue) + Steps)'
    <3>1. Len(queue') = Len(queue) - 1 /\ Steps' = 1
      BY <1>1, <2>1, <2>2 DEF Steps, Acting
    <3>2. \A i \in 1..Len(queue') : queue'[i] = queue[i + 1]
      BY <1>1, <2>1, <2>2, <3>1
    <3>3. \A i \in 1..Len(queue') : i + 1 \in 1..Len(queue)
      BY <2>1, <3>1
    <3> QED BY <1>1, <1>2, <2>1, <3>1, <3>2, <3>3
  <2> QED BY <1>1, <1>2, <2>1, <2>2, <2>3, <2>4, <2>5 DEF Origin
<1> QED BY <1>3, <1>4

(* No action is carried over into another episode, and none is older than  *)
(* the prediction it came with.                                            *)
THEOREM ActionsAreOfTheirEpisode == Spec => []ActsOnOwnEpisode
<1> USE EnvAssumption
<1>1. Init => Origin
  BY DEF Init, Origin, Moments, NoAct, ActsOnOwnEpisode
<1>2. Origin /\ [Next]_vars => Origin'
  <2> SUFFICES ASSUME Origin, [Next]_vars PROVE Origin'
    OBVIOUS
  <2> USE DEF Origin, ActsOnOwnEpisode, Acting, Steps
  <2>1. CASE Begin
    <3>1. ~Acting' /\ queue' = <<>> /\ act' = NoAct
      BY <2>1 DEF Begin, StartLook, QueueCleared
    <3>2. at' = [episode |-> at.episode + 1, step |-> 0] /\ at.episode \in Nat
      BY <2>1 DEF Begin, Moments
    <3> QED BY <3>1, <3>2 DEF NoAct, Moments
  <2>2. CASE Decide
    BY <2>2, DecideKeepsOrigin
  <2>3. CASE Sleep
    <3>1. /\ Acting /\ ~Acting' /\ UNCHANGED <<queue, act>>
          /\ at' = [at EXCEPT !.step = @ + 1] /\ at \in Moments
      BY <2>3 DEF Sleep, StartLook
    <3>2. at'.episode = at.episode /\ at'.step = at.step + 1 /\ at' \in Moments /\ at.step \in Nat
      BY <3>1 DEF Moments
    <3>3. Steps = 1 /\ Steps' = 0
      BY <3>1
    <3>4. Len(queue) \in Nat
      OBVIOUS
    <3> HIDE DEF Acting, Steps
    <3> QED BY <3>1, <3>2, <3>3, <3>4 DEF Acting
  <2>4. CASE Roll \/ Exec
    BY <2>4 DEF Roll, Exec
  <2>5. CASE UNCHANGED <<pc, at, queue, act>>
    BY <2>5
  <2>6. CASE pc # "done" /\ ~Acting /\ ~Acting' /\ UNCHANGED <<at, queue, act>>
    BY <2>6
  <2>7. CASE (\E k \in Keys : Arrive(k) \/ Stamped(k)) \/ Settle
    BY <2>5, <2>7 DEF Arrive, Stamped, Settle, control
  <2>8. CASE WarmedUp \/ Reference \/ CopyData \/ CopyStamps \/ Latest
    BY <2>6, <2>8 DEF WarmedUp, Reference, CopyData, CopyStamps, Latest, AfterLook, control
  <2>9. CASE Average \/ Truncated
    BY <2>6, <2>9 DEF Average, StartLook, Truncated, control
  <2>11. CASE Fails
    <3>1. pc' = "done" /\ UNCHANGED <<at, queue, act>>
      BY <2>11 DEF Fails, control
    <3> QED BY <3>1
  <2>10. CASE UNCHANGED vars
    BY <2>5, <2>10 DEF vars
  <2> QED BY <2>1, <2>2, <2>3, <2>4, <2>7, <2>8, <2>9, <2>10, <2>11 DEF Next
<1>3. Origin => ActsOnOwnEpisode
  BY DEF Origin
<1> QED BY <1>1, <1>2, <1>3, PTL DEF Spec
-----------------------------------------------------------------------------
(* Every message is appended to two bounded deques, the data first: until  *)
(* its callback is over the stamps may lack one message, never more.       *)
Buffered ==
    /\ setup \in Setups
    /\ data \in [Keys -> Seq(Nat)] /\ stamp \in [Keys -> Seq(Nat)] /\ arriving \in [Keys -> Nat]
    /\ \A k \in Keys : /\ Len(data[k]) <= Freq[k] /\ Len(stamp[k]) <= Freq[k]
                       /\ Len(data[k]) <= Len(stamp[k]) + (IF arriving[k] = 0 THEN 0 ELSE 1)
    /\ pc # "warm" => Full

(* What get_obs has found so far: the data copied are at least as many as  *)
(* the stamps that will index them, each datum chosen is the one of its    *)
(* stamp unless a callback came between the two copies, and at the first   *)
(* attempt its stamp is within max_dt of the reference.                    *)
Readings == [stamp : Nat, value : Nat, whole : BOOLEAN]
Wide(k)  == LET n == (Freq[k] * Percent) \div 100 IN IF n \in 1..Freq[k] THEN n ELSE Freq[k]
Close(g) == g = None \/ /\ g.whole => g.value = g.stamp
                        /\ look.try = 1 => Distance(g.stamp, look.ref) <= MaxDt
Looking ==
    /\ look \in [try : {1, 2}, key : Keys, ref : Nat, copy : Seq(Nat), got : [Keys -> Readings]]
    /\ pc \in {"reference", "data", "stamps"} => setup.aligned
    /\ pc = "latest" => ~setup.aligned
    /\ pc = "reference" => \A k \in Keys : look.got[k] = None
    /\ pc = "stamps" => Len(look.copy) = Wide(look.key)
    /\ setup.aligned => \A k \in Keys : Close(look.got[k])
    /\ LookDone => \A k \in Keys : look.got[k] # None
Sight == Buffered /\ Looking

(* A set of naturals has a least element.                                  *)
LEMMA LeastNatural ==
    ASSUME NEW S \in SUBSET Nat, S # {}
    PROVE  \E i \in S : \A j \in S : i <= j
<1> DEFINE R == OpToRel(<, Nat)
<1>1. \A i, j \in Nat : j < i => <<j, i>> \in R
  BY Zenon DEF OpToRel
<1>2. IsWellFoundedOn(R, Nat)
  BY NatLessThanWellFounded
<1> HIDE DEF R
<1>3. PICK i \in S : \A j \in S : <<j, i>> \notin R
  BY <1>2, WFMin
<1>4. \A j \in S : ~(j < i)
  BY <1>1, <1>3
<1> QED BY <1>4

(* The closest stamp of a stream that is not empty is one of its stamps.   *)
LEMMA NearestIsInside ==
    ASSUME NEW ts \in Seq(Nat), ts # <<>>, NEW ref \in Nat
    PROVE  NearestFirst(ts, ref) \in DOMAIN ts
<1>1. DOMAIN ts = 1..Len(ts) /\ Len(ts) \in Nat /\ Len(ts) # 0
  OBVIOUS
<1> DEFINE D == {Distance(ts[i], ref) : i \in DOMAIN ts}
<1>2. D \in SUBSET Nat /\ D # {}
  BY <1>1 DEF Distance
<1>3. PICK d \in D : \A e \in D : d <= e
  BY <1>2, LeastNatural
<1> DEFINE I == {i \in DOMAIN ts : Distance(ts[i], ref) = d}
<1>4. I \in SUBSET Nat /\ I # {}
  BY <1>1, <1>3
<1>5. PICK i \in I : \A j \in I : i <= j
  BY <1>4, LeastNatural
<1>6. /\ i \in DOMAIN ts
      /\ \A j \in DOMAIN ts : \/ Distance(ts[i], ref) < Distance(ts[j], ref)
                              \/ Distance(ts[i], ref) = Distance(ts[j], ref) /\ i <= j
  <2>1. i \in DOMAIN ts /\ Distance(ts[i], ref) = d /\ d \in Nat
    BY <1>2, <1>5
  <2>2. ASSUME NEW j \in DOMAIN ts
        PROVE  \/ d < Distance(ts[j], ref)
               \/ d = Distance(ts[j], ref) /\ i <= j
    <3>1. Distance(ts[j], ref) \in D
      OBVIOUS
    <3>2. Distance(ts[j], ref) \in Nat /\ d <= Distance(ts[j], ref)
      BY <1>2, <1>3, <3>1
    <3>3. d = Distance(ts[j], ref) => j \in I
      OBVIOUS
    <3> HIDE DEF D, I
    <3> QED BY <1>5, <2>1, <3>2, <3>3
  <2> QED BY <2>1, <2>2
<1> QED BY <1>6 DEF NearestFirst

(* Appending to a bounded deque.                                           *)
LEMMA PushFits ==
    ASSUME NEW s \in Seq(Nat), NEW max \in Nat, max > 0, Len(s) <= max, NEW x \in Nat
    PROVE  /\ Push(s, max, x) \in Seq(Nat)
           /\ Len(Push(s, max, x)) = IF Len(s) = max THEN max ELSE Len(s) + 1
BY DEF Push

(* The end of a sequence that is searched.                                 *)
LEMMA LastOfFits ==
    ASSUME NEW s \in Seq(Nat), NEW n \in Nat
    PROVE  /\ LastOf(s, n) \in Seq(Nat)
           /\ Len(LastOf(s, n)) = IF n \in 1..Len(s) THEN n ELSE Len(s)
<1>1. CASE n = 0 \/ n > Len(s)
  BY <1>1 DEF LastOf
<1>2. CASE ~(n = 0 \/ n > Len(s))
  <2>1. n \in 1..Len(s) /\ Len(s) - n + 1 \in 1..Len(s)
    BY <1>2
  <2>2. SubSeq(s, Len(s) - n + 1, Len(s)) \in Seq(Nat) /\ Len(SubSeq(s, Len(s) - n + 1, Len(s))) = n
    BY <2>1
  <2> QED BY <1>2, <2>1, <2>2 DEF LastOf
<1> QED BY <1>1, <1>2

(* The part that is searched is a number of messages.                      *)
LEMMA ShareIsNat ==
    ASSUME NEW n \in Nat
    PROVE  (n * Percent) \div 100 \in Nat
<1>1. Percent \in Nat
  BY EnvAssumption
<1>2. n * Percent \in Nat
  BY <1>1
<1> QED BY <1>2

LEMMA Sizes ==
    ASSUME Buffered, NEW k \in Keys
    PROVE  /\ Freq[k] \in Nat /\ Freq[k] > 1
           /\ data[k] \in Seq(Nat) /\ stamp[k] \in Seq(Nat) /\ arriving[k] \in Nat
           /\ pc # "warm" => /\ Len(data[k]) = Freq[k]
                             /\ Searched(k) = (Freq[k] * Percent) \div 100
                             /\ Searched(k) \in Nat
                             /\ data[k] # <<>> /\ stamp[k] # <<>>
<1>1. Freq[k] \in Nat /\ Freq[k] > 1
  BY EnvAssumption
<1>2. data[k] \in Seq(Nat) /\ stamp[k] \in Seq(Nat) /\ arriving[k] \in Nat
  BY DEF Buffered
<1>3. ASSUME pc # "warm" PROVE Len(data[k]) = Freq[k]
  BY <1>3 DEF Buffered, Full
<1>4. Len(data[k]) <= Len(stamp[k]) + 1
  BY <1>2 DEF Buffered
<1>5. ASSUME pc # "warm" PROVE data[k] # <<>> /\ stamp[k] # <<>>
  <2>1. Len(data[k]) > 1 /\ Len(stamp[k]) > 0
    BY <1>1, <1>2, <1>3, <1>4, <1>5
  <2> QED BY <2>1
<1> QED BY <1>1, <1>2, <1>3, <1>5, ShareIsNat DEF Searched
-----------------------------------------------------------------------------
LEMMA ArriveKeepsSight ==
    ASSUME Sight, NEW k \in Keys, Arrive(k)
    PROVE  Sight'
<1>1. PICK t \in Newer(k) : /\ data' = [data EXCEPT ![k] = Push(@, Freq[k], t)]
                            /\ arriving' = [arriving EXCEPT ![k] = t]
  BY DEF Arrive
<1>2. t \in Nat /\ t # 0
  BY EnvAssumption DEF Newer, Sight, Buffered
<1>3. /\ arriving[k] = 0 /\ UNCHANGED <<setup, stamp, pc, look, due>>
      /\ data \in [Keys -> Seq(Nat)] /\ stamp \in [Keys -> Seq(Nat)] /\ arriving \in [Keys -> Nat]
  BY DEF Arrive, control, Sight, Buffered
<1>4. /\ Freq[k] \in Nat /\ Freq[k] > 1 /\ data[k] \in Seq(Nat) /\ stamp[k] \in Seq(Nat)
      /\ Len(data[k]) <= Freq[k] /\ Len(stamp[k]) <= Freq[k]
      /\ Len(data[k]) <= Len(stamp[k])
  BY <1>3, Sizes DEF Sight, Buffered
<1>5. /\ data'[k] \in Seq(Nat)
      /\ Len(data'[k]) = IF Len(data[k]) = Freq[k] THEN Freq[k] ELSE Len(data[k]) + 1
  <2>1. data'[k] = Push(data[k], Freq[k], t)
    BY <1>1, <1>3
  <2>2. PICK m \in Nat, d \in Seq(Nat) : m = Freq[k] /\ d = data[k] /\ m > 0 /\ Len(d) <= m
    BY <1>4
  <2>3. Push(d, m, t) \in Seq(Nat) /\ Len(Push(d, m, t)) = IF Len(d) = m THEN m ELSE Len(d) + 1
    BY <1>2, <2>2, PushFits
  <2> QED BY <2>1, <2>2, <2>3
<1>6. /\ data' \in [Keys -> Seq(Nat)] /\ arriving' \in [Keys -> Nat] /\ arriving'[k] = t
      /\ \A l \in Keys \ {k} : data'[l] = data[l] /\ arriving'[l] = arriving[l]
  BY <1>1, <1>2, <1>3, <1>5
<1>7. Len(data'[k]) <= Freq[k] /\ Len(data'[k]) <= Len(stamp[k]) + 1
  BY <1>4, <1>5
<1>8. \A l \in Keys : /\ Len(data'[l]) <= Freq[l] /\ Len(stamp[l]) <= Freq[l]
                      /\ Len(data'[l]) <= Len(stamp[l]) + (IF arriving'[l] = 0 THEN 0 ELSE 1)
  <2> TAKE l \in Keys
  <2>1. CASE l = k
    BY <1>2, <1>4, <1>6, <1>7, <2>1
  <2>2. CASE l # k
    BY <1>6, <2>2 DEF Sight, Buffered
  <2> QED BY <2>1, <2>2
<1>9. ASSUME pc # "warm", NEW l \in Keys PROVE Len(data'[l]) = Freq[l]
  <2>1. Len(data[l]) = Freq[l] /\ Len(data[k]) = Freq[k]
    BY <1>9 DEF Sight, Buffered, Full
  <2> QED BY <1>5, <1>6, <2>1
<1>10. Buffered'
  BY <1>3, <1>6, <1>8, <1>9 DEF Sight, Buffered, Full
<1>11. Looking'
  BY <1>3 DEF Sight, Looking, Close, LookDone
<1> QED BY <1>10, <1>11 DEF Sight

LEMMA StampedKeepsSight ==
    ASSUME Sight, NEW k \in Keys, Stamped(k)
    PROVE  Sight'
<1>1. /\ arriving[k] # 0
      /\ stamp' = [stamp EXCEPT ![k] = Push(@, Freq[k], arriving[k])]
      /\ arriving' = [arriving EXCEPT ![k] = 0]
      /\ UNCHANGED <<setup, data, pc, look, due>>
  BY DEF Stamped, control
<1>2. data \in [Keys -> Seq(Nat)] /\ stamp \in [Keys -> Seq(Nat)] /\ arriving \in [Keys -> Nat]
  BY DEF Sight, Buffered
<1>3. /\ Freq[k] \in Nat /\ Freq[k] > 1 /\ data[k] \in Seq(Nat) /\ stamp[k] \in Seq(Nat)
      /\ Len(data[k]) <= Freq[k] /\ Len(stamp[k]) <= Freq[k]
      /\ Len(data[k]) <= Len(stamp[k]) + 1
  BY <1>1, Sizes DEF Sight, Buffered
<1>4. /\ stamp'[k] \in Seq(Nat)
      /\ Len(stamp'[k]) = IF Len(stamp[k]) = Freq[k] THEN Freq[k] ELSE Len(stamp[k]) + 1
  <2>1. stamp'[k] = Push(stamp[k], Freq[k], arriving[k]) /\ arriving[k] \in Nat
    BY <1>1, <1>2
  <2>2. PICK m \in Nat, s \in Seq(Nat), x \in Nat :
            m = Freq[k] /\ s = stamp[k] /\ x = arriving[k] /\ m > 0 /\ Len(s) <= m
    BY <1>3, <2>1
  <2>3. Push(s, m, x) \in Seq(Nat) /\ Len(Push(s, m, x)) = IF Len(s) = m THEN m ELSE Len(s) + 1
    BY ZenonT(30), <2>2, PushFits
  <2> QED BY <2>1, <2>2, <2>3
<1>5. /\ stamp' \in [Keys -> Seq(Nat)] /\ arriving' \in [Keys -> Nat] /\ arriving'[k] = 0
      /\ \A l \in Keys \ {k} : stamp'[l] = stamp[l] /\ arriving'[l] = arriving[l]
  BY <1>1, <1>2, <1>4
<1>6. Len(stamp'[k]) <= Freq[k] /\ Len(data[k]) <= Len(stamp'[k])
  BY <1>3, <1>4
<1>7. \A l \in Keys : /\ Len(data[l]) <= Freq[l] /\ Len(stamp'[l]) <= Freq[l]
                      /\ Len(data[l]) <= Len(stamp'[l]) + (IF arriving'[l] = 0 THEN 0 ELSE 1)
  <2> TAKE l \in Keys
  <2>1. CASE l = k
    BY <1>3, <1>4, <1>5, <1>6, <2>1
  <2>2. CASE l # k
    BY <1>5, <2>2 DEF Sight, Buffered
  <2> QED BY <2>1, <2>2
<1>8. Buffered'
  BY <1>1, <1>5, <1>7 DEF Sight, Buffered, Full
<1>9. Looking'
  BY <1>1 DEF Sight, Looking, Close, LookDone
<1> QED BY <1>8, <1>9 DEF Sight

(* A look that starts has found nothing.                                   *)
LEMMA FreshLook ==
    /\ Nothing \in [try : {1, 2}, key : Keys, ref : Nat, copy : Seq(Nat), got : [Keys -> Readings]]
    /\ \A k \in Keys : Nothing.got[k] = None
    /\ 1 \in Keys /\ NumKeys \in Nat
BY EnvAssumption DEF Nothing, None, Readings, Keys

LEMMA StartKeepsSight ==
    ASSUME Sight, UNCHANGED <<setup, data, stamp, arriving>>, look' = Nothing, Full,
           pc' \in {"reference", "latest", "begin", "act", "done"},
           pc' = "reference" => setup.aligned, pc' = "latest" => ~setup.aligned
    PROVE  Sight'
<1>1. Buffered'
  BY DEF Sight, Buffered, Full
<1>2. Looking'
  BY FreshLook DEF Looking, Close, LookDone
<1> QED BY <1>1, <1>2 DEF Sight

LEMMA ReferenceKeepsSight == Sight /\ Reference => Sight'
<1> SUFFICES ASSUME Sight, Reference PROVE Sight'
  OBVIOUS
<1>1. /\ pc = "reference" /\ pc' = (IF LastKey THEN "data" ELSE pc)
      /\ look' = [look EXCEPT !.ref = OldestLast(@, Last(stamp[look.key])), !.key = NextKey]
      /\ UNCHANGED <<setup, data, stamp, arriving>>
  BY DEF Reference, buffers
<1>2. /\ look \in [try : {1, 2}, key : Keys, ref : Nat, copy : Seq(Nat), got : [Keys -> Readings]]
      /\ setup.aligned /\ \A k \in Keys : look.got[k] = None
  BY <1>1 DEF Sight, Looking
<1>3. look.key \in Keys /\ NextKey \in Keys
  BY <1>2, FreshLook DEF Keys, NextKey, LastKey
<1>4. stamp[look.key] \in Seq(Nat) /\ stamp[look.key] # <<>>
  BY <1>1, <1>3, Sizes DEF Sight
<1>5. Last(stamp[look.key]) \in Nat
  BY <1>4 DEF Last
<1>6. OldestLast(look.ref, Last(stamp[look.key])) \in Nat
  BY <1>2, <1>5 DEF OldestLast
<1>7. /\ look' \in [try : {1, 2}, key : Keys, ref : Nat, copy : Seq(Nat), got : [Keys -> Readings]]
      /\ look'.got = look.got
  BY <1>1, <1>2, <1>3, <1>6
<1>8. Buffered'
  BY <1>1 DEF Sight, Buffered, Full
<1>9. Looking'
  BY <1>1, <1>2, <1>7 DEF Looking, Close, LookDone
<1> QED BY <1>8, <1>9 DEF Sight

LEMMA CopyDataKeepsSight == Sight /\ CopyData => Sight'
<1> SUFFICES ASSUME Sight, CopyData PROVE Sight'
  OBVIOUS
<1>1. /\ pc = "data" /\ pc' = "stamps"
      /\ look' = [look EXCEPT !.copy = LastOf(data[look.key], Searched(look.key))]
      /\ UNCHANGED <<setup, data, stamp, arriving>>
  BY DEF CopyData, buffers
<1>2. /\ look \in [try : {1, 2}, key : Keys, ref : Nat, copy : Seq(Nat), got : [Keys -> Readings]]
      /\ setup.aligned /\ \A k \in Keys : Close(look.got[k])
  BY <1>1 DEF Sight, Looking
<1>3. PICK k \in Keys : k = look.key
  BY <1>2
<1>4. /\ data[k] \in Seq(Nat) /\ Len(data[k]) = Freq[k] /\ Searched(k) = (Freq[k] * Percent) \div 100
      /\ Searched(k) \in Nat
  BY <1>1, Sizes DEF Sight
<1>5. LastOf(data[k], Searched(k)) \in Seq(Nat) /\ Len(LastOf(data[k], Searched(k))) = Wide(k)
  BY <1>4, LastOfFits DEF Wide
<1>6. /\ look' \in [try : {1, 2}, key : Keys, ref : Nat, copy : Seq(Nat), got : [Keys -> Readings]]
      /\ look'.got = look.got /\ look'.try = look.try /\ look'.ref = look.ref /\ look'.key = k
      /\ Len(look'.copy) = Wide(k)
  BY <1>1, <1>2, <1>3, <1>5
<1>7. Buffered'
  BY <1>1 DEF Sight, Buffered, Full
<1>8. Looking'
  BY <1>1, <1>2, <1>6 DEF Looking, Close, LookDone
<1> QED BY <1>7, <1>8 DEF Sight

(* The datum chosen for a key is one of those copied, and it is the one    *)
(* whose stamp was chosen if the copies agree.                             *)
LEMMA ChosenIsClose ==
    ASSUME Sight, pc = "stamps", NEW k \in Keys, k = look.key,
           NEW ts, ts = LastOf(stamp[k], Searched(k))
    PROVE  Chosen(ts) \in Readings /\ Close(Chosen(ts))
<1>1. /\ look \in [try : {1, 2}, key : Keys, ref : Nat, copy : Seq(Nat), got : [Keys -> Readings]]
      /\ Len(look.copy) = Wide(k)
  BY DEF Sight, Looking
<1>2. /\ stamp[k] \in Seq(Nat) /\ stamp[k] # <<>> /\ Searched(k) = (Freq[k] * Percent) \div 100
      /\ Searched(k) \in Nat /\ Len(stamp[k]) <= Freq[k] /\ Freq[k] \in Nat
  BY Sizes DEF Sight, Buffered
<1>3. ts \in Seq(Nat) /\ Len(ts) = IF Searched(k) \in 1..Len(stamp[k]) THEN Searched(k) ELSE Len(stamp[k])
  BY <1>2, LastOfFits
<1>4. Len(ts) > 0 /\ Len(ts) <= Wide(k)
  BY <1>2, <1>3 DEF Wide
<1>5. PICK i : i = NearestFirst(ts, look.ref)
  OBVIOUS
<1>6. i \in 1..Len(ts)
  <2>1. ts # <<>>
    BY <1>3, <1>4
  <2> QED BY <1>1, <1>3, <1>5, <2>1, NearestIsInside
<1>7. ts[i] \in Nat /\ look.copy[i] \in Nat
  BY <1>1, <1>3, <1>4, <1>6
<1>8. Chosen(ts) = IF TooFar(ts[i]) THEN None
                   ELSE [stamp |-> ts[i], value |-> look.copy[i], whole |-> look.copy = ts]
  BY <1>5 DEF Chosen
<1>9. CASE TooFar(ts[i])
  BY <1>8, <1>9 DEF None, Readings, Close
<1>10. CASE ~TooFar(ts[i])
  <2>1. Chosen(ts) = [stamp |-> ts[i], value |-> look.copy[i], whole |-> look.copy = ts]
    BY <1>8, <1>10
  <2>2. look.try = 1 => Distance(ts[i], look.ref) <= MaxDt
    BY <1>1, <1>7, <1>10, EnvAssumption DEF TooFar, Distance
  <2>3. (look.copy = ts) \in BOOLEAN
    OBVIOUS
  <2>4. Chosen(ts) \in Readings
    BY <2>1, <2>3, <1>7 DEF Readings
  <2>5. Close(Chosen(ts))
    <3>1. /\ Chosen(ts).stamp = ts[i] /\ Chosen(ts).value = look.copy[i]
          /\ Chosen(ts).whole = (look.copy = ts)
      BY <2>1
    <3>2. Chosen(ts).whole => Chosen(ts).value = Chosen(ts).stamp
      BY <3>1
    <3> QED BY <2>2, <3>1, <3>2 DEF Close
  <2> QED BY <2>4, <2>5
<1> QED BY <1>9, <1>10

LEMMA CopyStampsKeepsSight == Sight /\ CopyStamps => Sight'
<1> SUFFICES ASSUME Sight, CopyStamps PROVE Sight'
  OBVIOUS
<1> DEFINE Looks == [try : {1, 2}, key : Keys, ref : Nat, copy : Seq(Nat), got : [Keys -> Readings]]
<1>1. PICK ts : ts = LastOf(stamp[look.key], Searched(look.key))
  OBVIOUS
<1>2. PICK got : got = [look.got EXCEPT ![look.key] = Chosen(ts)]
  OBVIOUS
<1>3. /\ pc = "stamps" /\ UNCHANGED <<setup, data, stamp, arriving>>
      /\ LastKey => /\ look' = Seen(got)
                    /\ pc' = IF Repeat(got) THEN "reference" ELSE AfterLook
      /\ ~LastKey => /\ look' = [look EXCEPT !.got = got, !.key = @ + 1, !.copy = <<>>]
                     /\ pc' = "data"
  BY <1>1, <1>2 DEF CopyStamps, buffers
<1>4. look \in Looks /\ setup.aligned /\ \A l \in Keys : Close(look.got[l])
  BY <1>3 DEF Sight, Looking
<1>5. PICK k \in Keys : k = look.key
  BY <1>4
<1>6. Chosen(ts) \in Readings /\ Close(Chosen(ts))
  BY <1>1, <1>3, <1>5, ChosenIsClose
<1>7. got \in [Keys -> Readings] /\ \A l \in Keys : Close(got[l])
  BY <1>2, <1>4, <1>5, <1>6
<1>8. Buffered'
  <2>1. pc' # "warm"
    BY <1>3 DEF AfterLook
  <2> QED BY <1>3, <2>1 DEF Sight, Buffered, Full
<1>9. CASE ~LastKey
  <2>1. k + 1 \in Keys
    BY <1>5, <1>9, FreshLook DEF LastKey, Keys
  <2>2. look' \in Looks /\ look'.got = got /\ look'.try = look.try /\ look'.ref = look.ref
    <3>1. look' = [try |-> look.try, key |-> k + 1, ref |-> look.ref, copy |-> <<>>, got |-> got]
      BY <1>3, <1>4, <1>5, <1>9
    <3>2. look.try \in {1, 2} /\ look.ref \in Nat /\ <<>> \in Seq(Nat)
      BY <1>4
    <3> QED BY <1>7, <2>1, <3>1, <3>2
  <2>3. Looking'
    BY <1>3, <1>4, <1>7, <1>9, <2>2 DEF Looking, Close, LookDone
  <2> QED BY <1>8, <2>3 DEF Sight
<1>10. CASE LastKey /\ Repeat(got)
  <2>1. look' = [Nothing EXCEPT !.try = 2] /\ pc' = "reference"
    BY <1>3, <1>10 DEF Seen
  <2>2. look' \in Looks /\ \A l \in Keys : look'.got[l] = None
    BY <2>1, FreshLook DEF Nothing
  <2>3. Looking'
    BY <1>3, <1>4, <2>1, <2>2 DEF Looking, Close, LookDone
  <2> QED BY <1>8, <2>3 DEF Sight
<1>11. CASE LastKey /\ ~Repeat(got)
  <2>1. look' = [look EXCEPT !.got = got, !.key = 1, !.copy = <<>>] /\ pc' = AfterLook
    BY <1>3, <1>11 DEF Seen
  <2>2. look' \in Looks /\ look'.got = got /\ look'.try = look.try /\ look'.ref = look.ref
    <3>1. look' = [try |-> look.try, key |-> 1, ref |-> look.ref, copy |-> <<>>, got |-> got]
      BY <1>4, <2>1
    <3>2. look.try \in {1, 2} /\ look.ref \in Nat /\ <<>> \in Seq(Nat)
      BY <1>4
    <3> QED BY <1>7, <3>1, <3>2, FreshLook
  <2>3. \A l \in Keys : got[l] # None
    BY <1>11 DEF Repeat
  <2>4. Looking'
    BY <1>3, <1>4, <1>7, <2>1, <2>2, <2>3 DEF Looking, Close, LookDone, AfterLook
  <2> QED BY <1>8, <2>4 DEF Sight
<1> QED BY <1>9, <1>10, <1>11

LEMMA LatestKeepsSight == Sight /\ Latest => Sight'
<1> SUFFICES ASSUME Sight, Latest PROVE Sight'
  OBVIOUS
<1> DEFINE Looks == [try : {1, 2}, key : Keys, ref : Nat, copy : Seq(Nat), got : [Keys -> Readings]]
<1>1. /\ pc = "latest" /\ pc' = (IF LastKey THEN AfterLook ELSE pc)
      /\ look' = [look EXCEPT !.got[look.key] = [None EXCEPT !.value = Last(data[look.key])],
                              !.key = NextKey]
      /\ UNCHANGED <<setup, data, stamp, arriving>>
  BY DEF Latest, buffers
<1>2. look \in Looks /\ ~setup.aligned
  BY <1>1 DEF Sight, Looking
<1>3. look.key \in Keys /\ NextKey \in Keys
  BY <1>2, FreshLook DEF Keys, NextKey, LastKey
<1>4. PICK v \in Nat : v = Last(data[look.key])
  <2>1. data[look.key] \in Seq(Nat) /\ data[look.key] # <<>>
    BY <1>1, <1>3, Sizes DEF Sight
  <2> QED BY <2>1 DEF Last
<1>5. [None EXCEPT !.value = v] \in Readings
  BY DEF None, Readings
<1>6. look' \in Looks
  BY <1>1, <1>2, <1>3, <1>4, <1>5
<1>7. Buffered'
  <2>1. pc' # "warm"
    BY <1>1 DEF AfterLook
  <2> QED BY <1>1, <2>1 DEF Sight, Buffered, Full
<1>8. Looking'
  BY <1>1, <1>2, <1>6 DEF Looking, LookDone, AfterLook
<1> QED BY <1>7, <1>8 DEF Sight

(* In every attempt and under every interleaving of the callbacks with the *)
(* copies, an aligned observation is complete, its data are those of the   *)
(* stamps that were chosen, and at the first attempt they were sent within *)
(* twice max_dt of each other.                                             *)
THEOREM ObservationsAreAligned == Spec => []Aligned
<1>1. Init => Sight
  BY FreshLook, EnvAssumption DEF Init, Sight, Buffered, Looking, Close, LookDone
<1>2. Sight /\ [Next]_vars => Sight'
  <2> SUFFICES ASSUME Sight, [Next]_vars PROVE Sight'
    OBVIOUS
  <2>0. pc # "warm" => Full
    BY DEF Sight, Buffered
  <2>1. CASE \E k \in Keys : Arrive(k) \/ Stamped(k)
    BY <2>1, ArriveKeepsSight, StampedKeepsSight
  <2>2. CASE UNCHANGED <<setup, data, stamp, arriving, pc, look, due>>
    BY <2>2 DEF Sight, Buffered, Full, Looking, Close, LookDone
  <2>3. CASE WarmedUp
    <3>1. /\ pc = "warm" /\ pc' = "begin" /\ Full
          /\ UNCHANGED <<setup, data, stamp, arriving, look>>
      BY <2>3 DEF WarmedUp, buffers
    <3>2. Buffered'
      BY <3>1 DEF Sight, Buffered, Full
    <3>3. Looking'
      BY <3>1 DEF Sight, Looking, Close, LookDone
    <3> QED BY <3>2, <3>3 DEF Sight
  <2>4. CASE Reference \/ CopyData \/ CopyStamps \/ Latest
    BY <2>4, ReferenceKeepsSight, CopyDataKeepsSight, CopyStampsKeepsSight, LatestKeepsSight
  <2>5. CASE Begin
    BY <2>0, <2>5, StartKeepsSight DEF Begin, StartLook, buffers
  <2>6. CASE Average
    BY <2>0, <2>6, StartKeepsSight DEF Average, StartLook, buffers
  <2>7. CASE Sleep
    BY <2>0, <2>7, StartKeepsSight DEF Sleep, StartLook, buffers
  <2>8. CASE Decide
    BY <2>0, <2>8, StartKeepsSight DEF Decide, buffers
  <2>9. CASE Fails \/ Truncated
    BY <2>0, <2>9, StartKeepsSight DEF Fails, Truncated, buffers
  <2>10. CASE Settle
    BY <2>2, <2>10 DEF Settle, buffers, control
  <2>11. CASE Roll \/ Exec
    <3>1. /\ pc = "act" /\ pc' = "sleep" /\ UNCHANGED <<setup, data, stamp, arriving, look>>
      BY <2>11 DEF Roll, Exec, buffers
    <3>2. Buffered'
      BY <3>1 DEF Sight, Buffered, Full
    <3>3. Looking'
      BY <3>1 DEF Sight, Looking, Close, LookDone
    <3> QED BY <3>2, <3>3 DEF Sight
  <2>12. CASE UNCHANGED vars
    BY <2>2, <2>12 DEF vars
  <2> QED BY <2>1, <2>3, <2>4, <2>5, <2>6, <2>7, <2>8, <2>9, <2>10, <2>11, <2>12 DEF Next
<1>3. Sight => Aligned
  <2> SUFFICES ASSUME Sight, LookDone, NEW k \in Keys
               PROVE  /\ look.got[k] # None
                      /\ look.got[k].whole => look.got[k].value = look.got[k].stamp
                      /\ look.try = 1 => \A l \in Keys :
                            look.got[k].whole /\ look.got[l].whole
                                => Distance(look.got[k].value, look.got[l].value) <= 2 * MaxDt
    BY DEF Aligned
  <2>1. /\ look.ref \in Nat
        /\ \A l \in Keys : look.got[l] # None /\ Close(look.got[l]) /\ look.got[l] \in Readings
    BY DEF Sight, Looking, LookDone
  <2>2. ASSUME look.try = 1, NEW l \in Keys, look.got[k].whole, look.got[l].whole
        PROVE  Distance(look.got[k].value, look.got[l].value) <= 2 * MaxDt
    <3>1. PICK x \in Nat, y \in Nat : /\ x = look.got[k].value /\ x = look.got[k].stamp
                                      /\ y = look.got[l].value /\ y = look.got[l].stamp
      BY <2>1, <2>2 DEF Close, Readings
    <3>2. Distance(x, look.ref) <= MaxDt /\ Distance(y, look.ref) <= MaxDt
      BY <2>1, <2>2, <3>1 DEF Close
    <3>3. Distance(x, y) <= 2 * MaxDt
      BY <2>1, <3>2, EnvAssumption DEF Distance
    <3> QED BY <3>1, <3>3
  <2> QED BY <2>1, <2>2 DEF Close
<1> QED BY <1>1, <1>2, <1>3, PTL DEF Spec
-----------------------------------------------------------------------------
(* The rate limiter.  A limited step is within the velocity, and the       *)
(* acceleration that is applied after it does not take it out again: the   *)
(* step before was within the velocity too.                                *)
LEMMA StepIsLimited ==
    ASSUME NEW c, NEW j, c.smooth \in BOOLEAN, c.velocity[j] \in Nat, c.acceleration[j] \in Nat,
           NEW wanted \in Int, NEW last \in -c.velocity[j]..c.velocity[j]
    PROVE  /\ LimitedStep(c, j, wanted, last) \in -c.velocity[j]..c.velocity[j]
           /\ c.smooth => LimitedStep(c, j, wanted, last) - last
                              \in -c.acceleration[j]..c.acceleration[j]
BY DEF LimitedStep, Least, Greatest

(* Over any sequence of predicted rows, in chunks or one by one, every     *)
(* step of a limited joint is within its velocity and every change of a    *)
(* step within its acceleration (CausalJointRateLimiter).                  *)
THEOREM LimiterKeepsItsLimits ==
    ASSUME NEW c, NEW rows, NEW after, NEW j \in c.joints,
           c.smooth \in BOOLEAN, c.velocity[j] \in Nat, c.acceleration[j] \in Nat,
           after[0].row[j] \in Int, after[0].step = [i \in c.joints |-> 0],
           \A i \in Nat : /\ rows[i + 1][j] \in Int /\ j \in DOMAIN rows[i + 1]
                          /\ after[i + 1] = LimitRow(c, after[i], rows[i + 1])
    PROVE  \A i \in Nat :
               /\ after[i + 1].row[j] - after[i].row[j] \in -c.velocity[j]..c.velocity[j]
               /\ c.smooth => \A last \in Int :
                      last = (IF i = 0 THEN 0 ELSE after[i].row[j] - after[i - 1].row[j])
                          => after[i + 1].row[j] - after[i].row[j] - last
                                 \in -c.acceleration[j]..c.acceleration[j]
<1> DEFINE Good(i) == after[i].row[j] \in Int /\ after[i].step[j] \in -c.velocity[j]..c.velocity[j]
<1>1. ASSUME NEW i \in Nat, Good(i)
      PROVE  /\ Good(i + 1) /\ after[i + 1].step[j] = after[i + 1].row[j] - after[i].row[j]
             /\ c.smooth => after[i + 1].step[j] - after[i].step[j]
                                \in -c.acceleration[j]..c.acceleration[j]
  <2>1. PICK r \in Int, p \in Int, s \in -c.velocity[j]..c.velocity[j] :
            r = rows[i + 1][j] /\ p = after[i].row[j] /\ s = after[i].step[j]
    BY <1>1
  <2>2. PICK d : d = LimitedStep(c, j, r - p, s)
    OBVIOUS
  <2>3. /\ d \in -c.velocity[j]..c.velocity[j]
        /\ c.smooth => d - s \in -c.acceleration[j]..c.acceleration[j]
    <3>1. r - p \in Int
      BY <2>1
    <3> HIDE <2>1
    <3> QED BY <2>2, <3>1, StepIsLimited
  <2>4. after[i + 1].step[j] = d /\ after[i + 1].row[j] = p + d
    <3>1. after[i + 1] = LimitRow(c, after[i], rows[i + 1]) /\ j \in DOMAIN rows[i + 1]
      OBVIOUS
    <3> QED BY <2>1, <2>2, <3>1 DEF LimitRow
  <2> QED BY <2>1, <2>3, <2>4
<1>2. Good(0)
  OBVIOUS
<1>3. \A i \in Nat : Good(i)
  <2>1. SUFFICES ASSUME {i \in Nat : ~Good(i)} # {} PROVE FALSE
    OBVIOUS
  <2>2. PICK m \in Nat : ~Good(m) /\ \A i \in Nat : ~Good(i) => m <= i
    BY <2>1, LeastNatural
  <2>3. m # 0 /\ m - 1 \in Nat
    BY <1>2, <2>2
  <2>4. Good(m - 1)
    BY <2>2, <2>3
  <2>5. Good((m - 1) + 1)
    BY <1>1, <2>3, <2>4
  <2> QED BY <2>2, <2>5
<1>4. SUFFICES ASSUME NEW i \in Nat
      PROVE  /\ after[i + 1].row[j] - after[i].row[j] \in -c.velocity[j]..c.velocity[j]
             /\ c.smooth => \A last \in Int :
                    last = (IF i = 0 THEN 0 ELSE after[i].row[j] - after[i - 1].row[j])
                        => after[i + 1].row[j] - after[i].row[j] - last
                               \in -c.acceleration[j]..c.acceleration[j]
  OBVIOUS
<1>5. Good(i) /\ Good(i + 1) /\ after[i + 1].step[j] = after[i + 1].row[j] - after[i].row[j]
      /\ (c.smooth => after[i + 1].step[j] - after[i].step[j]
                          \in -c.acceleration[j]..c.acceleration[j])
  BY <1>1, <1>3
<1>6. after[i].step[j] = IF i = 0 THEN 0 ELSE after[i].row[j] - after[i - 1].row[j]
  <2>1. CASE i = 0
    BY <2>1
  <2>2. CASE i # 0
    <3>1. i - 1 \in Nat /\ Good(i - 1)
      BY <1>3, <2>2
    <3>2. after[(i - 1) + 1].step[j] = after[(i - 1) + 1].row[j] - after[i - 1].row[j]
      BY <1>1, <3>1
    <3> QED BY <2>2, <3>2
  <2> QED BY <2>1, <2>2
<1>7. CASE c.smooth
  BY <1>5, <1>6, <1>7
<1>8. CASE ~c.smooth
  BY <1>5, <1>8
<1> QED BY <1>7, <1>8
=============================================================================

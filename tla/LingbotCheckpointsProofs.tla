-------------------------- MODULE LingbotCheckpointsProofs --------------------------
(***************************************************************************)
(* Proofs about LingbotCheckpoints: what the ranks resume from and how     *)
(* much a crash costs, for any number of ranks, steps, epochs and crashes. *)
(***************************************************************************)
EXTENDS LingbotCheckpoints, FiniteSetTheorems, WellFoundedInduction, TLAPS

Shared  == {"model", "optimizer"}
Whole(s) == \A p \in Parts : disk[s][p] = "good"
Saving  == {"prepare", "save", "prune"}
Running == {"train", "final"} \cup Saving

(* No epoch whose end is saved ends on a step that was saved already.      *)
SavesApart ==
    \A e \in 1..NumEpochs : Divides(SaveEpochs, e) => ~Divides(SaveSteps, e * TrainSteps)

(* A shared part is on disk only once every rank's file is there in full.  *)
SharedLast ==
    \A s \in Slots : \A p \in Shared : disk[s][p] # "absent" =>
        disk[s][p] = "good" /\ \A r \in Ranks : disk[s][r] = "good"

(* The running save starts from nothing and its shared parts come last.    *)
InOrder ==
    /\ pc # "save" => left = {}
    /\ pc = "save" =>
         /\ left # {}
         /\ \A p \in left : disk[step][p] = IF p \in begun \cap Ranks THEN "torn" ELSE "absent"
         /\ \A p \in Parts \ left : disk[step][p] = "good"
         /\ left \cap Ranks # {} => Shared \subseteq left \ begun

(* A step is saved once, and no checkpoint is ahead of the run.            *)
Fresh ==
    /\ pc = "prepare" => ~Complete(step)
    /\ pc \in Running => \A s \in Slots : s > step => ~Complete(s)

(* Where the run is between its epochs; a checkpoint it has made inside of *)
(* an epoch is one of save_steps.                                          *)
InEpoch ==
    /\ epoch < NumEpochs /\ epoch * TrainSteps <= step /\ step <= (epoch + 1) * TrainSteps
    /\ step > epoch * TrainSteps /\ (pc \in Saving \/ Complete(step)) => Divides(SaveSteps, step)
Place ==
    /\ pc = "down" => saved = 0
    /\ pc \in Saving => step > 0 /\ saved = step
    /\ pc = "train" \/ (pc \in Saving /\ after = "train") => InEpoch
    /\ pc \in {"final", "done"} \/ (pc \in Saving /\ after # "train") => step = LastOne

(* A saved step is still on disk when the run has not moved on.            *)
Kept ==
    /\ pc = "prune" => Complete(step)
    /\ pc \in {"train", "final"} => saved <= step /\ (saved = step /\ step > 0 => Complete(step))
    /\ pc = "done" => Complete(step)

(* Checkpoints are of save_steps or of the end of an epoch.                *)
Reason(s) == Divides(SaveSteps, s) \/ \E e \in 0..NumEpochs : s = e * TrainSteps
Reasons   == \A s \in Slots : Complete(s) => Reason(s)

CheckpointInv == TypeOK /\ SharedLast /\ InOrder /\ Fresh /\ Place /\ Kept /\ Reasons
-----------------------------------------------------------------------------
(* Arithmetic of steps and epochs.                                         *)
LEMMA Epochs ==
    /\ LastOne \in Nat \ {0}
    /\ \A e \in 0..NumEpochs :
         /\ e * TrainSteps \in Nat /\ e * TrainSteps <= LastOne
         /\ (e + 1) * TrainSteps = e * TrainSteps + TrainSteps
         /\ e < NumEpochs => (e + 1) * TrainSteps <= LastOne
         /\ e = NumEpochs => e * TrainSteps = LastOne
<1> USE LingbotAssumption DEF LingbotAssumption, LastOne
<1>1. LastOne \in Nat \ {0}
  OBVIOUS
<1>2. ASSUME NEW e \in 0..NumEpochs
      PROVE  e * TrainSteps \in Nat /\ (e + 1) * TrainSteps = e * TrainSteps + TrainSteps
  OBVIOUS
<1>3. ASSUME NEW e \in 0..NumEpochs, NEW f \in 0..NumEpochs, e <= f
      PROVE  e * TrainSteps <= f * TrainSteps
  BY <1>3
<1>4. NumEpochs * TrainSteps = LastOne /\ NumEpochs \in 0..NumEpochs
  OBVIOUS
<1>5. ASSUME NEW e \in 0..NumEpochs, e < NumEpochs
      PROVE  (e + 1) * TrainSteps <= LastOne
  <2>1. e + 1 \in 0..NumEpochs /\ e + 1 <= NumEpochs
    BY <1>5
  <2>2. (e + 1) * TrainSteps <= NumEpochs * TrainSteps
    BY <1>3, <2>1, <1>4
  <2> QED BY <2>2, <1>4
<1>6. ASSUME NEW e \in 0..NumEpochs PROVE e * TrainSteps <= LastOne
  <2>1. e * TrainSteps <= NumEpochs * TrainSteps
    BY <1>3, <1>4
  <2> QED BY <2>1, <1>4
<1> QED BY <1>1, <1>2, <1>4, <1>5, <1>6

LEMMA Earlier ==
    ASSUME NEW e \in 0..NumEpochs, NEW f \in 0..NumEpochs, e <= f
    PROVE  e * TrainSteps <= f * TrainSteps
BY LingbotAssumption DEF LingbotAssumption

LEMMA BetweenEpochs ==
    ASSUME NEW f \in 0..NumEpochs, NEW n \in 0..LastOne,
           f * TrainSteps < n, n < f * TrainSteps + TrainSteps
    PROVE  \A e \in 0..NumEpochs : n # e * TrainSteps
<1> SUFFICES ASSUME NEW e \in 0..NumEpochs PROVE n # e * TrainSteps
  OBVIOUS
<1>1. f * TrainSteps \in Nat /\ e * TrainSteps \in Nat /\ n \in Nat
  BY Epochs
<1>2. CASE e <= f
  <2>1. e * TrainSteps <= f * TrainSteps
    BY <1>2, Earlier
  <2> QED BY <1>1, <2>1
<1>3. CASE e > f
  <2>1. f + 1 \in 0..NumEpochs /\ f + 1 <= e
    BY <1>3, LingbotAssumption DEF LingbotAssumption
  <2>2. (f + 1) * TrainSteps <= e * TrainSteps
    <3> DEFINE g == f + 1
    <3>1. g \in 0..NumEpochs /\ g <= e
      BY <2>1
    <3> HIDE DEF g
    <3>2. g * TrainSteps <= e * TrainSteps
      BY <3>1, Earlier
    <3> QED BY <3>2 DEF g
  <2>3. (f + 1) * TrainSteps = f * TrainSteps + TrainSteps
    BY Epochs
  <2> QED BY <1>1, <2>2, <2>3, LingbotAssumption DEF LingbotAssumption
<1> QED BY <1>2, <1>3, LingbotAssumption DEF LingbotAssumption

LEMMA EpochOf ==
    ASSUME NEW s \in 0..LastOne
    PROVE  LET e == s \div TrainSteps
           IN  /\ e \in 0..NumEpochs /\ e * TrainSteps <= s /\ s < e * TrainSteps + TrainSteps
               /\ e = NumEpochs => s = LastOne
<1> USE LingbotAssumption DEF LingbotAssumption
<1> DEFINE e == s \div TrainSteps
<1>1. s \in Nat /\ TrainSteps \in Nat \ {0}
  BY Epochs
<1>2. e \in Nat /\ s = e * TrainSteps + (s % TrainSteps) /\ s % TrainSteps \in 0..(TrainSteps - 1)
  BY <1>1
<1> HIDE DEF e
<1>3. e * TrainSteps <= s /\ s < e * TrainSteps + TrainSteps
  BY <1>1, <1>2
<1>4. e <= NumEpochs
  <2>1. SUFFICES ASSUME e >= NumEpochs + 1 PROVE FALSE
    BY <1>2
  <2>2. e * TrainSteps >= (NumEpochs + 1) * TrainSteps
    BY <2>1, <1>2
  <2>3. (NumEpochs + 1) * TrainSteps = LastOne + TrainSteps
    BY Epochs DEF LastOne
  <2> QED BY <1>1, <1>3, <2>2, <2>3, Epochs, <1>2
<1>5. e = NumEpochs => s = LastOne
  BY <1>1, <1>3, Epochs
<1> QED BY <1>2, <1>3, <1>4, <1>5 DEF e

-----------------------------------------------------------------------------
(* The greatest of a bounded set of naturals.                              *)
LEMMA Greatest ==
    ASSUME NEW n \in Nat, NEW S \in SUBSET (0..n), S # {}
    PROVE  Max(S) \in S /\ \A x \in S : Max(S) >= x
<1> DEFINE R == OpToRel(<, Nat)
           M == {n - x : x \in S}
<1>1. \A i, j \in Nat : j < i => <<j, i>> \in R
  BY Zenon DEF OpToRel
<1>2. IsWellFoundedOn(R, Nat)
  BY NatLessThanWellFounded
<1> HIDE DEF R
<1>3. PICK x \in S : TRUE
  OBVIOUS
<1>4. n - x \in M /\ M \in SUBSET Nat
  OBVIOUS
<1>5. PICK m \in M : \A k \in M : <<k, m>> \notin R
  BY <1>2, <1>4, WFMin
<1>6. \A k \in M : ~(k < m)
  BY <1>1, <1>4, <1>5
<1>7. PICK y \in S : m = n - y
  BY <1>5
<1>8. \A z \in S : y >= z
  <2>1. ASSUME NEW z \in S PROVE y >= z
    <3>1. ~(n - z < n - y)
      BY <1>6, <1>7
    <3> QED BY <3>1
  <2> QED BY <2>1
<1> QED BY <1>8 DEF Max

(* Keeping the newest n of some checkpoints keeps the newest one.          *)
LEMMA NewestIsKept ==
    ASSUME NEW n \in Nat \ {0}, NEW steps \in SUBSET Slots, NEW s \in steps,
           \A t \in steps : t <= s
    PROVE  s \in NewestOf(n, steps)
<1>1. Slots \subseteq Nat
  BY Epochs DEF Slots
<1>2. {t \in steps : t > s} = {}
  <2>1. ASSUME NEW t \in steps PROVE ~(t > s)
    BY <1>1
  <2> QED BY <2>1
<1>3. Cardinality({t \in steps : t > s}) = 0
  BY <1>2, FS_EmptySet
<1> QED BY <1>3 DEF NewestOf

LEMMA Multiples ==
    ASSUME NEW n \in Nat \ {0}, NEW m \in Nat
    PROVE  (m * n) % n = 0
<1> DEFINE d == (m * n) \div n
           r == (m * n) % n
<1>1. m * n \in Nat
  OBVIOUS
<1>2. d \in Int /\ r \in 0..(n - 1) /\ m * n = d * n + r
  BY <1>1
<1> HIDE DEF d, r
<1>3. r = (m - d) * n
  BY <1>2
<1>4. m - d <= 0
  <2>1. m - d >= 1 => (m - d) * n >= n
    BY <1>2
  <2> QED BY <1>2, <1>3, <2>1
<1>5. m - d >= 0
  <2>1. m - d <= -1 => (m - d) * n <= -n
    BY <1>2
  <2> QED BY <1>2, <1>3, <2>1
<1>6. m - d = 0
  BY <1>2, <1>4, <1>5
<1> QED BY <1>2, <1>3, <1>6 DEF r

(* A number of SaveSteps consecutive steps holds one that is saved.        *)
LEMMA SavedOften ==
    ASSUME SaveSteps > 0, NEW c \in Nat
    PROVE  \E k \in (c + 1)..(c + SaveSteps) : Divides(SaveSteps, k)
<1> USE LingbotAssumption DEF LingbotAssumption
<1> DEFINE q == c \div SaveSteps
           k == (q + 1) * SaveSteps
<1>1. q \in Nat /\ c = q * SaveSteps + (c % SaveSteps) /\ c % SaveSteps \in 0..(SaveSteps - 1)
  OBVIOUS
<1>2. k = q * SaveSteps + SaveSteps /\ q * SaveSteps \in Nat
  BY <1>1
<1>3. k \in (c + 1)..(c + SaveSteps)
  BY <1>1, <1>2
<1>4. k % SaveSteps = 0
  BY <1>1, Multiples
<1> QED BY <1>3, <1>4 DEF Divides
-----------------------------------------------------------------------------
(* The inductive invariant, one lemma for each action.                     *)
LEMMA SavingHasReason ==
    ASSUME TypeOK, Place, pc \in Saving
    PROVE  Reason(step)
<1> USE LingbotAssumption DEF LingbotAssumption
<1>1. CASE after = "train"
  <2>1. InEpoch /\ step \in Nat /\ epoch \in 0..NumEpochs
    BY <1>1, Epochs DEF Place, TypeOK
  <2>2. step > epoch * TrainSteps => Divides(SaveSteps, step)
    BY <2>1 DEF InEpoch
  <2>3. step >= epoch * TrainSteps
    BY <2>1, Epochs DEF InEpoch
  <2>4. step = epoch * TrainSteps \/ step > epoch * TrainSteps
    BY <2>1, <2>3, Epochs
  <2> QED BY <2>1, <2>2, <2>4 DEF Reason
<1>2. CASE after # "train"
  <2>1. step = LastOne
    BY <1>2 DEF Place
  <2>2. NumEpochs \in 0..NumEpochs /\ LastOne = NumEpochs * TrainSteps
    BY DEF LastOne
  <2> QED BY <2>1, <2>2 DEF Reason
<1> QED BY <1>1, <1>2

LEMMA ReasonsKept ==
    ASSUME CheckpointInv,
           \A s \in Slots : Complete(s)' => Complete(s) \/ (pc = "save" /\ s = step)
    PROVE  Reasons'
<1>1. pc = "save" => Reason(step)
  BY SavingHasReason DEF CheckpointInv, Saving
<1>2. \A s \in Slots : Complete(s)' => Reason(s)
  BY <1>1 DEF CheckpointInv, Reasons
<1>3. \A s \in Slots : Reason(s)' <=> Reason(s)
  BY DEF Reason
<1> QED BY <1>2, <1>3 DEF Reasons

LEMMA InitCheckpoints == Init => CheckpointInv
<1> SUFFICES ASSUME Init PROVE CheckpointInv
  OBVIOUS
<1> USE LingbotAssumption, Epochs DEF Init, LingbotAssumption
<1>1. TypeOK
  BY DEF TypeOK, Nothing
<1>2. \A s \in Slots, p \in Parts : disk[s][p] = "absent"
  BY DEF Nothing
<1>3. \A s \in Slots : ~Complete(s)
  BY <1>2 DEF Complete, Parts
<1>4. SharedLast
  BY <1>2 DEF SharedLast, Shared, Parts
<1>5. Place
  BY DEF Place, InEpoch, Saving
<1> QED BY <1>1, <1>3, <1>4, <1>5 DEF CheckpointInv, InOrder, Fresh, Kept, Reasons

LEMMA TrainStepKeeps ==
    ASSUME CheckpointInv, TrainStep
    PROVE  CheckpointInv'
<1> USE LingbotAssumption, Epochs DEF LingbotAssumption, TrainStep
<1>1. step \in Nat /\ epoch \in 0..NumEpochs /\ epoch < NumEpochs /\ InEpoch
  BY DEF CheckpointInv, TypeOK, Place, InEpoch
<1>2. step + 1 \in Slots /\ step + 1 <= (epoch + 1) * TrainSteps /\ step + 1 > epoch * TrainSteps
  BY <1>1 DEF InEpoch, Slots
<1>3. reached' \in 0..LastOne
  <2>1. {reached, step + 1} \in SUBSET (0..LastOne) /\ {reached, step + 1} # {}
    BY <1>2 DEF CheckpointInv, TypeOK, Slots
  <2> QED BY <2>1, Greatest
<1>4. TypeOK'
  BY <1>2, <1>3 DEF CheckpointInv, TypeOK, Slots
<1>5. \A s \in Slots : s > step => ~Complete(s)'
  BY DEF CheckpointInv, Fresh, Running, Complete
<1>6. SharedLast' /\ InOrder' /\ Fresh'
  <2>1. pc = "train" /\ pc' \in {"train", "prepare"} /\ step' = step + 1 /\ disk' = disk /\ left' = left
    OBVIOUS
  <2>2. SharedLast'
    BY ONLY <2>1, CheckpointInv DEF CheckpointInv, SharedLast
  <2>3. InOrder'
    BY ONLY <2>1, CheckpointInv DEF CheckpointInv, InOrder
  <2>4. \A s \in Slots : s > step + 1 => ~Complete(s)'
    BY <1>1, <1>5 DEF Slots
  <2>5. (~Complete(step))'
    BY ONLY <1>1, <1>2, <1>5, <2>1 DEF Complete, Slots
  <2>6. Fresh'
    BY ONLY <2>1, <2>4, <2>5 DEF Fresh
  <2> QED BY <2>2, <2>3, <2>6
<1>7. (~Complete(step))'
  BY <1>1, <1>2, <1>5 DEF Complete
<1>8. pc' = "train" \/ (pc' = "prepare" /\ after' = "train" /\ saved' = step' /\ Divides(SaveSteps, step'))
  OBVIOUS
<1>9. InEpoch'
  BY <1>1, <1>2, <1>7, <1>8 DEF InEpoch, Saving
<1>10. Place'
  BY <1>1, <1>8, <1>9 DEF Place, Saving
<1>11. pc' = "train" => saved' = saved
  OBVIOUS
<1>12. Kept'
  BY <1>1, <1>8, <1>11 DEF Kept, CheckpointInv, TypeOK
<1>13. Reasons'
  <2>1. \A s \in Slots : Complete(s)' => Complete(s)
    BY DEF Complete
  <2> QED BY <2>1, ReasonsKept
<1> QED BY <1>4, <1>6, <1>10, <1>12, <1>13 DEF CheckpointInv

LEMMA EpochEndKeeps ==
    ASSUME SavesApart, CheckpointInv, EpochEnd
    PROVE  CheckpointInv'
<1> USE LingbotAssumption, Epochs DEF LingbotAssumption, EpochEnd
<1>1. step \in Nat /\ epoch \in 0..NumEpochs /\ epoch < NumEpochs /\ InEpoch
  BY DEF CheckpointInv, TypeOK, Place, InEpoch
<1>2. epoch + 1 \in 1..NumEpochs /\ step > epoch * TrainSteps /\ step > 0 /\ step <= LastOne
  BY <1>1
<1>3. after' \in {"train", "final"} /\ pc' \in {after', "prepare"}
      /\ (pc' = "prepare" => Divides(SaveEpochs, epoch + 1) /\ saved' = step)
      /\ (pc' # "prepare" => saved' = saved)
  OBVIOUS
<1>4. TypeOK'
  <2>1. saved' \in 0..LastOne
    BY <1>2, <1>3 DEF CheckpointInv, TypeOK
  <2> QED BY <1>2, <1>3, <2>1 DEF CheckpointInv, TypeOK
<1>5. pc' = "prepare" => ~Complete(step)
  <2>1. Divides(SaveEpochs, epoch + 1) => ~Divides(SaveSteps, step)
    BY <1>2 DEF SavesApart
  <2>2. Complete(step) => Divides(SaveSteps, step)
    BY <1>1, <1>2 DEF InEpoch
  <2> QED BY <1>3, <2>1, <2>2
<1>6. \A s \in Slots : Complete(s)' <=> Complete(s)
  BY DEF Complete
<1>7. SharedLast' /\ InOrder' /\ Fresh'
  <2>1. step \in Slots
    BY <1>2, <1>1 DEF Slots
  <2> QED BY <1>3, <1>5, <1>6, <2>1 DEF CheckpointInv, SharedLast, InOrder, Fresh, Running, Saving
<1>8. after' = "train" => InEpoch'
  <2>1. after' = "train" => epoch + 1 < NumEpochs
    BY DEF MoreEpochs
  <2>2. (epoch + 2) * TrainSteps = (epoch + 1) * TrainSteps + TrainSteps
    BY <1>1
  <2>3. epoch' = epoch + 1 /\ step' = (epoch + 1) * TrainSteps /\ (epoch + 1) + 1 = epoch + 2
    BY <1>1
  <2> QED BY <1>1, <2>1, <2>2, <2>3 DEF InEpoch
<1>9. after' = "final" => step = LastOne
  <2>1. after' = "final" => epoch + 1 = NumEpochs
    BY <1>1, <1>2 DEF MoreEpochs
  <2> QED BY <2>1, <1>2
<1>10. Place'
  BY <1>1, <1>2, <1>3, <1>8, <1>9 DEF Place, Saving
<1>11. Kept'
  <2>1. step \in Slots
    BY <1>2, <1>1 DEF Slots
  <2> QED BY <1>1, <1>3, <1>6, <2>1 DEF Kept, CheckpointInv, TypeOK
<1>12. Reasons'
  BY <1>6, ReasonsKept
<1> QED BY <1>4, <1>7, <1>10, <1>11, <1>12 DEF CheckpointInv

LEMMA FinalKeeps ==
    ASSUME CheckpointInv, Final
    PROVE  CheckpointInv'
<1> USE LingbotAssumption, Epochs DEF LingbotAssumption, Final
<1>1. step = LastOne /\ step \in Slots /\ (saved = step => Complete(step))
  BY DEF CheckpointInv, Place, Kept, Slots
<1>2. Complete(step)' <=> Complete(step)
  BY DEF Complete
<1>3. \/ pc' = "done" /\ Complete(step) /\ after' = after
      \/ pc' = "prepare" /\ after' = "done" /\ ~Complete(step)
  BY <1>1 DEF AlreadySaved
<1>4. TypeOK'
  BY <1>1, <1>3 DEF CheckpointInv, TypeOK
<1>5. SharedLast' /\ InOrder'
  BY <1>3 DEF CheckpointInv, SharedLast, InOrder
<1>6. Fresh'
  BY <1>1, <1>2, <1>3 DEF Fresh, Slots
<1>7. Place' /\ Kept'
  BY <1>1, <1>2, <1>3 DEF Place, Kept, Saving
<1>8. Reasons'
  <2>1. \A s \in Slots : Complete(s)' => Complete(s)
    BY DEF Complete
  <2> QED BY <2>1, ReasonsKept
<1> QED BY <1>4, <1>5, <1>6, <1>7, <1>8 DEF CheckpointInv

(* What a deletion leaves.                                                 *)
LEMMA Deleting ==
    ASSUME TypeOK, NEW steps \in SUBSET Slots, disk' = Without(steps)
    PROVE  /\ disk' \in [Slots -> [Parts -> {"absent", "torn", "good"}]]
           /\ \A s \in Slots, p \in Parts :
                 disk'[s][p] = IF s \in steps THEN "absent" ELSE disk[s][p]
           /\ \A s \in Slots : Complete(s)' <=> Complete(s) /\ s \notin steps
<1>1. /\ disk' \in [Slots -> [Parts -> {"absent", "torn", "good"}]]
      /\ \A s \in Slots, p \in Parts : disk'[s][p] = IF s \in steps THEN "absent" ELSE disk[s][p]
  BY DEF TypeOK, Without, Nothing
<1>2. "model" \in Parts
  BY DEF Parts
<1>3. \A s \in Slots : Complete(s)' <=> Complete(s) /\ s \notin steps
  BY <1>1, <1>2 DEF Complete
<1> QED BY <1>1, <1>3

LEMMA DeletingSharedLast ==
    ASSUME TypeOK, SharedLast, NEW steps \in SUBSET Slots, disk' = Without(steps)
    PROVE  SharedLast'
<1>1. ASSUME NEW s \in Slots, NEW p \in Shared, disk'[s][p] # "absent"
      PROVE  disk'[s][p] = "good" /\ \A r \in Ranks : disk'[s][r] = "good"
  <2>1. p \in Parts /\ Ranks \subseteq Parts
    BY DEF Parts, Shared
  <2>2. s \notin steps /\ \A q \in Parts : disk'[s][q] = disk[s][q]
    BY <1>1, <2>1, Deleting
  <2>3. disk[s][p] = "good" /\ \A r \in Ranks : disk[s][r] = "good"
    BY <1>1, <2>1, <2>2 DEF SharedLast
  <2> QED BY <2>1, <2>2, <2>3
<1> QED BY <1>1 DEF SharedLast

LEMMA PrepareKeeps ==
    ASSUME CheckpointInv, Prepare
    PROVE  CheckpointInv'
<1> USE LingbotAssumption, Epochs DEF LingbotAssumption
<1>0. TypeOK /\ SharedLast /\ pc = "prepare" /\ pc' = "save" /\ left' = Parts
      /\ UNCHANGED <<step, epoch, saved, after, begun, crashes, reached, resumed>>
  BY DEF CheckpointInv, Prepare
<1>1. step \in Slots /\ begun = {} /\ ~Complete(step)
  BY <1>0 DEF CheckpointInv, TypeOK, Place, Saving, Slots, Fresh, InOrder
<1>2. PICK steps \in SUBSET Slots : step \in steps /\ disk' = Without(steps)
  BY <1>1 DEF Prepare
<1>3. TypeOK'
  BY <1>0, <1>1, <1>2, Deleting DEF TypeOK
<1>4. SharedLast'
  BY <1>0, <1>2, DeletingSharedLast
<1>5. InOrder'
  <2>1. \A p \in Parts : disk'[step][p] = "absent"
    BY <1>0, <1>1, <1>2, Deleting
  <2>2. Parts # {} /\ Shared \subseteq Parts
    BY DEF Parts, Shared
  <2> QED BY <1>0, <1>1, <2>1, <2>2 DEF InOrder
<1>6. Fresh'
  BY <1>0, <1>2, Deleting DEF CheckpointInv, Fresh, Running, Saving
<1>7. Place' /\ Kept'
  <2>1. InEpoch => InEpoch'
    BY <1>0 DEF InEpoch, Saving
  <2> QED BY <1>0, <2>1 DEF CheckpointInv, Place, Kept, Saving
<1>8. Reasons'
  <2>1. \A s \in Slots : Complete(s)' => Complete(s)
    BY <1>0, <1>2, Deleting
  <2> QED BY <2>1, ReasonsKept
<1> QED BY <1>3, <1>4, <1>5, <1>6, <1>7, <1>8 DEF CheckpointInv

(* What a write changes.                                                   *)
LEMMA Writing ==
    ASSUME TypeOK, step \in Slots, NEW p \in Parts, NEW v \in {"torn", "good"},
           disk' = [disk EXCEPT ![step][p] = v]
    PROVE  /\ disk' \in [Slots -> [Parts -> {"absent", "torn", "good"}]]
           /\ \A s \in Slots, q \in Parts :
                 disk'[s][q] = IF s = step /\ q = p THEN v ELSE disk[s][q]
           /\ \A s \in Slots : s # step => (Complete(s)' <=> Complete(s))
<1>1. disk \in [Slots -> [Parts -> {"absent", "torn", "good"}]]
  BY DEF TypeOK
<1>2. disk' = [disk EXCEPT ![step] = [disk[step] EXCEPT ![p] = v]]
  BY <1>1
<1>3. disk[step] \in [Parts -> {"absent", "torn", "good"}]
  BY <1>1
<1>4. [disk[step] EXCEPT ![p] = v] \in [Parts -> {"absent", "torn", "good"}]
  BY <1>3
<1>5. disk' \in [Slots -> [Parts -> {"absent", "torn", "good"}]]
  BY <1>1, <1>2, <1>4
<1>6. \A s \in Slots, q \in Parts : disk'[s][q] = IF s = step /\ q = p THEN v ELSE disk[s][q]
  BY <1>1, <1>2, <1>3
<1>7. \A s \in Slots : s # step => (Complete(s)' <=> Complete(s))
  BY <1>6 DEF Complete
<1> QED BY <1>5, <1>6, <1>7

LEMMA RanksAndShared ==
    Parts = Shared \cup Ranks /\ Shared \cap Ranks = {}
BY LingbotAssumption DEF Parts, Shared, LingbotAssumption

LEMMA BeginWriteKeeps ==
    ASSUME ExtraFirst, CheckpointInv, NEW p \in Parts, BeginWrite(p)
    PROVE  CheckpointInv'
<1> USE DEF BeginWrite
<1>0. TypeOK /\ SharedLast /\ pc = "save" /\ pc' = "save" /\ p \in left /\ p \notin begun
      /\ begun' = begun \cup {p} /\ disk[step][p] = "absent"
      /\ UNCHANGED <<step, epoch, saved, after, left, crashes, reached, resumed>>
  BY DEF CheckpointInv, MayWrite, InOrder
<1>1. step \in Slots
  BY <1>0, Epochs DEF CheckpointInv, TypeOK, Place, Saving, Slots
<1>2. CASE p \in Ranks
  <2>1. disk' = [disk EXCEPT ![step][p] = "torn"]
    BY <1>2
  <2>2. \A q \in Shared : disk[step][q] = "absent"
    BY <1>0, <1>2 DEF CheckpointInv, InOrder
  <2>3. TypeOK'
    BY <1>0, <1>1, <2>1, Writing DEF TypeOK
  <2>4. SharedLast'
    <3>1. ASSUME NEW s \in Slots, NEW q \in Shared, disk'[s][q] # "absent"
          PROVE  disk'[s][q] = "good" /\ \A r \in Ranks : disk'[s][r] = "good"
      <4>1. q \in Parts /\ q # p /\ Ranks \subseteq Parts
        BY <1>2, RanksAndShared
      <4>2. disk'[s][q] = disk[s][q]
        BY <1>0, <1>1, <2>1, <4>1, Writing
      <4>3. s # step
        BY <2>2, <3>1, <4>2
      <4>4. \A x \in Parts : disk'[s][x] = disk[s][x]
        BY <1>0, <1>1, <2>1, <4>3, Writing
      <4> QED BY <1>0, <3>1, <4>1, <4>4 DEF SharedLast
    <3> QED BY <3>1 DEF SharedLast
  <2>5. \A q \in Parts : disk'[step][q] = IF q = p THEN "torn" ELSE disk[step][q]
    BY ZenonT(30), <1>0, <1>1, <2>1, Writing
  <2>6. InOrder'
    <3>1. left \subseteq Parts /\ Shared \subseteq left \ begun /\ p \notin Shared
      BY <1>0, <1>2, RanksAndShared DEF CheckpointInv, TypeOK, InOrder
    <3>2. \A q \in left : disk[step][q] = IF q \in begun \cap Ranks THEN "torn" ELSE "absent"
      BY <1>0 DEF CheckpointInv, InOrder
    <3>3. \A q \in Parts \ left : disk[step][q] = "good"
      BY <1>0 DEF CheckpointInv, InOrder
    <3>4. \A q \in left : disk'[step][q] = IF q \in begun' \cap Ranks THEN "torn" ELSE "absent"
      BY <1>0, <1>2, <2>5, <3>1, <3>2
    <3>5. \A q \in Parts \ left : disk'[step][q] = "good"
      BY <1>0, <2>5, <3>3
    <3> QED BY <1>0, <3>1, <3>4, <3>5 DEF InOrder
  <2>7. Fresh'
    <3>1. \A s \in Slots : s > step => s # step
      BY <1>1 DEF Slots
    <3>2. \A s \in Slots : s > step => ~Complete(s)
      BY <1>0 DEF CheckpointInv, Fresh, Running, Saving
    <3>3. \A s \in Slots : s # step => (Complete(s)' <=> Complete(s))
      BY <1>0, <1>1, <2>1, Writing
    <3> QED BY <1>0, <3>1, <3>2, <3>3 DEF Fresh
  <2>8. InEpoch => InEpoch'
    BY <1>0 DEF InEpoch, Saving
  <2>9. Place' /\ Kept'
    BY <1>0, <2>8 DEF CheckpointInv, Place, Kept, Saving
  <2>10. Reasons'
    <3>1. \A s \in Slots : s # step => (Complete(s)' <=> Complete(s))
      BY <1>0, <1>1, <2>1, Writing
    <3> QED BY <1>0, <3>1, ReasonsKept
  <2> QED BY <2>3, <2>4, <2>6, <2>7, <2>9, <2>10 DEF CheckpointInv
<1>3. CASE p \notin Ranks
  <2>1. disk' = disk /\ left \cap Ranks = {}
    BY <1>0, <1>3 DEF MayWrite
  <2>2. TypeOK' /\ SharedLast' /\ Fresh' /\ Place' /\ Kept'
    <3>1. InEpoch => InEpoch'
      BY <1>0 DEF InEpoch, Saving
    <3>2. \A s : Complete(s)' <=> Complete(s)
      BY <2>1 DEF Complete
    <3>3. Place'
      BY <1>0, <3>1 DEF CheckpointInv, Place, Saving
    <3>4. TypeOK' /\ SharedLast'
      BY <1>0, <2>1 DEF TypeOK, SharedLast
    <3>5. Fresh' /\ Kept'
      BY <1>0, <3>2 DEF CheckpointInv, Fresh, Kept, Running, Saving
    <3> QED BY <3>3, <3>4, <3>5
  <2>3. InOrder'
    BY <1>0, <1>3, <2>1 DEF CheckpointInv, InOrder
  <2>4. Reasons'
    <3>1. \A s \in Slots : Complete(s)' => Complete(s)
      BY <2>1 DEF Complete
    <3> QED BY <3>1, ReasonsKept
  <2> QED BY <2>2, <2>3, <2>4 DEF CheckpointInv
<1> QED BY <1>2, <1>3

LEMMA EndWriteKeeps ==
    ASSUME CheckpointInv, NEW p \in Parts, EndWrite(p)
    PROVE  CheckpointInv'
<1> USE DEF EndWrite
<1>0. TypeOK /\ SharedLast /\ pc = "save" /\ p \in left /\ p \in begun /\ left \subseteq Parts
      /\ begun \subseteq left
      /\ begun' = begun \ {p} /\ left' = left \ {p}
      /\ pc' = (IF left' = {} THEN "prune" ELSE "save")
      /\ UNCHANGED <<step, epoch, saved, after, crashes, reached, resumed>>
  BY DEF CheckpointInv, TypeOK
<1>1. step \in Slots
  BY <1>0, Epochs DEF CheckpointInv, TypeOK, Place, Saving, Slots
<1>2. \A s \in Slots, q \in Parts :
         disk'[s][q] = IF s = step /\ q = p THEN "good" ELSE disk[s][q]
  BY <1>0, <1>1, Writing
<1>3. TypeOK'
  BY <1>0, <1>1, Writing DEF TypeOK
<1>4. /\ \A q \in left : disk[step][q] = IF q \in begun \cap Ranks THEN "torn" ELSE "absent"
      /\ \A q \in Parts \ left : disk[step][q] = "good"
      /\ left \cap Ranks # {} => Shared \subseteq left \ begun
  BY <1>0 DEF CheckpointInv, InOrder
<1>5. SharedLast'
  <2>1. ASSUME NEW s \in Slots, NEW q \in Shared, disk'[s][q] # "absent"
        PROVE  disk'[s][q] = "good" /\ \A r \in Ranks : disk'[s][r] = "good"
    <3>1. q \in Parts /\ Ranks \subseteq Parts
      BY RanksAndShared
    <3>2. CASE s = step /\ q = p
      <4>1. left \cap Ranks = {}
        BY <1>0, <1>4, <3>2
      <4>2. \A r \in Ranks : disk[step][r] = "good"
        BY <1>4, <3>1, <4>1
      <4> QED BY <1>2, <3>1, <3>2, <4>2
    <3>3. CASE ~(s = step /\ q = p)
      <4>1. disk[s][q] = "good" /\ \A r \in Ranks : disk[s][r] = "good"
        BY <1>0, <1>2, <2>1, <3>1, <3>3 DEF SharedLast
      <4> QED BY <1>2, <3>1, <4>1
    <3> QED BY <3>2, <3>3
  <2> QED BY <2>1 DEF SharedLast
<1>6. InOrder'
  <2>1. \A q \in left' : disk'[step][q] = IF q \in begun' \cap Ranks THEN "torn" ELSE "absent"
    BY <1>0, <1>1, <1>2, <1>4
  <2>2. \A q \in Parts \ left' : disk'[step][q] = "good"
    BY <1>0, <1>1, <1>2, <1>4
  <2>3. left' \cap Ranks # {} => Shared \subseteq left' \ begun'
    BY <1>0, <1>4
  <2> QED BY <1>0, <2>1, <2>2, <2>3 DEF InOrder
<1>7. Fresh'
  <2>1. \A s \in Slots : s > step => s # step
    BY <1>1 DEF Slots
  <2>2. \A s \in Slots : s > step => ~Complete(s)
    BY <1>0 DEF CheckpointInv, Fresh, Running, Saving
  <2>3. \A s \in Slots : s # step => (Complete(s)' <=> Complete(s))
    BY <1>0, <1>1, Writing
  <2> QED BY <1>0, <2>1, <2>2, <2>3 DEF Fresh
<1>8. InEpoch => InEpoch'
  BY <1>0 DEF InEpoch, Saving, CheckpointInv, Place
<1>9. pc' = "prune" => Complete(step)'
  <2>1. left' = {} => \A q \in Parts : disk'[step][q] = "good"
    BY <1>0, <1>1, <1>2, <1>4
  <2> QED BY <1>0, <2>1 DEF Complete
<1>10. Place' /\ Kept'
  BY <1>0, <1>8, <1>9 DEF CheckpointInv, Place, Kept, Saving
<1>11. Reasons'
  <2>1. \A s \in Slots : s # step => (Complete(s)' <=> Complete(s))
    BY <1>0, <1>1, Writing
  <2> QED BY <1>0, <2>1, ReasonsKept
<1> QED BY <1>3, <1>5, <1>6, <1>7, <1>10, <1>11 DEF CheckpointInv

LEMMA PruneKeeps ==
    ASSUME CheckpointInv, Prune
    PROVE  CheckpointInv'
<1> USE LingbotAssumption DEF LingbotAssumption
<1>0. TypeOK /\ SharedLast /\ Place /\ pc = "prune" /\ pc' = after
      /\ after \in {"train", "final", "done"} /\ Complete(step)
      /\ UNCHANGED <<step, epoch, saved, after, left, begun, crashes, reached, resumed>>
  BY DEF CheckpointInv, Prune, TypeOK, Kept
<1>1. step \in Slots /\ saved = step /\ step > 0
  BY <1>0, Epochs DEF TypeOK, Place, Saving, Slots
<1>2. \A s \in Slots : s > step => ~Complete(s)
  BY <1>0 DEF CheckpointInv, Fresh, Running, Saving
<1>3. PICK steps \in SUBSET Slots : step \notin steps /\ disk' = Without(steps)
  <2>1. CASE KeepLast > 0
    <3> DEFINE complete == {s \in Slots : Complete(s)}
    <3>1. step \in complete /\ \A t \in complete : t <= step
      BY <1>0, <1>1, <1>2, Epochs DEF Slots
    <3>2. step \in NewestOf(KeepLast, complete)
      BY <2>1, <3>1, NewestIsKept
    <3>3. disk' = Without(complete \ NewestOf(KeepLast, complete))
      BY <2>1 DEF Prune
    <3> QED BY <3>2, <3>3
  <2>2. CASE ~(KeepLast > 0)
    <3>1. disk' = disk
      BY <2>2 DEF Prune
    <3>2. disk = Without({})
      BY <1>0 DEF TypeOK, Without
    <3> QED BY <3>1, <3>2
  <2> QED BY <2>1, <2>2
<1>4. \A s \in Slots : Complete(s)' <=> Complete(s) /\ s \notin steps
  BY <1>0, <1>3, Deleting
<1>5. TypeOK'
  BY <1>0, <1>3, Deleting DEF TypeOK
<1>6. SharedLast'
  BY <1>0, <1>3, DeletingSharedLast
<1>7. InOrder'
  BY <1>0 DEF CheckpointInv, InOrder
<1>8. Fresh'
  BY <1>0, <1>2, <1>4 DEF Fresh
<1>9. InEpoch => InEpoch'
  BY <1>0 DEF InEpoch, Saving
<1>10. Place'
  BY <1>0, <1>9 DEF Place, Saving
<1>11. Kept'
  <2>1. Complete(step)'
    BY <1>0, <1>1, <1>3, <1>4
  <2> QED BY <1>0, <1>1, <2>1 DEF Kept, TypeOK
<1>12. Reasons'
  BY <1>4, ReasonsKept
<1> QED BY <1>5, <1>6, <1>7, <1>8, <1>10, <1>11, <1>12 DEF CheckpointInv

LEMMA CrashKeeps ==
    ASSUME CheckpointInv, Crash
    PROVE  CheckpointInv'
<1> USE LingbotAssumption, Epochs DEF LingbotAssumption, Crash
<1>1. TypeOK'
  BY DEF CheckpointInv, TypeOK
<1>2. SharedLast' /\ InOrder' /\ Fresh' /\ Place' /\ Kept'
  BY DEF CheckpointInv, SharedLast, InOrder, Fresh, Place, Kept, Saving, Running
<1>3. Reasons'
  <2>1. \A s \in Slots : Complete(s)' => Complete(s)
    BY DEF Complete
  <2> QED BY <2>1, ReasonsKept
<1> QED BY <1>1, <1>2, <1>3 DEF CheckpointInv

(* All ranks load the newest complete checkpoint.                          *)
LEMMA Loaded ==
    ASSUME TypeOK, SharedLast
    PROVE  \E n \in 0..LastOne :
              /\ \A r \in Ranks : LoadedBy(r) = n
              /\ {LoadedBy(r) : r \in Ranks} = {n}
              /\ n # 0 => Complete(n)
              /\ \A s \in Slots : Complete(s) => s <= n
<1> DEFINE complete == {s \in Slots : Complete(s)}
           n == Newest(complete)
<1>1. ASSUME NEW s \in Slots, NEW r \in Ranks
      PROVE  Readable(s, r) <=> Complete(s)
  <2>1. disk[s] \in [Parts -> {"absent", "torn", "good"}]
    BY DEF TypeOK
  <2>2. Readable(s, r) => Complete(s)
    <3>1. SUFFICES ASSUME Readable(s, r) PROVE Complete(s)
      OBVIOUS
    <3>2. disk[s]["model"] = "good" /\ disk[s]["optimizer"] = "good"
      BY <3>1 DEF Readable
    <3>3. \A x \in Ranks : disk[s][x] = "good"
      BY <3>2 DEF SharedLast, Shared
    <3> QED BY <3>2, <3>3 DEF Complete, Parts
  <2>3. Complete(s) => Readable(s, r)
    <3>1. SUFFICES ASSUME Complete(s) PROVE Readable(s, r)
      OBVIOUS
    <3>2. disk[s]["model"] = "good" /\ disk[s]["optimizer"] = "good" /\ disk[s][r] = "good"
      BY <3>1 DEF Complete, Parts, SharedLast, Shared
    <3> QED BY <3>2 DEF Readable
  <2> QED BY <2>2, <2>3
<1>2. \A r \in Ranks : {s \in Slots : Readable(s, r)} = complete
  BY <1>1
<1>3. \A r \in Ranks : LoadedBy(r) = n
  BY <1>2 DEF LoadedBy
<1>4. {0} \cup complete \in SUBSET (0..LastOne) /\ {0} \cup complete # {}
  BY Epochs DEF Slots
<1>5. n \in {0} \cup complete /\ \A s \in {0} \cup complete : n >= s
  BY <1>4, Greatest, Epochs DEF Newest
<1> HIDE DEF n
<1>6. {LoadedBy(r) : r \in Ranks} = {n}
  <2>1. PICK r \in Ranks : TRUE
    BY LingbotAssumption DEF LingbotAssumption
  <2> QED BY <1>3, <2>1
<1>7. n \in 0..LastOne /\ (n # 0 => Complete(n)) /\ \A s \in Slots : Complete(s) => s <= n
  BY <1>4, <1>5, Epochs DEF Slots
<1> QED BY <1>3, <1>6, <1>7

LEMMA Singleton ==
    ASSUME NEW n \in Nat
    PROVE  Max({n}) = n /\ Cardinality({n}) = 1
BY FS_Singleton DEF Max

LEMMA ResumeKeeps ==
    ASSUME CheckpointInv, Resume
    PROVE  CheckpointInv' /\ pc' # "diverged" /\ \A s \in Slots : Complete(s) => s <= step'
<1> USE LingbotAssumption DEF LingbotAssumption
<1>0. TypeOK /\ SharedLast /\ pc = "down" /\ left = {} /\ begun = {}
  BY DEF CheckpointInv, Resume, InOrder, TypeOK
<1>1. PICK n \in 0..LastOne :
         /\ {LoadedBy(r) : r \in Ranks} = {n}
         /\ n # 0 => Complete(n)
         /\ \A s \in Slots : Complete(s) => s <= n
  BY <1>0, Loaded
<1>2. Max({n}) = n /\ Cardinality({n}) = 1
  BY Singleton, Epochs
<1>3. step' = n /\ epoch' = n \div TrainSteps /\ resumed' = n
      /\ pc' = (IF epoch' < NumEpochs THEN "train" ELSE "final")
      /\ UNCHANGED <<saved, after, left, begun, disk, crashes, reached>>
  BY <1>1, <1>2 DEF Resume
<1>4. epoch' \in 0..NumEpochs /\ epoch' * TrainSteps <= n /\ n < epoch' * TrainSteps + TrainSteps
      /\ (epoch' = NumEpochs => n = LastOne)
  BY <1>3, EpochOf
<1>5. TypeOK'
  BY <1>0, <1>3, <1>4 DEF TypeOK
<1>6. \A s \in Slots : Complete(s)' <=> Complete(s)
  BY <1>3 DEF Complete
<1>7. SharedLast' /\ InOrder'
  BY <1>0, <1>3 DEF SharedLast, InOrder
<1>8. Fresh'
  BY <1>1, <1>3, <1>6, Epochs DEF Fresh, Slots
<1>9. Place'
  <2>1. pc' = "train" => InEpoch'
    <3>1. (epoch' + 1) * TrainSteps = epoch' * TrainSteps + TrainSteps
      BY <1>4
    <3>2. ASSUME n > epoch' * TrainSteps, n \in Slots, Complete(n)
          PROVE  Divides(SaveSteps, n)
      <4>1. \A e \in 0..NumEpochs : n # e * TrainSteps
        BY <1>4, <3>2, BetweenEpochs
      <4> QED BY <3>2, <4>1 DEF CheckpointInv, Reasons, Reason
    <3>3. epoch' * TrainSteps \in Nat
      BY <1>4, Epochs
    <3>4. n > epoch' * TrainSteps => n \in Slots
      BY <3>3, Epochs DEF Slots
    <3>5. Complete(step)' => Complete(n)
      BY <1>3 DEF Complete
    <3>6. ASSUME pc' = "train" PROVE epoch' < NumEpochs /\ n <= (epoch' + 1) * TrainSteps
      BY <1>3, <1>4, <3>1, <3>3, <3>6, Epochs
    <3>7. step' > epoch' * TrainSteps /\ Complete(step)' => Divides(SaveSteps, step')
      BY <1>3, <3>2, <3>4, <3>5
    <3> QED BY <1>3, <1>4, <3>6, <3>7 DEF InEpoch, Saving
  <2> QED BY <1>3, <1>4, <2>1, Epochs DEF Place, Saving
<1>10. Kept'
  BY <1>0, <1>3 DEF Kept, Place, CheckpointInv
<1>11. Reasons'
  BY <1>6, ReasonsKept
<1>12. pc' # "diverged" /\ \A s \in Slots : Complete(s) => s <= step'
  BY <1>1, <1>3
<1> QED BY <1>5, <1>7, <1>8, <1>9, <1>10, <1>11, <1>12 DEF CheckpointInv

LEMMA InvariantHolds ==
    ASSUME ExtraFirst, SavesApart
    PROVE  Spec => []CheckpointInv
<1>1. Init => CheckpointInv
  BY InitCheckpoints
<1>2. CheckpointInv /\ [Next]_vars => CheckpointInv'
  <2> SUFFICES ASSUME CheckpointInv, [Next]_vars PROVE CheckpointInv'
    OBVIOUS
  <2>1. CASE TrainStep
    BY <2>1, TrainStepKeeps
  <2>2. CASE EpochEnd
    BY <2>2, EpochEndKeeps
  <2>3. CASE Final
    BY <2>3, FinalKeeps
  <2>4. CASE Prepare
    BY <2>4, PrepareKeeps
  <2>5. CASE Prune
    BY <2>5, PruneKeeps
  <2>6. CASE Crash
    BY <2>6, CrashKeeps
  <2>7. CASE Resume
    BY <2>7, ResumeKeeps
  <2>8. ASSUME NEW p \in Parts, BeginWrite(p) \/ EndWrite(p)
        PROVE  CheckpointInv'
    BY <2>8, BeginWriteKeeps, EndWriteKeeps
  <2>9. CASE UNCHANGED vars
    BY <2>9 DEF vars, CheckpointInv, TypeOK, SharedLast, InOrder, Fresh, Place, InEpoch, Kept,
       Reasons, Reason, Complete
  <2> QED BY <2>1, <2>2, <2>3, <2>4, <2>5, <2>6, <2>7, <2>8, <2>9 DEF Next
<1> QED BY <1>1, <1>2, PTL DEF Spec

(* The ranks of a resumed run all continue from the same checkpoint, when  *)
(* the checkpointer writes every extra_state first and no checkpoint is    *)
(* written over a complete one (train_lingbotvla.py, resume).              *)
THEOREM RanksStayTogether ==
    ASSUME ExtraFirst, SavesApart
    PROVE  Spec => []RanksAgree
<1>1. Init => RanksAgree
  BY DEF Init, RanksAgree
<1>2. CheckpointInv /\ RanksAgree /\ [Next]_vars => RanksAgree'
  <2> SUFFICES ASSUME CheckpointInv, RanksAgree, [Next]_vars PROVE RanksAgree'
    OBVIOUS
  <2>1. CASE Resume
    BY <2>1, ResumeKeeps DEF RanksAgree
  <2>2. CASE Prune
    BY <2>2 DEF Prune, RanksAgree, CheckpointInv, TypeOK
  <2>3. CASE TrainStep \/ EpochEnd \/ Final \/ Prepare \/ Crash
    BY <2>3 DEF TrainStep, EpochEnd, Final, Prepare, Crash, RanksAgree
  <2>4. ASSUME NEW p \in Parts, BeginWrite(p) \/ EndWrite(p)
        PROVE  RanksAgree'
    BY <2>4 DEF BeginWrite, EndWrite, RanksAgree
  <2>5. CASE UNCHANGED vars
    BY <2>5 DEF vars, RanksAgree
  <2> QED BY <2>1, <2>2, <2>3, <2>4, <2>5 DEF Next
<1> QED BY <1>1, <1>2, InvariantHolds, PTL DEF Spec

(* A run that ends leaves a last checkpoint that every rank can load.      *)
THEOREM LastIsReadable ==
    ASSUME ExtraFirst, SavesApart
    PROVE  Spec => []FinalReadable
<1>1. CheckpointInv => FinalReadable
  <2> SUFFICES ASSUME CheckpointInv, pc = "done", NEW r \in Ranks PROVE Readable(LastOne, r)
    BY DEF FinalReadable
  <2>1. LastOne \in Slots /\ Complete(LastOne)
    BY Epochs DEF CheckpointInv, Place, Kept, Slots
  <2>2. SharedLast
    BY DEF CheckpointInv
  <2> QED BY <2>1, <2>2 DEF SharedLast, Shared, Complete, Parts, Readable
<1> QED BY <1>1, InvariantHolds, PTL
-----------------------------------------------------------------------------
(* The newest complete checkpoint is at most SaveSteps behind what the run *)
(* ever reached, and nothing that save_steps asks for is missing since.    *)
Has(c)    == c = 0 \/ (c \in Slots /\ Complete(c))
Covers(c) ==
    /\ reached <= c + SaveSteps
    /\ pc \in Running => \A k \in (c + 1)..step : Divides(SaveSteps, k) => k = step /\ pc \in Saving
Covered   == \E c \in 0..LastOne : Has(c) /\ Covers(c)

(* Only the checkpoint being written can be the one a save deletes.        *)
LEMMA PrepareCovers ==
    ASSUME SaveSteps > 0, KeepLast # 1, CheckpointInv, Covered, Prepare
    PROVE  Covered'
<1> USE LingbotAssumption, Epochs DEF LingbotAssumption
<1>0. TypeOK /\ pc = "prepare" /\ pc' = "save" /\ UNCHANGED <<step, reached>>
  BY DEF CheckpointInv, Prepare
<1>1. step \in Slots /\ ~Complete(step) /\ \A s \in Slots : s > step => ~Complete(s)
  BY <1>0 DEF CheckpointInv, TypeOK, Place, Saving, Slots, Fresh, Running
<1>2. PICK c \in 0..LastOne : Has(c) /\ Covers(c)
  BY DEF Covered
<1> DEFINE others == {s \in Slots \ {step} : Complete(s)}
           kept   == NewestOf(RetainedBefore, others)
           gone   == (IF KeepLast > 0 THEN others \ kept ELSE {}) \cup {step}
<1>3. disk' = Without(gone) /\ gone \in SUBSET Slots
  BY <1>1 DEF Prepare
<1>4. \A s \in Slots : Complete(s)' <=> Complete(s) /\ s \notin gone
  BY ZenonT(30), <1>0, <1>3, Deleting
<1>5. \A x : Has(x) /\ x # 0 => x \in others
  BY <1>1 DEF Has
<1>6. CASE others = {}
  <2>1. c = 0
    BY <1>2, <1>5, <1>6
  <2>2. Has(0)' /\ Covers(0)'
    BY <1>0, <1>2, <2>1 DEF Has, Covers, Running, Saving
  <2> QED BY <2>2 DEF Covered
<1>7. CASE others # {}
  <2>1. others \in SUBSET (0..LastOne)
    BY DEF Slots
  <2>2. PICK g \in others : \A s \in others : g >= s
    BY <1>7, <2>1, Greatest
  <2>3. KeepLast > 0 => RetainedBefore \in Nat \ {0}
    <3>1. KeepLast > 0 => KeepLast - 1 \in Nat \ {0}
      OBVIOUS
    <3>2. KeepLast > 0 => {KeepLast - 1, 0} \in SUBSET (0..(KeepLast - 1)) /\ {KeepLast - 1, 0} # {}
      BY <3>1
    <3>3. KeepLast > 0 => /\ RetainedBefore \in {KeepLast - 1, 0}
                          /\ RetainedBefore >= KeepLast - 1
      BY <3>1, <3>2, Greatest DEF RetainedBefore
    <3> QED BY <3>1, <3>3
  <2>4. KeepLast > 0 => g \in kept
    <3>1. others \in SUBSET Slots /\ \A t \in others : t <= g
      BY <2>1, <2>2
    <3> QED BY <2>2, <2>3, <3>1, NewestIsKept
  <2>5. g \in Slots /\ g # step /\ g \notin gone
    BY <2>2, <2>4
  <2>6. Complete(g) /\ Complete(g)'
    BY <1>4, <2>2, <2>5
  <2>7. g \in 0..LastOne /\ c <= g
    BY <1>2, <1>5, <2>1, <2>2
  <2>8. Has(g)'
    BY <2>5, <2>6 DEF Has, Slots
  <2>9. Covers(g)'
    <3>0. c \in Nat /\ g \in Nat /\ reached \in Nat /\ step \in Nat
      BY <1>0, <1>2, <2>7 DEF TypeOK
    <3>1. reached <= g + SaveSteps
      BY <1>2, <2>7, <3>0 DEF Covers
    <3>2. \A k \in (g + 1)..step : k \in (c + 1)..step
      BY <2>7, <3>0
    <3>3. \A k \in (c + 1)..step : Divides(SaveSteps, k) => k = step
      BY <1>0, <1>2 DEF Covers, Running, Saving
    <3> QED BY <1>0, <3>1, <3>2, <3>3 DEF Covers, Saving
  <2> QED BY <2>7, <2>8, <2>9 DEF Covered
<1> QED BY <1>6, <1>7

LEMMA SameDiskCovers ==
    ASSUME disk' = disk, reached' = reached, NEW c \in 0..LastOne, Has(c), Covers(c),
           pc' \in Running => pc \in Running /\ step' = step /\ (pc \in Saving => pc' \in Saving)
    PROVE  Covered'
<1>1. Has(c)'
  BY DEF Has, Complete
<1>2. Covers(c)'
  BY DEF Covers
<1> QED BY <1>1, <1>2 DEF Covered

LEMMA TrainStepCovers ==
    ASSUME SaveSteps > 0, CheckpointInv, Covered, TrainStep
    PROVE  Covered'
<1> USE LingbotAssumption, Epochs DEF LingbotAssumption
<1>0. TypeOK /\ pc = "train" /\ step' = step + 1 /\ disk' = disk
      /\ reached' = Max({reached, step + 1}) /\ step + 1 <= LastOne
      /\ (Divides(SaveSteps, step + 1) => pc' \in Saving)
  <2>1. epoch \in 0..NumEpochs /\ epoch < NumEpochs /\ step \in Nat /\ step < (epoch + 1) * TrainSteps
    BY DEF CheckpointInv, TypeOK, TrainStep, Place, InEpoch
  <2> QED BY <2>1 DEF TrainStep, CheckpointInv, Saving
<1>1. PICK c \in 0..LastOne : Has(c) /\ Covers(c)
  BY DEF Covered
<1>2. c \in Nat /\ step \in Nat /\ reached \in 0..LastOne
  BY <1>0, <1>1 DEF TypeOK
<1>3. \A k \in (c + 1)..step : ~Divides(SaveSteps, k)
  BY <1>0, <1>1 DEF Covers, Running, Saving
<1>4. step < c + SaveSteps
  <2>1. PICK k \in (c + 1)..(c + SaveSteps) : Divides(SaveSteps, k)
    BY <1>2, SavedOften
  <2>2. k \notin (c + 1)..step
    BY <1>3, <2>1
  <2> QED BY <1>2, <2>1, <2>2
<1>5. reached' <= c + SaveSteps
  <2>1. {reached, step + 1} \in SUBSET (0..LastOne) /\ {reached, step + 1} # {}
    BY <1>0, <1>2
  <2>2. reached' \in {reached, step + 1}
    BY <1>0, <2>1, Greatest
  <2> QED BY <1>1, <1>2, <1>4, <2>2 DEF Covers
<1>6. \A k \in (c + 1)..(step + 1) : Divides(SaveSteps, k) => k = step + 1 /\ pc' \in Saving
  <2>1. ASSUME NEW k \in (c + 1)..(step + 1), Divides(SaveSteps, k)
        PROVE  k = step + 1 /\ pc' \in Saving
    <3>1. k \notin (c + 1)..step
      BY <1>3, <2>1
    <3>2. k = step + 1
      BY <1>2, <3>1
    <3> QED BY <1>0, <2>1, <3>2
  <2> QED BY <2>1
<1>7. Has(c)'
  BY <1>0, <1>1 DEF Has, Complete
<1>8. Covers(c)'
  BY <1>0, <1>5, <1>6 DEF Covers
<1> QED BY <1>7, <1>8 DEF Covered

(* A checkpoint being written does not count yet.                          *)
LEMMA WriteCovers ==
    ASSUME ExtraFirst, CheckpointInv, Covered, NEW p \in Parts, BeginWrite(p) \/ EndWrite(p)
    PROVE  Covered'
<1>0. TypeOK /\ pc = "save" /\ pc' \in Saving /\ p \in left
      /\ UNCHANGED <<step, reached>>
      /\ (disk' = disk \/ \E v \in {"torn", "good"} : disk' = [disk EXCEPT ![step][p] = v])
  BY DEF CheckpointInv, BeginWrite, EndWrite, MayWrite, Saving, TypeOK
<1>1. step \in Slots
  BY <1>0, Epochs DEF CheckpointInv, TypeOK, Place, Saving, Slots
<1>2. PICK c \in 0..LastOne : Has(c) /\ Covers(c)
  BY DEF Covered
<1>3. ~Complete(step)
  <2>1. /\ \A q \in left : disk[step][q] = IF q \in begun \cap Ranks THEN "torn" ELSE "absent"
        /\ left \cap Ranks # {} => Shared \subseteq left \ begun
    BY <1>0 DEF CheckpointInv, InOrder
  <2>2. CASE p \in Ranks
    <3>1. "model" \in left /\ "model" \notin begun /\ "model" \in Parts
      BY <1>0, <2>1, <2>2 DEF Shared, Parts
    <3>2. disk[step]["model"] = "absent"
      BY <2>1, <3>1
    <3> QED BY <3>1, <3>2 DEF Complete
  <2>3. CASE p \notin Ranks
    <3>1. disk[step][p] = "absent"
      BY <1>0, <2>1, <2>3
    <3> QED BY <3>1 DEF Complete
  <2> QED BY <2>2, <2>3
<1>4. Has(c)'
  <2>1. c # 0 => c \in Slots /\ c # step /\ Complete(c)
    BY <1>2, <1>3 DEF Has
  <2>2. ASSUME c # 0 PROVE Complete(c)'
    <3>1. CASE disk' = disk
      BY <2>1, <2>2, <3>1 DEF Complete
    <3>2. CASE \E v \in {"torn", "good"} : disk' = [disk EXCEPT ![step][p] = v]
      BY <1>0, <1>1, <2>1, <2>2, <3>2, Writing
    <3> QED BY <1>0, <3>1, <3>2
  <2> QED BY <2>1, <2>2 DEF Has
<1>5. Covers(c)'
  BY <1>0, <1>2 DEF Covers, Running, Saving
<1> QED BY <1>4, <1>5 DEF Covered

LEMMA PruneCovers ==
    ASSUME CheckpointInv, Covered, Prune
    PROVE  Covered'
<1> USE LingbotAssumption, Epochs DEF LingbotAssumption
<1>0. TypeOK /\ pc = "prune" /\ pc' = after /\ UNCHANGED <<step, reached>>
  BY DEF CheckpointInv, Prune
<1>1. step \in Slots /\ step \in 0..LastOne /\ \A s \in Slots : s > step => ~Complete(s)
  BY <1>0 DEF CheckpointInv, TypeOK, Place, Saving, Slots, Fresh, Running
<1>2. PICK c \in 0..LastOne : Has(c) /\ Covers(c)
  BY DEF Covered
<1>3. c <= step
  BY <1>1, <1>2 DEF Has, Slots
<1>4. Complete(step)'
  <2>1. CheckpointInv'
    BY PruneKeeps
  <2>2. pc' = "done" => Complete(step)'
    BY <2>1 DEF CheckpointInv, Kept
  <2>3. pc' \in {"train", "final"} => saved' = step' /\ step' > 0
    BY <1>0 DEF Prune, CheckpointInv, Place, Saving
  <2>4. pc' \in {"train", "final"} => Complete(step)'
    BY <2>1, <2>3 DEF CheckpointInv, Kept
  <2> QED BY <1>0, <2>2, <2>4 DEF TypeOK
<1>5. Has(step)'
  BY <1>0, <1>1, <1>4 DEF Has
<1>6. reached <= step + SaveSteps
  BY <1>0, <1>1, <1>2, <1>3 DEF Covers, TypeOK
<1>7. (step + 1)..step = {}
  BY <1>1
<1>8. Covers(step)'
  BY <1>0, <1>6, <1>7 DEF Covers
<1> QED BY <1>0, <1>1, <1>5, <1>8 DEF Covered

LEMMA ResumeCovers ==
    ASSUME CheckpointInv, Covered, Resume
    PROVE  Covered' /\ step' >= reached - SaveSteps
<1> USE LingbotAssumption, Epochs DEF LingbotAssumption
<1>0. TypeOK /\ SharedLast /\ pc = "down"
  BY DEF CheckpointInv, Resume
<1>1. PICK n \in 0..LastOne :
         /\ {LoadedBy(r) : r \in Ranks} = {n}
         /\ n # 0 => Complete(n)
         /\ \A s \in Slots : Complete(s) => s <= n
  BY <1>0, Loaded
<1>2. Max({n}) = n /\ Cardinality({n}) = 1
  BY Singleton
<1>3. step' = n /\ disk' = disk /\ reached' = reached
  BY <1>1, <1>2 DEF Resume
<1>4. PICK c \in 0..LastOne : Has(c) /\ Covers(c)
  BY DEF Covered
<1>5. c <= n
  BY <1>1, <1>4 DEF Has
<1>6. reached <= n + SaveSteps /\ reached \in Nat
  BY <1>0, <1>4, <1>5 DEF Covers, TypeOK
<1>7. Has(n)'
  BY <1>1, <1>3 DEF Has, Complete, Slots
<1>8. (n + 1)..n = {}
  OBVIOUS
<1>9. Covers(n)'
  BY <1>3, <1>6, <1>8 DEF Covers
<1> QED BY <1>3, <1>6, <1>7, <1>9 DEF Covered

(* An interruption, also one in the middle of a save, costs at most        *)
(* SaveSteps steps of work, when more than one checkpoint is kept.         *)
THEOREM LossIsBounded ==
    ASSUME ExtraFirst, SavesApart, SaveSteps > 0, KeepLast # 1
    PROVE  Spec => LossBounded
<1>1. Init => Covered
  <2> SUFFICES ASSUME Init PROVE Covered
    OBVIOUS
  <2>1. Has(0) /\ Covers(0)
    BY LingbotAssumption DEF Init, Has, Covers, LingbotAssumption
  <2> QED BY <2>1, Epochs DEF Covered
<1>2. CheckpointInv /\ Covered /\ [Next]_vars => Covered'
  <2> SUFFICES ASSUME CheckpointInv, Covered, [Next]_vars PROVE Covered'
    OBVIOUS
  <2>0. PICK c \in 0..LastOne : Has(c) /\ Covers(c)
    BY DEF Covered
  <2>1. CASE TrainStep
    BY <2>1, TrainStepCovers
  <2>2. CASE EpochEnd \/ Final \/ Crash \/ UNCHANGED vars
    <3>1. disk' = disk /\ reached' = reached
      BY <2>2 DEF EpochEnd, Final, Crash, vars
    <3>2. pc' \in Running => pc \in Running /\ step' = step /\ (pc \in Saving => pc' \in Saving)
      BY <2>2 DEF EpochEnd, Final, Crash, vars, Running, Saving
    <3> QED BY <2>0, <3>1, <3>2, SameDiskCovers
  <2>3. CASE Prepare
    BY <2>3, PrepareCovers
  <2>4. CASE Prune
    BY <2>4, PruneCovers
  <2>5. CASE Resume
    BY <2>5, ResumeCovers
  <2>6. ASSUME NEW p \in Parts, BeginWrite(p) \/ EndWrite(p)
        PROVE  Covered'
    BY <2>6, WriteCovers
  <2> QED BY <2>1, <2>2, <2>3, <2>4, <2>5, <2>6 DEF Next
<1>3. CheckpointInv /\ Covered => [Resume /\ pc' # "diverged" => step' >= reached - SaveSteps]_vars
  BY ResumeCovers
<1> QED BY <1>1, <1>2, <1>3, InvariantHolds, PTL DEF Spec, LossBounded
=============================================================================

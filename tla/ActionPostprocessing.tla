------------------------- MODULE ActionPostprocessing -------------------------
(***************************************************************************)
(* The causal post-processors of predicted actions (kuavo_deploy/utils/    *)
(* action_postprocessing.py) and the viewer that runs them along an        *)
(* episode (tools/open_loop_viewer.py): the first rows of a chunk are      *)
(* blended with the last row emitted, then each row is limited in velocity *)
(* and acceleration, then the grippers are latched.                        *)
(*                                                                         *)
(* A row maps action indices to fixed-point numbers, a chunk is a sequence *)
(* of at least one row.  A configuration c has the joints that are blended *)
(* and limited, the rows blended (0: no blender), whether and how far a    *)
(* joint's steps (velocity) and their changes (acceleration) are limited,  *)
(* the grippers latched, their thresholds and values.                      *)
(***************************************************************************)
EXTENDS GripperLatch, FiniteSets

Least(x, y)    == IF x < y THEN x ELSE y
Greatest(x, y) == IF x < y THEN y ELSE x
Magnitude(x)   == IF x < 0 THEN -x ELSE x

ValidConfig(c, actionDim) ==
    /\ c.joints # {} /\ c.joints \cup c.grippers \subseteq 0..actionDim - 1
    /\ c.blend \in Nat
    /\ c.velocity \in [c.joints -> Nat] /\ c.acceleration \in [c.joints -> Nat]
-----------------------------------------------------------------------------
(* The limiter's state is the last row it gave and the step that led to it. *)
LimitedStep(c, j, wanted, last) ==
    LET step == Greatest(Least(wanted, c.velocity[j]), -c.velocity[j])
    IN IF c.smooth THEN Greatest(Least(step, last + c.acceleration[j]), last - c.acceleration[j])
       ELSE step
LimitRow(c, s, row) ==
    LET step == [j \in c.joints |-> LimitedStep(c, j, row[j] - s.row[j], s.step[j])]
    IN [row  |-> [j \in DOMAIN row |-> IF j \in c.joints THEN s.row[j] + step[j] ELSE row[j]],
        step |-> step]
LimitChunk(c, s, chunk) ==
    LET after[i \in 0..Len(chunk)] == IF i = 0 THEN s ELSE LimitRow(c, after[i - 1], chunk[i])
    IN after

(* The weight of the prediction grows to 1 over the blended rows.          *)
Blended(steps, i, anchor, x) == ((steps - i) * anchor + i * x) \div steps
BlendChunk(c, anchor, chunk) ==
    [i \in DOMAIN chunk |-> [j \in DOMAIN chunk[i] |->
        IF i <= c.blend /\ j \in c.joints THEN Blended(c.blend, i, anchor[j], chunk[i][j])
        ELSE chunk[i][j]]]

Intent(c, x) == IF x >= c.closeAt THEN "grasp" ELSE IF x <= c.openAt THEN "release" ELSE "neither"
Commanded(c, hand) == IF hand = "closed" THEN c.closed ELSE c.open
LatchChunk(c, l, g, chunk) ==
    LET after[i \in 0..Len(chunk)] ==
            IF i = 0 THEN l ELSE LatchRow(after[i - 1], Intent(c, chunk[i][g]))
    IN after

(* All three from one initial row, and in their order.  The blender's next *)
(* anchor is the row that left the pipeline, the limiter's the row before  *)
(* the latch.                                                              *)
ResetPipeline(c, initial) ==
    [anchor |-> initial,
     limit  |-> [row |-> initial, step |-> [j \in c.joints |-> 0]],
     latch  |-> [g \in c.grippers |->
                    ResetLatch(IF 2 * initial[g] >= c.open + c.closed THEN "closed" ELSE "open")]]
Process(c, s, chunk) ==
    LET blended == IF c.blend > 0 THEN BlendChunk(c, s.anchor, chunk) ELSE chunk
        limits  == LimitChunk(c, s.limit, blended)
        moved   == IF c.limited THEN [i \in DOMAIN chunk |-> limits[i].row] ELSE blended
        latches == [g \in c.grippers |-> LatchChunk(c, s.latch[g], g, moved)]
        emitted == [i \in DOMAIN chunk |-> [j \in DOMAIN chunk[i] |->
                       IF j \in c.grippers THEN Commanded(c, latches[j][i].hand) ELSE moved[i][j]]]
    IN [rows  |-> emitted,
        state |-> [anchor |-> emitted[Len(chunk)], limit |-> limits[Len(chunk)],
                   latch  |-> [g \in c.grippers |-> latches[g][Len(chunk)]]]]
ProcessAll(c, initial, chunks) ==
    LET done[k \in 0..Len(chunks)] ==
            IF k = 0 THEN [rows |-> <<>>, state |-> ResetPipeline(c, initial)]
            ELSE LET p == Process(c, done[k - 1].state, chunks[k])
                 IN [rows |-> done[k - 1].rows \o p.rows, state |-> p.state]
    IN done[Len(chunks)].rows
-----------------------------------------------------------------------------
(* Limits taken from a dataset: percentiles of the steps between frames of *)
(* one episode, and of their changes.                                      *)
FirstSteps(frames) ==
    {i \in 2..Len(frames) : frames[i].episode = frames[i - 1].episode}
SecondSteps(frames) == {i \in FirstSteps(frames) : i - 1 \in FirstSteps(frames)}
StepAt(frames, j, i)   == Magnitude(frames[i].action[j] - frames[i - 1].action[j])
ChangeAt(frames, j, i) ==
    Magnitude(frames[i].action[j] - 2 * frames[i - 1].action[j] + frames[i - 2].action[j])
RankedAt(v, k) ==
    CHOOSE x \in {v[i] : i \in DOMAIN v} :
        /\ Cardinality({i \in DOMAIN v : v[i] < x}) <= k
        /\ k < Cardinality({i \in DOMAIN v : v[i] <= x})
Percentile(v, percent) ==
    LET at == percent * (Cardinality(DOMAIN v) - 1)
        lo == at \div 100
        hi == (at + 99) \div 100
    IN (RankedAt(v, lo) * (100 - (at % 100)) + RankedAt(v, hi) * (at % 100)) \div 100
DatasetLimits(frames, joints, percent) ==
    [velocity     |-> [j \in joints |->
                          Percentile([i \in FirstSteps(frames) |-> StepAt(frames, j, i)], percent)],
     acceleration |-> [j \in joints |->
                          Percentile([i \in SecondSteps(frames) |-> ChangeAt(frames, j, i)], percent)]]

(* The timeline of an episode of n frames: a prediction every stride       *)
(* frames; its rows that are used, executed or averaged with others'.      *)
Inferences(n, stride) == {f \in 0..n - 1 : f % stride = 0}
Usable(n, stride, horizon, prefix, f) ==
    Least(Least(horizon, n - f), IF prefix THEN stride ELSE n)
Contributors(n, stride, horizon, prefix, frame) ==
    {f \in Inferences(n, stride) : f <= frame /\ frame < f + Usable(n, stride, horizon, prefix, f)}

(* The recorded actions that a prediction at a frame is compared with.     *)
GroundTruth(end, frame, horizon) ==
    [k \in 1..Greatest(1, horizon) |-> Least(frame + k - 1, end - 1)]
-----------------------------------------------------------------------------
(* Whatever is predicted and wherever it is cut into chunks, every step of *)
(* a limited joint is within its velocity and every change of a step       *)
(* within its acceleration, from the initial row on.                       *)
WithinLimits(c, initial, rows) ==
    c.limited => \A j \in c.joints \ c.grippers :
        LET at(i)   == IF i = 0 THEN initial[j] ELSE rows[i][j]
            step(i) == IF i = 0 THEN 0 ELSE at(i) - at(i - 1)
        IN \A i \in DOMAIN rows :
               /\ Magnitude(step(i)) <= c.velocity[j]
               /\ c.smooth => Magnitude(step(i) - step(i - 1)) <= c.acceleration[j]

(* Limiter and latch do not notice the chunks ("behaves identically for    *)
(* full chunks and one-action deployment calls"); the blender does.        *)
CutsDoNotMatter(c, initial, chunk) ==
    c.blend = 0 =>
        ProcessAll(c, initial, <<chunk>>) = ProcessAll(c, initial, [i \in DOMAIN chunk |-> <<chunk[i]>>])

(* A blended row lies between the anchor and the prediction; the last of   *)
(* them is the prediction, so a longer chunk goes on without a jump.       *)
BlendsBetween(steps, anchor, x) ==
    \A i \in 1..steps :
        /\ Least(anchor, x) <= Blended(steps, i, anchor, x)
        /\ Blended(steps, i, anchor, x) <= Greatest(anchor, x)
        /\ i = steps => Blended(steps, i, anchor, x) = x

(* Limits that are the largest steps of a dataset leave each of its        *)
(* episodes as it is.                                                      *)
KeepsDemonstrations(frames, c) ==
    SecondSteps(frames) # {} =>
        LET fit == [c EXCEPT !.velocity = DatasetLimits(frames, c.joints, 100).velocity,
                             !.limited = TRUE, !.smooth = FALSE, !.blend = 0, !.grippers = {}]
        IN \A e \in {frames[i].episode : i \in DOMAIN frames} :
               LET Of(frame) == frame.episode = e
                   own  == SelectSeq(frames, Of)
                   rows == [i \in DOMAIN own |-> own[i].action]
               IN ProcessAll(fit, rows[1], <<rows>>) = rows

(* When predictions reach as far as the stride every frame has a           *)
(* prediction, in the executed prefix exactly one, the newest.             *)
TimelineWhole(n, stride, horizon, prefix) ==
    \A frame \in 0..n - 1 :
        LET from == Contributors(n, stride, horizon, prefix, frame)
        IN /\ horizon >= stride => frame - (frame % stride) \in from
           /\ prefix => from \subseteq {frame - (frame % stride)}
=============================================================================

------------------------------ MODULE MCRobotEnv ------------------------------
(* RobotEnv for model checking: one setup with alignment and short episodes, *)
(* one that drives the chassis over episodes long enough for two switches.   *)
(* The post-processors of actions are evaluated on small chunks.             *)
EXTENDS RobotEnv, ActionPostprocessing

MCFreq   == [k \in Keys |-> 2]
MCSetups == {[aligned |-> TRUE,  onlyArm |-> TRUE,  claw |-> FALSE, steps |-> 1, stamps |-> 6],
             [aligned |-> FALSE, onlyArm |-> FALSE, claw |-> TRUE,  steps |-> 5, stamps |-> 2]}

(* Index 0 is a joint, 1 a gripper, 2 neither.                             *)
Config(blend, limited, smooth, velocity, acceleration) ==
    [joints |-> {0}, grippers |-> {1}, blend |-> blend, limited |-> limited, smooth |-> smooth,
     velocity |-> [j \in {0} |-> velocity], acceleration |-> [j \in {0} |-> acceleration],
     closeAt |-> 7, openAt |-> 3, closed |-> 10, open |-> 0]
Configs == {Config(b, l, s, v, a) : b \in {0, 2}, l, s \in BOOLEAN, v \in {0, 3}, a \in {1, 2}}
Row(x)  == [j \in 0..2 |-> IF j = 1 THEN x + 4 ELSE x]
Chunks(n) == [1..n -> {Row(x) : x \in {-4, 1, 6}}]

ASSUME PostprocessingHolds ==
    /\ \A c \in Configs : ValidConfig(c, 3) /\ \A chunk \in Chunks(4) :
           /\ CutsDoNotMatter(c, Row(0), chunk)
           /\ WithinLimits(c, Row(0), ProcessAll(c, Row(0), <<chunk>>))
           /\ WithinLimits(c, Row(0), ProcessAll(c, Row(0),
                  <<SubSeq(chunk, 1, 1), SubSeq(chunk, 2, 4)>>))
    /\ \A steps \in 1..5, anchor, x \in -6..6 : BlendsBetween(steps, anchor, x)
    /\ \A chunk \in Chunks(4), second \in BOOLEAN :
           KeepsDemonstrations([i \in 1..4 |-> [episode |-> IF second /\ i > 3 THEN 2 ELSE 1,
                                                action |-> chunk[i]]], Config(0, TRUE, FALSE, 0, 0))
    /\ \A n \in 1..7, stride, horizon \in 1..4, prefix \in BOOLEAN :
           /\ TimelineWhole(n, stride, horizon, prefix)
           /\ \A frame \in 0..n - 1 : LET truth == GroundTruth(n, frame, horizon)
                                      IN truth[1] = frame /\ \A k \in DOMAIN truth : truth[k] < n

(* The examples of tests/test_action_postprocessing.py.                    *)
ASSUME PostprocessingExamples ==
    LET rows(s) == [i \in DOMAIN s |-> [j \in {0} |-> s[i]]]
        of(c)   == [c EXCEPT !.grippers = {}]
    IN /\ ProcessAll(of(Config(0, TRUE, TRUE, 1000, 25)), rows(<<0>>)[1], <<rows(<<500, 500, -500>>)>>)
              = rows(<<25, 75, 100>>)
       /\ ProcessAll(of(Config(2, FALSE, FALSE, 0, 0)), rows(<<0>>)[1],
                     <<rows(<<2, 4, 6>>), rows(<<10, 12>>)>>) = rows(<<1, 4, 6, 8, 12>>)
       /\ ProcessAll(of(Config(2, TRUE, FALSE, 1, 0)), rows(<<0>>)[1],
                     <<rows(<<10, 10>>), rows(<<10>>)>>) = rows(<<1, 2, 3>>)
=============================================================================

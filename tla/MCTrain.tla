------------------------------- MODULE MCTrain -------------------------------
(* TrainCheckpoint for TLC, and what an epoch consists of on small inputs.  *)
EXTENDS TrainCheckpoint, TrainingEpoch

Pairs(S) == [1..2 -> S]

ASSUME MixtureHolds ==
    /\ \A len \in Pairs(1..4), w \in Pairs(1..3) : EveryItemDrawn(len, w)
    /\ \A w \in Pairs(1..3), pairs \in Pairs([mean : -2..2, std : 0..2]) : StatsAreOfMixture(pairs, w)
    /\ \A slots \in Pairs(1..3), index \in -8..8 :
           InRange(slots, index) <=> -VirtualLen(slots) <= index /\ index < VirtualLen(slots)
    /\ \A to \in 1..6, drop \in -1..3 :
           LET whole == TrimTails({[from |-> 0, to |-> 3], [from |-> 3, to |-> 3 + to]}, drop)
           IN Cardinality(whole) = Max({0, 3 - Max({0, drop})}) + Max({0, to - Max({0, drop})})

(* Sources may be left unnamed, but not one named like the number of        *)
(* another.                                                                 *)
ASSUME SourcesAreApart ==
    \A payload \in Pairs([name : 0..3, weight : 0..2]) :
        LoadsSources(payload) <=>
            /\ payload[1].weight * payload[2].weight > 0
            /\ payload[1].name # payload[2].name \/ payload[1].name = 0
            /\ <<payload[1].name, payload[2].name>> \notin {<<0, 1>>, <<2, 0>>}

(* The examples of tests/test_dataset_mixture.py.                           *)
ASSUME MixtureExamples ==
    /\ Slots(<<100, 20>>, <<3, 1>>) = <<100, 34>>
    /\ CombineStats(<<[x |-> [mean |-> 0, std |-> 1, min |-> -2, max |-> 2, count |-> 100]],
                      [x |-> [mean |-> 10, std |-> 2, min |-> 5, max |-> 15, count |-> 20, q50 |-> 9]]>>,
                    <<3, 1>>)
           = [x |-> [mean |-> 10, var |-> 328, min |-> -2, max |-> 15, count |-> 120, quantiles |-> <<>>]]
    /\ LET meta == [features |-> [state |-> [kind |-> "state", schema |-> 8],
                                  index |-> [kind |-> "other", schema |-> 1]],
                    fps |-> 10, cameras |-> {"head"}, robot |-> "kuavo"]
       IN /\ Compatible(<<meta, [meta EXCEPT !.features.index.schema = 2]>>)
          /\ ~Compatible(<<meta, meta, [meta EXCEPT !.features.state.schema = 9]>>)
          /\ ~Compatible(<<meta, [meta EXCEPT !.fps = 20]>>)

ASSUME ScheduleHolds ==
    \A n \in 0..13, acc \in 1..4 :
        /\ WindowsAreWhole(n, acc)
        /\ \A size \in 1..3 : /\ PlanLasts(n, size, acc)
                              /\ \A ranks \in 1..3 : RanksPlanLasts(n, size, ranks, acc)
=============================================================================

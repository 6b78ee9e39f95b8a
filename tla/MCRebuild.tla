------------------------------ MODULE MCRebuild ------------------------------
(* DatasetRebuild for TLC, and the pure algorithms of the audits and        *)
(* rebuilds on all small inputs.                                            *)
EXTENDS DatasetRebuild, HandEvents, GripperReview

(* Two ways that choose as many frames of 8, and not of 5; the first is the *)
(* conversion's.                                                            *)
MCConverted == [drop |-> 0, jump |-> 2]
MCSamplings == {MCConverted, [drop |-> 2, jump |-> 1]}

(* Bounds: a bag is recorded again from the second launch on (what happens  *)
(* in the first can happen there), and the claw audit has one setting (the  *)
(* low-dimensional one, which answers from its cache alike, has two).       *)
Bounds == /\ recordings > 0 => launches >= 2
          /\ Busy /\ job.tool = "claw" => job.given.set = 0

Seqs(S, n) == UNION {[1..k -> S] : k \in 1..n}

(* Streams of up to four messages, every instant around them.               *)
ASSUME AlignmentHolds ==
    \A ts \in Seqs(0..4, 4), t \in -1..5 :
        HoldIsMeasured(ts, t) /\ (Increasing(ts) => NearestAgree(ts, t))

ASSUME TrimHolds ==
    \A active \in Seqs(BOOLEAN, 4), pre, post \in 0..2 : TrimKeepsMotion(active, pre, post)

(* Commands of up to four samples at different distances, every interval.   *)
Commands == {c \in Seqs([at : 0..5, value : 0..1], 4) : InOrder(c)}
ASSUME EventsHold ==
    \A c \in Commands : \A end \in 0..6 :
        /\ ClawWindowsApart(c, end) /\ StableWindowsApart(c, end) /\ ClawsAlternate(c)
        /\ \A start \in 0..2 : HeldWindowsApart(c, start, end)

(* A hand that answers every command at once, or never; commands at         *)
(* different instants.                                                      *)
Follows(c, lag) == [i \in 1..12 |-> LET at == i - 4
                                        heard == {j \in DOMAIN c : c[j].at + lag <= at}
                                    IN [at |-> at, value |-> IF \E j \in heard : c[j].value = 1
                                           /\ \A k \in heard : k <= j THEN 9 ELSE 0]]
ASSUME AnswersHold ==
    \A c \in {c \in Commands : Increasing([i \in DOMAIN c |-> c[i].at])} :
    \A e \in Edges(c) : LET stop == ClawWindow(c, 8, e) IN
        /\ Observed(Follows(c, 0), c[e].at, stop) => ClawValid(c, e, Follows(c, 0), stop)
        /\ ~HeldValid(c, e, Follows(c, 20), stop)

(* Signals of up to six frames, debounced over one to three.                *)
ASSUME CyclesHold ==
    \A signal \in Seqs(Observations, 6), frames \in 1..3 :
        /\ DebounceSeesRuns(signal, frames) /\ CyclesAccountForEvents(signal, frames)
        /\ \A expected \in 0..1 : StatusIsEarned(signal, expected, frames, 3)

(* Three episodes to review, one of a fourth marked before.                 *)
ASSUME ReviewsHold ==
    /\ \A commands \in Seqs(Answers, 5), bad \in {{}, {1, 7}} :
           ReviewConsistent(<<1, 2, 3>>, bad, [e \in 1..3 |-> 10], commands)
    /\ InAscending(ToReview(0..9, 2, {[from |-> 0, to |-> 3], [from |-> 7, to |-> 8]})) = <<2, 3, 7, 8>>
    /\ Listed([e \in 1..3 |-> CASE e = 1 -> {"nominal_cycle_count"}
                                [] e = 2 -> {"nominal_cycle_count", "short_cycle_anomaly"}
                                [] e = 3 -> {"extra_cycle_recovery_candidate", "short_cycle_anomaly"}],
              "anomaly") = {2}
=============================================================================

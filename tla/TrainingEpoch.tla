---------------------------- MODULE TrainingEpoch ----------------------------
(***************************************************************************)
(* What the trainers make an epoch of: the weighted mixture of datasets    *)
(* (kuavo_train/dataset_mixture.py), the windows over which gradients are  *)
(* accumulated (utils/training_loop.py) and the number of updates the      *)
(* learning rate is planned for (train_policy.py, its accelerate twin).    *)
(*                                                                         *)
(* Weights are whole numbers; a weight divided by their sum is the         *)
(* fraction the code computes with, without its rounding errors.  Frames   *)
(* and batches are numbered from 0, sources from 1.                        *)
(***************************************************************************)
EXTENDS Integers, Sequences, FiniteSets, FiniteSetsExt

CeilDiv(x, y)  == (x + y - 1) \div y
RoundDiv(x, y) == \* round(): halves to the even neighbour
    IF 2 * (x % y) > y \/ (2 * (x % y) = y /\ (x \div y) % 2 = 1) THEN x \div y + 1 ELSE x \div y
UpTo(s, i)     == LET Sum[j \in 0..Len(s)] == IF j = 0 THEN 0 ELSE Sum[j - 1] + s[j] IN Sum[i]
Total(w)       == UpTo(w, Len(w))
Weighted(w, v) == Total([i \in DOMAIN w |-> w[i] * v[i]])
-----------------------------------------------------------------------------
(* The sources asked for: a name (0: none given, it is numbered) and a     *)
(* weight each.                                                            *)
SourceName(payload, i) == IF payload[i].name = 0 THEN i ELSE payload[i].name
LoadsSources(payload) ==
    /\ payload # <<>> /\ \A i \in DOMAIN payload : payload[i].weight > 0
    /\ Cardinality({SourceName(payload, i) : i \in DOMAIN payload}) = Len(payload)

Schema(meta) == [k \in {k \in DOMAIN meta.features : meta.features[k].kind # "other"} |->
                    meta.features[k].schema]
Compatible(metas) ==
    \A i \in 2..Len(metas) :
        /\ Schema(metas[i]) = Schema(metas[1]) /\ metas[i].fps = metas[1].fps
        /\ metas[i].cameras = metas[1].cameras /\ metas[i].robot = metas[1].robot

(* Statistics per key, as weighted sums: a mean is the sum over Total(w),  *)
(* a variance over its square.                                             *)
Quantiles == {"q01", "q10", "q50", "q90", "q99"}
Common(stats) ==
    {k \in DOMAIN stats[1] : /\ \A i \in DOMAIN stats : k \in DOMAIN stats[i]
                             /\ "mean" \in DOMAIN stats[1][k]}
Combine(stats, w, k) ==
    LET Of(q)  == [i \in DOMAIN stats |-> stats[i][k][q]]
        mean   == Of("mean")
        square == [i \in DOMAIN stats |-> stats[i][k].std * stats[i][k].std + mean[i] * mean[i]]
    IN [mean  |-> Weighted(w, mean),
        var   |-> Max({Total(w) * Weighted(w, square) - Weighted(w, mean) * Weighted(w, mean), 0}),
        min   |-> Min({stats[i][k].min : i \in DOMAIN stats}),
        max   |-> Max({stats[i][k].max : i \in DOMAIN stats}),
        count |-> Total(Of("count")),
        quantiles |-> [q \in {q \in Quantiles : \A i \in DOMAIN stats : q \in DOMAIN stats[i][k]} |->
                          Weighted(w, Of(q))]]
CombineStats(stats, w) == [k \in Common(stats) |-> Combine(stats, w, k)]
-----------------------------------------------------------------------------
(* Frames that are left when the last drop of every episode are taken off. *)
TrimTails(episodes, drop) ==
    UNION {e.from .. Max({e.from, e.to - Max({drop, 0})}) - 1 : e \in episodes}

(* Slots per source: the smallest epoch that has its share of every source *)
(* and goes through each at least once.                                    *)
VirtualSize(len, w) == Max({CeilDiv(len[i] * Total(w), w[i]) : i \in DOMAIN w})
Slots(len, w) == LET size == VirtualSize(len, w)
                 IN [i \in DOMAIN w |-> Max({1, RoundDiv(size * w[i], Total(w))})]
VirtualLen(slots) == Total(slots)

Wrapped(slots, index)  == IF index < 0 THEN index + VirtualLen(slots) ELSE index
InRange(slots, index)  == Wrapped(slots, index) \in 0..VirtualLen(slots) - 1
SourceOf(slots, index) ==
    1 + Cardinality({i \in DOMAIN slots : UpTo(slots, i) <= Wrapped(slots, index)})
(* The offset is taken from the index as given: a negative one is not      *)
(* wrapped here.                                                           *)
ItemOf(len, slots, index) ==
    LET i == SourceOf(slots, index)
    IN [source |-> i, item |-> (index - UpTo(slots, i - 1)) % len[i]]
-----------------------------------------------------------------------------
(* Accumulation: batch b of n is divided by the size of its window, and    *)
(* the optimizer steps at the end of one.                                  *)
WindowSize(b, n, acc) == Min({acc, n - (b \div acc) * acc})
ShouldStep(b, n, acc) == (b + 1) % acc = 0 \/ b + 1 = n
Batches(frames, size, dropLast) == IF dropLast THEN frames \div size ELSE CeilDiv(frames, size)
Updates(n, acc) == Cardinality({b \in 0..n - 1 : ShouldStep(b, n, acc)})

PlannedUpdates(frames, size, acc) == frames \div (size * acc) + 1
PlannedOnRanks(frames, size, ranks, acc) == Max({1, frames \div (size * ranks * acc)})
-----------------------------------------------------------------------------
(* "Each source is traversed at least once per epoch", its items as evenly *)
(* as can be; and a source has its share of the slots up to rounding.      *)
EveryItemDrawn(len, w) ==
    LET slots == Slots(len, w)
        Drawn(i, x) == Cardinality({n \in 0..VirtualLen(slots) - 1 :
                                       ItemOf(len, slots, n) = [source |-> i, item |-> x]})
    IN \A i \in DOMAIN w :
           /\ \A x, y \in 0..len[i] - 1 : Drawn(i, x) >= 1 /\ Drawn(i, x) <= Drawn(i, y) + 1
           /\ 2 * (slots[i] * Total(w) - VirtualSize(len, w) * w[i]) \in -Total(w)..Total(w)

(* Mixed statistics are those of the mixed frames.  A source is its mean   *)
(* and deviation: half its frames lie one deviation above, half below.     *)
StatsAreOfMixture(pairs, w) ==
    LET stats == [i \in DOMAIN w |-> [x |-> [mean |-> pairs[i].mean, std |-> pairs[i].std,
                      min |-> pairs[i].mean - pairs[i].std, max |-> pairs[i].mean + pairs[i].std,
                      count |-> 2 * w[i]]]]
        high      == [i \in DOMAIN w |-> pairs[i].mean + pairs[i].std]
        low       == [i \in DOMAIN w |-> pairs[i].mean - pairs[i].std]
        squares(v) == [i \in DOMAIN w |-> v[i] * v[i]]
        sum       == Weighted(w, high) + Weighted(w, low)
        mixed     == CombineStats(stats, w)["x"]
    IN /\ 2 * mixed.mean = sum /\ mixed.count = 2 * Total(w)
       /\ 4 * mixed.var = 2 * Total(w) * (Weighted(w, squares(high)) + Weighted(w, squares(low))) - sum * sum

(* Every batch counts once, and every update is an average over its window. *)
WindowsAreWhole(n, acc) ==
    \A b \in 0..n - 1 : ShouldStep(b, n, acc) =>
        LET since == {c \in 0..b : \A d \in c..b - 1 : ~ShouldStep(d, n, acc)}
        IN \A c \in since : WindowSize(c, n, acc) = Cardinality(since)

(* The learning rate is planned for at least the updates there will be, on *)
(* several ranks for at most one per epoch too few (none with drop_last    *)
(* and no accumulation).                                                   *)
PlanLasts(frames, size, acc) ==
    \A dropLast \in BOOLEAN : Updates(Batches(frames, size, dropLast), acc) <= PlannedUpdates(frames, size, acc)
RanksPlanLasts(frames, size, ranks, acc) ==
    \A dropLast \in BOOLEAN :
        Updates(Batches(frames, size * ranks, dropLast), acc)
            <= PlannedOnRanks(frames, size, ranks, acc) + IF dropLast /\ acc = 1 THEN 0 ELSE 1
=============================================================================

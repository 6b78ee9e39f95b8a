----------------------------- MODULE BagAlignment -----------------------------
(***************************************************************************)
(* How the data tools pick, for an instant, a message of a stream: the     *)
(* converter (kuavo_data/common), the audits (tools/audit_*.py) and the    *)
(* rebuilds (tools/rebuild_*.py, tools/export_beijing_*.py).               *)
(*                                                                         *)
(* A stream is the sequence of its stamps in recording order; a message is *)
(* named by its position.  Stamps of the recorder ("bag time") increase    *)
(* strictly; stamps of the sender ("header") need not.                     *)
(***************************************************************************)
EXTENDS Integers, Sequences, FiniteSets

Distance(x, y) == IF x < y THEN y - x ELSE x - y

(* bisect_left and searchsorted on a sorted stream: how many come before.  *)
Before(ts, t) == Cardinality({i \in DOMAIN ts : ts[i] < t})

(* The neighbours of t, the later one only when it is strictly closer.     *)
NearestSorted(ts, t) ==
    LET i == Before(ts, t)
    IN IF i = 0 THEN 1
       ELSE IF i < Len(ts) /\ Distance(ts[i + 1], t) < Distance(ts[i], t) THEN i + 1 ELSE i

(* argmin: the first of the closest messages.                              *)
NearestFirst(ts, t) ==
    CHOOSE i \in DOMAIN ts : \A j \in DOMAIN ts :
        \/ Distance(ts[i], t) < Distance(ts[j], t)
        \/ Distance(ts[i], t) = Distance(ts[j], t) /\ i <= j

(* The same with both neighbours clipped into the stream, as the audits do *)
(* to measure what the converter has chosen (direct_alignment_stats).      *)
NearestClipped(ts, t) ==
    LET right == IF Before(ts, t) < Len(ts) THEN Before(ts, t) + 1 ELSE Len(ts)
        left  == IF right > 1 THEN right - 1 ELSE 1
    IN IF Distance(ts[right], t) < Distance(ts[left], t) THEN right ELSE left
-----------------------------------------------------------------------------
(* Causal choice by header: the newest message that is not younger than t, *)
(* of equal stamps the one recorded last.                                  *)
Past(ts, t)   == {i \in DOMAIN ts : ts[i] <= t}
Newest(ts, I) == CHOOSE i \in I : \A j \in I :
                     ts[j] < ts[i] \/ (ts[j] = ts[i] /\ j <= i)
CausalHold(ts, t) == Newest(ts, Past(ts, t))

(* What the audits measure instead (causal_stats), on the set of stamps:   *)
(* the age of the newest message at t, and between two messages the width  *)
(* of the gap and the way to the closer side.                              *)
Stamps(ts)       == {ts[i] : i \in DOMAIN ts}
LastBy(ts, t)    == CHOOSE x \in Stamps(ts) : x <= t /\ \A y \in Stamps(ts) : y <= t => y <= x
FirstFrom(ts, t) == CHOOSE x \in Stamps(ts) : x >= t /\ \A y \in Stamps(ts) : y >= t => x <= y
Age(ts, t)       == t - LastBy(ts, t)
Bracketed(ts, t) == \E x, y \in Stamps(ts) : x <= t /\ t <= y
Bracket(ts, t)   == FirstFrom(ts, t) - LastBy(ts, t)
Nearer(ts, t)    == LET ahead == FirstFrom(ts, t) - t
                    IN IF Age(ts, t) < ahead THEN Age(ts, t) ELSE ahead
-----------------------------------------------------------------------------
(* The master frames: the camera messages without the first and the last   *)
(* drop ones, every jump-th of them, as positions in the stream.           *)
Sampled(n, drop, jump) ==
    LET rest == n - 2 * drop
    IN [i \in 1..(IF rest <= 0 THEN 0 ELSE (rest + jump - 1) \div jump) |->
            drop + (i - 1) * jump + 1]

(* The members of a stream at a set of positions, in order.                *)
Picked(ts, I) ==
    [n \in 1..Cardinality(I) |-> ts[CHOOSE i \in I : Cardinality({j \in I : j < i}) = n - 1]]

(* Where the commands pause for longer than a threshold.                   *)
Gaps(ts, threshold)  == {i \in 2..Len(ts) : ts[i] - ts[i - 1] > threshold}
InGap(ts, gaps, t)   == \E i \in gaps : ts[i - 1] < t /\ t < ts[i]

(* command_trim_range: the range of frames around the activity, with an    *)
(* activity flag per step between two frames, and the bridge over one step. *)
Bridged(active) ==
    [i \in DOMAIN active |-> \/ active[i]
                             \/ i > 1 /\ i < Len(active) /\ active[i - 1] /\ active[i + 1]]
TrimEnd(last, post)      == last + 1 + post
LastKept(last, post)     == TrimEnd(last, post)
TrimRange(active, pre, post) ==
    LET n  == Len(active) + 1
        on == {i \in DOMAIN active : Bridged(active)[i]}
        first == CHOOSE i \in on : \A j \in on : i <= j
        last  == CHOOSE i \in on : \A j \in on : j <= i
    IN IF on = {} THEN [start |-> 0, end |-> n]
       ELSE [start |-> IF first > pre THEN first - pre ELSE 0,
             end   |-> IF LastKept(last, post) < n THEN LastKept(last, post) ELSE n]
-----------------------------------------------------------------------------
(* The converter's two ways of choosing and the way in which the audits    *)
(* measure the choice agree on a stream in order.                          *)
Increasing(ts) == \A i, j \in DOMAIN ts : i < j => ts[i] < ts[j]
NearestAgree(ts, t) ==
    NearestSorted(ts, t) = NearestFirst(ts, t) /\ NearestClipped(ts, t) = NearestFirst(ts, t)

(* The message that a rebuild holds is not younger than the frame, no      *)
(* message between the two was passed over, and its age is what the audits *)
(* have accepted; between two messages it is at most the width of the gap. *)
HoldIsMeasured(ts, t) ==
    Past(ts, t) # {} =>
        LET i == CausalHold(ts, t)
        IN /\ i \in Past(ts, t) /\ \A j \in Past(ts, t) : ts[j] <= ts[i]
           /\ Age(ts, t) = t - ts[i]
           /\ Bracketed(ts, t) => Age(ts, t) <= Bracket(ts, t) /\ 2 * Nearer(ts, t) <= Bracket(ts, t)

(* Trimming idle frames keeps every frame whose command differs from that  *)
(* of the frame before (step i leads to frame i, counted from 0).          *)
TrimKeepsMotion(active, pre, post) ==
    LET range == TrimRange(active, pre, post)
    IN \A i \in DOMAIN active : active[i] => range.start <= i /\ i < range.end
=============================================================================

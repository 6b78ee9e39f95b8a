------------------------------ MODULE HandEvents ------------------------------
(***************************************************************************)
(* How the audits find the grasps of a recording and judge whether the     *)
(* hand followed the command: command_events (audit_task2_claw_bags.py),   *)
(* hand_events (audit_task3_lowdim_alignment.py), stable_edges and         *)
(* response_events (audit_beijing_rosbags.py).                             *)
(*                                                                         *)
(* A stream is a sequence of samples [at, value] in recording order; time  *)
(* is counted in microseconds, the 1e-6 of the code.  One channel stands   *)
(* for all.                                                                *)
(***************************************************************************)
EXTENDS Integers, Sequences, FiniteSets

CONSTANTS CloseAbove,  \* a command above it closes the hand
          EventWindow, \* how long the hand may take to answer
          MinHold,     \* a command held for less is no event
          Baseline, Settled, \* how far the medians look back from the ends of a window
          MinResponse, \* how far the hand must move
          MaxDelay,    \* until it has moved 95 % of the way
          Margin       \* how far the samples must reach beyond the window

Lesser(x, y)   == IF x < y THEN x ELSE y
Closed(cmd, i) == cmd[i].value > CloseAbove

(* Where the command crosses the threshold, and how long it then stays on  *)
(* its side, as far as the edges E tell.                                   *)
Edges(cmd)   == {i \in 2..Len(cmd) : Closed(cmd, i) # Closed(cmd, i - 1)}
Later(E, e)  == {f \in E : f > e}
NextOf(E, e) == CHOOSE f \in Later(E, e) : \A g \in Later(E, e) : f <= g
Until(cmd, E, e, end) == IF Later(E, e) = {} THEN end ELSE cmd[NextOf(E, e)].at

(* Claws: every edge is an event; its window ends before the next edge.    *)
ClawWindow(cmd, end, e) ==
    Lesser(cmd[e].at + EventWindow, Until(cmd, Edges(cmd), e, end) - 1)

(* Task 3: of the edges between start and end those that are held.         *)
Within(cmd, start, end) == {e \in Edges(cmd) : start <= cmd[e].at /\ cmd[e].at <= end}
HoldEnd(cmd, start, end, e) == Lesser(Until(cmd, Within(cmd, start, end), e, end), end)
Held(cmd, start, end) ==
    {e \in Within(cmd, start, end) : HoldEnd(cmd, start, end, e) - cmd[e].at >= MinHold}
HeldWindow(cmd, start, end, e) ==
    Lesser(cmd[e].at + EventWindow,
           Lesser(Until(cmd, Held(cmd, start, end), e, end) - 1, end))

(* Beijing: the edges are held or not before those between start and end   *)
(* are taken.                                                              *)
Stable(cmd) == {e \in Edges(cmd) : Until(cmd, Edges(cmd), e, cmd[Len(cmd)].at) - cmd[e].at >= MinHold}
StableWindow(cmd, end, e) ==
    Lesser(cmd[e].at + EventWindow,
           IF Later(Stable(cmd), e) = {} THEN end ELSE cmd[NextOf(Stable(cmd), e)].at - 1)
-----------------------------------------------------------------------------
(* The answer of the hand.  A median is doubled to stay an integer.        *)
Span(state, from, to) == {i \in DOMAIN state : from <= state[i].at /\ state[i].at <= to}
Ranked(state, I, k) ==
    CHOOSE v \in {state[i].value : i \in I} :
        /\ Cardinality({i \in I : state[i].value < v}) <= k
        /\ k < Cardinality({i \in I : state[i].value <= v})
Median2(state, I) == LET n == Cardinality(I)
                     IN Ranked(state, I, (n - 1) \div 2) + Ranked(state, I, n \div 2)

Before2(state, start) == Median2(state, Span(state, start - Baseline, start - 1))
After2(state, stop)   == Median2(state, Span(state, stop - Settled, stop))
Toward(cmd, e, x)     == IF Closed(cmd, e) THEN x ELSE -x

(* There are samples at both ends of the window, for the claws also around *)
(* it; the hand moved the right way and far enough; for the claws and      *)
(* task 3 it went 95 % of the way in time.                                 *)
Observed(state, start, stop) ==
    /\ stop - start >= MinHold
    /\ Span(state, start - Baseline, start - 1) # {} /\ Span(state, stop - Settled, stop) # {}
Covers(state, start, stop) == state[1].at <= start - Margin /\ stop - Margin <= state[Len(state)].at
Moves(cmd, e, state, stop) ==
    Toward(cmd, e, After2(state, stop) - Before2(state, cmd[e].at)) >= 2 * MinResponse
InTime(cmd, e, state, stop) ==
    LET from == Before2(state, cmd[e].at)
    IN \E i \in Span(state, cmd[e].at, Lesser(stop, cmd[e].at + MaxDelay)) :
           Toward(cmd, e, 40 * state[i].value - from - 19 * After2(state, stop)) >= 0

StableValid(cmd, e, state, stop) == Observed(state, cmd[e].at, stop) /\ Moves(cmd, e, state, stop)
HeldValid(cmd, e, state, stop)   == StableValid(cmd, e, state, stop) /\ InTime(cmd, e, state, stop)
ClawValid(cmd, e, state, stop)   == HeldValid(cmd, e, state, stop) /\ Covers(state, cmd[e].at, stop)
-----------------------------------------------------------------------------
InOrder(cmd) == \A i, j \in DOMAIN cmd : i <= j => cmd[i].at <= cmd[j].at

(* The window of an event ends before the next event: no answer is counted *)
(* for two commands.  Events of task 3 and Beijing are held, so MinHold    *)
(* lies between them, and those of task 3 end where the interval ends.     *)
ClawWindowsApart(cmd, end) ==
    \A e, f \in Edges(cmd) : e < f => ClawWindow(cmd, end, e) < cmd[f].at
HeldWindowsApart(cmd, start, end) ==
    \A e, f \in Held(cmd, start, end) :
        /\ HeldWindow(cmd, start, end, e) <= end
        /\ e < f => /\ HeldWindow(cmd, start, end, e) < cmd[f].at
                    /\ cmd[f].at - cmd[e].at >= MinHold
StableWindowsApart(cmd, end) ==
    \A e, f \in Stable(cmd) : e < f => /\ StableWindow(cmd, end, e) < cmd[f].at
                                        /\ cmd[f].at - cmd[e].at >= MinHold

(* Claws open and close in turn.  (The held edges of task 3 need not: two  *)
(* closings may follow each other when the opening between them was short, *)
(* and the second is then no answer to anything.)                          *)
ClawsAlternate(cmd) ==
    \A e \in Edges(cmd) : Later(Edges(cmd), e) # {} =>
        Closed(cmd, NextOf(Edges(cmd), e)) # Closed(cmd, e)
=============================================================================

---------------------------- MODULE GripperReview ----------------------------
(***************************************************************************)
(* Two reviews of the grasps in a dataset: the automatic count of cycles   *)
(* (tools/audit_lerobot_gripper_cycles.py) and the manual marking of bad   *)
(* episodes (tools/qc_gripper_episode_alignment.py).                       *)
(*                                                                         *)
(* A signal is a sequence of what stable_state makes of its values: "open" *)
(* (at or below open_threshold), "closed" (at or above close_threshold) or *)
(* "between".  Frames are numbered from 1.                                 *)
(***************************************************************************)
EXTENDS Integers, Sequences, FiniteSets

Sides    == {"open", "closed"}
NoSide   == "between"
Observations == Sides \cup {NoSide}

(* debounce_events: a side must be observed for `frames` frames in a row;  *)
(* the first side so confirmed is the initial one, any other is an event   *)
(* at the first frame of its run.                                          *)
Debouncing == [state |-> NoSide, initial |-> NoSide, candidate |-> NoSide,
               start |-> 0, count |-> 0, events |-> <<>>]
Confirm(s, side, start) ==
    [Debouncing EXCEPT !.state = side, !.start = start,
        !.initial = IF s.initial = NoSide THEN side ELSE s.initial,
        !.events  = IF s.initial = NoSide THEN s.events
                    ELSE Append(s.events, [to |-> side, frame |-> start])]
Observe(s, frame, side, frames) ==
    IF side \in {NoSide, s.state} THEN [s EXCEPT !.candidate = NoSide, !.count = 0]
    ELSE LET goes_on == side = s.candidate
             start   == IF goes_on THEN s.start ELSE frame
             count   == IF goes_on THEN s.count + 1 ELSE 1
         IN IF count < frames THEN [s EXCEPT !.candidate = side, !.start = start, !.count = count]
            ELSE Confirm(s, side, start)
Debounce(signal, frames) ==
    LET after[i \in 0..Len(signal)] ==
            IF i = 0 THEN Debouncing ELSE Observe(after[i - 1], i, signal[i], frames)
    IN after[Len(signal)]

(* pair_cycles: a cycle is a closing and the opening that follows it.      *)
Pairing == [pending |-> 0, cycles |-> <<>>, orphans |-> 0]
Pair(p, event) ==
    IF event.to = "closed" THEN [p EXCEPT !.pending = event.frame]
    ELSE IF p.pending = 0 THEN [p EXCEPT !.orphans = @ + 1]
    ELSE [p EXCEPT !.cycles = Append(@, [close |-> p.pending, open |-> event.frame]), !.pending = 0]
PairCycles(events) ==
    LET after[i \in 0..Len(events)] == IF i = 0 THEN Pairing ELSE Pair(after[i - 1], events[i])
    IN after[Len(events)]

Closings(events) == Cardinality({i \in DOMAIN events : events[i].to = "closed"})
Status(signal, expected, frames, minCycle) ==
    LET d        == Debounce(signal, frames)
        p        == PairCycles(d.events)
        complete == Len(p.cycles)
    IN CASE d.initial = NoSide -> "no_stable_gripper_state"
         [] d.initial # NoSide /\ (complete > expected \/ Closings(d.events) > expected)
                -> "extra_cycle_recovery_candidate"
         [] d.initial # NoSide /\ Closings(d.events) <= expected /\ complete < expected
                -> "insufficient_cycles"
         [] OTHER -> IF p.pending # 0 \/ d.state # "open" THEN "terminally_closed"
                     ELSE IF \E i \in DOMAIN p.cycles : p.cycles[i].open - p.cycles[i].close < minCycle
                     THEN "short_cycle_anomaly" ELSE "nominal_cycle_count"

(* An episode is judged by all its hands and is on one of three lists.     *)
EpisodeStatus(statuses) ==
    IF "extra_cycle_recovery_candidate" \in statuses THEN "recovery_candidate"
    ELSE IF statuses = {"nominal_cycle_count"} THEN "nominal" ELSE "anomaly"
Listed(judged, status) == {e \in DOMAIN judged : EpisodeStatus(judged[e]) = status}
-----------------------------------------------------------------------------
(* The manual review.  parts are the ranges of the --episodes option, empty *)
(* when it is not given.                                                   *)
ToReview(all, first, parts) ==
    {e \in all : e >= first /\ (parts = {} \/ \E r \in parts : r.from <= e /\ e <= r.to)}
InAscending(E) == [i \in 1..Cardinality(E) |-> CHOOSE e \in E : Cardinality({f \in E : f < e}) = i - 1]

Answers == {"ok", "bad", "skip", "previous", "quit", "unknown"}
Reviewing(bad) == [at |-> 1, bad |-> bad, decisions |-> <<>>, quit |-> FALSE]
Decide(s, e, what) == [f \in DOMAIN s.decisions \cup {e} |-> IF f = e THEN what ELSE s.decisions[f]]
Obey(s, todo, command) ==
    IF s.quit \/ s.at > Len(todo) THEN s
    ELSE LET e == todo[s.at] IN
         CASE command = "ok"       -> [s EXCEPT !.at = @ + 1, !.bad = @ \ {e}, !.decisions = Decide(s, e, "ok")]
           [] command = "bad"      -> [s EXCEPT !.at = @ + 1, !.bad = @ \cup {e}, !.decisions = Decide(s, e, "bad")]
           [] command = "skip"     -> [s EXCEPT !.at = @ + 1, !.decisions =
                                          IF e \in DOMAIN @ THEN @ ELSE Decide(s, e, "skip")]
           [] command = "previous" -> [s EXCEPT !.at = IF @ > 1 THEN @ - 1 ELSE 1]
           [] command = "quit"     -> [s EXCEPT !.quit = TRUE]
           [] command = "unknown"  -> s
Review(todo, bad, commands) ==
    LET after[i \in 0..Len(commands)] ==
            IF i = 0 THEN Reviewing(bad) ELSE Obey(after[i - 1], todo, commands[i])
    IN after[Len(commands)]

(* The three files written after every command, and what resuming from one *)
(* of them reads.                                                          *)
Saved(s, lengths) ==
    [list      |-> s.bad,
     decisions |-> [bad_episodes |-> s.bad, decisions |-> s.decisions],
     trim      |-> [e \in s.bad \cap DOMAIN lengths |-> [start |-> 0, end |-> lengths[e], drop |-> TRUE]]]
LoadedBad(saved, kind) ==
    CASE kind = "list"      -> saved.list
      [] kind = "decisions" -> saved.decisions.bad_episodes
      [] kind = "trim"      -> {e \in DOMAIN saved.trim : saved.trim[e].drop}
-----------------------------------------------------------------------------
(* What the debounce says about a signal without its state: the runs of a  *)
(* side that are long enough, where the side changes from one to the next. *)
Runs(signal, frames) ==
    {r \in [from : DOMAIN signal, side : Sides] :
        /\ r.from + frames - 1 <= Len(signal) /\ (r.from = 1 \/ signal[r.from - 1] # r.side)
        /\ \A i \in r.from..r.from + frames - 1 : signal[i] = r.side}
Earlier(R, r) == {q \in R : q.from < r.from}
Switches(R)   == {r \in R : \E q \in Earlier(R, r) :
                      /\ q.side # r.side
                      /\ \A p \in Earlier(R, r) : p.from <= q.from}
DebounceSeesRuns(signal, frames) ==
    LET d == Debounce(signal, frames)
        R == Runs(signal, frames)
    IN /\ {[from |-> d.events[i].frame, side |-> d.events[i].to] : i \in DOMAIN d.events} = Switches(R)
       /\ \A i, j \in DOMAIN d.events : i < j => d.events[i].frame < d.events[j].frame
       /\ d.initial = NoSide <=> R = {}

(* Nothing is lost between events and cycles, and an episode is nominal    *)
(* only if the hand ends open after the cycles expected.  A hand that ends *)
(* closed is called so only where no cycle was expected: its last closing  *)
(* otherwise makes it a candidate for a recovery or one cycle short.       *)
CyclesAccountForEvents(signal, frames) ==
    LET d == Debounce(signal, frames)
        p == PairCycles(d.events)
        unclosed == IF p.pending = 0 THEN 0 ELSE 1
    IN /\ Len(d.events) = 2 * Len(p.cycles) + p.orphans + unclosed
       /\ Closings(d.events) = Len(p.cycles) + unclosed
       /\ p.orphans <= 1 /\ (p.orphans = 1 => d.initial = "closed")
       /\ unclosed = 1 => d.state = "closed"
       /\ \A i \in DOMAIN p.cycles : p.cycles[i].open - p.cycles[i].close >= frames
StatusIsEarned(signal, expected, frames, minCycle) ==
    LET status == Status(signal, expected, frames, minCycle)
        d      == Debounce(signal, frames)
    IN /\ status = "nominal_cycle_count" => d.state = "open" /\ Closings(d.events) = expected
       /\ status = "terminally_closed" => expected = 0

(* After any commands the verdicts and the list of bad episodes agree, an  *)
(* episode without a verdict is as it was, and a review resumed from any   *)
(* of the files knows the same bad episodes of this dataset.               *)
ReviewConsistent(todo, bad, lengths, commands) ==
    LET s == Review(todo, bad, commands)
        judged == {e \in DOMAIN s.decisions : s.decisions[e] # "skip"}
    IN /\ \A e \in judged : e \in s.bad <=> s.decisions[e] = "bad"
       /\ s.bad \ judged = bad \ judged
       /\ \A kind \in {"list", "decisions", "trim"} :
              LoadedBad(Saved(s, lengths), kind) \cap DOMAIN lengths = s.bad \cap DOMAIN lengths
=============================================================================

----------------------------- MODULE EpisodeExport -----------------------------
(***************************************************************************)
(* What the episode editor computes from a trim configuration: groups of   *)
(* episodes, lengths, samples, the auto-trim plan, the playback and the    *)
(* exported dataset (the functions of lerobot_episode_editor_v8.py).       *)
(*                                                                         *)
(* A configuration gives every episode a range [start, end) of frames and  *)
(* a drop flag.  Ranges read from a file are taken as they are and may lie *)
(* outside the episode.                                                    *)
(***************************************************************************)
EXTENDS Integers, Sequences, FiniteSets, SequencesExt

CONSTANTS EpisodeCount,  \* episodes of the source dataset
          Frames,        \* frames of an episode
          GroupSize      \* episodes per long task group

ASSUME ExportAssumption ==
    /\ EpisodeCount \in Nat \ {0} /\ Frames \in Nat \ {0} /\ GroupSize \in Nat \ {0}

Episodes == 1..EpisodeCount
EpisodeTable == [i \in Episodes |-> i]  \* build_episode_table: sorted by episode_index
NoTrim   == [start |-> 0, end |-> Frames, drop |-> FALSE]
Default  == [e \in Episodes |-> NoTrim]

Between(lo, x, hi) == IF x < lo THEN lo ELSE IF x > hi THEN hi ELSE x
From(r) == Between(0, r.start, Frames)
To(r)  == LET s == From(r) IN IF r.end < s THEN s ELSE Between(s, r.end, Frames)

(* build_length_table *)
RawLength(cfg, e)  == Frames
KeptLength(cfg, e) == IF cfg[e].drop THEN 0 ELSE To(cfg[e]) - From(cfg[e])

Total(lengths) == FoldLeft(LAMBDA acc, n : acc + n, 0, lengths)
-----------------------------------------------------------------------------
(* make_episode_groups *)
WholeGroups(s, size) ==
    [i \in 1..(Len(s) \div size) |-> SubSeq(s, (i - 1) * size + 1, i * size)]
Chunks(s, size) ==
    [i \in 1..((Len(s) + size - 1) \div size) |->
        SubSeq(s, (i - 1) * size + 1, Between(0, i * size, Len(s)))]
Valid(cfg) == FlattenSeq([e \in Episodes |-> IF cfg[e].drop THEN <<>> ELSE <<e>>])
Groups(cfg, regroup) == Chunks(IF regroup THEN Valid(cfg) ELSE EpisodeTable, GroupSize)

(* build_group_length_table *)
GroupRow(cfg, g) ==
    [kept     |-> Total([i \in DOMAIN g |-> KeptLength(cfg, g[i])]),
     raw      |-> Total([i \in DOMAIN g |-> RawLength(cfg, g[i])]),
     complete |-> Len(g) = GroupSize,
     drop     |-> \A e \in ToSet(g) : cfg[e].drop]

(* The episodes and the groups a sample may be drawn from, by their length, *)
(* and the samples: all of them, or as many as asked for.  Which ones the   *)
(* targets or the random numbers pick is left open.                         *)
LengthBy(kind, cfg, e) == IF kind = "raw" THEN RawLength(cfg, e) ELSE KeptLength(cfg, e)
EpisodeCandidates(cfg, kind, min) ==
    {e \in Episodes : LengthBy(kind, cfg, e) >= min /\ ~cfg[e].drop}
GroupCandidates(cfg, regroup, min) ==
    LET gs == Groups(cfg, regroup)
    IN {i \in DOMAIN gs : LET row == GroupRow(cfg, gs[i])
                          IN row.kept >= min /\ row.complete /\ ~row.drop}
Samples(candidates, count) ==
    IF count = 0 \/ count >= Cardinality(candidates) THEN {candidates}
    ELSE {s \in SUBSET candidates : Cardinality(s) = count}

(* apply_episode_subset_to_trim_config, apply_group_subset_to_trim_config *)
ApplySubset(cfg, selected, dropOthers) ==
    [e \in Episodes |-> IF dropOthers THEN [cfg[e] EXCEPT !.drop = e \notin selected]
                        ELSE IF e \in selected THEN [cfg[e] EXCEPT !.drop = FALSE]
                        ELSE cfg[e]]
EpisodesOf(cfg, regroup, groups) ==
    LET gs == Groups(cfg, regroup)
    IN UNION {ToSet(gs[i]) : i \in groups \cap DOMAIN gs}
-----------------------------------------------------------------------------
(* The auto-trim plan.  A suggestion is the active range of an episode, or *)
(* the whole of it when nothing in it is active (suggest_trim).            *)
Suggestions == {[start |-> 0, end |-> Frames, active |-> FALSE],
                [start |-> 0, end |-> Frames, active |-> TRUE],
                [start |-> 1, end |-> Frames, active |-> TRUE]}
PlanParams  == [includeDropped: BOOLEAN, noActivity: {"keep", "drop", "empty_keep_one"},
                neverExpand: BOOLEAN]

Suggested(before, s, p) == IF s.active THEN <<s.start, s.end>> ELSE before
PlannedRange(before, s, p) ==
    IF ~s.active
    THEN IF p.noActivity = "empty_keep_one" THEN <<0, 1>> ELSE before
    ELSE LET lo == IF before[1] > s.start THEN before[1] ELSE s.start
             hi == IF before[2] < s.end THEN before[2] ELSE s.end
         IN IF p.neverExpand /\ hi > lo THEN <<lo, hi>> ELSE <<s.start, s.end>>

PlanRow(r, s, p) ==
    LET before == <<From(r), To(r)>>
        new    == PlannedRange(before, s, p)
    IN IF r.drop /\ ~p.includeDropped THEN [skip |-> TRUE, to |-> r]
       ELSE [skip |-> FALSE,
             to   |-> [start |-> new[1], end |-> new[2],
                       drop  |-> r.drop \/ (~s.active /\ p.noActivity = "drop")]]
Plan(cfg, sugg, p) == [e \in Episodes |-> PlanRow(cfg[e], sugg[e], p)]

ApplyPlan(cfg, plan) ==
    [e \in Episodes |-> IF plan[e].skip THEN cfg[e] ELSE plan[e].to]
-----------------------------------------------------------------------------
FramesOf(e, lo, hi) == [i \in 1..(hi - lo) |-> <<e, lo + i - 1>>]

(* playback_sequence *)
Playback(cfg, eps, trimmed) ==
    FlattenSeq([i \in DOMAIN eps |-> LET e == eps[i] IN
        IF cfg[e].drop THEN <<>>
        ELSE IF trimmed THEN FramesOf(e, From(cfg[e]), To(cfg[e]))
        ELSE FramesOf(e, 0, Frames)])

(* export_trimmed_dataset: the groups, the segments of one that are not     *)
(* dropped and not empty, and an output episode for each group that has any. *)
ExportGroups(cfg, merge, regroup) ==
    IF ~merge THEN Chunks(EpisodeTable, 1)
    ELSE IF regroup THEN Chunks(Valid(cfg), GroupSize) ELSE Chunks(EpisodeTable, GroupSize)
Skips(r)        == r.drop \/ To(r) <= From(r)
Segments(cfg, g) ==
    FlattenSeq([i \in DOMAIN g |-> LET e == g[i] IN
        IF Skips(cfg[e]) THEN <<>>
        ELSE <<[episode |-> e, start |-> From(cfg[e]), end |-> To(cfg[e])]>>])
Export(cfg, merge, regroup) ==
    LET gs == ExportGroups(cfg, merge, regroup)
    IN FlattenSeq([i \in DOMAIN gs |-> LET s == Segments(cfg, gs[i]) IN
                      IF s = <<>> THEN <<>> ELSE <<s>>])
ExportedFrames(out) ==
    FlattenSeq([i \in DOMAIN out |-> FlattenSeq([j \in DOMAIN out[i] |->
        FramesOf(out[i][j].episode, out[i][j].start, out[i][j].end)])])

(* summarize_export: the ranges as they stand in the configuration, which  *)
(* is what the frames are unless they reach beyond the episode (Inside),   *)
(* an output per episode, or per group with the groups of the editor.      *)
Inside(r) == 0 <= r.start /\ r.end <= Frames
SummaryFrames(r) == IF r.drop THEN 0 ELSE IF r.end > r.start THEN r.end - r.start ELSE 0
Summary(cfg, merge, regroup) ==
    LET gs == IF merge THEN Groups(cfg, regroup) ELSE Chunks(EpisodeTable, 1)
    IN [i \in DOMAIN gs |-> Total([j \in DOMAIN gs[i] |-> SummaryFrames(cfg[gs[i][j]])])]
=============================================================================

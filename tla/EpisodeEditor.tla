----------------------------- MODULE EpisodeEditor -----------------------------
(***************************************************************************)
(* The episode editor: what its panels do to the trim configuration.       *)
(*                                                                         *)
(* It is a Streamlit page.  Each event of the user runs the handler and    *)
(* then the whole script again, and the script is more than a view: the    *)
(* checkbox and the slider of the selected episode write what they show    *)
(* into the configuration, and a file that still lies in the uploader is   *)
(* applied again.  So one action is an event with the script behind it     *)
(* (Rerun).  Widgets keep a value under a key: the code reads and sets the *)
(* keys of the drop checkboxes, the library forgets those of widgets that  *)
(* are not on the page, some of the ones the code set itself excepted.     *)
(***************************************************************************)
EXTENDS EpisodeExport, TLC

CONSTANTS Datasets,   \* source roots that may be opened
          Files,      \* the trim_config.json files that may be uploaded
          MaxEdits    \* bound on the events of the user

(* A file may name some of the episodes only; what it names is taken, with *)
(* any numbers for the range.                                              *)
Ranges == [start: Int, end: Int, drop: BOOLEAN]
ASSUME FilesAssumption ==
    \A f \in Files : DOMAIN f \subseteq Episodes /\ \A e \in DOMAIN f : f[e] \in Ranges

VARIABLES opened,      \* the open dataset
          cfg,         \* st.session_state.trim_config
          saved,       \* trim_config.json of each dataset, <<>> if there is none
          uploaded,    \* what lies in the uploader, <<>> for nothing
          regroup,     \* "Regroup after dropped/ignored episodes"
          selected,    \* "Select episode"
          keys,        \* drop_episode_<e>: what the checkbox of e shows
          shown,       \* trim_slider_<e> of the selected episode
          sampled, sampledGroups,
          plan,        \* auto_trim_plan with what it was computed from
          output,      \* the output root
          asked,       \* what the user last asked for e with an operation that
                       \* also sets the checkbox: "drop", "keep" or "none"
          edits
editorVars == <<opened, cfg, saved, uploaded, regroup, selected, keys, shown, sampled,
          sampledGroups, plan, output, asked, edits>>

Unset    == "none"
NoPlan  == [rows |-> <<>>, basis |-> <<>>, params |-> <<>>]
Flag(b) == IF b THEN "drop" ELSE "keep"
Drops(c, eps, b) == [e \in Episodes |-> IF e \in eps THEN [c[e] EXCEPT !.drop = b] ELSE c[e]]
Free(eps)        == [e \in Episodes |-> IF e \in eps THEN Unset ELSE asked[e]]
SortedKeys(s) == [i \in 1..Cardinality(s) |-> CHOOSE e \in s : Cardinality({x \in s : x < e}) = i - 1]
Applied(file, c) == [e \in Episodes |-> IF e \in DOMAIN file THEN file[e] ELSE c[e]]

EditorInit ==
    /\ opened \in Datasets
    /\ cfg = Default
    /\ saved = [d \in Datasets |-> <<>>]
    /\ uploaded = <<>>
    /\ regroup = TRUE
    /\ selected = 1
    /\ keys = [e \in Episodes |-> IF e = 1 THEN "keep" ELSE Unset]
    /\ shown = <<0, Frames>>
    /\ sampled = <<>> /\ sampledGroups = {}
    /\ plan = NoPlan
    /\ output = Unset
    /\ asked = [e \in Episodes |-> Unset]
    /\ edits = 0
-----------------------------------------------------------------------------
(* The script, with configuration c, checkbox keys k, sampled list ids and *)
(* a selection sel the handler left: it selects the first option when the  *)
(* selection is not one, and lets checkbox and slider write.  The slider   *)
(* answers with what it showed or with the new range (the library's        *)
(* choice), put in order, and with no regard to the length of the episode. *)
(* AsShown is the configuration where the save button reads it.            *)
Options(ids)     == IF ids = <<>> THEN EpisodeTable ELSE ids
Select(ids, sel) == IF sel \in ToSet(Options(ids)) THEN sel ELSE Options(ids)[1]
Checkbox(c, k, e) == IF k[e] = Unset THEN Flag(c[e].drop) ELSE k[e]
Ordered(lo, hi)   == IF lo <= hi THEN <<lo, hi>> ELSE <<hi, lo>>
Slider(c, e, old) == {Ordered(c[e].start, c[e].end)} \cup (IF old = <<>> THEN {} ELSE {old})
AsShown(c, k, e, r) ==
    [c EXCEPT ![e] = [start |-> r[1], end |-> r[2], drop |-> Checkbox(c, k, e) = "drop"]]
Forgotten(k, e, set) ==
    {[x \in Episodes |-> IF x = e THEN k[e] ELSE IF x \in keep THEN k[x] ELSE Unset] :
        keep \in {{}, set}}

Rerun(c, k, ids, sel, file) ==
    LET e == Select(ids, sel)
        old == IF e = selected THEN shown ELSE <<>>
    IN /\ edits < MaxEdits /\ edits' = edits + 1
       /\ selected' = e /\ sampled' = ids /\ uploaded' = file
       /\ \E r \in Slider(c, e, old) :
            /\ shown' = r
            /\ cfg' = Applied(file, AsShown(c, k, e, r))
       /\ keys' \in Forgotten([k EXCEPT ![e] = Checkbox(c, k, e)], e, {x \in Episodes : k[x] # Unset})

Edit(c, touched) ==  \* a handler that changes only the configuration
    /\ Rerun(c, keys, sampled, selected, uploaded)
    /\ asked' = Free(touched \cup DOMAIN uploaded)
    /\ UNCHANGED <<opened, saved, regroup, sampledGroups, plan, output>>
Aside(ids) ==        \* an event that leaves the configuration to the script
    /\ Rerun(cfg, keys, ids, selected, uploaded)
    /\ UNCHANGED <<opened, saved, asked>>
-----------------------------------------------------------------------------
(* Another source root: trims, samples, selection and widget keys of the   *)
(* old one are forgotten, the auto-trim plan and the uploader are not, and *)
(* the saved configuration is read once.                                   *)
OpenSource(d) ==
    /\ d # opened
    /\ opened' = d
    /\ edits < MaxEdits /\ edits' = edits + 1
    /\ LET c == Applied(saved[d], Default)
       IN /\ cfg' = Applied(uploaded, c)
          /\ shown' = Ordered(c[1].start, c[1].end)
          /\ keys' = [e \in Episodes |-> IF e = 1 THEN Flag(c[1].drop) ELSE Unset]
    /\ selected' = 1 /\ sampled' = <<>> /\ sampledGroups' = {}
    /\ asked' = [e \in Episodes |-> Unset]
    /\ UNCHANGED <<saved, uploaded, regroup, plan, output>>

ToggleRegroup ==
    /\ Aside(sampled) /\ regroup' = ~regroup
    /\ UNCHANGED <<sampledGroups, plan, output>>

(* Panels that only change the configuration: the ids listed for dropping  *)
(* or restoring, the contact sheet with its groups and thumbnails.         *)
MarkListed  == \E ids \in SUBSET Episodes \ {{}}, b \in BOOLEAN : Edit(Drops(cfg, ids, b), ids)
DropGroup   == \E i \in DOMAIN Groups(cfg, regroup) :
                  LET g == ToSet(Groups(cfg, regroup)[i]) IN Edit(Drops(cfg, g, TRUE), g)
ContactFlip == \E i \in DOMAIN Groups(cfg, regroup) : \E e \in ToSet(Groups(cfg, regroup)[i]) :
                  Edit(Drops(cfg, {e}, ~cfg[e].drop), {e})

(* Keeps the listed episodes only; sets every checkbox and the sampled list. *)
WhitelistKeys(c) == [e \in Episodes |-> Flag(c[e].drop)]
LoadWhitelist == \E ids \in SUBSET Episodes \ {{}} :
    LET c == ApplySubset(cfg, ids, TRUE) IN
    /\ Rerun(c, WhitelistKeys(c), SortedKeys(ids), selected, uploaded)
    /\ asked' = [e \in Episodes |-> IF e \in DOMAIN uploaded THEN Unset ELSE Flag(c[e].drop)]
    /\ UNCHANGED <<opened, saved, regroup, sampledGroups, plan, output>>
-----------------------------------------------------------------------------
ComputePlan == \E s \in Suggestions, p \in PlanParams :  \* the same for all episodes
    /\ Aside(sampled)
    /\ plan' = [rows |-> Plan(cfg, [e \in Episodes |-> s], p), basis |-> cfg, params |-> p]
    /\ UNCHANGED <<regroup, sampledGroups, output>>
UsePlan ==
    /\ plan # NoPlan
    /\ Edit(ApplyPlan(cfg, plan.rows), {e \in Episodes : ~plan.rows[e].skip})
ClearPlan ==
    /\ plan # NoPlan /\ plan' = NoPlan
    /\ Aside(sampled) /\ UNCHANGED <<regroup, sampledGroups, output>>

(* Sampling by duration, over the raw or the kept length. *)
SampleEpisodes == \E kind \in {"raw", "kept"}, min \in 0..Frames, n \in 0..EpisodeCount :
    \E s \in Samples(EpisodeCandidates(cfg, kind, min), n) :
        Aside(SortedKeys(s)) /\ UNCHANGED <<regroup, sampledGroups, plan, output>>
SampleGroups == \E min \in 0..GroupSize * Frames, n \in 0..EpisodeCount :
    \E s \in Samples(GroupCandidates(cfg, regroup, min), n) :
        Aside(sampled) /\ sampledGroups' = s /\ UNCHANGED <<regroup, plan, output>>
UseSample(chosen, dropOthers) ==
    /\ chosen # {}
    /\ Edit(ApplySubset(cfg, chosen, dropOthers), IF dropOthers THEN Episodes ELSE chosen)
UseEpisodes == \E b \in BOOLEAN : UseSample(ToSet(sampled), b)
UseGroups   == \E b \in BOOLEAN : UseSample(EpisodesOf(cfg, regroup, sampledGroups), b)
ClearSample ==
    \/ sampled # <<>> /\ Aside(<<>>) /\ UNCHANGED <<regroup, sampledGroups, plan, output>>
    \/ /\ sampledGroups # {} /\ sampledGroups' = {}
       /\ Aside(sampled) /\ UNCHANGED <<regroup, plan, output>>
-----------------------------------------------------------------------------
(* The selected episode: choosing it, its checkbox, its slider, the review *)
(* buttons that decide and go on to the next, the suggested trim.          *)
Choose == \E e \in ToSet(Options(sampled)) \ {selected} :
    /\ Rerun(cfg, keys, sampled, e, uploaded)
    /\ UNCHANGED <<opened, saved, regroup, sampledGroups, plan, output, asked>>
Check ==
    LET b == keys[selected] # "drop" IN
    /\ Rerun(cfg, [keys EXCEPT ![selected] = Flag(b)], sampled, selected, uploaded)
    /\ asked' = [asked EXCEPT ![selected] = IF selected \in DOMAIN uploaded THEN Unset ELSE Flag(b)]
    /\ UNCHANGED <<opened, saved, regroup, sampledGroups, plan, output>>
Widened == (IF shown[1] < 0 THEN shown[1] ELSE 0)..(IF shown[2] > Frames THEN shown[2] ELSE Frames)
Slide == \E lo, hi \in Widened :
    /\ lo <= hi
    /\ edits < MaxEdits /\ edits' = edits + 1
    /\ shown' = <<lo, hi>>
    /\ cfg' = Applied(uploaded, AsShown(cfg, keys, selected, <<lo, hi>>))
    /\ UNCHANGED <<opened, saved, uploaded, regroup, selected, keys, sampled, sampledGroups,
                   plan, output, asked>>
ReviewKeepsKeys(b) == keys
ReviewKeys(b)  == [keys EXCEPT ![selected] = Flag(b)]
After(ids, e)  == LET n == CHOOSE i \in DOMAIN ids : ids[i] = e IN ids[(n % Len(ids)) + 1]
ReviewAndAdvance == \E b \in BOOLEAN :
    /\ Rerun(Drops(cfg, {selected}, b), ReviewKeys(b), sampled, After(Options(sampled), selected),
             uploaded)
    /\ asked' = [asked EXCEPT ![selected] = IF selected \in DOMAIN uploaded THEN Unset ELSE Flag(b)]
    /\ UNCHANGED <<opened, saved, regroup, sampledGroups, plan, output>>
Suggest == \E s \in Suggestions :
    Edit([cfg EXCEPT ![selected] = [start |-> s.start, end |-> s.end, drop |-> @.drop]], {})

(* The save button stands above the uploader: it writes what checkbox and  *)
(* slider show, not what the uploaded file says of the selected episode.   *)
SaveTrims ==
    /\ Rerun(cfg, keys, sampled, selected, uploaded)
    /\ saved' = [saved EXCEPT ![opened] = AsShown(cfg, keys, selected, shown')]
    /\ UNCHANGED <<opened, regroup, sampledGroups, plan, output, asked>>
Upload == \E f \in Files \cup {<<>>} :
    /\ f # uploaded
    /\ Rerun(cfg, keys, sampled, selected, f)
    /\ asked' = Free(DOMAIN f)
    /\ UNCHANGED <<opened, saved, regroup, sampledGroups, plan, output>>

(* An output root that exists is an error without "overwrite", and is      *)
(* removed with it; the manifest is written last.                          *)
ExportDataset == \E overwrite, fails \in BOOLEAN :
    /\ Aside(sampled)
    /\ output' = IF output # Unset /\ ~overwrite THEN output
                 ELSE IF fails THEN "partial"
                 ELSE "whole"
    /\ UNCHANGED <<regroup, sampledGroups, plan>>

EditorNext ==
    \/ \E d \in Datasets : OpenSource(d)
    \/ ToggleRegroup \/ MarkListed \/ DropGroup \/ ContactFlip \/ LoadWhitelist
    \/ ComputePlan \/ UsePlan \/ ClearPlan
    \/ SampleEpisodes \/ SampleGroups \/ UseEpisodes \/ UseGroups \/ ClearSample
    \/ Choose \/ Check \/ Slide \/ ReviewAndAdvance \/ Suggest
    \/ SaveTrims \/ Upload \/ ExportDataset

EditorSpec == EditorInit /\ [][EditorNext]_editorVars
(* No dataset is special, and no property speaks of one. *)
DatasetSymmetry == Permutations(Datasets)
-----------------------------------------------------------------------------
(* The variables have their types, and the slider is never inverted. *)
EditorTypeOK ==
    /\ opened \in Datasets /\ selected \in Episodes /\ regroup \in BOOLEAN
    /\ cfg \in [Episodes -> Ranges] /\ shown[1] <= shown[2]
    /\ \A d \in Datasets : saved[d] = <<>> \/ saved[d] \in [Episodes -> Ranges]
    /\ uploaded \in Files \cup {<<>>}
    /\ keys \in [Episodes -> {"drop", "keep", Unset}]
    /\ asked \in [Episodes -> {"drop", "keep", Unset}]
    /\ ToSet(sampled) \subseteq Episodes /\ sampledGroups \subseteq Episodes
    /\ output \in {Unset, "partial", "whole"} /\ edits \in 0..MaxEdits

(* Whatever the edits and the files, and however the export groups the      *)
(* episodes, the frames of the export are those the playback of all         *)
(* episodes shows, each once and in order, and as many as the length table  *)
(* counts.  The export summary announces none too few, and exactly these    *)
(* unless a file gave an episode that is kept a range beyond its frames.    *)
FramesAgree == \A merge \in BOOLEAN :
    LET out  == ExportedFrames(Export(cfg, merge, regroup))
        rows == Summary(cfg, merge, regroup)
    IN /\ out = Playback(cfg, EpisodeTable, TRUE)
       /\ Len(out) = Total([e \in Episodes |-> KeptLength(cfg, e)])
       /\ Len(out) <= Total(rows)
       /\ (\A e \in Episodes : cfg[e].drop \/ Inside(cfg[e])) => Len(out) = Total(rows)

(* What the whitelist, a review button or the checkbox decided of an        *)
(* episode stands until something else decides it: no checkbox with an      *)
(* older value writes it back, whichever episode is selected in between.    *)
DecisionStands == \A e \in Episodes : asked[e] # Unset => Flag(cfg[e].drop) = asked[e]

(* An auto-trim plan applied to the configuration it was computed from      *)
(* leaves dropped episodes alone unless told to include them, brings none   *)
(* back, and with "never expand" keeps within the manual trim wherever the  *)
(* two have a frame in common.                                              *)
PlanRespectsEdits == plan # NoPlan =>
    LET to == ApplyPlan(plan.basis, plan.rows) IN
    \A e \in Episodes :
        LET was == plan.basis[e] IN
        /\ was.drop => to[e].drop
        /\ was.drop /\ ~plan.params.includeDropped => to[e] = was
        /\ plan.params.neverExpand /\ plan.params.noActivity # "empty_keep_one"
           => \/ was.start <= to[e].start /\ to[e].end <= was.end
              \/ \A i \in was.start..(was.end - 1) : i \notin to[e].start..(to[e].end - 1)
=============================================================================

--------------------------- MODULE RosbagConversion ---------------------------
(***************************************************************************)
(* The conversion of recorded bags into a LeRobot dataset, chunk by chunk  *)
(* (CvtRosbag2Lerobot.py, common/chunk_process.py, common/kuavo_dataset.py). *)
(*                                                                         *)
(* A bag holds one stream of bag stamps per key.  The "head" and "wrist"   *)
(* cameras, "body" (the state, and alike every required low-dimensional    *)
(* key), the arm command "arm", its continuous version "alt" and the base  *)
(* command "pose" have different roles; what a message says is left out.   *)
(* A frame of the dataset records from which message of which bag each of  *)
(* its values comes.                                                       *)
(***************************************************************************)
EXTENDS BagAlignment, SequencesExt

CONSTANTS RawDirs,      \* the sequences of bags that may be converted
          Drop,         \* sample_drop: camera messages dropped at each end
          Jump,         \* camera messages per training frame
          ChunkSize,    \* frames per chunk
          WholeBody,    \* not ONLY_HALF_UP_BODY
          MainTimeline, \* the configured main camera, or "most"
          MaxFailures, MaxRuns

Keys     == {"head", "wrist", "body", "arm", "alt", "pose"}
Cameras  == {"head", "wrist"}
Required == {{"body"}, {"arm", "alt"}}  \* of each group a frame needs one key
Missing  == 0
Flagged  == -1                          \* 999 in place of an arm command

ASSUME ConversionAssumption ==
    /\ {Jump, ChunkSize} \subseteq Nat \ {0} /\ {Drop, MaxFailures, MaxRuns} \subseteq Nat
    /\ WholeBody \in BOOLEAN /\ MainTimeline \in {"head", "wrist", "most"}
    /\ RawDirs \subseteq Seq([Keys -> Seq(Nat)])
    /\ \A raw \in RawDirs : \A b \in DOMAIN raw, k \in Keys : Increasing(raw[b][k])

FrameTime == Jump                      \* one frame time, in instants
Threshold == (3 * FrameTime) \div 2    \* 0.15 * 10 / train_hz

VARIABLES stamps,    \* bag -> key -> bag stamps
          status,    \* "idle", "running" or "done"
          order,     \* the bags of this run, in the order they are read
          pos,       \* the bag being read
          chunk,     \* the next chunk of it; 0 before the first scan
          buffer,    \* frames added to the dataset since the last saved episode
          episodes,  \* saved episodes
          failed,    \* failed_bags
          errorFile, \* the bags named in error.txt
          runs, failures
conversionVars == <<stamps, status, order, pos, chunk, buffer, episodes, failed,
                    errorFile, runs, failures>>
-----------------------------------------------------------------------------
(* scan_timestamps_only.                                                   *)
MostMessages(s) ==
    IF Len(s["wrist"]) > Len(s["head"]) THEN "wrist" ELSE "head"
MainOf(s) == IF MainTimeline = "most" THEN MostMessages(s) ELSE MainTimeline

MinEnd(s) == CHOOSE t \in {Last(s[k]) : k \in {k \in Keys : s[k] # <<>>}} :
                \A k \in Keys : s[k] # <<>> => t <= Last(s[k])
Refused(s) == \/ \A k \in Cameras : s[k] = <<>>
              \/ Len(s[MainOf(s)]) < 2 * Drop + 1
MainStamps(s) ==
    LET main == s[MainOf(s)]
        at   == Sampled(Len(main), Drop, Jump)
        kept == [i \in DOMAIN at |-> main[at[i]]]
    IN SubSeq(kept, 1, Before(kept, MinEnd(s)))

(* process_in_chunks: the frames of a chunk and the messages it reads.     *)
ChunkCount(s)      == (Len(MainStamps(s)) + ChunkSize - 1) \div ChunkSize
ChunkStamps(s, c)  == LET m == MainStamps(s)
                      IN SubSeq(m, (c - 1) * ChunkSize + 1,
                                IF c * ChunkSize < Len(m) THEN c * ChunkSize ELSE Len(m))
WindowSharp(s, c, k) ==
    LET ts == ChunkStamps(s, c)
    IN {i \in DOMAIN s[k] : Head(ts) <= s[k][i] /\ s[k][i] <= Last(ts) + FrameTime}
Window(s, c, k) ==
    LET ts == ChunkStamps(s, c)
    IN {i \in DOMAIN s[k] : /\ Head(ts) - FrameTime <= s[k][i]
                            /\ s[k][i] <= Last(ts) + FrameTime}
-----------------------------------------------------------------------------
(* _align_single_frame: of the messages read, the one closest to the       *)
(* message the whole bag has closest.                                      *)
ArmGaps(s) == IF WholeBody THEN Gaps(s["arm"], Threshold) ELSE {}
Paused(s, k, t) == k = "arm" /\ InGap(s["arm"], ArmGaps(s), t)

AlignedIndex(ts, t) == NearestSorted(ts, t)

Source(s, k, t, read) ==
    IF Paused(s, k, t) THEN (IF read = {} THEN Missing ELSE Flagged)
    ELSE IF read = {} THEN Missing
    ELSE LET target == s[k][AlignedIndex(s[k], t)]
         IN CHOOSE i \in read : \A j \in read :
                \/ Distance(s[k][i], target) < Distance(s[k][j], target)
                \/ Distance(s[k][i], target) = Distance(s[k][j], target) /\ i <= j

AlignSingle(s, c, t) == [k \in Keys |-> Source(s, k, t, Window(s, c, k))]

(* The whole bag at once (align_frame_data).                               *)
AlignWhole(s, t) ==
    [k \in Keys |-> IF Paused(s, k, t) THEN Flagged
                    ELSE IF s[k] = <<>> THEN Missing ELSE NearestFirst(s[k], t)]

(* on_frame: frames without a required value are skipped; without the base *)
(* command the bag fails.                                                  *)
Skipped(src) == \E g \in Required : \A k \in g : src[k] = Missing
Raises(src)  == WholeBody /\ ~Skipped(src) /\ src["pose"] = Missing
Added(src)   == ~Skipped(src) /\ \A k \in Cameras : src[k] # Missing

Frame(s, b, c, t) == [bag |-> b, t |-> t, src |-> AlignSingle(s, c, t)]
ChunkFrames(s, b, c) ==
    LET ts == ChunkStamps(s, c)
        fs == [i \in DOMAIN ts |-> Frame(s, b, c, ts[i])]
    IN Picked(fs, {i \in DOMAIN ts : Added(fs[i].src)})
ChunkRaises(s, c) == \E t \in ToSet(ChunkStamps(s, c)) : Raises(AlignSingle(s, c, t))
FramesBy(s, b) ==
    LET f[c \in 0..ChunkCount(s)] == IF c = 0 THEN <<>> ELSE f[c - 1] \o ChunkFrames(s, b, c)
    IN f
AllFrames(s, b) == FramesBy(s, b)[ChunkCount(s)]
-----------------------------------------------------------------------------
ConversionInit ==
    /\ stamps \in RawDirs
    /\ status = "idle" /\ order = <<>> /\ pos = 1 /\ chunk = 0
    /\ buffer = <<>> /\ episodes = <<>> /\ failed = {} /\ errorFile = {}
    /\ runs = 0 /\ failures = 0

(* main, port_kuavo_rosbag_chunked: an earlier output is removed, all bags *)
(* are read in the order of their names, or num_used of them, drawn.       *)
BagFiles == DOMAIN stamps
Orders   == {o \in UNION {[1..n -> BagFiles] : n \in 1..Len(stamps)} :
               \A i, j \in DOMAIN o : o[i] = o[j] => i = j}
Start ==
    /\ status # "running" /\ runs < MaxRuns
    /\ order' \in Orders
    /\ status' = "running" /\ runs' = runs + 1 /\ pos' = 1 /\ chunk' = 0
    /\ buffer' = <<>> /\ episodes' = <<>> /\ failed' = {}
    /\ UNCHANGED <<stamps, errorFile, failures>>

Reading == status = "running" /\ pos <= Len(order)
Bag     == order[pos]
NextBag == pos' = pos + 1 /\ chunk' = 0

Scan ==
    /\ Reading /\ chunk = 0 /\ ~Refused(stamps[Bag])
    /\ chunk' = 1
    /\ UNCHANGED <<stamps, status, order, pos, buffer, episodes, failed,
                   errorFile, runs, failures>>

(* One chunk: on_frame for each of its frames, then on_chunk_done.         *)
Chunk ==
    /\ Reading /\ chunk \in 1..ChunkCount(stamps[Bag])
    /\ ~ChunkRaises(stamps[Bag], chunk)
    /\ buffer' = buffer \o ChunkFrames(stamps[Bag], Bag, chunk)
    /\ chunk' = chunk + 1
    /\ UNCHANGED <<stamps, status, order, pos, episodes, failed, errorFile,
                   runs, failures>>

Read == chunk > ChunkCount(stamps[Bag]) /\ chunk > 0

(* save_episode: refuses to save an episode without frames.                *)
AfterSave      == <<>>
AfterSaveKeeps == buffer
LeftAfterSave  == AfterSave
SaveEpisode ==
    /\ Reading /\ Read /\ buffer # <<>>
    /\ episodes' = Append(episodes, buffer)
    /\ buffer' = LeftAfterSave
    /\ NextBag
    /\ UNCHANGED <<stamps, status, order, failed, errorFile, runs, failures>>

(* Any step on a bag may raise.  The bag is noted as failed; what its      *)
(* chunks have added to the dataset stays there.                           *)
BagFails ==
    /\ failed' = failed \cup {Bag}
    /\ NextBag
    /\ UNCHANGED <<stamps, status, order, episodes, errorFile, runs>>
Unusable ==
    /\ Reading
    /\ \/ chunk = 0 /\ Refused(stamps[Bag])
       \/ chunk \in 1..ChunkCount(stamps[Bag]) /\ ChunkRaises(stamps[Bag], chunk)
       \/ Read /\ buffer = <<>>
    /\ BagFails /\ UNCHANGED <<buffer, failures>>
Error ==
    /\ Reading /\ failures < MaxFailures
    /\ failures' = failures + 1
    /\ IF chunk \in 1..ChunkCount(stamps[Bag]) /\ ~ChunkRaises(stamps[Bag], chunk)
       THEN \E n \in 0..Len(ChunkFrames(stamps[Bag], Bag, chunk)) :
                buffer' = buffer \o SubSeq(ChunkFrames(stamps[Bag], Bag, chunk), 1, n)
       ELSE UNCHANGED buffer
    /\ BagFails

(* error.txt is written only when a bag has failed.                        *)
ErrorLines     == IF failed = {} THEN errorFile ELSE failed
ErrorLinesLast == IF Last(order) \in failed THEN {Last(order)} ELSE errorFile
WrittenErrors  == ErrorLines
Finish ==
    /\ status = "running" /\ pos > Len(order)
    /\ status' = "done"
    /\ errorFile' = WrittenErrors
    /\ UNCHANGED <<stamps, order, pos, chunk, buffer, episodes, failed,
                   runs, failures>>

Killed ==
    /\ status = "running" /\ runs < MaxRuns
    /\ status' = "idle"
    /\ UNCHANGED <<stamps, order, pos, chunk, buffer, episodes, failed,
                   errorFile, runs, failures>>

ConversionNext == Start \/ Scan \/ Chunk \/ SaveEpisode \/ Unusable \/ Error \/ Finish \/ Killed
ConversionSpec == ConversionInit /\ [][ConversionNext]_conversionVars
-----------------------------------------------------------------------------
(* Every frame of an episode has been in the buffer, and what a run leaves *)
(* is looked at when it is done.                                           *)
Close(s, k, t) == s[k] # <<>> /\ Distance(s[k][NearestFirst(s[k], t)], t) <= FrameTime

(* Reading in chunks gives what reading the whole bag gives, wherever the  *)
(* bag has a message within one frame time of the frame; and a pause of    *)
(* the arm is never filled with a command from its other side.             *)
ChunkedIsWhole ==
    \A f \in ToSet(buffer) : LET s == stamps[f.bag] IN \A k \in Keys :
        /\ Close(s, k, f.t) => \/ f.src[k] = AlignWhole(s, f.t)[k]
                               \/ Paused(s, k, f.t) /\ f.src[k] = Missing
        /\ s[k] = <<>> => f.src[k] = Missing

(* The episode of a bag holds every frame of the bag once and in order;    *)
(* the frames before them are of bags that failed since the last save.     *)
EpisodesAreWhole == status = "done" =>
    \A i \in DOMAIN episodes : LET e == episodes[i] IN
        \E b \in ToSet(order) \ failed :
            /\ IsSuffix(AllFrames(stamps[b], b), e)
            /\ \A j \in 1..(Len(e) - Len(AllFrames(stamps[b], b))) : e[j].bag \in failed

(* No bag is lost without a word: a bag of a finished run either failed    *)
(* and is named in error.txt, or has an episode that ends with all its     *)
(* frames.  Only a bag that gave no frame at all may go unnoticed: it is   *)
(* saved, without an error, as an episode of nothing but the leftovers of  *)
(* bags that failed; with none of those it fails itself.                   *)
MissingReported ==
    status = "done" =>
        \A b \in ToSet(order) :
            \/ b \in failed \cap errorFile
            \/ \E i \in DOMAIN episodes :
                 /\ episodes[i] # <<>> /\ IsSuffix(AllFrames(stamps[b], b), episodes[i])
                 /\ AllFrames(stamps[b], b) = <<>> =>
                        \A f \in ToSet(episodes[i]) : f.bag \in failed

(* populate_dataset_chunked: "Collect all frames of the current episode".  *)
(* Not so after a bag that failed, and no run checks it.                   *)
OneBagPerEpisode ==
    \A i \in DOMAIN episodes : \A f, g \in ToSet(episodes[i]) : f.bag = g.bag
=============================================================================

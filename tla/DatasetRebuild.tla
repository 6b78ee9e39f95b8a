----------------------------- MODULE DatasetRebuild -----------------------------
(***************************************************************************)
(* From recorded bags and a converted dataset to a repaired one: the audits *)
(* (tools/audit_*.py), their caches and reports, and the rebuilds           *)
(* (tools/rebuild_*.py, tools/export_beijing_*.py) with theirs.             *)
(*                                                                         *)
(* A tool looks at every episode it is asked for, by several workers, and  *)
(* keeps each result in a cache of its own; then it writes.  It may stop   *)
(* anywhere, by an exception or by a kill, and a bag may be recorded again *)
(* under its name at any time, also between a worker's look at its size    *)
(* and its reading of it.  A recording is a version, its number of master  *)
(* frames, its size and what an audit finds wrong with it; every version   *)
(* has a modification time of its own, but two may have one size.  A       *)
(* result depends on the arguments of the launch: "set" stands for those   *)
(* about the idle frames to keep, "sampling" for --sample-drop and         *)
(* --camera-stride.                                                        *)
(***************************************************************************)
EXTENDS BagAlignment

CONSTANTS Bags,          \* in the order of their names, from 1
          Tasks,         \* the workflows to consider
          Settings,      \* numbers of idle frames to keep
          Samplings,     \* ways to choose frames: [drop, jump]
          Converted,     \* the way of the conversion
          MaxLaunches, MaxRecordings

ASSUME RebuildAssumption ==
    /\ Bags \in {1..k : k \in 1..9} /\ Tasks \subseteq {"task1", "task2", "task3", "beijing"}
    /\ Settings \subseteq Nat /\ {MaxLaunches, MaxRecordings} \subseteq Nat
    /\ Samplings \subseteq [drop : Nat, jump : Nat \ {0}] /\ Converted \in Samplings

VARIABLES task, disk,  \* the recordings
          source,      \* the converted dataset: the length of each episode
          cache,       \* tool -> episode -> result
          csv, lists,  \* audit -> its table, its list of accepted episodes
          job,         \* the tool that runs
          out,         \* the rebuilt dataset
          launches, recordings
vars == <<task, disk, source, cache, csv, lists, job, out, launches, recordings>>

Audits(k)   == CASE k \in {"task1", "task2"} -> {"claw", "lowdim"}
                 [] k = "task3" -> {"audit3"} [] k = "beijing" -> {"auditB"}
Rebuilds(k) == CASE k = "task1" -> {"dry2", "rebuild1"} [] k = "task2" -> {"rebuild2"}
                 [] k = "task3" -> {"rebuild3"} [] k = "beijing" -> {"exportB"}
AllAudits   == {"claw", "lowdim", "audit3", "auditB"}
Caches      == AllAudits \cup {"task2cache", "task3cache"}
AuditOf(t)  == CASE t = "rebuild3" -> "audit3" [] t = "exportB" -> "auditB" [] OTHER -> "lowdim"
CacheOf(t)  == CASE t \in {"dry2", "rebuild2", "rebuild1"} -> "task2cache"
                 [] t = "rebuild3" -> "task3cache" [] OTHER -> t

(* What each program does, in order.  "delete" stands for the check for an *)
(* earlier output and its removal.                                         *)
ClawMain    == <<"work", "csv", "lists">>
LowdimMain  == <<"work", "csv", "lists">>
Task3Audit  == <<"work", "csv", "lists">>
BeijingMain == <<"work", "lists", "csv">>
Task2Phases      == <<"work", "delete", "save", "manifest">>
Task2DeleteFirst == <<"delete", "work", "save", "manifest">>
Task2Main        == Task2Phases
Task1Main        == <<"work", "delete", "data", "manifest", "videos">>
Task3Phases      == <<"work", "delete", "data", "videos", "manifest">>
Task3TableFirst  == <<"work", "delete", "manifest", "data", "videos">>
Task3Main        == Task3Phases
ExportMain       == <<"delete", "work", "manifest">>
Phases(t) ==
    CASE t = "claw"     -> ClawMain   [] t = "lowdim"   -> LowdimMain
      [] t = "audit3"   -> Task3Audit [] t = "auditB"   -> BeijingMain
      [] t = "rebuild2" -> Task2Main  [] t = "dry2"     -> <<"work">>
      [] t = "rebuild1" -> Task1Main  [] t = "rebuild3" -> Task3Main
      [] t = "exportB"  -> ExportMain

None    == <<>>
NoJob   == [tool |-> "none"]
Busy    == job # NoJob
At(p)   == Busy /\ Phases(job.tool)[job.at] = p
Onward(j) == IF j.at = Len(Phases(j.tool)) THEN NoJob ELSE [j EXCEPT !.at = @ + 1]
-----------------------------------------------------------------------------
(* Recordings and verdicts.  A recording replaces the one before; of that  *)
(* only the size is remembered, for the properties.                        *)
Sound == [frames |-> 8, size |-> 2, bad |-> {}]
Kinds == {Sound,
          [frames |-> 8, size |-> 1, bad |-> {"late"}],
          [frames |-> 5, size |-> 1, bad |-> {"events"}],
          [frames |-> 8, size |-> 1, bad |-> {"unreadable"}]}
Recording(before, k) == [ver |-> Len(before) + 1, frames |-> k.frames, bad |-> k.bad,
                         sizes |-> Append(before, k.size)]
SizeOf(d)            == d.sizes[d.ver]
Length(d, sampling)  == Len(Sampled(d.frames, sampling.drop, sampling.jump))

(* What each audit looks for.                                              *)
ClawFinds(d)    == d.bad \cap {"events", "unreadable"}
LowdimFinds(d)  == d.bad \cap {"late", "unreadable"}
Task3Finds(d)   == d.bad
BeijingFinds(d) == d.bad
Finds(t, d) == CASE t = "claw" -> ClawFinds(d)    [] t = "lowdim" -> LowdimFinds(d)
                 [] t = "audit3" -> Task3Finds(d) [] t = "auditB" -> BeijingFinds(d)
                 [] OTHER -> d.bad
Looked(t, e, stat, s) == [stat |-> stat, ver |-> disk[e].ver, bad |-> Finds(t, disk[e]), set |-> s]

(* The verdicts.  The low-dimensional audit takes the events from the      *)
(* table of the first one.                                                 *)
ClawAccepts(row)      == row.bad = {}
LowdimAccepts(row, e) == row.bad = {} /\ csv["claw"][e].bad = {}
Task3Accepts(row)     == row.bad = {}
BeijingAccepts(row)   == row.bad = {}
Accepts(t, row, e) == CASE t = "claw" -> ClawAccepts(row)    [] t = "lowdim" -> LowdimAccepts(row, e)
                        [] t = "audit3" -> Task3Accepts(row) [] t = "auditB" -> BeijingAccepts(row)

(* Whether a cached result is used: the audits compare size, modification  *)
(* time and arguments, but the one for Beijing no arguments; the rebuild   *)
(* for task 2 compares the size, the number of frames and the idle frames, *)
(* but no time and no sampling, the one for task 3 only the range of       *)
(* frames; task 1 takes what the task 2 rebuild has left.                  *)
SameFile(c, d)      == c.stat = d.ver
SameSize(c, d)      == c.size = SizeOf(d)
AnyFile(c, d)       == TRUE
AuditedFile(c, d)   == SameFile(c, d)
RebuiltFile(c, d)   == SameSize(c, d)
ClawHit(c, e, s)       == AuditedFile(c, disk[e]) /\ c.set = s
LowdimHit(c, e, s)     == AuditedFile(c, disk[e]) /\ c.set = s
Task3AuditHit(c, e, s) == AuditedFile(c, disk[e]) /\ c.set = s
BeijingHit(c, e)       == AuditedFile(c, disk[e])
Task2Hit(c, e, s)      == RebuiltFile(c, disk[e]) /\ c.set = s /\ c.n = source[e]
Task3Hit(c, s)         == c.set = s
Hit(t, c, e, s) ==
    /\ c # None
    /\ CASE t = "claw" -> ClawHit(c, e, s)         [] t = "lowdim" -> LowdimHit(c, e, s)
         [] t = "audit3" -> Task3AuditHit(c, e, s) [] t = "auditB" -> BeijingHit(c, e)
         [] t \in {"dry2", "rebuild2"} -> Task2Hit(c, e, s)
         [] t = "rebuild3" -> Task3Hit(c, s)      [] t = "rebuild1" -> TRUE
-----------------------------------------------------------------------------
(* The rebuilt dataset, whether its tool has said that it is complete, and *)
(* whether a later launch has begun to remove it.                          *)
NoOutput == [owner |-> "none", wanted |-> {}, data |-> <<>>, videos |-> {}, manifest |-> FALSE,
             given |-> <<>>, said |-> FALSE, going |-> FALSE]
Init ==
    /\ task \in Tasks
    /\ \E k \in Kinds : /\ k.bad # {"unreadable"}
                        /\ disk = [b \in Bags |-> Recording(<<>>, IF b = 1 THEN k ELSE Sound)]
    /\ \E failed \in {{}, {1}} :  \* bags that the conversion could not use
          /\ task = "beijing" => failed = {}  \* whose audit and export need no dataset
          /\ source = LET order == [i \in 1..(Cardinality(Bags \ failed)) |-> i + Cardinality(failed)]
                   IN [i \in DOMAIN order |-> Length(disk[order[i]], Converted)]
    /\ cache = [c \in Caches |-> [e \in Bags |-> None]]
    /\ csv = [a \in AllAudits |-> <<>>] /\ lists = [a \in AllAudits |-> {}]
    /\ job = NoJob /\ out = NoOutput
    /\ launches = 0 /\ recordings = 0

Record ==
    /\ recordings < MaxRecordings
    /\ \E b \in Bags, k \in Kinds : disk' = [disk EXCEPT ![b] = Recording(@.sizes, k)]
    /\ recordings' = recordings + 1
    /\ UNCHANGED <<task, source, cache, csv, lists, job, out, launches>>

Job(t, given, todo, rows) ==
    [tool |-> t, at |-> 1, given |-> given, todo |-> todo, seen |-> <<>>, rows |-> rows,
     wanted |-> todo \cup DOMAIN rows]
Given(s, sampling) == [set |-> s, sampling |-> sampling, start |-> [b \in Bags |-> disk[b].ver]]
Began == launches < MaxLaunches /\ ~Busy /\ launches' = launches + 1
Idle(t) == UNCHANGED <<task, disk, source, cache, csv, lists, out, recordings>>

(* main of an audit, up to the pool: the bags of the directory, or the     *)
(* episodes of the converted dataset with the bags the first audit lists.  *)
Selected(t) == IF t = "lowdim" THEN DOMAIN source ELSE Bags
StartAudit(t, s) ==
    /\ t = "lowdim" => csv["claw"] # <<>>
    /\ LET hits == {e \in Selected(t) : Hit(t, cache[t][e], e, s)}
       IN job' = Job(t, Given(s, Converted), Selected(t) \ hits, [e \in hits |-> cache[t][e]])
    /\ Idle(t)

(* main of a rebuild, up to its pool: the accepted episodes, each with the *)
(* bag that the table of the audit names.                                  *)
SamplingsOf(t) == IF t \in {"dry2", "rebuild2"} THEN Samplings ELSE {Converted}
StartRebuild(t, s, sampling) ==
    /\ lists[AuditOf(t)] # {}
    /\ t \in {"dry2", "rebuild2"} => lists["lowdim"] \subseteq DOMAIN source
    /\ t = "rebuild1" => \A e \in lists["lowdim"] : cache["task2cache"][e] # None
    /\ t = "rebuild3" => lists["audit3"] \subseteq DOMAIN source
    /\ job' = Job(t, Given(s, sampling), lists[AuditOf(t)], <<>>)
    /\ Idle(t)

Launch ==
    /\ Began
    /\ \E s \in Settings :
          \/ \E t \in Audits(task)   : StartAudit(t, s)
          \/ \E t \in Rebuilds(task) : \E sampling \in SamplingsOf(t) : StartRebuild(t, s, sampling)
-----------------------------------------------------------------------------
Put(rows, e, row) == [x \in DOMAIN rows \cup {e} |-> IF x = e THEN row ELSE rows[x]]
Minus(rows, S)    == [x \in DOMAIN rows \ S |-> rows[x]]
Seen(e, row) == [job EXCEPT !.seen = Put(@, e, row)]
Done(e, row) == [job EXCEPT !.todo = @ \ {e}, !.seen = Minus(@, {e}), !.rows = Put(@, e, row)]
Untouched    == job.todo \ DOMAIN job.seen
Working(tools) == At("work") /\ job.tool \in tools

(* A worker of an audit notes the size and the time of a bag, then reads   *)
(* it; the result replaces the cached one.                                 *)
Stat ==
    /\ Working(AllAudits)
    /\ \E e \in Untouched : job' = Seen(e, [ver |-> disk[e].ver])
    /\ UNCHANGED <<task, disk, source, cache, csv, lists, out, launches, recordings>>
Audit ==
    /\ Working(AllAudits)
    /\ \E e \in DOMAIN job.seen :
          LET row == Looked(job.tool, e, job.seen[e].ver, job.given.set)
          IN job' = Done(e, row) /\ cache' = [cache EXCEPT ![job.tool][e] = row]
    /\ UNCHANGED <<task, disk, source, csv, lists, out, launches, recordings>>

(* One worker of a rebuild has one episode: from the cache, or from the    *)
(* bag, which must be readable and have as many master frames as the       *)
(* episode.  The rebuild for task 2 asks for the size of the bag after it  *)
(* has read it, when it writes the cache.                                  *)
Cached(e)          == Hit(job.tool, cache[CacheOf(job.tool)][e], e, job.given.set)
CountAsExpected(r, e) == r.n = source[e]
CountChecked(r, e)    == CountAsExpected(r, e)
Readable(e)        == "unreadable" \notin disk[e].bad
Fresh(e)           == [ver |-> disk[e].ver, n |-> Length(disk[e], job.given.sampling),
                       set |-> job.given.set, sampling |-> job.given.sampling, size |-> 0]
Task2Extract(e)    == {r \in {Fresh(e)} : Readable(e) /\ CountChecked(r, e)}
Task3Extract(e)    == {r \in {Fresh(e)} : Readable(e) /\ CountChecked(r, e)}
ReadEpisode(e)     == {r \in {Fresh(e)} : Readable(e)}
Reuse ==
    /\ Working({"dry2", "rebuild1", "rebuild2", "rebuild3"})
    /\ \E e \in Untouched : Cached(e) /\ job' = Done(e, cache[CacheOf(job.tool)][e])
    /\ UNCHANGED <<task, disk, source, cache, csv, lists, out, launches, recordings>>
ReadBag ==
    /\ Working({"dry2", "rebuild2"})
    /\ \E e \in Untouched : ~Cached(e) /\ \E row \in Task2Extract(e) : job' = Seen(e, row)
    /\ UNCHANGED <<task, disk, source, cache, csv, lists, out, launches, recordings>>
Keep ==
    /\ Working({"dry2", "rebuild2"})
    /\ \E e \in DOMAIN job.seen :
          LET row == [job.seen[e] EXCEPT !.size = SizeOf(disk[e])]
          IN job' = Done(e, row) /\ cache' = [cache EXCEPT !["task2cache"][e] = row]
    /\ UNCHANGED <<task, disk, source, csv, lists, out, launches, recordings>>
Extract ==
    /\ Working({"rebuild3"})
    /\ \E e \in Untouched : /\ ~Cached(e)
                            /\ \E row \in Task3Extract(e) :
                                  job' = Done(e, row) /\ cache' = [cache EXCEPT !["task3cache"][e] = row]
    /\ UNCHANGED <<task, disk, source, csv, lists, out, launches, recordings>>

(* The export reads the bags in order and writes each at once.             *)
ExportEpisode ==
    /\ Working({"exportB"})
    /\ \E e \in job.todo : \E row \in ReadEpisode(e) :
          /\ \A other \in job.todo : e <= other
          /\ job' = Done(e, row)
          /\ out' = [out EXCEPT !.data = Put(@, e, row), !.videos = @ \cup {e}]
    /\ UNCHANGED <<task, disk, source, cache, csv, lists, launches, recordings>>

AllDone ==
    /\ At("work") /\ job.todo = {}
    /\ job' = Onward(job)
    /\ UNCHANGED <<task, disk, source, cache, csv, lists, out, launches, recordings>>

(* The table of an audit, then its lists.  The verdict of the low-         *)
(* dimensional audit reads the event counts of the first audit's table,    *)
(* which a bag that could not be read does not have.                       *)
Table ==
    /\ At("csv")
    /\ job.tool = "lowdim" => \A e \in DOMAIN job.rows : "unreadable" \notin csv["claw"][e].bad
    /\ csv' = [csv EXCEPT ![job.tool] = job.rows]
    /\ job' = Onward(job)
    /\ UNCHANGED <<task, disk, source, cache, lists, out, launches, recordings>>
Lists ==
    /\ At("lists")
    /\ lists' = [lists EXCEPT ![job.tool] =
                    {e \in DOMAIN job.rows : Accepts(job.tool, job.rows[e], e)}]
    /\ job' = Onward(job)
    /\ UNCHANGED <<task, disk, source, cache, csv, out, launches, recordings>>
-----------------------------------------------------------------------------
(* Writing the dataset.  An earlier one is removed file by file, in the    *)
(* order of the directory; a file of data may hold several episodes.       *)
Gone == out.data = <<>> /\ out.videos = {} /\ ~out.manifest
Unlink ==
    /\ At("delete") /\ ~Gone
    /\ \/ out.manifest /\ out' = [out EXCEPT !.going = TRUE, !.manifest = FALSE]
       \/ \E S \in SUBSET DOMAIN out.data :
              S # {} /\ out' = [out EXCEPT !.going = TRUE, !.data = Minus(@, S)]
       \/ \E e \in out.videos : out' = [out EXCEPT !.going = TRUE, !.videos = @ \ {e}]
    /\ UNCHANGED <<task, disk, source, cache, csv, lists, job, launches, recordings>>
Delete ==
    /\ At("delete") /\ Gone
    /\ out' = [NoOutput EXCEPT !.owner = job.tool, !.wanted = job.wanted, !.given = job.given]
    /\ job' = Onward(job)
    /\ UNCHANGED <<task, disk, source, cache, csv, lists, launches, recordings>>

(* "Complete" is printed after the last phase.                             *)
LastPhase == job.at = Len(Phases(job.tool))

Save ==
    /\ At("save")
    /\ LET left == job.wanted \ DOMAIN out.data
           e    == CHOOSE e \in left : \A other \in left : e <= other
       IN IF left = {} THEN job' = Onward(job) /\ UNCHANGED out
          ELSE /\ out' = [out EXCEPT !.data = Put(@, e, job.rows[e]), !.videos = @ \cup {e}]
               /\ UNCHANGED job
    /\ UNCHANGED <<task, disk, source, cache, csv, lists, launches, recordings>>

Data ==
    /\ At("data")
    /\ out' = [out EXCEPT !.data = job.rows]
    /\ job' = Onward(job)
    /\ UNCHANGED <<task, disk, source, cache, csv, lists, launches, recordings>>

Videos ==
    /\ At("videos")
    /\ \/ \E e \in job.wanted \ out.videos : out' = [out EXCEPT !.videos = @ \cup {e}] /\ UNCHANGED job
       \/ job.wanted = out.videos /\ job' = Onward(job) /\ out' = [out EXCEPT !.said = LastPhase]
    /\ UNCHANGED <<task, disk, source, cache, csv, lists, launches, recordings>>

Manifest ==
    /\ At("manifest")
    /\ out' = [out EXCEPT !.manifest = TRUE, !.said = LastPhase]
    /\ job' = Onward(job)
    /\ UNCHANGED <<task, disk, source, cache, csv, lists, launches, recordings>>

(* A refusal, an exception or a kill.                                      *)
Stop ==
    /\ Busy
    /\ job' = NoJob
    /\ UNCHANGED <<task, disk, source, cache, csv, lists, out, launches, recordings>>

Next == \/ Record \/ Launch \/ Stat \/ Audit \/ Reuse \/ ReadBag \/ Keep \/ Extract
        \/ ExportEpisode \/ AllDone \/ Table \/ Lists
        \/ Unlink \/ Delete \/ Save \/ Data \/ Videos \/ Manifest \/ Stop
Spec == Init /\ [][Next]_vars
-----------------------------------------------------------------------------
(* Which episodes of a dataset merged from others qualify: the audits      *)
(* compute it along a chain of manifests (output -> its sources) in two    *)
(* ways.                                                                   *)
AllQualify(m, prev)  == {o \in DOMAIN m : m[o] # {} /\ m[o] \subseteq prev}
TraceChain(m, prev)  == AllQualify(m, prev)
RawSources(m, parent)     == [o \in DOMAIN m |-> UNION {parent[s] : s \in m[o]}]
QualifiedOutputs(src, ok) == {o \in DOMAIN src : src[o] # {} /\ src[o] \subseteq ok}
-----------------------------------------------------------------------------
(* What an audit reports was seen in this launch or is still what the bag  *)
(* was when it began, also when the bag was replaced between its stat and  *)
(* its reading, and belongs to the arguments of this launch (but for       *)
(* Beijing, whose cache does not know them).                               *)
AuditIsCurrent ==
    At("csv") \/ At("lists") => \A e \in DOMAIN job.rows :
        /\ job.rows[e].ver >= job.given.start[e]
        /\ job.tool = "auditB" \/ job.rows[e].set = job.given.set

(* The export gives values that it read in this launch, with its sampling. *)
(* The task 2 rebuild gives such values too, or values from its cache,     *)
(* which may be of a replaced recording, but only if a recording that was  *)
(* there during the launch had the size noted with them, and may be of     *)
(* another sampling; its values are always as many as the episode has      *)
(* frames and belong to the idle frames of this launch.                    *)
ReadSince(r, e)      == r.ver >= out.given.start[e] /\ r.sampling = out.given.sampling
SizeSeenSince(r, e)  == \E v \in out.given.start[e]..disk[e].ver : disk[e].sizes[v] = r.size
RebuiltIsCurrent ==
    /\ out.owner = "exportB" => \A e \in DOMAIN out.data : ReadSince(out.data[e], e)
    /\ out.owner = "rebuild2" => \A e \in DOMAIN out.data :
          /\ ReadSince(out.data[e], e) \/ SizeSeenSince(out.data[e], e)
          /\ out.data[e].n = source[e] /\ out.data[e].set = out.given.set

(* What an audit reports and what a rebuild gives is of the recordings as  *)
(* they were when it was launched, or as they became later, as far as its  *)
(* cache can tell them apart.                                              *)
NothingStale == AuditIsCurrent /\ RebuiltIsCurrent

(* Wherever the tools are stopped, and until a later launch begins to      *)
(* remove it: a dataset with a manifest has the values of all its          *)
(* episodes, and all videos unless it is task 1's, which writes the        *)
(* manifest first; one whose tool said "Complete" has everything.          *)
ManifestMeansComplete ==
    ~out.going =>
        /\ out.manifest => DOMAIN out.data = out.wanted
        /\ out.manifest /\ out.owner # "rebuild1" => out.videos = out.wanted
        /\ out.said => out.manifest /\ out.videos = out.wanted

(* But for the export, a rebuild removes values of an earlier dataset only *)
(* when it has the values of every episode of the new one.                 *)
OldOutputSurvives ==
    [][~(DOMAIN out.data \subseteq DOMAIN out'.data) /\ job.tool # "exportB"
         => DOMAIN job.rows = job.wanted]_vars
=============================================================================

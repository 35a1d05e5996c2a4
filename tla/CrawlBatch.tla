----------------------------- MODULE CrawlBatch -----------------------------
(***************************************************************************)
(* One crawl of every source (crawl_all_sources in cpost/core/pipeline.py):*)
(* the enabled sources of the settings one after another, then the active  *)
(* sites of the roster whose host none of them covers.  Each is one crawl  *)
(* of CrawlProcess; its failure is reported and the next source follows.   *)
(***************************************************************************)
EXTENDS CrawlProcess, SequencesExt

CONSTANTS
    Batches,         \* the settings and rosters the batch may meet
    DefaultRuntime,  \* DEFAULT_CRAWL_MAX_RUNTIME_SEC
    MinRuntime       \* the second every source gets, whatever is left

ASSUME BatchAssumption ==
    /\ DefaultRuntime \in Nat /\ MinRuntime \in Nat
    /\ \A b \in Batches :
        /\ b.sources \in Seq(ToSet(b.sources)) /\ b.roster \in Seq(ToSet(b.roster))
        /\ b.budget \in Nat \cup {Nil}
        /\ b.site \in Sites
        /\ \A s \in ToSet(b.sources) \cup ToSet(b.roster) : s.site \in Sites

VARIABLES
    batch,     \* sources, base settings, roster, max_runtime_sec
    phase,     \* where crawl_all_sources is
    todo,      \* the sources still to crawl
    reports,   \* the calls of on_source
    combined,  \* the items so far
    stamped,   \* the roster sites given a last_crawled_at
    batchDeadline

batchVars == <<batch, phase, todo, reports, combined, stamped, batchDeadline>>
batchAllVars == <<crawlVars, batchVars>>

(* The keys a source may override; any other key of it is not looked at.   *)
OverrideKeys == {"item_regex", "limit", "max_pages", "min_text", "max_text", "body"}

MergedOf(b, src) ==
    [k \in DOMAIN b.base |->
        IF k \in OverrideKeys \cap DOMAIN src.over THEN src.over[k] ELSE b.base[k]]
Merged(src) == MergedOf(batch, src)

(* Those of a sequence that are in T, in their order (a fold, which the    *)
(* provers can open as they cannot open SelectSeq).                        *)
Kept(s, T) == FoldLeft(LAMBDA kept, x : IF x \in T THEN Append(kept, x) ELSE kept, <<>>, s)

EnabledOf(b) == Kept(b.sources, {s \in ToSet(b.sources) : s.enabled})
Enabled == EnabledOf(batch)

(* The roster sites whose host no enabled source covers, nor, even when    *)
(* there are such sources and it is not crawled, the base start_url.       *)
UncoveredOf(b) ==
    LET crawled == EnabledOf(b)
        covered == {crawled[i].host : i \in 1..Len(crawled)} \cup {b.host}
    IN  Kept(b.roster, {s \in ToSet(b.roster) : s.host \notin covered})
Uncovered == UncoveredOf(batch)

Remaining ==
    IF batch.budget = Nil THEN DefaultRuntime
    ELSE IF batchDeadline - clock > MinRuntime THEN batchDeadline - clock ELSE MinRuntime

BatchInit ==
    /\ batch \in Batches
    /\ phase = "start" /\ todo = <<>> /\ reports = <<>> /\ combined = <<>>
    /\ stamped = {} /\ batchDeadline = 0
    /\ site = Nil /\ opts = Nil /\ watched \in BOOLEAN
    /\ clock = 0
    /\ caller = "idle" /\ deadline = 0 /\ wake = 0
    /\ outcome = Nil /\ returned = <<>> /\ shown = Nil
    /\ child = "none" /\ endedAt = Nil /\ signalled = FALSE
    /\ queue = {} /\ inflight = {} /\ seen = {} /\ closing = FALSE
    /\ written = <<>> /\ counts = NoCounts
    /\ disk = Nil

BatchEnd == IF batch.budget = Nil THEN 0 ELSE clock + batch.budget

(* No enabled source: the base start_url alone, without the batch's budget *)
(* and without a guard.                                                    *)
Fallback ==
    /\ phase = "start" /\ Enabled = <<>>
    /\ phase' = "fallback"
    /\ site' = batch.site /\ opts' = batch.base
    /\ UNCHANGED watched
    /\ Spawn(DefaultRuntime)
    /\ batchDeadline' = BatchEnd
    /\ UNCHANGED <<clock, batch, todo, reports, combined, stamped>>

FallbackEnds ==
    /\ phase = "fallback" /\ caller = "done"
    /\ phase' = IF outcome = "items" THEN "listing" ELSE "raised"
    /\ combined' = returned
    /\ caller' = "idle"
    /\ UNCHANGED <<inputs, clock, deadline, wake, outcome, returned, shown, childVars, disk,
                   batch, todo, reports, stamped, batchDeadline>>

StartBatch ==
    /\ phase = "start" /\ Enabled # <<>>
    /\ phase' = "sources"
    /\ todo' = Enabled
    /\ batchDeadline' = BatchEnd
    /\ UNCHANGED <<crawlVars, batch, reports, combined, stamped>>

CrawlSource ==
    /\ phase \in {"sources", "roster"} /\ todo # <<>> /\ caller = "idle"
    /\ site' = Head(todo).site
    /\ opts' = Merged(Head(todo))
    /\ UNCHANGED watched
    /\ Spawn(Remaining)
    /\ UNCHANGED <<clock, batchVars>>

(* Mutant of SourceEnds: a failed source ends the loop.                    *)
SourceEndsAborting ==
    /\ phase \in {"sources", "roster"} /\ caller = "done"
    /\ LET ok == outcome = "items"
       IN  /\ reports' = Append(reports, [name  |-> Head(todo).name,
                                          count |-> IF ok THEN Len(returned) ELSE Nil])
           /\ combined' = IF ok THEN combined \o returned ELSE combined
           /\ todo' = IF ok THEN Tail(todo) ELSE <<>>
    /\ caller' = "idle"
    /\ UNCHANGED <<inputs, clock, deadline, wake, outcome, returned, shown, childVars, disk,
                   batch, phase, stamped, batchDeadline>>

(* A source ends.  on_source is told, the next one follows in any case; a  *)
(* roster site that was crawled is stamped, unless its row cannot be.      *)
SourceEnds ==
    /\ phase \in {"sources", "roster"} /\ caller = "done"
    /\ LET ok == outcome = "items"
       IN  /\ reports' = Append(reports, [name  |-> Head(todo).name,
                                          count |-> IF ok THEN Len(returned) ELSE Nil])
           /\ combined' = IF ok THEN combined \o returned ELSE combined
           /\ stamped' \in IF ok /\ phase = "roster"
                           THEN {stamped, stamped \cup {Head(todo).name}} ELSE {stamped}
    /\ todo' = Tail(todo)
    /\ caller' = "idle"
    /\ UNCHANGED <<inputs, clock, deadline, wake, outcome, returned, shown, childVars, disk,
                   batch, phase, batchDeadline>>

(* list_active; a roster that cannot be read is no roster.                 *)
ListRoster ==
    /\ \/ phase = "listing"
       \/ phase = "sources" /\ todo = <<>>
    /\ todo' \in {<<>>, Uncovered}
    /\ phase' = IF todo' = <<>> THEN "done" ELSE "roster"
    /\ UNCHANGED <<crawlVars, batch, reports, combined, stamped, batchDeadline>>

RosterEnds ==
    /\ phase = "roster" /\ todo = <<>>
    /\ phase' = "done"
    /\ UNCHANGED <<crawlVars, batch, todo, reports, combined, stamped, batchDeadline>>

Batch == \/ Fallback \/ FallbackEnds \/ StartBatch \/ CrawlSource \/ SourceEnds
         \/ ListRoster \/ RosterEnds

BatchNext ==
    \/ (Child \/ Caller \/ TimeStep) /\ UNCHANGED batchVars
    \/ Batch

CallerRuns == (Caller /\ UNCHANGED batchVars) \/ Batch
TimePasses == TimeStep /\ UNCHANGED batchVars

BatchSpec == BatchInit /\ [][BatchNext]_batchAllVars

(***************************************************************************)
(* The caller's thread is scheduled and time passes; the child owes        *)
(* nothing, it may hang for ever.                                          *)
(***************************************************************************)
BatchFairness == WF_batchAllVars(CallerRuns) /\ WF_batchAllVars(TimePasses)

-----------------------------------------------------------------------------
Horizon == Len(batch.sources) + Len(batch.roster)

(* Every variable of a batch and of its current crawl has its type.        *)
CrawlTypeOK ==
    /\ caller \in {"idle", "poll", "sleep", "grace", "join", "kill", "term", "read", "done"}
    /\ outcome \in {Nil, "timeout", "dependency", "unreachable", "items"}
    /\ child \in {"none", "spawned", "running", "ending", "flushed", "reported", "exited", "dead"}
    /\ {clock, deadline, wake, batchDeadline} \subseteq Nat
    /\ endedAt = Nil \/ endedAt \in Nat
    /\ watched \in BOOLEAN /\ signalled \in BOOLEAN /\ closing \in BOOLEAN
    /\ queue \cup inflight \subseteq [page : Pages, depth : Nat]
    /\ seen \subseteq Pages
    /\ {written, returned, combined} \subseteq Seq(Pages)
    /\ counts \in Counts
    /\ shown = Nil \/ shown \in Counts
    /\ disk = Nil \/ disk \in [items : Seq(Pages), status : Counts \cup {Nil},
                               progress : Counts \cup {Nil}]
    /\ phase \in {"start", "fallback", "sources", "listing", "roster", "done", "raised"}

(* Between two crawls, and after the last, nothing of a crawl is left: no  *)
(* child that runs on, no temporary directory (the kill, the join and the  *)
(* two rmtree calls of crawl_items), however the child ended.              *)
NothingLeftBehind == caller \in {"idle", "done"} => ~Alive /\ disk = Nil

(* What a crawl returns is every item the spider wrote, none of it torn    *)
(* off: the status file is only there once the items file is closed.       *)
ReturnedIsComplete == caller = "done" /\ outcome = "items" => returned = written

(* A child that ended of itself before its time was up is never reported   *)
(* as overrun, in the polling branch not even when it ends in the grace    *)
(* join after the deadline ("keeps its results").                          *)
FinishedInTimeIsKept ==
    caller = "done" /\ outcome = "timeout" /\ endedAt # Nil
        => endedAt >= deadline + IF watched THEN PollSec ELSE 0

(* The last snapshot a user sees of a crawl that ended is its final one,   *)
(* also when the child wrote it after the last poll.                       *)
LastSnapshotShown ==
    watched /\ caller = "done" /\ outcome = "items"
        => shown # Nil /\ shown.responses = counts.responses /\ shown.items = counts.items

(* However requests overlap, the spider keeps to its limits: never more    *)
(* items than limit, no page twice, no page out of the site or deeper than *)
(* the depth, and at most the requests in flight past max_pages.           *)
SpiderKeepsLimits ==
    caller # "idle" =>
        /\ Len(written) <= opts.limit /\ counts.items = Len(written)
        /\ Cardinality(ToSet(written)) = Len(written)
        /\ counts.responses < opts.max_pages + Concurrency
        /\ \A p \in seen \ StartUrls : ~site[p].foreign /\ ~site[p].denied
        /\ \A r \in queue \cup inflight : r.depth <= opts.depth

(* A crawl returns within its budget, two polls and the grace of the kill, *)
(* and the whole batch overruns max_runtime_sec by no more than what each  *)
(* source is granted past it.                                              *)
ReturnsInTime ==
    LET grace == 2 * PollSec + KillSec
    IN  /\ caller # "idle" => clock <= deadline + grace
        /\ batchDeadline # 0 /\ Enabled # <<>>
               => clock <= batchDeadline + Horizon * (MinRuntime + grace)

(* The items that the calls of on_source told of.                          *)
Reported(rs) == FoldLeft(LAMBDA n, r : n + IF r.count = Nil THEN 0 ELSE r.count, 0, rs)

(* One bad source never aborts the others: when the batch is over, every   *)
(* enabled source was reported once, in order, and the items are those of  *)
(* the sources that succeeded.                                             *)
EverySourceReported ==
    phase = "done" =>
        /\ Len(Enabled) <= Len(reports)
        /\ \A i \in 1..Len(Enabled) : reports[i].name = Enabled[i].name
        /\ \A d \in stamped : \E i \in 1..Len(reports) :
               i > Len(Enabled) /\ reports[i].name = d /\ reports[i].count # Nil
        /\ Enabled # <<>> => Len(combined) = Reported(reports)

(* A batch comes to its end even if every child hangs for ever: "a wedged  *)
(* Twisted reactor can never hang the caller".                             *)
EveryBatchEnds == <>(phase \in {"done", "raised"})

(* What a crawl reports is what happened in its child: all of the items or *)
(* an error, no deadline it did not miss, and at last its final counts.    *)
AnswerIsTrue == ReturnedIsComplete /\ FinishedInTimeIsKept /\ LastSnapshotShown

(* A crawl ends in time and takes its child and its files with it, however *)
(* the child hangs or dies ("can never hang the caller", crawl_posts.py).  *)
CrawlsEndInTime == ReturnsInTime /\ NothingLeftBehind

-----------------------------------------------------------------------------
(* The promise of BatchPromise, and how the crawls of a batch keep it.     *)

Ask(b, s) == [name |-> s.name, limit |-> MergedOf(b, s).limit]

Asked ==
    [b \in Batches |->
        [sources |-> [i \in 1..Len(EnabledOf(b)) |-> Ask(b, EnabledOf(b)[i])],
         roster  |-> [i \in 1..Len(UncoveredOf(b)) |-> Ask(b, UncoveredOf(b)[i])],
         alone   |-> b.base.limit]]

Status == IF phase \in {"done", "raised"} THEN phase ELSE "open"

Pledge ==
    INSTANCE BatchPromise
        WITH items <- combined, noted <- stamped, status <- Status, Failed <- Nil

(* The batch as its caller sees it: whatever the children do, every source *)
(* is asked once, in its turn, and answers with all that its spider wrote, *)
(* different pages within its limit, or is reported as failed; "one bad    *)
(* source never aborts the others" (crawl_all_sources in pipeline.py).     *)
KeepsBatchPromise == Pledge!Spec
=============================================================================

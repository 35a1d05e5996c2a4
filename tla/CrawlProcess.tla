---------------------------- MODULE CrawlProcess ----------------------------
(***************************************************************************)
(* One crawl of one site (cpost/cli/crawl_posts.py).  The caller spawns a  *)
(* child process that runs the spider, waits for it within a wall-clock    *)
(* budget, kills it when it overruns, and reads the files it left.         *)
(*                                                                         *)
(* Time is discrete and passes only while the caller waits: what the       *)
(* caller has to do it does at once.  Nothing is assumed of the child: it  *)
(* may hang at any step, or die there without a word.                      *)
(***************************************************************************)
EXTENDS Naturals, Integers, Sequences, FiniteSets

CONSTANTS
    Pages,        \* the URLs of a site
    PollSec,      \* time between two looks at the child, and the grace join
    KillSec,      \* the grace between SIGTERM and SIGKILL
    Concurrency,  \* requests in flight at once
    Nil

Counts == [responses: 0..Cardinality(Pages), items: 0..Cardinality(Pages),
           error: {"", "fetch", "raised", "__dependency__"}]

(* What a page holds, as far as the spider looks at it, and its links.     *)
PageData == [start: BOOLEAN, item: BOOLEAN, denied: BOOLEAN, foreign: BOOLEAN,
             allowed: BOOLEAN, html: BOOLEAN, title: BOOLEAN, text: Nat, custom: Nat,
             links: SUBSET Pages]
Sites == [Pages -> PageData]

ASSUME CrawlAssumption ==
    /\ PollSec \in Nat /\ KillSec \in Nat /\ Concurrency \in Nat
    /\ Nil \notin Nat
    /\ Nil \notin [responses: Nat, items: Nat, error: {"", "fetch", "raised", "__dependency__"}]

NoCounts == [responses |-> 0, items |-> 0, error |-> ""]

VARIABLES
    site,      \* what the pages hold, and the links between them
    opts,      \* the options of this crawl
    watched,   \* does the caller pass a progress_cb?
    clock,     \* time.monotonic()
    caller,    \* label of crawl_items
    deadline, wake,
    outcome,   \* what crawl_items returns or raises
    returned,  \* the items it returns
    shown,     \* the last snapshot given to progress_cb
    child,     \* life of the child process
    endedAt,   \* (history) when the child exited of itself
    queue, inflight, seen, closing,   \* requests of the spider
    written,   \* the items written to the (buffered) file
    counts,    \* the spider's counters
    signalled, \* has SIGTERM been sent?
    disk       \* the temporary directory, Nil when there is none

callerVars == <<caller, deadline, wake, outcome, returned, shown>>
spiderVars == <<queue, inflight, seen, closing, written, counts>>
childVars  == <<child, endedAt, spiderVars, signalled>>
inputs     == <<site, opts, watched>>
crawlVars  == <<inputs, clock, callerVars, childVars, disk>>

Alive == child \notin {"none", "exited", "dead"}

(* ----------------------------- the spider ------------------------------ *)

(* What _extract makes of a page.  A selector that is no valid CSS falls   *)
(* back to the default; a valid one that matches nothing stays empty.      *)
BodyLength(p) ==
    LET found == IF opts.body = "valid" THEN site[p].custom ELSE site[p].text
    IN  IF opts.max_text # 0 /\ found > opts.max_text THEN opts.max_text ELSE found

(* Mutant of Emits: the limit is forgotten.                                *)
EmitsUncounted(p) ==
    /\ opts.item_regex => site[p].item
    /\ ~site[p].denied
    /\ site[p].title
    /\ BodyLength(p) >= opts.min_text

(* Is the page an item?  item_re is empty or matches, deny_re does not.    *)
Emits(p) ==
    /\ opts.item_regex => site[p].item
    /\ ~site[p].denied
    /\ counts.items < opts.limit
    /\ site[p].title
    /\ BodyLength(p) >= opts.min_text

(* The links of a page that parse follows: same host, not denied, and      *)
(* allowed or an item when there is an allow_regex.                        *)
Follows(p) ==
    {q \in site[p].links :
        /\ ~site[q].foreign
        /\ ~site[q].denied
        /\ opts.allow_regex => site[q].allowed \/ (opts.item_regex /\ site[q].item)}

(* The engine of Scrapy: DEPTH_LIMIT and the filter of seen requests.      *)
Schedule(ps, d) ==
    LET new == {p \in ps : p \notin seen /\ d <= opts.depth}
    IN  /\ queue' = queue \cup {[page |-> p, depth |-> d] : p \in new}
        /\ seen' = seen \cup new

(* A request goes out, up to CONCURRENT_REQUESTS of them.                  *)
Download ==
    /\ child = "running" /\ ~closing
    /\ Cardinality(inflight) < Concurrency
    /\ \E r \in queue :
        /\ queue' = queue \ {r}
        /\ inflight' = inflight \cup {r}
    /\ UNCHANGED <<inputs, clock, callerVars, child, endedAt, seen, closing, written, counts,
                   signalled, disk>>

(* on_error: the download failed for good.                                 *)
OnError ==
    /\ child = "running"
    /\ \E r \in inflight : inflight' = inflight \ {r}
    /\ counts' = [counts EXCEPT !.error = "fetch"]
    /\ UNCHANGED <<inputs, clock, callerVars, child, endedAt, queue, seen, closing, written,
                   signalled, disk>>

(* parse: count, write the item, write the progress file, follow links.    *)
(* CLOSESPIDER_PAGECOUNT closes the spider: what is in flight still comes. *)
Parse ==
    /\ child = "running"
    /\ \E r \in inflight :
        LET p    == r.page
            emit == site[p].html /\ Emits(p)
            s    == [counts EXCEPT !.responses = @ + 1, !.items = @ + IF emit THEN 1 ELSE 0]
        IN  /\ inflight' = inflight \ {r}
            /\ written' = IF emit THEN Append(written, p) ELSE written
            /\ counts' = s
            /\ disk' = IF watched THEN [disk EXCEPT !.progress = s] ELSE disk
            /\ closing' = (closing \/ s.responses >= opts.max_pages)
            /\ IF site[p].html /\ s.items < opts.limit /\ ~closing
               THEN Schedule(Follows(p), r.depth + 1)
               ELSE UNCHANGED <<queue, seen>>
    /\ UNCHANGED <<inputs, clock, callerVars, child, endedAt, signalled>>

(* The crawl begins; or Scrapy is missing, or an option does not compile.  *)
StartUrls == {p \in Pages : site[p].start}

SpiderStarts ==
    /\ child = "spawned"
    /\ child' = "running"
    /\ Schedule(StartUrls, 0)
    /\ UNCHANGED <<inputs, clock, callerVars, endedAt, inflight, closing, written, counts,
                   signalled, disk>>

SpiderRefuses ==
    /\ child = "spawned"
    /\ child' = "ending"
    /\ \E e \in {"raised", "__dependency__"} : counts' = [counts EXCEPT !.error = e]
    /\ UNCHANGED <<inputs, clock, callerVars, endedAt, queue, inflight, seen, closing,
                   written, signalled, disk>>

(* The reactor stops: nothing is left to do.                               *)
SpiderEnds ==
    /\ child = "running"
    /\ inflight = {} /\ (queue = {} \/ closing)
    /\ child' = "ending"
    /\ UNCHANGED <<inputs, clock, callerVars, endedAt, spiderVars, signalled, disk>>

(* The finally clause: close the items, then replace the status file.      *)
FlushItems ==
    /\ child = "ending"
    /\ disk' = [disk EXCEPT !.items = written]
    /\ child' = "flushed"
    /\ UNCHANGED <<inputs, clock, callerVars, endedAt, spiderVars, signalled>>

WriteStatus ==
    /\ child = "flushed"
    /\ disk' = [disk EXCEPT !.status = counts]
    /\ child' = "reported"
    /\ UNCHANGED <<inputs, clock, callerVars, endedAt, spiderVars, signalled>>

ChildExits ==
    /\ child = "reported"
    /\ child' = "exited"
    /\ endedAt' = clock
    /\ UNCHANGED <<inputs, clock, callerVars, spiderVars, signalled, disk>>

(* The child dies where it stands: out of memory, or of the SIGTERM.       *)
ChildDies ==
    /\ Alive
    /\ child' = "dead"
    /\ UNCHANGED <<inputs, clock, callerVars, endedAt, spiderVars, signalled, disk>>

(* Scrapy's handler takes the SIGTERM as a wish to close.                  *)
ChildCloses ==
    /\ child = "running" /\ signalled /\ ~closing
    /\ closing' = TRUE
    /\ UNCHANGED <<inputs, clock, callerVars, child, endedAt, queue, inflight, seen, written,
                   counts, signalled, disk>>

Child == \/ SpiderStarts \/ SpiderRefuses \/ Download \/ OnError \/ Parse
         \/ SpiderEnds \/ FlushItems \/ WriteStatus \/ ChildExits
         \/ ChildDies \/ ChildCloses

(* ----------------------------- the caller ------------------------------ *)

NoDisk == [items |-> <<>>, status |-> Nil, progress |-> Nil]

(* A fresh directory and a fresh child, with b to spend.                   *)
Spawn(b) ==
    /\ disk' = NoDisk
    /\ child' = "spawned" /\ endedAt' = Nil /\ signalled' = FALSE
    /\ queue' = {} /\ inflight' = {} /\ seen' = {} /\ closing' = FALSE
    /\ written' = <<>> /\ counts' = NoCounts
    /\ deadline' = clock + b /\ wake' = clock
    /\ outcome' = Nil /\ returned' = <<>> /\ shown' = Nil
    /\ caller' = IF watched' THEN "poll" ELSE "join"

(* progress_cb sees a snapshot that differs from the last one.             *)
Look == shown' = IF disk.progress # Nil THEN disk.progress ELSE shown

(* The poll loop: look, sleep, and stop at the deadline.                   *)
Poll ==
    /\ caller = "poll" /\ Alive /\ clock < deadline
    /\ Look
    /\ wake' = clock + PollSec
    /\ caller' = "sleep"
    /\ UNCHANGED <<inputs, clock, deadline, outcome, returned, childVars, disk>>

Wake ==
    /\ caller = "sleep" /\ clock >= wake
    /\ caller' = "poll"
    /\ UNCHANGED <<inputs, clock, deadline, wake, outcome, returned, shown, childVars, disk>>

(* Mutant of DeadlineHit: no grace join before the kill.                   *)
DeadlineHitAtOnce ==
    /\ caller = "poll" /\ Alive /\ clock >= deadline
    /\ wake' = clock + PollSec
    /\ caller' = "kill"
    /\ UNCHANGED <<inputs, clock, deadline, outcome, returned, shown, childVars, disk>>

DeadlineHit ==
    /\ caller = "poll" /\ Alive /\ clock >= deadline
    /\ wake' = clock + PollSec
    /\ caller' = "grace"
    /\ UNCHANGED <<inputs, clock, deadline, outcome, returned, shown, childVars, disk>>

(* One final read, in case the child wrote after the last poll.            *)
LastLook ==
    /\ caller \in {"poll", "grace"} /\ ~Alive
    /\ Look
    /\ caller' = "join"
    /\ UNCHANGED <<inputs, clock, deadline, wake, outcome, returned, childVars, disk>>

GraceIsOver ==
    /\ caller = "grace" /\ Alive /\ clock >= wake
    /\ caller' = "kill"
    /\ UNCHANGED <<inputs, clock, deadline, wake, outcome, returned, shown, childVars, disk>>

(* join(timeout = what is left of the budget)                              *)
Joined ==
    /\ caller = "join" /\ ~Alive
    /\ caller' = "read"
    /\ UNCHANGED <<inputs, clock, deadline, wake, outcome, returned, shown, childVars, disk>>

Overran ==
    /\ caller = "join" /\ Alive /\ clock >= deadline
    /\ caller' = "kill"
    /\ UNCHANGED <<inputs, clock, deadline, wake, outcome, returned, shown, childVars, disk>>

(* _kill_child: terminate, a grace, kill; it is always joined.             *)
Terminate ==
    /\ caller = "kill"
    /\ signalled' = TRUE
    /\ wake' = clock + KillSec
    /\ caller' = "term"
    /\ UNCHANGED <<inputs, clock, deadline, outcome, returned, shown, child, endedAt,
                   spiderVars, disk>>

(* Mutant of Reap: the child is never sent SIGKILL.                        *)
ReapOrphan ==
    /\ caller = "term" /\ (~Alive \/ clock >= wake)
    /\ UNCHANGED child
    /\ disk' = Nil
    /\ outcome' = "timeout"
    /\ caller' = "done"
    /\ UNCHANGED <<inputs, clock, deadline, wake, returned, shown, endedAt,
                   spiderVars, signalled>>

(* Mutant of Reap: a join without a timeout after the SIGTERM.             *)
ReapPatiently ==
    /\ caller = "term" /\ ~Alive
    /\ disk' = Nil
    /\ outcome' = "timeout"
    /\ caller' = "done"
    /\ UNCHANGED <<inputs, clock, deadline, wake, returned, shown, child, endedAt,
                   spiderVars, signalled>>

Reap ==
    /\ caller = "term" /\ (~Alive \/ clock >= wake)
    /\ child' = IF Alive THEN "dead" ELSE child
    /\ disk' = Nil
    /\ outcome' = "timeout"
    /\ caller' = "done"
    /\ UNCHANGED <<inputs, clock, deadline, wake, returned, shown, endedAt,
                   spiderVars, signalled>>

(* What the files say; the directory goes in any case.                     *)
Verdict ==
    LET s == IF disk.status = Nil THEN NoCounts ELSE disk.status
    IN  IF s.error = "__dependency__" THEN "dependency"
        ELSE IF s.responses = 0 THEN "unreachable" ELSE "items"

ReadFiles ==
    /\ caller = "read"
    /\ outcome' = Verdict
    /\ returned' = IF Verdict = "items" THEN disk.items ELSE <<>>
    /\ disk' = Nil
    /\ caller' = "done"
    /\ UNCHANGED <<inputs, clock, deadline, wake, shown, childVars>>

Caller == \/ Poll \/ Wake \/ DeadlineHit \/ LastLook \/ GraceIsOver
          \/ Joined \/ Overran \/ Terminate \/ Reap \/ ReadFiles

(* Time passes while the caller sleeps or waits for the child.             *)
Waits ==
    \/ caller = "sleep" /\ clock < wake
    \/ caller \in {"grace", "term"} /\ Alive /\ clock < wake
    \/ caller = "join" /\ Alive /\ clock < deadline

TimeStep ==
    /\ Waits
    /\ clock' = clock + 1
    /\ UNCHANGED <<inputs, callerVars, childVars, disk>>
=============================================================================

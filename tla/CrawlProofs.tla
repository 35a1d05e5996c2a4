---------------------------- MODULE CrawlProofs ----------------------------
(***************************************************************************)
(* What a crawl owes its caller, for any site, any settings and any number *)
(* of sources, whatever its child does: hang, die or overrun at any step.  *)
(***************************************************************************)
EXTENDS CrawlBatch, WellFoundedInduction, FiniteSetTheorems, TLAPS

Tally == [responses: Nat, items: Nat, error: {"", "fetch", "raised", "__dependency__"}]
Files == [items: Seq(Pages), status: Tally \cup {Nil}, progress: Tally \cup {Nil}]
Waiting == [page: Pages, depth: Nat]

OnGoing == caller \notin {"idle", "done"}

CrawlTypes ==
  /\ caller \in {"idle", "poll", "sleep", "grace", "join", "kill", "term", "read", "done"}
  /\ child \in {"none", "spawned", "running", "ending", "flushed", "reported", "exited", "dead"}
  /\ clock \in Nat /\ deadline \in Nat /\ wake \in Nat
  /\ endedAt \in Nat \cup {Nil} /\ watched \in BOOLEAN
  /\ queue \in SUBSET Waiting /\ inflight \in SUBSET Waiting /\ seen \in SUBSET Pages
  /\ written \in Seq(Pages) /\ returned \in Seq(Pages)
  /\ counts \in Tally /\ shown \in Tally \cup {Nil}
  /\ OnGoing => disk \in Files /\ site \in Sites

(* The files of a crawl that is going on, and what has been shown of them. *)
FilesAreTrue ==
  OnGoing =>
    /\ disk.status # Nil => /\ disk.status = counts /\ disk.items = written
                            /\ child \in {"reported", "exited", "dead"}
    /\ child \in {"flushed", "reported", "exited"} => disk.items = written
    /\ watched /\ disk.progress = Nil => counts.responses = 0
    /\ watched /\ disk.progress # Nil => /\ disk.progress.responses = counts.responses
                                         /\ disk.progress.items = counts.items
    /\ watched /\ caller \in {"join", "read"} /\ disk.progress # Nil => shown = disk.progress

Bound == deadline + IF watched THEN PollSec ELSE 0

EndsAreTimed ==
  /\ Alive => endedAt = Nil
  /\ caller \in {"poll", "sleep", "grace"} => watched
  /\ caller = "join" /\ watched => ~ Alive
  /\ caller = "read" => ~ Alive
  /\ caller = "grace" => wake >= deadline + PollSec
  /\ caller \in {"kill", "term"} => clock >= Bound /\ (endedAt = Nil \/ endedAt >= Bound)

CallerIsTimed ==
  /\ caller = "poll" => clock <= deadline + PollSec
  /\ caller = "sleep" => clock <= wake /\ wake <= deadline + PollSec
  /\ caller = "grace" => clock <= wake /\ wake <= deadline + 2 * PollSec
  /\ caller = "join" => clock <= deadline \/ (~ Alive /\ clock <= deadline + 2 * PollSec)
  /\ caller \in {"kill", "read"} => clock <= deadline + 2 * PollSec
  /\ caller = "term" => clock <= wake /\ wake <= deadline + 2 * PollSec + KillSec
  /\ caller = "done" => clock <= deadline + 2 * PollSec + KillSec

CrawlInv ==
  /\ CrawlTypes /\ NothingLeftBehind /\ FilesAreTrue /\ EndsAreTimed /\ CallerIsTimed
  /\ AnswerIsTrue

Grant == MinRuntime + 2 * PollSec + KillSec

BatchTypes ==
  /\ batch \in Batches
  /\ phase \in {"start", "fallback", "sources", "listing", "roster", "done", "raised"}
  /\ todo \in Seq(ToSet(batch.sources) \cup ToSet(batch.roster))
  /\ combined \in Seq(Pages)
  /\ batchDeadline \in Nat
  /\ phase = "start" => caller = "idle" /\ clock = 0 /\ reports = <<>> /\ combined = <<>>
                        /\ stamped = {} /\ batchDeadline = 0
  /\ phase \in {"sources", "roster"} /\ todo = <<>> => caller = "idle"
  /\ phase \in {"listing", "done", "raised"} => caller = "idle"
  /\ phase \in {"fallback", "listing", "raised"} => Enabled = <<>> /\ reports = <<>> /\ stamped = {}

(* What is still to come of the two lists, and how far the time has gone.  *)
BatchIsTimed ==
  batchDeadline # 0 /\ Enabled # <<>> =>
    /\ batch.budget # Nil
    /\ caller = "idle" => clock <= batchDeadline + Len(reports) * Grant
    /\ caller # "idle" => deadline <= batchDeadline + Len(reports) * Grant + MinRuntime
    /\ phase = "sources" => Len(reports) + Len(todo) <= Len(batch.sources)
    /\ phase \in {"roster", "done"} => Len(reports) + Len(todo) <= Horizon

ReportsAreTrue ==
  /\ reports \in Seq([name: {s.name : s \in ToSet(batch.sources) \cup ToSet(batch.roster)}, count: Nat \cup {Nil}])
  /\ Enabled # <<>> => Len(combined) = Reported(reports)
  /\ phase = "sources" =>
        /\ stamped = {}
        /\ Len(reports) + Len(todo) = Len(Enabled)
        /\ \A i \in 1..Len(todo) : todo[i] = Enabled[Len(reports) + i]
        /\ \A i \in 1..Len(reports) : reports[i].name = Enabled[i].name
  /\ phase \in {"roster", "done"} =>
        /\ Len(Enabled) <= Len(reports)
        /\ \A i \in 1..Len(Enabled) : reports[i].name = Enabled[i].name
        /\ \A d \in stamped : \E i \in 1..Len(reports) :
              i > Len(Enabled) /\ reports[i].name = d /\ reports[i].count # Nil

(* Requests of different pages, none for a page already written, at most   *)
(* at the depth of the options.                                            *)
Apart(waits, flies, known, items) ==
  /\ \A r \in waits \cup flies : r.page \in known /\ r.page \notin ToSet(items)
                                 /\ r.depth <= opts.depth
  /\ \A r, q \in waits \cup flies : r.page = q.page => r = q
  /\ waits \cap flies = {}
  /\ items \in Seq(known)
  /\ \A i, j \in DOMAIN items : items[i] = items[j] => i = j
  /\ \A p \in known \ StartUrls : ~site[p].foreign /\ ~site[p].denied

SpiderIsBounded ==
  /\ opts.limit \in Nat /\ opts.max_pages \in Nat \ {0}
  /\ IsFiniteSet(inflight) /\ Cardinality(inflight) <= Concurrency
  /\ counts.items = Len(written) /\ Len(written) <= opts.limit
  /\ ~ closing => counts.responses < opts.max_pages
  /\ closing => counts.responses + Cardinality(inflight) < opts.max_pages + Concurrency

SpiderInv == caller # "idle" => Apart(queue, inflight, seen, written) /\ SpiderIsBounded

-----------------------------------------------------------------------------
(* The child: it writes its files and its counts, and may end; what its    *)
(* caller knows and the clock stay as they are.                            *)

LEMMA Scheduled ==
  ASSUME queue \in SUBSET Waiting, seen \in SUBSET Pages, NEW ps \in SUBSET Pages, NEW d \in Nat,
         Schedule(ps, d)
  PROVE  queue' \in SUBSET Waiting /\ seen' \in SUBSET Pages
BY DEF Schedule, Waiting

LEMMA ChildHasItsTime ==
  ASSUME CrawlInv, Alive, UNCHANGED <<clock, callerVars, watched>>,
         endedAt' = endedAt \/ (endedAt' = clock /\ ~ Alive')
  PROVE  NothingLeftBehind' /\ EndsAreTimed' /\ CallerIsTimed' /\ AnswerIsTrue'
<1>1. caller \notin {"idle", "done"} /\ caller' = caller
  BY DEF CrawlInv, NothingLeftBehind, callerVars
<1>2. NothingLeftBehind' /\ AnswerIsTrue'
  BY <1>1 DEF NothingLeftBehind, AnswerIsTrue, ReturnedIsComplete, FinishedInTimeIsKept,
              LastSnapshotShown
<1>3. Bound' = Bound
  BY DEF Bound, callerVars
<1>4. EndsAreTimed'
  BY <1>1, <1>3 DEF CrawlInv, EndsAreTimed, callerVars
<1>5. CallerIsTimed'
  BY <1>1 DEF CrawlInv, CallerIsTimed, callerVars
<1> QED BY <1>2, <1>4, <1>5

LEMMA ChildKeeps == ASSUME CrawlInv, Child PROVE CrawlInv'
<1>1. Alive /\ OnGoing /\ UNCHANGED <<inputs, clock, callerVars>>
  <2>1. Alive /\ UNCHANGED <<inputs, clock, callerVars>>
    BY DEF Child, SpiderStarts, SpiderRefuses, Download, OnError, Parse, SpiderEnds, FlushItems,
           WriteStatus, ChildExits, ChildDies, ChildCloses, Alive
  <2> QED BY <2>1 DEF CrawlInv, NothingLeftBehind, OnGoing
<1>2. UNCHANGED <<caller, deadline, wake, returned, shown, site, watched>> /\ OnGoing'
  BY <1>1 DEF callerVars, inputs, OnGoing
<1>3. endedAt' = endedAt \/ (endedAt' = clock /\ ~ Alive')
  BY DEF Child, SpiderStarts, SpiderRefuses, Download, OnError, Parse, SpiderEnds, FlushItems,
         WriteStatus, ChildExits, ChildDies, ChildCloses, Alive
<1>4. NothingLeftBehind' /\ EndsAreTimed' /\ CallerIsTimed' /\ AnswerIsTrue'
  BY <1>1, <1>2, <1>3, ChildHasItsTime
<1> USE CrawlAssumption DEF CrawlInv, CrawlTypes
<1>5. CASE SpiderStarts
  <2>1. Schedule(StartUrls, 0) /\ UNCHANGED <<inflight, written, counts, disk, endedAt>>
        /\ child = "spawned" /\ child' = "running"
    BY <1>5 DEF SpiderStarts
  <2>2. queue' \in SUBSET Waiting /\ seen' \in SUBSET Pages
    BY <2>1, Scheduled DEF StartUrls
  <2>3. CrawlTypes'
    BY <1>1, <1>2, <2>1, <2>2 DEF OnGoing
  <2>4. FilesAreTrue'
    BY <1>1, <1>2, <2>1 DEF FilesAreTrue
  <2> QED BY <1>4, <2>3, <2>4
<1>6. CASE SpiderRefuses
  <2>1. /\ UNCHANGED <<queue, inflight, seen, written, disk, endedAt>>
        /\ counts' \in Tally /\ counts'.responses = counts.responses /\ counts'.items = counts.items
        /\ child = "spawned" /\ child' = "ending"
    BY <1>6 DEF SpiderRefuses, Tally
  <2>2. CrawlTypes'
    BY <1>1, <1>2, <2>1 DEF OnGoing
  <2>3. FilesAreTrue'
    BY <1>1, <1>2, <2>1 DEF FilesAreTrue, OnGoing, Files
  <2> QED BY <1>4, <2>2, <2>3
<1>7. CASE Download
  <2>1. /\ queue' \in SUBSET Waiting /\ inflight' \in SUBSET Waiting
        /\ UNCHANGED <<seen, written, counts, disk, endedAt, child>>
    BY <1>7 DEF Download
  <2>2. CrawlTypes'
    BY <1>1, <1>2, <2>1 DEF OnGoing
  <2>3. FilesAreTrue'
    BY <1>1, <1>2, <2>1 DEF FilesAreTrue
  <2> QED BY <1>4, <2>2, <2>3
<1>8. CASE OnError
  <2>1. /\ inflight' \in SUBSET Waiting /\ UNCHANGED <<queue, seen, written, disk, endedAt, child>>
        /\ counts' \in Tally /\ counts'.responses = counts.responses /\ counts'.items = counts.items
        /\ child = "running"
    BY <1>8 DEF OnError, Tally
  <2>2. CrawlTypes'
    BY <1>1, <1>2, <2>1 DEF OnGoing
  <2>3. FilesAreTrue'
    BY <1>1, <1>2, <2>1 DEF FilesAreTrue, OnGoing, Files
  <2> QED BY <1>4, <2>2, <2>3
<1>9. CASE Parse
  <2>1. PICK r \in inflight :
          LET p    == r.page
              emit == site[p].html /\ Emits(p)
              s    == [counts EXCEPT !.responses = @ + 1, !.items = @ + IF emit THEN 1 ELSE 0]
          IN  /\ inflight' = inflight \ {r}
              /\ written' = IF emit THEN Append(written, p) ELSE written
              /\ counts' = s
              /\ disk' = IF watched THEN [disk EXCEPT !.progress = s] ELSE disk
              /\ IF site[p].html /\ s.items < opts.limit /\ ~closing
                 THEN Schedule(Follows(p), r.depth + 1)
                 ELSE UNCHANGED <<queue, seen>>
    BY <1>9 DEF Parse
  <2>0. /\ r \in Waiting /\ counts \in Tally /\ written \in Seq(Pages) /\ inflight \in SUBSET Waiting
        /\ site \in Sites
    BY <1>1
  <2>2. /\ r.page \in Pages /\ r.depth \in Nat /\ r.depth + 1 \in Nat
        /\ Follows(r.page) \in SUBSET Pages
    <3> HIDE CrawlAssumption DEF CrawlInv, CrawlTypes
    <3>1. r.page \in Pages /\ r.depth \in Nat /\ r.depth + 1 \in Nat
      BY <2>0 DEF Waiting
    <3>2. site[r.page] \in PageData
      BY <2>0, <3>1 DEF Sites
    <3>3. site[r.page].links \in SUBSET Pages
      BY <3>2 DEF PageData
    <3>4. Follows(r.page) \subseteq site[r.page].links
      BY DEF Follows
    <3> QED BY <3>1, <3>3, <3>4
  <2>3. child = "running" /\ child' = "running" /\ endedAt' = endedAt
    BY <1>9 DEF Parse
  <2>4. counts' \in Tally /\ written' \in Seq(Pages) /\ inflight' \in SUBSET Waiting
    <3> HIDE CrawlAssumption DEF CrawlInv, CrawlTypes
    <3>1. \E e \in {0, 1} : counts' = [counts EXCEPT !.responses = @ + 1, !.items = @ + e]
      BY <2>1
    <3>2. counts' \in Tally
      <4>1. PICK e \in {0, 1} : counts' = [counts EXCEPT !.responses = @ + 1, !.items = @ + e]
        BY <3>1
      <4>2. counts.responses + 1 \in Nat /\ counts.items + e \in Nat
        <5>1. counts.responses \in Nat /\ counts.items \in Nat
          BY <2>0 DEF Tally
        <5>2. e = 0 \/ e = 1
          OBVIOUS
        <5> QED BY <5>1, <5>2
      <4> QED BY <2>0, <4>1, <4>2 DEF Tally
    <3>3. written' \in Seq(Pages)
      <4>1. written' = written \/ written' = Append(written, r.page)
        BY <2>1
      <4>2. written \in Seq(Pages) /\ Append(written, r.page) \in Seq(Pages)
        BY <2>0, <2>2
      <4> QED BY <4>1, <4>2
    <3>4. inflight' \in SUBSET Waiting
      BY <2>0, <2>1
    <3> QED BY <3>2, <3>3, <3>4
  <2>5. queue' \in SUBSET Waiting /\ seen' \in SUBSET Pages
    BY <2>1, <2>2, Scheduled
  <2>6. /\ disk \in Files /\ disk' \in Files /\ disk'.status = disk.status
        /\ watched => disk'.progress = counts'
    BY <1>1, <2>1, <2>4 DEF Files
  <2>7. CrawlTypes'
    BY <1>1, <1>2, <2>3, <2>4, <2>5, <2>6 DEF OnGoing
  <2>8. counts' # Nil
    BY <2>4 DEF Tally
  <2>9. caller \notin {"join", "read"} \/ ~ watched
    BY <1>1, <2>3 DEF EndsAreTimed
  <2>10. disk.status = Nil
    BY <1>1, <2>3 DEF FilesAreTrue
  <2>11. FilesAreTrue'
    BY <1>1, <1>2, <2>3, <2>6, <2>8, <2>9, <2>10 DEF FilesAreTrue
  <2> QED BY <1>4, <2>7, <2>11
<1>10. CASE SpiderEnds
  <2>1. UNCHANGED <<queue, inflight, seen, written, counts, disk, endedAt>>
        /\ child = "running" /\ child' = "ending"
    BY <1>10 DEF SpiderEnds, spiderVars
  <2>2. CrawlTypes'
    BY <1>1, <1>2, <2>1 DEF OnGoing
  <2>3. FilesAreTrue'
    BY <1>1, <1>2, <2>1 DEF FilesAreTrue
  <2> QED BY <1>4, <2>2, <2>3
<1>11. CASE FlushItems
  <2>1. UNCHANGED <<queue, inflight, seen, written, counts, endedAt>>
        /\ child = "ending" /\ child' = "flushed" /\ disk' = [disk EXCEPT !.items = written]
    BY <1>11 DEF FlushItems, spiderVars
  <2>2. /\ disk' \in Files /\ disk'.items = written /\ disk'.status = disk.status
        /\ disk'.progress = disk.progress
    BY <1>1, <2>1 DEF Files
  <2>3. CrawlTypes'
    BY <1>1, <1>2, <2>1, <2>2 DEF OnGoing
  <2>4. FilesAreTrue'
    BY <1>1, <1>2, <2>1, <2>2 DEF FilesAreTrue
  <2> QED BY <1>4, <2>3, <2>4
<1>12. CASE WriteStatus
  <2>1. UNCHANGED <<queue, inflight, seen, written, counts, endedAt>>
        /\ child = "flushed" /\ child' = "reported" /\ disk' = [disk EXCEPT !.status = counts]
    BY <1>12 DEF WriteStatus, spiderVars
  <2>2. /\ disk' \in Files /\ disk'.items = disk.items /\ disk'.status = counts
        /\ disk'.progress = disk.progress
    BY <1>1, <2>1 DEF Files
  <2>3. CrawlTypes'
    BY <1>1, <1>2, <2>1, <2>2 DEF OnGoing
  <2>4. FilesAreTrue'
    BY <1>1, <1>2, <2>1, <2>2 DEF FilesAreTrue
  <2> QED BY <1>4, <2>3, <2>4
<1>13. CASE ChildExits \/ ChildDies
  <2>1. /\ UNCHANGED <<queue, inflight, seen, written, counts, disk>> /\ endedAt' \in Nat \cup {Nil}
        /\ child' = "dead" \/ (child = "reported" /\ child' = "exited")
    BY <1>13 DEF ChildExits, ChildDies, spiderVars
  <2>2. CrawlTypes'
    BY <1>1, <1>2, <2>1 DEF OnGoing
  <2>3. FilesAreTrue'
    BY <1>1, <1>2, <2>1 DEF FilesAreTrue
  <2> QED BY <1>4, <2>2, <2>3
<1>14. CASE ChildCloses
  <2>1. UNCHANGED <<queue, inflight, seen, written, counts, disk, endedAt, child>>
    BY <1>14 DEF ChildCloses
  <2>2. CrawlTypes'
    BY <1>1, <1>2, <2>1 DEF OnGoing
  <2>3. FilesAreTrue'
    BY <1>1, <1>2, <2>1 DEF FilesAreTrue
  <2> QED BY <1>4, <2>2, <2>3
<1> QED BY <1>5, <1>6, <1>7, <1>8, <1>9, <1>10, <1>11, <1>12, <1>13, <1>14 DEF Child

-----------------------------------------------------------------------------
(* The caller: it never waits past the deadline and the graces, and when   *)
(* it is done the child is gone and the answer is what the files told.     *)

ClockTyped ==
  /\ PollSec \in Nat /\ KillSec \in Nat /\ clock \in Nat /\ deadline \in Nat /\ wake \in Nat
  /\ Nil \notin Nat /\ endedAt \in Nat \cup {Nil} /\ watched \in BOOLEAN

LEMMA TimesAreNumbers == CrawlInv => ClockTyped
BY CrawlAssumption DEF CrawlInv, CrawlTypes, ClockTyped

LEMMA CallerFrame ==
  ASSUME Caller
  PROVE  /\ OnGoing /\ Bound' = Bound
         /\ UNCHANGED <<site, watched, clock, deadline, queue, inflight, seen, written, counts, endedAt>>
<1>1. UNCHANGED <<site, watched, clock, deadline>>
  BY DEF Caller, Poll, Wake, DeadlineHit, LastLook, GraceIsOver, Joined, Overran, Terminate, Reap,
         ReadFiles, inputs
<1>2. UNCHANGED <<queue, inflight, seen, written, counts, endedAt>>
  BY DEF Caller, Poll, Wake, DeadlineHit, LastLook, GraceIsOver, Joined, Overran, Terminate, Reap,
         ReadFiles, childVars, spiderVars
<1>3. OnGoing
  BY DEF Caller, Poll, Wake, DeadlineHit, LastLook, GraceIsOver, Joined, Overran, Terminate, Reap,
         ReadFiles, OnGoing
<1>4. Bound' = Bound
  BY <1>1 DEF Bound
<1> QED BY <1>1, <1>2, <1>3, <1>4

LEMMA CallerOnTime ==
  ASSUME ClockTyped, EndsAreTimed, CallerIsTimed, Caller PROVE EndsAreTimed' /\ CallerIsTimed'
<1>1. UNCHANGED <<watched, clock, deadline, endedAt>> /\ Bound' = Bound
  BY CallerFrame
<1>2. CASE Poll \/ Wake \/ LastLook
  <2>1. EndsAreTimed'
    BY <1>1, <1>2 DEF Poll, Wake, LastLook, ClockTyped, EndsAreTimed, Alive, childVars
  <2>2. CallerIsTimed'
    BY <1>1, <1>2 DEF Poll, Wake, LastLook, ClockTyped, CallerIsTimed, Alive, childVars
  <2> QED BY <2>1, <2>2
<1>3. CASE DeadlineHit \/ GraceIsOver \/ Joined
  <2>1. EndsAreTimed'
    BY <1>1, <1>3 DEF DeadlineHit, GraceIsOver, Joined, ClockTyped, EndsAreTimed, Alive, Bound, childVars
  <2>2. CallerIsTimed'
    BY <1>1, <1>3 DEF DeadlineHit, GraceIsOver, Joined, ClockTyped, CallerIsTimed, Alive, childVars
  <2> QED BY <2>1, <2>2
<1>4. CASE Overran \/ Terminate
  <2>1. EndsAreTimed'
    BY <1>1, <1>4 DEF Overran, Terminate, ClockTyped, EndsAreTimed, Alive, Bound, childVars
  <2>2. CallerIsTimed'
    BY <1>1, <1>4 DEF Overran, Terminate, ClockTyped, CallerIsTimed, Alive, childVars
  <2> QED BY <2>1, <2>2
<1>5. CASE Reap
  <2>1. EndsAreTimed'
    BY <1>1, <1>5 DEF Reap, ClockTyped, EndsAreTimed, Alive
  <2>2. CallerIsTimed'
    BY <1>1, <1>5 DEF Reap, ClockTyped, CallerIsTimed, Alive
  <2> QED BY <2>1, <2>2
<1>6. CASE ReadFiles
  <2>1. EndsAreTimed'
    BY <1>1, <1>6 DEF ReadFiles, ClockTyped, EndsAreTimed, Alive, childVars
  <2>2. CallerIsTimed'
    BY <1>1, <1>6 DEF ReadFiles, ClockTyped, CallerIsTimed, Alive, childVars
  <2> QED BY <2>1, <2>2
<1> QED BY <1>2, <1>3, <1>4, <1>5, <1>6 DEF Caller

LEMMA CallerKeeps == ASSUME CrawlInv, Caller PROVE CrawlInv'
<1>1. /\ OnGoing /\ Bound' = Bound
      /\ UNCHANGED <<site, watched, clock, deadline, queue, inflight, seen, written, counts, endedAt>>
  BY CallerFrame
<1>2. CrawlTypes /\ FilesAreTrue /\ disk \in Files /\ ClockTyped
  BY <1>1, TimesAreNumbers DEF CrawlInv, CrawlTypes
<1>3. EndsAreTimed' /\ CallerIsTimed'
  BY <1>2, CallerOnTime DEF CrawlInv
<1>4. ASSUME UNCHANGED <<child, disk>>, shown' \in Tally \cup {Nil}, UNCHANGED returned,
             wake' \in Nat,
             caller' \in {"poll", "sleep", "grace", "join", "kill", "read", "term"},
             watched /\ caller' \in {"join", "read"} /\ disk.progress # Nil => shown' = disk.progress
      PROVE  CrawlInv'
  <2>1. CrawlTypes'
    BY <1>1, <1>2, <1>4 DEF CrawlTypes, OnGoing
  <2>2. NothingLeftBehind' /\ AnswerIsTrue'
    BY <1>1, <1>4 DEF NothingLeftBehind, AnswerIsTrue, ReturnedIsComplete,
       FinishedInTimeIsKept, LastSnapshotShown
  <2>3. FilesAreTrue'
    BY <1>1, <1>2, <1>4 DEF FilesAreTrue, OnGoing
  <2> QED BY <1>3, <2>1, <2>2, <2>3 DEF CrawlInv
<1>5. CASE Poll \/ LastLook
  <2>1. UNCHANGED <<child, disk, returned>> /\ caller' \in {"sleep", "join"}
    BY <1>5 DEF Poll, LastLook, childVars
  <2>2. wake' \in Nat
    BY <1>2, <1>5 DEF Poll, LastLook, ClockTyped
  <2>3. shown' = IF disk.progress # Nil THEN disk.progress ELSE shown
    BY <1>5 DEF Poll, LastLook, Look
  <2>4. shown' \in Tally \cup {Nil}
    BY <1>2, <2>3 DEF CrawlTypes, Files
  <2> QED BY <1>4, <2>1, <2>2, <2>3, <2>4
<1>6. CASE Wake \/ DeadlineHit \/ GraceIsOver \/ Joined \/ Overran \/ Terminate
  <2>1. /\ UNCHANGED <<child, disk, returned, shown>>
        /\ caller' \in {"poll", "grace", "kill", "read", "term"}
    BY <1>6 DEF Wake, DeadlineHit, GraceIsOver, Joined, Overran, Terminate, childVars
  <2>2. wake' \in Nat
    BY <1>2, <1>6 DEF Wake, DeadlineHit, GraceIsOver, Joined, Overran, Terminate, ClockTyped
  <2>3. watched /\ caller' = "read" /\ disk.progress # Nil => shown' = disk.progress
    BY <1>1, <1>2, <1>6, <2>1
       DEF Wake, DeadlineHit, GraceIsOver, Joined, Overran, Terminate, FilesAreTrue
  <2> QED BY <1>2, <1>4, <2>1, <2>2, <2>3 DEF CrawlTypes
<1>7. CASE Reap
  <2>1. /\ caller = "term" /\ caller' = "done" /\ disk' = Nil /\ outcome' = "timeout"
        /\ UNCHANGED <<wake, returned, shown>>
    BY <1>7 DEF Reap
  <2>2. child' \in {"none", "exited", "dead"}
    BY <1>2, <1>7 DEF Reap, Alive, CrawlTypes
  <2>3. CrawlTypes' /\ NothingLeftBehind' /\ FilesAreTrue'
    BY <1>1, <1>2, <2>1, <2>2 DEF NothingLeftBehind, FilesAreTrue, CrawlTypes, OnGoing, Alive
  <2>4. AnswerIsTrue'
    BY <1>1, <2>1 DEF CrawlInv, AnswerIsTrue, ReturnedIsComplete, FinishedInTimeIsKept,
                      LastSnapshotShown, EndsAreTimed, Bound
  <2> QED BY <1>3, <2>3, <2>4 DEF CrawlInv
<1>8. CASE ReadFiles
  <2>1. /\ caller = "read" /\ caller' = "done" /\ UNCHANGED <<child, wake, shown>> /\ disk' = Nil
        /\ outcome' = Verdict /\ returned' = IF Verdict = "items" THEN disk.items ELSE <<>>
    BY <1>8 DEF ReadFiles, childVars
  <2>2. ~ Alive /\ (Alive' <=> Alive)
    BY <2>1 DEF CrawlInv, EndsAreTimed, Alive
  <2>3. returned' \in Seq(Pages)
    BY <1>2, <2>1 DEF Files
  <2>4. CrawlTypes' /\ NothingLeftBehind' /\ FilesAreTrue'
    BY <1>1, <1>2, <2>1, <2>2, <2>3 DEF NothingLeftBehind, FilesAreTrue, CrawlTypes, OnGoing
  <2>5. /\ Verdict # "timeout"
        /\ Verdict = "items" => disk.status # Nil /\ disk.status.responses # 0
    BY DEF Verdict, NoCounts
  <2>6. Verdict = "items" => disk.items = written /\ counts.responses # 0
    BY <1>1, <1>2, <2>5 DEF FilesAreTrue
  <2>7. Verdict = "items" /\ watched => shown # Nil /\ shown.responses = counts.responses
                                        /\ shown.items = counts.items
    BY <1>1, <1>2, <2>1, <2>6 DEF FilesAreTrue
  <2>8. AnswerIsTrue'
    BY <1>1, <2>1, <2>5, <2>6, <2>7 DEF AnswerIsTrue, ReturnedIsComplete, FinishedInTimeIsKept,
                                       LastSnapshotShown
  <2> QED BY <1>3, <2>4, <2>8 DEF CrawlInv
<1> QED BY <1>5, <1>6, <1>7, <1>8 DEF Caller

LEMMA TimeKeeps == ASSUME CrawlInv, TimeStep PROVE CrawlInv'
<1>1. /\ Waits /\ clock' = clock + 1 /\ OnGoing
      /\ UNCHANGED <<site, watched, caller, deadline, wake, outcome, returned, shown, child,
                    endedAt, queue, inflight, seen, written, counts, disk>>
  BY DEF TimeStep, inputs, callerVars, childVars, spiderVars, Waits, OnGoing
<1>2. ClockTyped
  BY TimesAreNumbers
<1>3. CrawlTypes'
  BY <1>1, <1>2 DEF CrawlInv, CrawlTypes, OnGoing, ClockTyped
<1>4. NothingLeftBehind' /\ AnswerIsTrue'
  BY <1>1 DEF NothingLeftBehind, AnswerIsTrue, ReturnedIsComplete, FinishedInTimeIsKept,
              LastSnapshotShown, OnGoing
<1>5. FilesAreTrue'
  BY <1>1 DEF CrawlInv, FilesAreTrue, OnGoing
<1>6. EndsAreTimed'
  BY <1>1, <1>2 DEF CrawlInv, EndsAreTimed, Alive, Bound, ClockTyped
<1>7. CallerIsTimed'
  BY <1>1, <1>2 DEF CrawlInv, CallerIsTimed, Waits, Alive, ClockTyped
<1> QED BY <1>3, <1>4, <1>5, <1>6, <1>7 DEF CrawlInv

-----------------------------------------------------------------------------
(* What the two folds of a batch come to: induction over the length of the *)
(* sequence, on sets of numbers.                                           *)

LEMMA NatSets ==
  ASSUME NEW S, 0 \in S, \A n \in Nat : n \in S => n + 1 \in S
  PROVE  \A n \in Nat : n \in S
<1> SUFFICES ASSUME NEW m \in Nat, m \notin S PROVE FALSE
  OBVIOUS
<1> DEFINE T == {n \in Nat : n \notin S}
<1>1. PICK n \in T : \A x \in T : ~ (<<x, n>> \in OpToRel(<, Nat))
  <2>1. T \subseteq Nat /\ T # {}
    OBVIOUS
  <2> HIDE DEF T
  <2> QED BY <2>1, NatLessThanWellFounded, WFMin
<1>2. n \in Nat /\ n # 0 /\ n - 1 \in Nat /\ (n - 1) + 1 = n /\ n - 1 < n
  OBVIOUS
<1>3. n - 1 \in T
  BY <1>2
<1> QED BY <1>1, <1>2, <1>3 DEF OpToRel

IsKeeping(it, s, T, n) ==
  it = [p \in SUBSET (1..n) |->
          IF p = {} THEN <<>>
          ELSE IF s[Max(p)] \in T THEN Append(it[p \ {Max(p)}], s[Max(p)]) ELSE it[p \ {Max(p)}]]

LEMMA LastIsMax ==
  ASSUME NEW n \in Nat, NEW p \in SUBSET (1..(n + 1)), n + 1 \in p PROVE Max(p) = n + 1
<1>1. \A x \in p : x \in Nat /\ n + 1 >= x
  OBVIOUS
<1>2. \A x \in p : (\A y \in p : x >= y) => x = n + 1
  BY <1>1
<1> QED BY <1>1, <1>2 DEF Max

LEMMA KeepingExists ==
  ASSUME NEW s, NEW T PROVE \A n \in Nat : \E it : IsKeeping(it, s, T, n)
<1> DEFINE S == {n \in Nat : \E it : IsKeeping(it, s, T, n)}
<1>1. 0 \in S
  <2> DEFINE it == [p \in SUBSET (1..0) |-> <<>>]
  <2>1. \A p \in SUBSET (1..0) : p = {}
    OBVIOUS
  <2>2. IsKeeping(it, s, T, 0)
    BY <2>1 DEF IsKeeping
  <2> QED BY <2>2
<1>2. ASSUME NEW n \in Nat, n \in S PROVE n + 1 \in S
  <2>1. PICK it : IsKeeping(it, s, T, n)
    BY <1>2
  <2> DEFINE all == SUBSET (1..(n + 1))
             jt == [p \in all |->
                      IF n + 1 \in p
                      THEN IF s[n + 1] \in T THEN Append(it[p \ {n + 1}], s[n + 1]) ELSE it[p \ {n + 1}]
                      ELSE it[p]]
             Next1(p) == IF p = {} THEN <<>>
                         ELSE IF s[Max(p)] \in T THEN Append(jt[p \ {Max(p)}], s[Max(p)])
                              ELSE jt[p \ {Max(p)}]
  <2>2. ASSUME NEW p \in all, n + 1 \in p PROVE jt[p] = Next1(p)
    <3>1. Max(p) = n + 1 /\ p # {} /\ p \ {n + 1} \in all /\ n + 1 \notin p \ {n + 1}
      BY <2>2, LastIsMax
    <3>2. jt[p \ {n + 1}] = it[p \ {n + 1}]
      BY <3>1
    <3> QED BY <2>2, <3>1, <3>2
  <2>3. ASSUME NEW p \in all, n + 1 \notin p PROVE jt[p] = Next1(p)
    <3>1. p \in SUBSET (1..n) /\ jt[p] = it[p]
      BY <2>3
    <3>2. p \ {Max(p)} \in all /\ n + 1 \notin p \ {Max(p)}
      BY <2>3
    <3>3. jt[p \ {Max(p)}] = it[p \ {Max(p)}]
      BY <3>2
    <3>4. it[p] = IF p = {} THEN <<>>
                  ELSE IF s[Max(p)] \in T THEN Append(it[p \ {Max(p)}], s[Max(p)])
                       ELSE it[p \ {Max(p)}]
      BY <2>1, <3>1 DEF IsKeeping
    <3> QED BY <3>1, <3>3, <3>4
  <2>4. jt = [p \in all |-> jt[p]]
    OBVIOUS
  <2>5. \A p \in all : jt[p] = Next1(p)
    BY <2>2, <2>3
  <2>6. jt = [p \in all |-> Next1(p)]
    <3> HIDE DEF jt, Next1
    <3> QED BY <2>4, <2>5
  <2>7. IsKeeping(jt, s, T, n + 1)
    <3> HIDE DEF jt
    <3> QED BY <2>6 DEF IsKeeping
  <2> QED BY <2>7
<1> HIDE DEF S
<1>3. \A n \in Nat : n \in S
  BY <1>1, <1>2, NatSets
<1> QED BY <1>3 DEF S

LEMMA KeptOf ==
  ASSUME NEW S, NEW s \in Seq(S), NEW T
  PROVE  Kept(s, T) \in Seq(S \cap T) /\ Len(Kept(s, T)) <= Len(s)
<1> DEFINE N == Len(s)
           it == CHOOSE f : IsKeeping(f, s, T, N)
<1>1. N \in Nat /\ DOMAIN s = 1..N /\ \A i \in 1..N : s[i] \in S
  OBVIOUS
<1>2. Kept(s, T) = it[1..N]
  BY <1>1 DEF Kept, FoldLeft, MapThenFoldSet, IsKeeping
<1>3. IsKeeping(it, s, T, N)
  BY <1>1, KeepingExists
<1> HIDE DEF it, N
<1> DEFINE Fine(k) == it[1..k] \in Seq(S \cap T) /\ Len(it[1..k]) <= k
           K == {k \in Nat : k <= N => Fine(k)}
<1>4. 0 \in K
  <2>1. 1..0 = {} /\ {} \in SUBSET (1..N)
    OBVIOUS
  <2>2. it[1..0] = <<>>
    BY <1>3, <2>1 DEF IsKeeping
  <2>3. <<>> \in Seq(S \cap T) /\ Len(<<>>) = 0
    OBVIOUS
  <2>4. Fine(0)
    BY <2>2, <2>3
  <2> HIDE DEF Fine
  <2> QED BY <2>4
<1>5. ASSUME NEW k \in Nat, k \in K PROVE k + 1 \in K
  <2> SUFFICES ASSUME k + 1 <= N PROVE Fine(k + 1)
    OBVIOUS
  <2> DEFINE t == it[1..k]
  <2>1. t \in Seq(S \cap T) /\ Len(t) <= k
    BY <1>1, <1>5
  <2>2. /\ 1..(k + 1) \in SUBSET (1..N) /\ 1..(k + 1) # {} /\ k + 1 \in 1..(k + 1)
        /\ (1..(k + 1)) \ {k + 1} = 1..k /\ s[k + 1] \in S
    <3>1. k + 1 \in 1..N /\ k + 1 \in 1..(k + 1) /\ 1..(k + 1) \in SUBSET (1..N)
      BY <1>1
    <3>2. (1..(k + 1)) \ {k + 1} = 1..k
      OBVIOUS
    <3> QED BY <1>1, <3>1, <3>2
  <2>3. Max(1..(k + 1)) = k + 1
    BY <2>2, LastIsMax
  <2>4. it[1..(k + 1)] = IF s[k + 1] \in T THEN Append(t, s[k + 1]) ELSE t
    BY <1>3, <2>2, <2>3 DEF IsKeeping
  <2> HIDE DEF t
  <2>5. CASE s[k + 1] \in T
    <3>1. Append(t, s[k + 1]) \in Seq(S \cap T) /\ Len(Append(t, s[k + 1])) = Len(t) + 1
      BY <2>1, <2>2, <2>5
    <3> QED BY <2>1, <2>4, <2>5, <3>1
  <2>6. CASE s[k + 1] \notin T
    BY <2>1, <2>4, <2>6
  <2> QED BY <2>5, <2>6
<1> HIDE DEF Fine
<1>6. \A k \in Nat : k \in K
  <2> HIDE DEF K
  <2> QED BY <1>4, <1>5, NatSets
<1>7. Fine(N)
  BY <1>1, <1>6
<1> QED BY <1>2, <1>7 DEF Fine, N

IsCounting(it, rs, n) ==
  it = [p \in SUBSET (1..n) |->
          IF p = {} THEN 0
          ELSE it[p \ {Max(p)}] + (IF rs[Max(p)].count = Nil THEN 0 ELSE rs[Max(p)].count)]

LEMMA CountingExists ==
  ASSUME NEW rs PROVE \A n \in Nat : \E it : IsCounting(it, rs, n)
<1> DEFINE S == {n \in Nat : \E it : IsCounting(it, rs, n)}
           C(x) == IF rs[x].count = Nil THEN 0 ELSE rs[x].count
<1>1. 0 \in S
  <2> DEFINE it == [p \in SUBSET (1..0) |-> 0]
  <2>1. \A p \in SUBSET (1..0) : p = {}
    OBVIOUS
  <2>2. IsCounting(it, rs, 0)
    BY <2>1 DEF IsCounting
  <2> QED BY <2>2
<1>2. ASSUME NEW n \in Nat, n \in S PROVE n + 1 \in S
  <2>1. PICK it : IsCounting(it, rs, n)
    BY <1>2
  <2> DEFINE all == SUBSET (1..(n + 1))
             jt == [p \in all |-> IF n + 1 \in p THEN it[p \ {n + 1}] + C(n + 1) ELSE it[p]]
             Next1(p) == IF p = {} THEN 0 ELSE jt[p \ {Max(p)}] + C(Max(p))
  <2>2. ASSUME NEW p \in all, n + 1 \in p PROVE jt[p] = Next1(p)
    <3>1. Max(p) = n + 1 /\ p # {} /\ p \ {n + 1} \in all /\ n + 1 \notin p \ {n + 1}
      BY <2>2, LastIsMax
    <3> HIDE DEF C
    <3>2. jt[p \ {n + 1}] = it[p \ {n + 1}]
      BY <3>1
    <3> QED BY <2>2, <3>1, <3>2
  <2>3. ASSUME NEW p \in all, n + 1 \notin p PROVE jt[p] = Next1(p)
    <3>1. p \in SUBSET (1..n) /\ jt[p] = it[p]
      BY <2>3
    <3>2. p \ {Max(p)} \in all /\ n + 1 \notin p \ {Max(p)}
      BY <2>3
    <3>3. jt[p \ {Max(p)}] = it[p \ {Max(p)}]
      BY <3>2
    <3>4. it[p] = IF p = {} THEN 0 ELSE it[p \ {Max(p)}] + C(Max(p))
      BY <2>1, <3>1 DEF IsCounting
    <3> HIDE DEF C
    <3> QED BY <3>1, <3>3, <3>4
  <2>4. jt = [p \in all |-> jt[p]]
    OBVIOUS
  <2>5. \A p \in all : jt[p] = Next1(p)
    BY <2>2, <2>3
  <2>6. jt = [p \in all |-> Next1(p)]
    <3> HIDE DEF jt, Next1
    <3> QED BY <2>4, <2>5
  <2>7. IsCounting(jt, rs, n + 1)
    <3> HIDE DEF jt
    <3> QED BY <2>6 DEF IsCounting
  <2> QED BY <2>7
<1> HIDE DEF S
<1>3. \A n \in Nat : n \in S
  BY <1>1, <1>2, NatSets
<1> QED BY <1>3 DEF S

(* The count of the first k of a sequence, by any of its countings.        *)
LEMMA CountSteps ==
  ASSUME NEW n \in Nat, NEW rs, NEW it, IsCounting(it, rs, n)
  PROVE  /\ it[1..0] = 0
         /\ \A k \in 0..(n - 1) :
               it[1..(k + 1)] = it[1..k] + (IF rs[k + 1].count = Nil THEN 0 ELSE rs[k + 1].count)
<1>1. it[1..0] = 0
  <2>1. 1..0 = {} /\ {} \in SUBSET (1..n)
    OBVIOUS
  <2> QED BY <2>1 DEF IsCounting
<1>2. ASSUME NEW k \in 0..(n - 1)
      PROVE  it[1..(k + 1)] = it[1..k] + (IF rs[k + 1].count = Nil THEN 0 ELSE rs[k + 1].count)
  <2>1. k \in Nat /\ k + 1 \in 1..(k + 1) /\ 1..(k + 1) \in SUBSET (1..n)
    OBVIOUS
  <2>2. (1..(k + 1)) \ {k + 1} = 1..k
    OBVIOUS
  <2>3. Max(1..(k + 1)) = k + 1
    BY <2>1, LastIsMax
  <2> QED BY <2>1, <2>2, <2>3 DEF IsCounting
<1> QED BY <1>1, <1>2

LEMMA ReportedAppends ==
  ASSUME NEW S, NEW rs \in Seq(S), NEW r \in S
  PROVE  /\ rs = <<>> => Reported(rs) = 0
         /\ Reported(Append(rs, r)) = Reported(rs) + (IF r.count = Nil THEN 0 ELSE r.count)
<1> DEFINE n == Len(rs)
           us == Append(rs, r)
           it == CHOOSE f : IsCounting(f, rs, n)
           jt == CHOOSE f : IsCounting(f, us, n + 1)
<1>1. n \in Nat /\ DOMAIN rs = 1..n
  OBVIOUS
<1>2. /\ us \in Seq(S) /\ Len(us) = n + 1 /\ DOMAIN us = 1..(n + 1) /\ us[n + 1] = r
      /\ \A i \in 1..n : us[i] = rs[i]
  OBVIOUS
<1>3. Reported(rs) = it[1..n]
  BY <1>1 DEF Reported, FoldLeft, MapThenFoldSet, IsCounting
<1>4. Reported(us) = jt[1..(n + 1)]
  <2> HIDE DEF us, n
  <2> QED BY <1>2 DEF Reported, FoldLeft, MapThenFoldSet, IsCounting
<1>5. IsCounting(it, rs, n) /\ IsCounting(jt, us, n + 1)
  <2>1. \E f : IsCounting(f, rs, n)
    BY <1>1, CountingExists
  <2>2. \E f : IsCounting(f, us, n + 1)
    <3> HIDE DEF us, n, it, jt
    <3>1. n + 1 \in Nat
      BY <1>1
    <3> QED BY <3>1, CountingExists
  <2> QED BY <2>1, <2>2
<1> HIDE DEF it, jt, us
<1>6. rs = <<>> => Reported(rs) = 0
  BY <1>1, <1>3, <1>5, CountSteps
<1> HIDE DEF n
<1> DEFINE K == {k \in Nat : k <= n => jt[1..k] = it[1..k]}
<1>7. 0 \in K
  BY <1>1, <1>5, CountSteps
<1>8. ASSUME NEW k \in Nat, k \in K PROVE k + 1 \in K
  <2> SUFFICES ASSUME k + 1 <= n PROVE jt[1..(k + 1)] = it[1..(k + 1)]
    OBVIOUS
  <2>1. k \in 0..(n - 1) /\ k \in 0..((n + 1) - 1) /\ jt[1..k] = it[1..k] /\ us[k + 1] = rs[k + 1]
    BY <1>1, <1>2, <1>8
  <2>2. it[1..(k + 1)] = it[1..k] + (IF rs[k + 1].count = Nil THEN 0 ELSE rs[k + 1].count)
    BY <1>1, <1>5, <2>1, CountSteps
  <2>3. jt[1..(k + 1)] = jt[1..k] + (IF us[k + 1].count = Nil THEN 0 ELSE us[k + 1].count)
    <3>1. n + 1 \in Nat
      BY <1>1
    <3> QED BY <1>5, <2>1, <3>1, CountSteps
  <2> QED BY <2>1, <2>2, <2>3
<1>9. jt[1..n] = it[1..n]
  <2> HIDE DEF K
  <2>1. n \in K
    BY <1>1, <1>7, <1>8, NatSets
  <2> QED BY <1>1, <2>1 DEF K
<1>10. jt[1..(n + 1)] = jt[1..n] + (IF r.count = Nil THEN 0 ELSE r.count)
  <2>1. n + 1 \in Nat /\ n \in 0..((n + 1) - 1)
    BY <1>1
  <2> QED BY <1>2, <1>5, <2>1, CountSteps
<1> QED BY <1>3, <1>4, <1>6, <1>9, <1>10 DEF us

-----------------------------------------------------------------------------
(* The batch: a crawl is set up afresh, and is over when its caller takes  *)
(* the answer.                                                             *)

LEMMA SpawnKeeps ==
  ASSUME CrawlInv, NEW b \in Nat, Spawn(b), UNCHANGED <<clock, watched>>, site' \in Sites
  PROVE  CrawlInv'
<1>1. /\ disk' = NoDisk /\ child' = "spawned" /\ endedAt' = Nil
      /\ queue' = {} /\ inflight' = {} /\ seen' = {} /\ written' = <<>> /\ counts' = NoCounts
      /\ deadline' = clock + b /\ wake' = clock /\ returned' = <<>> /\ shown' = Nil
      /\ caller' = IF watched THEN "poll" ELSE "join"
  BY DEF Spawn
<1>2. ClockTyped /\ deadline' \in Nat /\ wake' \in Nat
  BY <1>1, TimesAreNumbers DEF ClockTyped
<1>3. <<>> \in Seq(Pages) /\ NoCounts \in Tally /\ NoCounts.responses = 0
  <2>1. <<>> \in Seq(Pages)
    OBVIOUS
  <2> QED BY <2>1 DEF NoCounts, Tally
<1>4. NoDisk \in Files /\ NoDisk.status = Nil /\ NoDisk.progress = Nil
  BY <1>3 DEF NoDisk, Files
<1>5. CrawlTypes'
  BY <1>1, <1>2, <1>3, <1>4 DEF CrawlInv, CrawlTypes, ClockTyped
<1>6. NothingLeftBehind' /\ AnswerIsTrue'
  BY <1>1 DEF NothingLeftBehind, AnswerIsTrue, ReturnedIsComplete, FinishedInTimeIsKept,
              LastSnapshotShown
<1>7. FilesAreTrue'
  BY <1>1, <1>3, <1>4 DEF FilesAreTrue
<1>8. EndsAreTimed'
  BY <1>1, <1>2 DEF EndsAreTimed, ClockTyped
<1>9. CallerIsTimed'
  BY <1>1, <1>2 DEF CallerIsTimed, ClockTyped
<1> QED BY <1>5, <1>6, <1>7, <1>8, <1>9 DEF CrawlInv

LEMMA AnswerTaken ==
  ASSUME CrawlInv, caller = "done", caller' = "idle",
         UNCHANGED <<inputs, clock, deadline, wake, outcome, returned, shown, childVars, disk>>
  PROVE  CrawlInv'
<1>1. UNCHANGED <<clock, deadline, wake, returned, shown, child, endedAt, disk, watched, queue,
                  inflight, seen, written, counts>>
  BY DEF inputs, childVars, spiderVars
<1>2. CrawlTypes' /\ NothingLeftBehind'
  BY <1>1 DEF CrawlInv, CrawlTypes, NothingLeftBehind, OnGoing, Alive
<1>3. FilesAreTrue' /\ CallerIsTimed' /\ AnswerIsTrue'
  BY DEF FilesAreTrue, CallerIsTimed, AnswerIsTrue, ReturnedIsComplete, FinishedInTimeIsKept,
         LastSnapshotShown, OnGoing
<1>4. EndsAreTimed'
  BY <1>1 DEF CrawlInv, EndsAreTimed, Alive
<1> QED BY <1>2, <1>3, <1>4 DEF CrawlInv

LEMMA CrawlStands == ASSUME CrawlInv, UNCHANGED crawlVars PROVE CrawlInv'
<1>1. UNCHANGED <<site, opts, watched, clock, caller, deadline, wake, outcome, returned, shown,
                  child, endedAt, queue, inflight, seen, written, counts, disk>>
  BY DEF crawlVars, inputs, callerVars, childVars, spiderVars
<1>2. CrawlTypes' /\ NothingLeftBehind' /\ FilesAreTrue'
  BY <1>1 DEF CrawlInv, CrawlTypes, NothingLeftBehind, FilesAreTrue, OnGoing, Alive
<1>3. EndsAreTimed' /\ CallerIsTimed'
  BY <1>1 DEF CrawlInv, EndsAreTimed, CallerIsTimed, Alive, Bound
<1>4. AnswerIsTrue'
  BY <1>1 DEF CrawlInv, AnswerIsTrue, ReturnedIsComplete, FinishedInTimeIsKept, LastSnapshotShown
<1> QED BY <1>2, <1>3, <1>4 DEF CrawlInv

LEMMA SeqWidens == ASSUME NEW A, NEW B, A \subseteq B PROVE \A s \in Seq(A) : s \in Seq(B)
<1> SUFFICES ASSUME NEW s \in Seq(A) PROVE s \in Seq(B)
  OBVIOUS
<1>1. Len(s) \in Nat /\ s \in [1..Len(s) -> B]
  OBVIOUS
<1> QED BY <1>1

(* The sources of a batch are sequences of sources, and so is what is      *)
(* picked of them.                                                         *)
LEMMA SourcesAreTyped ==
  ASSUME batch \in Batches
  PROVE  /\ batch.sources \in Seq(ToSet(batch.sources)) /\ batch.roster \in Seq(ToSet(batch.roster))
         /\ Enabled \in Seq(ToSet(batch.sources)) /\ Len(Enabled) <= Len(batch.sources)
         /\ Uncovered \in Seq(ToSet(batch.roster)) /\ Len(Uncovered) <= Len(batch.roster)
         /\ batch.budget \in Nat \cup {Nil} /\ batch.site \in Sites
         /\ \A s \in ToSet(batch.sources) \cup ToSet(batch.roster) : s.site \in Sites
         /\ DefaultRuntime \in Nat /\ MinRuntime \in Nat
<1> DEFINE S == ToSet(batch.sources)
           R == ToSet(batch.roster)
           T == {s \in S : s.enabled}
           C == {Enabled[i].host : i \in 1..Len(Enabled)} \cup {batch.host}
           U == {s \in R : s.host \notin C}
<1>1. /\ batch.sources \in Seq(S) /\ batch.roster \in Seq(R)
      /\ batch.budget \in Nat \cup {Nil} /\ batch.site \in Sites
      /\ \A s \in S \cup R : s.site \in Sites
      /\ DefaultRuntime \in Nat /\ MinRuntime \in Nat
  BY BatchAssumption
<1>2. Enabled = Kept(batch.sources, T) /\ Uncovered = Kept(batch.roster, U)
  BY DEF Enabled, Uncovered, EnabledOf, UncoveredOf
<1>3. /\ \A s \in Seq(S \cap T) : s \in Seq(S)
      /\ \A s \in Seq(R \cap U) : s \in Seq(R)
  <2>1. S \cap T \subseteq S /\ R \cap U \subseteq R
    OBVIOUS
  <2> HIDE DEF S, R, T, U
  <2> QED BY <2>1, SeqWidens
<1>4. Kept(batch.sources, T) \in Seq(S \cap T) /\ Len(Kept(batch.sources, T)) <= Len(batch.sources)
  <2> HIDE DEF S, T
  <2> QED BY <1>1, KeptOf
<1>5. Kept(batch.roster, U) \in Seq(R \cap U) /\ Len(Kept(batch.roster, U)) <= Len(batch.roster)
  <2> HIDE DEF R, U
  <2> QED BY <1>1, KeptOf
<1> QED BY <1>1, <1>2, <1>3, <1>4, <1>5

LEMMA CrawlGoesOn == ASSUME CrawlInv, Child \/ Caller \/ TimeStep PROVE OnGoing
<1>1. CASE Child
  <2>1. Alive
    BY <1>1 DEF Child, SpiderStarts, SpiderRefuses, Download, OnError, Parse, SpiderEnds,
           FlushItems, WriteStatus, ChildExits, ChildDies, ChildCloses, Alive
  <2> QED BY <2>1 DEF CrawlInv, NothingLeftBehind, OnGoing
<1>2. CASE Caller
  BY <1>2 DEF Caller, Poll, Wake, DeadlineHit, LastLook, GraceIsOver, Joined, Overran, Terminate,
         Reap, ReadFiles, OnGoing
<1>3. CASE TimeStep
  BY <1>3 DEF TimeStep, Waits, OnGoing
<1> QED BY <1>1, <1>2, <1>3

LEMMA ListsStand ==
  ASSUME UNCHANGED batch PROVE Enabled' = Enabled /\ Uncovered' = Uncovered /\ Horizon' = Horizon
<1>1. Enabled' = Enabled
  BY DEF Enabled
<1> QED BY <1>1 DEF Uncovered, Horizon

CrawlSound == CrawlInv /\ BatchTypes

LEMMA RemainingIsTime == ASSUME CrawlSound PROVE Remaining \in Nat
<1>1. DefaultRuntime \in Nat /\ MinRuntime \in Nat
  BY BatchAssumption
<1>2. clock \in Nat /\ batchDeadline \in Nat
  BY DEF CrawlSound, CrawlInv, CrawlTypes, BatchTypes
<1> QED BY <1>1, <1>2 DEF Remaining

LEMMA BatchEndIsTime == ASSUME CrawlSound PROVE BatchEnd \in Nat
<1>1. batch.budget \in Nat \cup {Nil}
  BY SourcesAreTyped DEF CrawlSound, BatchTypes
<1>2. clock \in Nat
  BY DEF CrawlSound, CrawlInv, CrawlTypes
<1> QED BY <1>1, <1>2 DEF BatchEnd

LEMMA SoundStart == ASSUME BatchInit PROVE CrawlSound
<1>1. <<>> \in Seq(Pages) /\ <<>> \in Seq(ToSet(batch.sources) \cup ToSet(batch.roster))
  OBVIOUS
<1>2. NoCounts \in Tally
  BY DEF NoCounts, Tally
<1>3. CrawlTypes /\ NothingLeftBehind
  BY <1>1, <1>2 DEF BatchInit, CrawlTypes, NothingLeftBehind, OnGoing, Alive
<1>4. FilesAreTrue /\ CallerIsTimed /\ AnswerIsTrue
  BY DEF BatchInit, FilesAreTrue, CallerIsTimed, AnswerIsTrue, ReturnedIsComplete,
         FinishedInTimeIsKept, LastSnapshotShown, OnGoing
<1>5. EndsAreTimed
  BY DEF BatchInit, EndsAreTimed
<1>6. BatchTypes
  BY <1>1 DEF BatchInit, BatchTypes
<1> QED BY <1>3, <1>4, <1>5, <1>6 DEF CrawlSound, CrawlInv

LEMMA SoundKept == ASSUME CrawlSound, BatchNext PROVE CrawlSound'
<1>1. CASE (Child \/ Caller \/ TimeStep) /\ UNCHANGED batchVars
  <2>1. CrawlInv'
    BY <1>1, ChildKeeps, CallerKeeps, TimeKeeps DEF CrawlSound
  <2>2. OnGoing
    BY <1>1, CrawlGoesOn DEF CrawlSound
  <2>3. UNCHANGED <<batch, phase, todo, reports, combined, stamped, batchDeadline, Enabled>>
    BY <1>1, ListsStand DEF batchVars
  <2>4. BatchTypes'
    BY <2>2, <2>3 DEF CrawlSound, BatchTypes, OnGoing
  <2> QED BY <2>1, <2>4 DEF CrawlSound
<1> DEFINE All == ToSet(batch.sources) \cup ToSet(batch.roster)
<1>0. batch' = batch => UNCHANGED <<Enabled, ToSet(batch.sources), ToSet(batch.roster)>>
  BY ListsStand
<1>2. CASE Fallback
  <2>1. CrawlInv'
    <3>1. DefaultRuntime \in Nat /\ batch.site \in Sites
      BY SourcesAreTyped DEF CrawlSound, BatchTypes
    <3> QED BY <1>2, <3>1, SpawnKeeps DEF Fallback, CrawlSound
  <2>2. BatchEnd \in Nat
    BY BatchEndIsTime
  <2>3. BatchTypes'
    BY <1>0, <1>2, <2>2 DEF Fallback, CrawlSound, BatchTypes
  <2> QED BY <2>1, <2>3 DEF CrawlSound
<1>3. CASE FallbackEnds
  <2>1. CrawlInv'
    BY <1>3, AnswerTaken DEF FallbackEnds, CrawlSound
  <2>2. returned \in Seq(Pages)
    BY DEF CrawlSound, CrawlInv, CrawlTypes
  <2>3. BatchTypes'
    BY <1>0, <1>3, <2>2 DEF FallbackEnds, CrawlSound, BatchTypes
  <2> QED BY <2>1, <2>3 DEF CrawlSound
<1>4. CASE StartBatch
  <2>1. CrawlInv' /\ caller' = caller
    BY <1>4, CrawlStands DEF StartBatch, CrawlSound, crawlVars, callerVars
  <2>2. BatchEnd \in Nat
    BY BatchEndIsTime
  <2>3. Enabled \in Seq(All)
    <3>1. Enabled \in Seq(ToSet(batch.sources))
      BY SourcesAreTyped DEF CrawlSound, BatchTypes
    <3> QED BY <3>1, SeqWidens
  <2>4. BatchTypes'
    BY <1>0, <1>4, <2>1, <2>2, <2>3 DEF StartBatch, CrawlSound, BatchTypes
  <2> QED BY <2>1, <2>4 DEF CrawlSound
<1>5. CASE CrawlSource
  <2>1. Head(todo) \in All
    BY <1>5 DEF CrawlSource, CrawlSound, BatchTypes
  <2>2. Head(todo).site \in Sites
    BY <2>1, SourcesAreTyped DEF CrawlSound, BatchTypes
  <2>3. CrawlInv'
    BY <1>5, <2>2, RemainingIsTime, SpawnKeeps DEF CrawlSource, CrawlSound
  <2>4. UNCHANGED <<batch, phase, todo, reports, combined, stamped, batchDeadline>>
    BY <1>5 DEF CrawlSource, batchVars
  <2>5. BatchTypes'
    BY <1>0, <1>5, <2>4 DEF CrawlSource, CrawlSound, BatchTypes
  <2> QED BY <2>3, <2>5 DEF CrawlSound
<1>6. CASE SourceEnds
  <2>1. CrawlInv'
    BY <1>6, AnswerTaken DEF SourceEnds, CrawlSound
  <2>2. todo # <<>> /\ todo \in Seq(All)
    BY <1>6 DEF SourceEnds, CrawlSound, BatchTypes
  <2>3. Tail(todo) \in Seq(All)
    <3> HIDE DEF All
    <3> QED BY <2>2
  <2>4. combined' \in Seq(Pages)
    <3>1. returned \in Seq(Pages) /\ combined \in Seq(Pages)
      BY DEF CrawlSound, CrawlInv, CrawlTypes, BatchTypes
    <3>2. combined \o returned \in Seq(Pages)
      BY <3>1
    <3> QED BY <1>6, <3>1, <3>2 DEF SourceEnds
  <2>5. /\ todo' = Tail(todo) /\ caller' = "idle" /\ UNCHANGED <<batch, phase, batchDeadline>>
        /\ phase \in {"sources", "roster"}
    BY <1>6 DEF SourceEnds
  <2>6. BatchTypes'
    BY <1>0, <2>3, <2>4, <2>5 DEF CrawlSound, BatchTypes
  <2> QED BY <2>1, <2>6 DEF CrawlSound
<1>7. CASE ListRoster
  <2>1. CrawlInv' /\ caller' = caller
    BY <1>7, CrawlStands DEF ListRoster, CrawlSound, crawlVars, callerVars
  <2>2. caller = "idle"
    BY <1>7 DEF ListRoster, CrawlSound, BatchTypes
  <2>3. todo' \in Seq(All)
    <3>1. Uncovered \in Seq(ToSet(batch.roster))
      BY SourcesAreTyped DEF CrawlSound, BatchTypes
    <3>2. Uncovered \in Seq(All)
      BY <3>1, SeqWidens
    <3>3. <<>> \in Seq(All)
      OBVIOUS
    <3> QED BY <1>7, <3>2, <3>3 DEF ListRoster
  <2>4. /\ phase' \in {"done", "roster"}
        /\ UNCHANGED <<batch, reports, combined, stamped, batchDeadline>>
    BY <1>7 DEF ListRoster
  <2>5. BatchTypes'
    BY <1>0, <2>1, <2>2, <2>3, <2>4 DEF CrawlSound, BatchTypes
  <2> QED BY <2>1, <2>5 DEF CrawlSound
<1>8. CASE RosterEnds
  <2>1. CrawlInv' /\ caller' = caller
    BY <1>8, CrawlStands DEF RosterEnds, CrawlSound, crawlVars, callerVars
  <2>2. BatchTypes'
    BY <1>0, <1>8, <2>1 DEF RosterEnds, CrawlSound, BatchTypes
  <2> QED BY <2>1, <2>2 DEF CrawlSound
<1> QED BY <1>1, <1>2, <1>3, <1>4, <1>5, <1>6, <1>7, <1>8 DEF BatchNext, Batch

LEMMA SoundStands == ASSUME CrawlSound, UNCHANGED batchAllVars PROVE CrawlSound'
<1>1. CrawlInv' /\ UNCHANGED <<caller, clock>>
  BY CrawlStands DEF CrawlSound, batchAllVars, crawlVars, callerVars
<1>2. UNCHANGED <<batch, phase, todo, reports, combined, stamped, batchDeadline, Enabled>>
  BY ListsStand DEF batchAllVars, batchVars
<1>3. BatchTypes'
  BY <1>1, <1>2 DEF CrawlSound, BatchTypes
<1> QED BY <1>1, <1>3 DEF CrawlSound

LEMMA BatchIsSound == BatchSpec => []CrawlSound
BY SoundStart, SoundKept, SoundStands, PTL DEF BatchSpec

(* What a crawl reports to its caller is what its child left: all of its   *)
(* items and its last counts, and no deadline that it did not miss         *)
(* (crawl_items and _kill_child in crawl_posts.py).                        *)
THEOREM CrawlsAnswerTruly == BatchSpec => []AnswerIsTrue
BY BatchIsSound, PTL DEF CrawlSound, CrawlInv

-----------------------------------------------------------------------------
(* The reports: one for each source that was crawled, in the order of the  *)
(* list, with the items that came of it.                                   *)

LEMMA ReportedNothing == Reported(<<>>) = 0
<1>1. [count |-> Nil] \in {[count |-> Nil]} /\ <<>> \in Seq({[count |-> Nil]})
  OBVIOUS
<1> QED BY <1>1, ReportedAppends

LEMMA ReportsStand ==
  ASSUME ReportsAreTrue, UNCHANGED <<batch, phase, todo, reports, combined, stamped>>
  PROVE  ReportsAreTrue'
<1>1. UNCHANGED <<Enabled, ToSet(batch.sources), ToSet(batch.roster)>>
  BY ListsStand
<1>2. Reported(reports') = Reported(reports)
  OBVIOUS
<1> QED BY <1>1, <1>2 DEF ReportsAreTrue

LEMMA ReportsStart == ASSUME BatchInit PROVE ReportsAreTrue
<1>1. <<>> \in Seq([name: {s.name : s \in ToSet(batch.sources) \cup ToSet(batch.roster)},
                    count: Nat \cup {Nil}])
  OBVIOUS
<1> QED BY <1>1, ReportedNothing DEF BatchInit, ReportsAreTrue

LEMMA ReportsTrueAtEnds ==
  ASSUME CrawlSound, ReportsAreTrue, SourceEnds PROVE ReportsAreTrue'
<1> DEFINE All == ToSet(batch.sources) \cup ToSet(batch.roster)
           S == [name: {s.name : s \in All}, count: Nat \cup {Nil}]
           ok == outcome = "items"
           r == [name |-> Head(todo).name, count |-> IF ok THEN Len(returned) ELSE Nil]
<1>1. /\ phase \in {"sources", "roster"} /\ todo' = Tail(todo) /\ UNCHANGED <<batch, phase>>
      /\ reports' = Append(reports, r)
      /\ combined' = IF ok THEN combined \o returned ELSE combined
      /\ stamped' \in IF ok /\ phase = "roster" THEN {stamped, stamped \cup {Head(todo).name}}
                      ELSE {stamped}
  BY DEF SourceEnds
<1>2. /\ todo # <<>> /\ todo \in Seq(All) /\ reports \in Seq(S) /\ Nil \notin Nat
      /\ returned \in Seq(Pages) /\ combined \in Seq(Pages)
  BY CrawlAssumption DEF SourceEnds, CrawlSound, CrawlInv, CrawlTypes, BatchTypes, ReportsAreTrue
<1>3. UNCHANGED <<Enabled, ToSet(batch.sources), ToSet(batch.roster)>> /\ Len(Enabled) \in Nat
  <2>1. Enabled \in Seq(ToSet(batch.sources))
    BY SourcesAreTyped DEF CrawlSound, BatchTypes
  <2> QED BY <1>1, <2>1, ListsStand
<1>4. Head(todo) = todo[1] /\ 1 \in DOMAIN todo /\ Len(todo) > 0 /\ Head(todo) \in All
  <2> HIDE DEF All
  <2> QED BY <1>2
<1>5. r \in S
  <2>1. Len(returned) \in Nat
    BY <1>2
  <2> QED BY <1>4, <2>1
<1>6. /\ reports' \in Seq(S) /\ Len(reports') = Len(reports) + 1 /\ Len(reports) \in Nat
      /\ reports'[Len(reports) + 1] = r /\ \A i \in 1..Len(reports) : reports'[i] = reports[i]
  <2> HIDE DEF S, r
  <2> QED BY <1>1, <1>2, <1>5
<1>7. Enabled # <<>> => Len(combined') = Reported(reports')
  <2>1. Reported(reports') = Reported(reports) + (IF r.count = Nil THEN 0 ELSE r.count)
    <3>1. Reported(reports') = Reported(Append(reports, r))
      BY <1>1 DEF Reported
    <3>2. Reported(Append(reports, r)) = Reported(reports) + (IF r.count = Nil THEN 0 ELSE r.count)
      <4> HIDE DEF S, r
      <4> QED BY <1>2, <1>5, ReportedAppends
    <3> QED BY <3>1, <3>2
  <2>2. Len(combined') = Len(combined) + (IF ok THEN Len(returned) ELSE 0)
    BY <1>1, <1>2
  <2>3. r.count = (IF ok THEN Len(returned) ELSE Nil) /\ Len(returned) \in Nat
    BY <1>2
  <2>4. (IF r.count = Nil THEN 0 ELSE r.count) = IF ok THEN Len(returned) ELSE 0
    BY <1>2, <2>3
  <2> HIDE DEF ok, r
  <2> QED BY <2>1, <2>2, <2>4 DEF ReportsAreTrue
<1>8. ASSUME phase = "sources"
      PROVE  /\ stamped' = {} /\ Len(reports') + Len(todo') = Len(Enabled)
             /\ \A i \in 1..Len(todo') : todo'[i] = Enabled[Len(reports') + i]
             /\ \A i \in 1..Len(reports') : reports'[i].name = Enabled[i].name
  <2>1. /\ stamped = {} /\ Len(reports) + Len(todo) = Len(Enabled)
        /\ \A i \in 1..Len(todo) : todo[i] = Enabled[Len(reports) + i]
        /\ \A i \in 1..Len(reports) : reports[i].name = Enabled[i].name
    BY <1>8 DEF ReportsAreTrue
  <2>2. stamped' = {}
    BY <1>1, <1>8, <2>1
  <2>3. Len(todo') = Len(todo) - 1 /\ \A i \in 1..Len(todo') : todo'[i] = todo[i + 1]
    <3> HIDE DEF All
    <3> QED BY <1>1, <1>2
  <2>4. Len(todo) \in Nat
    <3> HIDE DEF All
    <3> QED BY <1>2
  <2>5. r.name = Enabled[Len(reports) + 1].name
    BY <1>4, <2>1, <2>4
  <2> HIDE DEF r
  <2>6. Len(reports') + Len(todo') = Len(Enabled)
    <3>1. Len(reports') = Len(reports) + 1 /\ Len(reports) \in Nat
      BY <1>6
    <3> DEFINE a == Len(reports)  b == Len(todo)  c == Len(Enabled)
               d == Len(reports')  e == Len(todo')
    <3>2. a \in Nat /\ b \in Nat /\ d = a + 1 /\ e = b - 1 /\ a + b = c
      BY <2>1, <2>3, <2>4, <3>1
    <3> HIDE DEF a, b, c, d, e
    <3>3. d + e = c
      BY <3>2
    <3> QED BY <3>3 DEF c, d, e
  <2>7. ASSUME NEW i \in 1..Len(todo') PROVE todo'[i] = Enabled[Len(reports') + i]
    <3>1. i \in Nat /\ i + 1 \in 1..Len(todo)
      BY <2>3, <2>4
    <3>2. todo[i + 1] = Enabled[Len(reports) + (i + 1)]
      BY <2>1, <3>1
    <3>3. Len(reports) + (i + 1) = Len(reports') + i
      BY <1>6, <3>1
    <3> QED BY <2>3, <3>2, <3>3
  <2>8. ASSUME NEW i \in 1..Len(reports') PROVE reports'[i].name = Enabled[i].name
    <3>1. i \in 1..Len(reports) \/ i = Len(reports) + 1
      BY <1>6
    <3> QED BY <1>6, <2>1, <2>5, <3>1
  <2> QED BY <2>2, <2>6, <2>7, <2>8
<1>9. ASSUME phase = "roster"
      PROVE  /\ Len(Enabled) <= Len(reports')
             /\ \A i \in 1..Len(Enabled) : reports'[i].name = Enabled[i].name
             /\ \A d \in stamped' : \E i \in 1..Len(reports') :
                   i > Len(Enabled) /\ reports'[i].name = d /\ reports'[i].count # Nil
  <2>1. /\ Len(Enabled) <= Len(reports)
        /\ \A i \in 1..Len(Enabled) : reports[i].name = Enabled[i].name
        /\ \A d \in stamped : \E i \in 1..Len(reports) :
              i > Len(Enabled) /\ reports[i].name = d /\ reports[i].count # Nil
    BY <1>9 DEF ReportsAreTrue
  <2>2. \A i \in 1..Len(reports) : i \in 1..Len(reports')
    BY <1>6
  <2>3. \A i \in 1..Len(Enabled) : reports'[i].name = Enabled[i].name
    <3>1. \A i \in 1..Len(Enabled) : i \in 1..Len(reports)
      BY <1>3, <1>6, <2>1
    <3> QED BY <1>6, <2>1, <3>1
  <2>4. ok => r.count # Nil
    BY <1>2
  <2>5. r.name = Head(todo).name
    OBVIOUS
  <2> HIDE DEF r
  <2>6. ASSUME NEW d \in stamped'
        PROVE  \E i \in 1..Len(reports') : i > Len(Enabled) /\ reports'[i].name = d /\ reports'[i].count # Nil
    <3>1. CASE d \in stamped
      BY <1>6, <2>1, <2>2, <3>1
    <3>2. CASE d \notin stamped
      <4>1. ok /\ d = r.name
        BY <1>1, <2>5, <3>2
      <4>2. Len(reports) + 1 \in 1..Len(reports') /\ Len(reports) + 1 > Len(Enabled)
        BY <1>3, <1>6, <2>1
      <4> QED BY <1>6, <2>4, <4>1, <4>2
    <3> QED BY <3>1, <3>2
  <2>7. Len(Enabled) <= Len(reports')
    BY <1>3, <1>6, <2>1
  <2> QED BY <2>3, <2>6, <2>7
<1> HIDE DEF r, ok
<1> QED BY <1>1, <1>3, <1>6, <1>7, <1>8, <1>9 DEF ReportsAreTrue

LEMMA ReportsKept == ASSUME CrawlSound, ReportsAreTrue, BatchNext PROVE ReportsAreTrue'
<1>1. CASE (Child \/ Caller \/ TimeStep) /\ UNCHANGED batchVars
  BY <1>1, ReportsStand DEF batchVars
<1>0. batch' = batch => UNCHANGED <<Enabled, ToSet(batch.sources), ToSet(batch.roster)>>
  BY ListsStand
<1>a. reports' = reports => Reported(reports') = Reported(reports)
  OBVIOUS
<1>2. CASE Fallback
  BY <1>0, <1>2, <1>a DEF Fallback, ReportsAreTrue
<1>3. CASE FallbackEnds
  <2>1. Enabled = <<>>
    BY <1>3 DEF FallbackEnds, CrawlSound, BatchTypes
  <2> QED BY <1>0, <1>3, <1>a, <2>1 DEF FallbackEnds, ReportsAreTrue
<1>4. CASE StartBatch
  <2>1. /\ reports = <<>> /\ combined = <<>> /\ stamped = {} /\ todo' = Enabled /\ phase' = "sources"
        /\ UNCHANGED <<batch, reports, combined, stamped>>
    BY <1>4 DEF StartBatch, CrawlSound, BatchTypes
  <2>2. Enabled \in Seq(ToSet(batch.sources))
    BY SourcesAreTyped DEF CrawlSound, BatchTypes
  <2>3. Len(reports) = 0 /\ Len(combined) = 0 /\ Len(Enabled) \in Nat
    BY <2>1, <2>2
  <2>4. /\ Len(reports') + Len(todo') = Len(Enabled)
        /\ \A i \in 1..Len(todo') : todo'[i] = Enabled[Len(reports') + i]
        /\ \A i \in 1..Len(reports') : reports'[i].name = Enabled[i].name
    BY <2>1, <2>3
  <2> QED BY <1>0, <2>1, <2>3, <2>4, ReportedNothing DEF ReportsAreTrue
<1>5. CASE CrawlSource
  BY <1>5, ReportsStand DEF CrawlSource, batchVars
<1>6. CASE SourceEnds
  BY <1>6, ReportsTrueAtEnds
<1>7. CASE ListRoster
  <2>1. /\ phase' \in {"done", "roster"} /\ UNCHANGED <<batch, reports, combined, stamped>>
        /\ phase = "listing" \/ (phase = "sources" /\ todo = <<>>)
    BY <1>7 DEF ListRoster
  <2>2. Len(Enabled) <= Len(reports) /\ stamped = {}
        /\ \A i \in 1..Len(Enabled) : reports[i].name = Enabled[i].name
    <3>1. CASE phase = "listing"
      <4>1. Len(Enabled) = 0 /\ stamped = {} /\ reports = <<>>
        BY <3>1 DEF CrawlSound, BatchTypes
      <4> QED BY <4>1
    <3>2. CASE phase = "sources" /\ todo = <<>>
      <4>1. /\ stamped = {} /\ Len(reports) + Len(todo) = Len(Enabled) /\ Len(todo) = 0
            /\ \A i \in 1..Len(reports) : reports[i].name = Enabled[i].name
            /\ Len(reports) \in Nat
        BY <3>2 DEF ReportsAreTrue
      <4>2. Len(Enabled) = Len(reports)
        BY <4>1
      <4> QED BY <4>1, <4>2
    <3> QED BY <2>1, <3>1, <3>2
  <2> QED BY <1>0, <1>a, <2>1, <2>2 DEF ReportsAreTrue
<1>8. CASE RosterEnds
  BY <1>0, <1>8, <1>a DEF RosterEnds, ReportsAreTrue
<1> QED BY <1>1, <1>2, <1>3, <1>4, <1>5, <1>6, <1>7, <1>8 DEF BatchNext, Batch

Told == CrawlSound /\ ReportsAreTrue

LEMMA BatchIsTold == BatchSpec => []Told
<1>1. BatchInit => Told
  BY SoundStart, ReportsStart DEF Told
<1>2. Told /\ BatchNext => Told'
  BY SoundKept, ReportsKept DEF Told
<1>3. Told /\ UNCHANGED batchAllVars => Told'
  BY SoundStands, ReportsStand DEF Told, batchAllVars, batchVars
<1> QED BY <1>1, <1>2, <1>3, PTL DEF BatchSpec

(* One bad source never aborts the others: at the end every enabled source *)
(* was reported, in order, every stamped site of the roster was crawled,   *)
(* and the items are those of the sources that succeeded                   *)
(* (crawl_all_sources in pipeline.py).                                     *)
THEOREM NoSourceIsLost == BatchSpec => []EverySourceReported
<1>1. Told => EverySourceReported
  BY DEF Told, ReportsAreTrue, EverySourceReported
<1> QED BY <1>1, BatchIsTold, PTL

-----------------------------------------------------------------------------
(* The clock of a batch: each of its crawls is granted what is left of the *)
(* budget, or MinRuntime, and overruns by the graces only.                 *)

LEMMA Multiples ==
  ASSUME NEW m \in Nat, NEW n \in Nat, NEW g \in Nat
  PROVE  m * g \in Nat /\ (m + 1) * g = m * g + g /\ (m <= n => m * g <= n * g)
<1>1. m * g \in Nat /\ (m + 1) * g = m * g + g
  OBVIOUS
<1>2. ASSUME m <= n PROVE m * g <= n * g
  <2>1. PICK d \in Nat : n = m + d
    <3>1. n - m \in Nat /\ n = m + (n - m)
      BY <1>2
    <3> QED BY <3>1
  <2>2. n * g = m * g + d * g /\ d * g \in Nat
    BY <2>1
  <2> QED BY <1>1, <2>2
<1> QED BY <1>1, <1>2

Numbers ==
  /\ MinRuntime \in Nat /\ PollSec \in Nat /\ KillSec \in Nat /\ Grant \in Nat
  /\ clock \in Nat /\ deadline \in Nat /\ batchDeadline \in Nat
  /\ Len(reports) \in Nat /\ Len(todo) \in Nat
  /\ Len(batch.sources) \in Nat /\ Len(batch.roster) \in Nat

LEMMA NumbersAre == ASSUME Told PROVE Numbers
<1>1. MinRuntime \in Nat /\ PollSec \in Nat /\ KillSec \in Nat
  BY BatchAssumption, CrawlAssumption
<1>2. Grant \in Nat
  BY <1>1 DEF Grant
<1>3. clock \in Nat /\ deadline \in Nat /\ batchDeadline \in Nat
  BY DEF Told, CrawlSound, CrawlInv, CrawlTypes, BatchTypes
<1>4. Len(reports) \in Nat
  BY DEF Told, ReportsAreTrue
<1>5. Len(todo) \in Nat
  BY DEF Told, CrawlSound, BatchTypes
<1>6. Len(batch.sources) \in Nat /\ Len(batch.roster) \in Nat
  BY SourcesAreTyped DEF Told, CrawlSound, BatchTypes
<1> QED BY <1>1, <1>2, <1>3, <1>4, <1>5, <1>6 DEF Numbers

LEMMA TimedAsCrawlGoes ==
  ASSUME Told, BatchIsTimed, Child \/ Caller \/ TimeStep, UNCHANGED batchVars
  PROVE  BatchIsTimed'
<1>1. caller # "idle"
  BY CrawlGoesOn DEF Told, CrawlSound, OnGoing
<1>2. caller' # "idle" /\ deadline' = deadline
  <2>1. CASE Child
    BY <1>1, <2>1 DEF Child, SpiderStarts, SpiderRefuses, Download, OnError, Parse, SpiderEnds,
           FlushItems, WriteStatus, ChildExits, ChildDies, ChildCloses, callerVars
  <2>2. CASE Caller
    BY <2>2 DEF Caller, Poll, Wake, DeadlineHit, LastLook, GraceIsOver, Joined, Overran, Terminate,
           Reap, ReadFiles
  <2>3. CASE TimeStep
    BY <1>1, <2>3 DEF TimeStep, callerVars
  <2> QED BY <2>1, <2>2, <2>3
<1>3. UNCHANGED <<batch, phase, todo, reports, batchDeadline, Enabled, Horizon>>
  BY ListsStand DEF batchVars
<1> QED BY <1>1, <1>2, <1>3 DEF BatchIsTimed

LEMMA TimedAsSourceStarts ==
  ASSUME Told, BatchIsTimed, CrawlSource PROVE BatchIsTimed'
<1>1. /\ caller = "idle" /\ caller' # "idle" /\ deadline' = clock + Remaining
      /\ UNCHANGED <<batch, phase, todo, reports, batchDeadline>>
  BY DEF CrawlSource, Spawn, batchVars
<1>2. UNCHANGED <<Enabled, Horizon>>
  BY <1>1, ListsStand
<1>3. Numbers
  BY NumbersAre
<1>4. ASSUME batchDeadline # 0, Enabled # <<>>
      PROVE  deadline' <= batchDeadline + Len(reports) * Grant + MinRuntime
  <2>1. batch.budget # Nil /\ clock <= batchDeadline + Len(reports) * Grant
    BY <1>1, <1>4 DEF BatchIsTimed
  <2>2. Len(reports) * Grant \in Nat
    BY <1>3, Multiples DEF Numbers
  <2>3. Remaining = IF batchDeadline - clock > MinRuntime THEN batchDeadline - clock ELSE MinRuntime
    BY <2>1 DEF Remaining
  <2> DEFINE late == Len(reports) * Grant
  <2> HIDE DEF late
  <2>4. clock <= batchDeadline + late /\ late \in Nat
    BY <2>1, <2>2 DEF late
  <2>5. deadline' <= batchDeadline + late + MinRuntime
    BY <1>1, <1>3, <2>3, <2>4 DEF Numbers
  <2> QED BY <2>5 DEF late
<1> QED BY <1>1, <1>2, <1>4 DEF BatchIsTimed

LEMMA TimedAsSourceEnds ==
  ASSUME Told, BatchIsTimed, SourceEnds PROVE BatchIsTimed'
<1>1. /\ phase \in {"sources", "roster"} /\ caller = "done" /\ caller' = "idle"
      /\ todo' = Tail(todo) /\ UNCHANGED <<batch, phase, batchDeadline, clock>>
      /\ \E r : reports' = Append(reports, r)
  BY DEF SourceEnds
<1>2. UNCHANGED <<Enabled, Horizon>>
  BY <1>1, ListsStand
<1>3. Numbers
  BY NumbersAre
<1>4. todo # <<>>
  BY <1>1 DEF Told, CrawlSound, BatchTypes
<1>5. Len(todo') = Len(todo) - 1
  <2>1. \E S : todo \in Seq(S)
    BY DEF Told, CrawlSound, BatchTypes
  <2> QED BY <1>1, <1>4, <2>1
<1>6. Len(reports') = Len(reports) + 1
  <2>1. \E S : reports \in Seq(S)
    BY DEF Told, ReportsAreTrue
  <2> QED BY <1>1, <2>1
<1>7. ASSUME batchDeadline # 0, Enabled # <<>>
      PROVE  clock <= batchDeadline + Len(reports') * Grant
  <2>1. deadline <= batchDeadline + Len(reports) * Grant + MinRuntime
    BY <1>1, <1>7 DEF BatchIsTimed
  <2>2. clock <= deadline + 2 * PollSec + KillSec
    BY <1>1 DEF Told, CrawlSound, CrawlInv, CallerIsTimed
  <2>3. Len(reports) * Grant \in Nat /\ (Len(reports) + 1) * Grant = Len(reports) * Grant + Grant
    BY <1>3, Multiples DEF Numbers
  <2> DEFINE late == Len(reports) * Grant  more == Len(reports') * Grant
  <2>4. late \in Nat /\ more = late + Grant /\ deadline <= batchDeadline + late + MinRuntime
    BY <1>6, <2>1, <2>3
  <2> HIDE DEF late, more
  <2>5. clock <= batchDeadline + more
    BY <1>3, <2>2, <2>4 DEF Numbers, Grant
  <2> QED BY <2>5 DEF more
<1>8. Len(reports') + Len(todo') = Len(reports) + Len(todo)
  BY <1>3, <1>5, <1>6 DEF Numbers
<1> QED BY <1>1, <1>2, <1>7, <1>8 DEF BatchIsTimed

LEMMA TimedKept == ASSUME Told, BatchIsTimed, BatchNext PROVE BatchIsTimed'
<1>1. CASE (Child \/ Caller \/ TimeStep) /\ UNCHANGED batchVars
  BY <1>1, TimedAsCrawlGoes
<1>0. batch' = batch => UNCHANGED <<Enabled, Horizon>>
  BY ListsStand
<1>n. Numbers
  BY NumbersAre
<1>2. CASE Fallback \/ FallbackEnds
  <2>1. Enabled = <<>> /\ batch' = batch
    BY <1>2 DEF Fallback, FallbackEnds, Told, CrawlSound, BatchTypes
  <2> QED BY <1>0, <2>1 DEF BatchIsTimed
<1>3. CASE StartBatch
  <2>1. /\ reports' = <<>> /\ todo' = Enabled /\ phase' = "sources" /\ batch' = batch
        /\ caller' = "idle" /\ clock' = clock /\ batchDeadline' = BatchEnd
    BY <1>3 DEF StartBatch, Told, CrawlSound, BatchTypes, crawlVars, callerVars
  <2>2. Len(reports') = 0 /\ Len(reports') * Grant = 0
    BY <1>n, <2>1 DEF Numbers
  <2>3. batchDeadline' # 0 => batch.budget # Nil /\ clock <= batchDeadline'
    <3>1. batch.budget \in Nat \cup {Nil}
      BY SourcesAreTyped DEF Told, CrawlSound, BatchTypes
    <3> QED BY <1>n, <2>1, <3>1 DEF BatchEnd, Numbers
  <2>4. Len(Enabled) <= Len(batch.sources) /\ Len(Enabled) \in Nat /\ BatchEnd \in Nat
    BY SourcesAreTyped, BatchEndIsTime DEF Told, CrawlSound, BatchTypes
  <2>5. Len(reports') + Len(todo') <= Len(batch.sources)
    BY <2>1, <2>2, <2>4
  <2>6. batchDeadline' # 0 => clock' <= batchDeadline' + Len(reports') * Grant
    BY <1>n, <2>1, <2>2, <2>3, <2>4 DEF Numbers
  <2> QED BY <1>0, <2>1, <2>3, <2>5, <2>6 DEF BatchIsTimed
<1>4. CASE CrawlSource
  BY <1>4, TimedAsSourceStarts
<1>5. CASE SourceEnds
  BY <1>5, TimedAsSourceEnds
<1>6. CASE ListRoster
  <2>1. /\ UNCHANGED <<batch, reports, batchDeadline, caller, clock>> /\ caller = "idle"
        /\ phase' \in {"done", "roster"} /\ todo' \in {<<>>, Uncovered}
        /\ phase = "listing" \/ (phase = "sources" /\ todo = <<>>)
    BY <1>6 DEF ListRoster, Told, CrawlSound, BatchTypes, crawlVars, callerVars
  <2>2. CASE phase = "listing"
    <3>1. Enabled = <<>>
      BY <2>2 DEF Told, CrawlSound, BatchTypes
    <3> QED BY <1>0, <2>1, <3>1 DEF BatchIsTimed
  <2>3. CASE phase = "sources" /\ todo = <<>>
    <3>1. Len(todo') <= Len(batch.roster) /\ Len(todo') \in Nat
      <4>1. Len(Uncovered) <= Len(batch.roster) /\ Len(Uncovered) \in Nat
        BY SourcesAreTyped DEF Told, CrawlSound, BatchTypes
      <4>2. Len(<<>>) = 0
        OBVIOUS
      <4> QED BY <1>n, <2>1, <4>1, <4>2 DEF Numbers
    <3>2. ASSUME batchDeadline # 0, Enabled # <<>> PROVE Len(reports) + Len(todo') <= Horizon
      <4>1. Len(reports) + Len(todo) <= Len(batch.sources) /\ Len(todo) = 0
        BY <2>3, <3>2 DEF BatchIsTimed
      <4> DEFINE a == Len(reports)  b == Len(todo)  c == Len(todo')
                 m == Len(batch.sources)  n == Len(batch.roster)
      <4>2. /\ a \in Nat /\ c \in Nat /\ m \in Nat /\ n \in Nat /\ b = 0
            /\ a + b <= m /\ c <= n /\ Horizon = m + n
        BY <1>n, <3>1, <4>1 DEF Numbers, Horizon
      <4> HIDE DEF a, b, c, m, n
      <4>3. a + c <= Horizon
        BY <4>2
      <4> QED BY <4>3 DEF a, c
    <3> QED BY <1>0, <2>1, <3>2 DEF BatchIsTimed
  <2> QED BY <2>1, <2>2, <2>3
<1>7. CASE RosterEnds
  <2>1. /\ UNCHANGED <<batch, reports, batchDeadline, caller, clock, todo, deadline>>
        /\ phase = "roster" /\ phase' = "done"
    BY <1>7 DEF RosterEnds, crawlVars, callerVars
  <2> QED BY <1>0, <2>1 DEF BatchIsTimed
<1> QED BY <1>1, <1>2, <1>3, <1>4, <1>5, <1>6, <1>7 DEF BatchNext, Batch

LEMMA TimeIsKept == ASSUME Told, BatchIsTimed PROVE CrawlsEndInTime
<1> DEFINE grace == 2 * PollSec + KillSec
<1>1. NothingLeftBehind
  BY DEF Told, CrawlSound, CrawlInv
<1>2. Numbers
  BY NumbersAre
<1>3. caller # "idle" => clock <= deadline + grace
  BY <1>2 DEF Told, CrawlSound, CrawlInv, CrawlTypes, CallerIsTimed, Numbers
<1>4. ASSUME batchDeadline # 0, Enabled # <<>>
      PROVE  clock <= batchDeadline + Horizon * (MinRuntime + grace)
  <2>1. phase \in {"sources", "roster", "done"}
    BY <1>4 DEF Told, CrawlSound, BatchTypes
  <2>2. Len(reports) + Len(todo) <= Horizon /\ Horizon \in Nat
    <3> DEFINE a == Len(reports)  b == Len(todo)
               m == Len(batch.sources)  n == Len(batch.roster)
    <3>1. /\ a \in Nat /\ b \in Nat /\ m \in Nat /\ n \in Nat /\ Horizon = m + n
          /\ a + b <= m \/ a + b <= Horizon
      BY <1>2, <1>4, <2>1 DEF BatchIsTimed, Horizon, Numbers
    <3> HIDE DEF a, b, m, n
    <3>2. a + b <= Horizon /\ Horizon \in Nat
      BY <3>1
    <3> QED BY <3>2 DEF a, b
  <2>3. Grant = MinRuntime + grace
    BY <1>2 DEF Grant, Numbers
  <2>4. clock <= batchDeadline + Horizon * Grant
    <3>1. CASE caller = "idle"
      <4>1. clock <= batchDeadline + Len(reports) * Grant
        BY <1>4, <3>1 DEF BatchIsTimed
      <4>2. Len(reports) <= Horizon
        BY <1>2, <2>2 DEF Numbers
      <4>3. /\ Len(reports) * Grant <= Horizon * Grant
            /\ Len(reports) * Grant \in Nat /\ Horizon * Grant \in Nat
        BY <1>2, <2>2, <4>2, Multiples DEF Numbers
      <4> QED BY <1>2, <4>1, <4>3 DEF Numbers
    <3>2. CASE caller # "idle"
      <4>1. deadline <= batchDeadline + Len(reports) * Grant + MinRuntime
        BY <1>4, <3>2 DEF BatchIsTimed
      <4>2. todo # <<>>
        BY <1>1, <2>1, <3>2 DEF Told, CrawlSound, BatchTypes
      <4>3. Len(todo) # 0
        BY <4>2 DEF Told, CrawlSound, BatchTypes
      <4>4. Len(reports) + 1 <= Horizon
        BY <1>2, <2>2, <4>3 DEF Numbers
      <4>5. /\ (Len(reports) + 1) * Grant <= Horizon * Grant
            /\ (Len(reports) + 1) * Grant = Len(reports) * Grant + Grant
            /\ Len(reports) * Grant \in Nat /\ Horizon * Grant \in Nat
        <5>1. Len(reports) + 1 \in Nat
          BY <1>2 DEF Numbers
        <5> QED BY <1>2, <2>2, <4>4, <5>1, Multiples DEF Numbers
      <4> DEFINE late == Len(reports) * Grant  most == Horizon * Grant
      <4>6. /\ late \in Nat /\ most \in Nat /\ late + Grant <= most
            /\ deadline <= batchDeadline + late + MinRuntime
        BY <4>1, <4>5
      <4> HIDE DEF late, most
      <4>7. clock <= batchDeadline + most
        BY <1>2, <1>3, <3>2, <4>6 DEF Numbers, Grant
      <4> QED BY <4>7 DEF most
    <3> QED BY <3>1, <3>2
  <2> QED BY <2>3, <2>4
<1> QED BY <1>1, <1>3, <1>4 DEF CrawlsEndInTime, ReturnsInTime

(* A crawl ends within its time and the graces, and the batch within its   *)
(* own and theirs, whatever the children do; neither a child nor a         *)
(* directory is left behind (_kill_child and crawl_all_sources).           *)
THEOREM CrawlsNeverHang == BatchSpec => []CrawlsEndInTime
<1> DEFINE I == Told /\ BatchIsTimed
<1>1. BatchInit => I
  BY SoundStart, ReportsStart DEF Told, BatchInit, BatchIsTimed
<1>2. I /\ BatchNext => I'
  BY SoundKept, ReportsKept, TimedKept DEF Told
<1>3. I /\ UNCHANGED batchAllVars => I'
  <2> SUFFICES ASSUME I, UNCHANGED batchAllVars PROVE I'
    OBVIOUS
  <2>1. UNCHANGED <<batch, phase, todo, reports, batchDeadline, caller, clock, deadline, Enabled,
                    Horizon>>
    BY ListsStand DEF batchAllVars, batchVars, crawlVars, callerVars
  <2>2. BatchIsTimed'
    BY <2>1 DEF BatchIsTimed
  <2> QED BY <2>2, SoundStands, ReportsStand DEF Told, batchAllVars, batchVars
<1>4. I => CrawlsEndInTime
  BY TimeIsKept
<1> QED BY <1>1, <1>2, <1>3, <1>4, PTL DEF BatchSpec

-----------------------------------------------------------------------------
(* The spider: requests move from the queue into flight, and a page that   *)
(* was fetched is written at most once.                                    *)

(* The pages that were answered, or given up: those that no longer wait.   *)
Answered == {p \in seen : \A r \in queue \cup inflight : r.page # p}

LEMMA ApartMoves ==
  ASSUME NEW w, NEW f, NEW k, NEW s, Apart(w, f, k, s), NEW r \in w
  PROVE  Apart(w \ {r}, f \cup {r}, k, s) /\ r \notin f
BY DEF Apart

LEMMA ApartDrops ==
  ASSUME NEW w, NEW f, NEW k, NEW s, Apart(w, f, k, s), NEW r \in f
  PROVE  Apart(w, f \ {r}, k, s)
BY DEF Apart

LEMMA ApartWrites ==
  ASSUME NEW w, NEW f, NEW k, NEW s, Apart(w, f, k, s), NEW r \in f
  PROVE  Apart(w, f \ {r}, k, Append(s, r.page))
<1> DEFINE p == r.page
           t == Append(s, p)
<1>1. /\ p \in k /\ p \notin ToSet(s) /\ s \in Seq(k)
      /\ \A q \in (w \cup f) : q.page = p => q = r
      /\ w \cap f = {}
  BY DEF Apart
<1>2. /\ t \in Seq(k) /\ Len(s) \in Nat /\ DOMAIN s = 1..Len(s) /\ DOMAIN t = 1..(Len(s) + 1)
      /\ t[Len(s) + 1] = p /\ \A i \in 1..Len(s) : t[i] = s[i]
  <2> HIDE DEF p
  <2> QED BY <1>1
<1> HIDE DEF t, p
<1>3. \A i \in DOMAIN t : i \in DOMAIN s \/ i = Len(s) + 1
  BY <1>2
<1>4. \A i \in DOMAIN s : t[i] = s[i] /\ s[i] # p /\ i # Len(s) + 1
  BY <1>1, <1>2 DEF ToSet
<1>5. ToSet(t) \subseteq ToSet(s) \cup {p}
  BY <1>2, <1>3, <1>4 DEF ToSet
<1>6. \A i, j \in DOMAIN t : t[i] = t[j] => i = j
  <2>1. \A i, j \in DOMAIN s : s[i] = s[j] => i = j
    BY DEF Apart
  <2> QED BY <1>2, <1>3, <1>4, <2>1
<1>7. \A q \in w \cup (f \ {r}) : q.page # p
  BY <1>1
<1>8. Apart(w, f \ {r}, k, t)
  BY <1>2, <1>5, <1>6, <1>7 DEF Apart
<1> QED BY <1>8 DEF t, p

AtDepth(ps, d) == {[page |-> p, depth |-> d] : p \in ps}

LEMMA ApartGrows ==
  ASSUME NEW w, NEW f, NEW k, NEW s, Apart(w, f, k, s), NEW d, NEW new,
         \A p \in new : /\ p \notin k /\ d <= opts.depth
                        /\ p \in StartUrls \/ (~site[p].foreign /\ ~site[p].denied)
  PROVE  Apart(w \cup AtDepth(new, d), f, k \cup new, s)
<1> DEFINE more == AtDepth(new, d)
<1>1. \A q \in more : q.page \in new /\ q.depth = d /\ q = [page |-> q.page, depth |-> d]
  BY DEF AtDepth
<1>2. \A p \in new : p \notin k /\ d <= opts.depth
  OBVIOUS
<1>3. s \in Seq(k) /\ ToSet(s) \subseteq k /\ s \in Seq(k \cup new)
  <2>1. s \in Seq(k)
    BY DEF Apart
  <2>2. s \in Seq(k \cup new)
    BY <2>1, SeqWidens
  <2>3. ToSet(s) \subseteq k
    BY <2>1 DEF ToSet
  <2> QED BY <2>1, <2>2, <2>3
<1>4. \A p \in (k \cup new) \ StartUrls : ~site[p].foreign /\ ~site[p].denied
  BY DEF Apart
<1> HIDE DEF more
<1>5. \A r \in (w \cup more) \cup f : r.page \in k \cup new /\ r.page \notin ToSet(s)
                                      /\ r.depth <= opts.depth
  BY <1>1, <1>2, <1>3 DEF Apart
<1>6. \A r, q \in (w \cup more) \cup f : r.page = q.page => r = q
  BY <1>1, <1>2 DEF Apart
<1>7. (w \cup more) \cap f = {}
  BY <1>1, <1>2 DEF Apart
<1>8. \A i, j \in DOMAIN s : s[i] = s[j] => i = j
  BY DEF Apart
<1>9. Apart(w \cup more, f, k \cup new, s)
  BY <1>3, <1>4, <1>5, <1>6, <1>7, <1>8 DEF Apart
<1> QED BY <1>9 DEF more

LEMMA OneFewer ==
  ASSUME NEW f, IsFiniteSet(f), NEW r \in f
  PROVE  /\ IsFiniteSet(f \ {r}) /\ Cardinality(f) \in Nat
         /\ Cardinality(f \ {r}) = Cardinality(f) - 1 /\ Cardinality(f \ {r}) \in Nat
BY FS_RemoveElement, FS_CardinalityType

(* Items that are all different are as many as the sequence is long.       *)
LEMMA AllDifferent ==
  ASSUME NEW S, NEW s \in Seq(S), \A i, j \in DOMAIN s : s[i] = s[j] => i = j
  PROVE  Cardinality(ToSet(s)) = Len(s)
<1>1. Len(s) \in Nat /\ DOMAIN s = 1..Len(s) /\ s \in [1..Len(s) -> ToSet(s)]
  BY DEF ToSet
<1>2. s \in Injection(1..Len(s), ToSet(s))
  BY <1>1 DEF Injection, IsInjective
<1>3. s \in Surjection(1..Len(s), ToSet(s))
  BY <1>1 DEF Surjection, ToSet
<1>4. ExistsBijection(1..Len(s), ToSet(s))
  BY <1>2, <1>3 DEF ExistsBijection, Bijection
<1> QED BY <1>1, <1>4, FS_CountingElements

(* Numbers of a spider, for the arithmetic.                                *)
Limits ==
  /\ Concurrency \in Nat /\ opts.limit \in Nat /\ opts.max_pages \in Nat \ {0}
  /\ counts.responses \in Nat /\ counts.items \in Nat /\ Len(written) \in Nat
  /\ IsFiniteSet(inflight) /\ Cardinality(inflight) \in Nat

LEMMA LimitsAre == ASSUME CrawlInv, SpiderIsBounded PROVE Limits
<1>1. Concurrency \in Nat /\ opts.limit \in Nat /\ opts.max_pages \in Nat \ {0}
  BY CrawlAssumption DEF SpiderIsBounded
<1>2. counts.responses \in Nat /\ counts.items \in Nat /\ Len(written) \in Nat
  <2>1. counts \in Tally /\ written \in Seq(Pages)
    BY DEF CrawlInv, CrawlTypes
  <2>2. counts.responses \in Nat /\ counts.items \in Nat
    BY <2>1 DEF Tally
  <2> QED BY <2>1, <2>2
<1>3. IsFiniteSet(inflight) /\ Cardinality(inflight) \in Nat
  BY FS_CardinalityType DEF SpiderIsBounded
<1> QED BY <1>1, <1>2, <1>3 DEF Limits

(* The limits hold as a page is parsed: its request is no longer in flight,*)
(* it counts as a response, and it is an item only below the limit.        *)
LEMMA BoundedAtParse ==
  ASSUME CrawlInv, SpiderIsBounded, Parse PROVE SpiderIsBounded'
<1>1. PICK r \in inflight : \E emit \in BOOLEAN :
        /\ emit => counts.items < opts.limit
        /\ inflight' = inflight \ {r}
        /\ written' = IF emit THEN Append(written, r.page) ELSE written
        /\ counts' = [counts EXCEPT !.responses = @ + 1, !.items = @ + IF emit THEN 1 ELSE 0]
        /\ closing' <=> (closing \/ counts'.responses >= opts.max_pages)
  <2>1. PICK r \in inflight :
          LET p    == r.page
              emit == site[p].html /\ Emits(p)
              s    == [counts EXCEPT !.responses = @ + 1, !.items = @ + IF emit THEN 1 ELSE 0]
          IN  /\ inflight' = inflight \ {r}
              /\ written' = IF emit THEN Append(written, p) ELSE written
              /\ counts' = s
              /\ closing' = (closing \/ s.responses >= opts.max_pages)
    BY DEF Parse
  <2> DEFINE emit == site[r.page].html /\ Emits(r.page)
             told == emit = TRUE
  <2>2. told \in BOOLEAN /\ (told <=> emit)
    OBVIOUS
  <2>3. emit => counts.items < opts.limit
    BY DEF Emits
  <2>4. /\ inflight' = inflight \ {r}
        /\ written' = IF told THEN Append(written, r.page) ELSE written
        /\ counts' = [counts EXCEPT !.responses = @ + 1, !.items = @ + IF told THEN 1 ELSE 0]
        /\ closing' <=> (closing \/ counts'.responses >= opts.max_pages)
    BY <2>1
  <2> HIDE DEF emit, told
  <2> QED BY <2>2, <2>3, <2>4
<1>2. PICK emit \in BOOLEAN :
        /\ emit => counts.items < opts.limit
        /\ inflight' = inflight \ {r}
        /\ written' = IF emit THEN Append(written, r.page) ELSE written
        /\ counts' = [counts EXCEPT !.responses = @ + 1, !.items = @ + IF emit THEN 1 ELSE 0]
        /\ closing' <=> (closing \/ counts'.responses >= opts.max_pages)
  BY <1>1
<1>3. Limits /\ opts' = opts
  BY LimitsAre DEF Parse, inputs
<1>4. counts'.responses = counts.responses + 1 /\ counts'.items = counts.items + IF emit THEN 1 ELSE 0
  BY <1>2 DEF CrawlInv, CrawlTypes, Tally
<1>5. /\ IsFiniteSet(inflight') /\ Cardinality(inflight') = Cardinality(inflight) - 1
      /\ Cardinality(inflight') \in Nat
  BY <1>2, <1>3, OneFewer DEF Limits
<1>6. Len(written') = Len(written) + IF emit THEN 1 ELSE 0
  BY <1>2 DEF CrawlInv, CrawlTypes
<1>7. counts'.items = Len(written') /\ Len(written') <= opts.limit
  BY <1>2, <1>3, <1>4, <1>6 DEF Limits, SpiderIsBounded
<1>8. Cardinality(inflight') <= Concurrency
  BY <1>3, <1>5 DEF Limits, SpiderIsBounded
<1>9. ~closing' => counts'.responses < opts.max_pages
  BY <1>2, <1>3, <1>4 DEF Limits
<1>10. closing' => counts'.responses + Cardinality(inflight') < opts.max_pages + Concurrency
  <2>1. counts'.responses + Cardinality(inflight') = counts.responses + Cardinality(inflight)
    BY <1>3, <1>4, <1>5 DEF Limits
  <2>2. counts.responses + Cardinality(inflight) < opts.max_pages + Concurrency
    BY <1>3 DEF Limits, SpiderIsBounded
  <2> QED BY <2>1, <2>2
<1> QED BY <1>3, <1>5, <1>7, <1>8, <1>9, <1>10 DEF SpiderIsBounded, Limits

LEMMA ApartAtParse ==
  ASSUME Apart(queue, inflight, seen, written), Parse
  PROVE  Apart(queue', inflight', seen', written')
<1>1. PICK r \in inflight :
        LET p    == r.page
            emit == site[p].html /\ Emits(p)
            s    == [counts EXCEPT !.responses = @ + 1, !.items = @ + IF emit THEN 1 ELSE 0]
        IN  /\ inflight' = inflight \ {r}
            /\ written' = IF emit THEN Append(written, p) ELSE written
            /\ IF site[p].html /\ s.items < opts.limit /\ ~closing
               THEN Schedule(Follows(p), r.depth + 1)
               ELSE UNCHANGED <<queue, seen>>
  BY DEF Parse
<1>2. inflight' = inflight \ {r} /\ written' \in {written, Append(written, r.page)}
  BY <1>1
<1>3. Schedule(Follows(r.page), r.depth + 1) \/ UNCHANGED <<queue, seen>>
  BY <1>1
<1>4. Apart(queue, inflight', seen, written')
  <2>1. Apart(queue, inflight \ {r}, seen, written)
    BY ApartDrops
  <2>2. Apart(queue, inflight \ {r}, seen, Append(written, r.page))
    BY ApartWrites
  <2> QED BY <1>2, <2>1, <2>2
<1>5. \A p \in Follows(r.page) : ~site[p].foreign /\ ~site[p].denied
  BY DEF Follows
<1>6. CASE Schedule(Follows(r.page), r.depth + 1)
  <2> DEFINE d == r.depth + 1
             new == {p \in Follows(r.page) : p \notin seen /\ d <= opts.depth}
  <2>1. /\ queue' = queue \cup AtDepth(new, d)
        /\ seen' = seen \cup new
    BY <1>6 DEF Schedule, AtDepth
  <2>2. \A p \in new : /\ p \notin seen /\ d <= opts.depth
                       /\ p \in StartUrls \/ (~site[p].foreign /\ ~site[p].denied)
    BY <1>5
  <2> HIDE DEF new, d
  <2>3. Apart(queue \cup AtDepth(new, d), inflight', seen \cup new, written')
    BY <1>4, <2>2, ApartGrows
  <2> QED BY <2>1, <2>3
<1>7. CASE UNCHANGED <<queue, seen>>
  BY <1>4, <1>7
<1> QED BY <1>3, <1>6, <1>7

(* The page that is parsed is answered now, and none that was before waits.*)
LEMMA AnsweredAtParse ==
  ASSUME Apart(queue, inflight, seen, written), Parse
  PROVE  /\ Answered \subseteq Answered'
         /\ \E p \in Answered' : p \notin Answered
<1>1. PICK r \in inflight :
        /\ inflight' = inflight \ {r}
        /\ Schedule(Follows(r.page), r.depth + 1) \/ UNCHANGED <<queue, seen>>
  BY DEF Parse
<1>2. /\ r.page \in seen /\ r.page \notin Answered
      /\ \A q \in queue \cup (inflight \ {r}) : q.page # r.page
  BY DEF Apart, Answered
<1>3. /\ seen \subseteq seen'
      /\ \A q \in queue' : q \in queue \/ q.page \notin seen
  BY <1>1 DEF Schedule
<1>4. r.page \in Answered' /\ Answered \subseteq Answered'
  BY <1>1, <1>2, <1>3 DEF Answered
<1> QED BY <1>2, <1>4

LEMMA SpiderStands ==
  ASSUME SpiderInv, caller # "idle", UNCHANGED <<site, opts, queue, inflight, seen, closing, written, counts>>
  PROVE  SpiderInv'
<1>1. Apart(queue, inflight, seen, written)'
  BY DEF SpiderInv, Apart, StartUrls
<1>2. SpiderIsBounded'
  BY DEF SpiderInv, SpiderIsBounded
<1> QED BY <1>1, <1>2 DEF SpiderInv

(* Whatever the child does, its requests stay apart, and no page that was  *)
(* answered, or given up, waits again.                                     *)
LEMMA ApartAtChild ==
  ASSUME Apart(queue, inflight, seen, written), Child
  PROVE  Apart(queue, inflight, seen, written)' /\ Answered \subseteq Answered'
<1>1. UNCHANGED <<site, opts>>
  BY DEF Child, SpiderStarts, SpiderRefuses, Download, OnError, Parse, SpiderEnds, FlushItems,
         WriteStatus, ChildExits, ChildDies, ChildCloses, inputs
<1>2. ASSUME Apart(queue', inflight', seen', written') PROVE Apart(queue, inflight, seen, written)'
  BY <1>1, <1>2 DEF Apart, StartUrls
<1>3. CASE SpiderStarts
  <2> DEFINE new == {p \in StartUrls : p \notin seen /\ 0 <= opts.depth}
  <2>1. /\ queue' = queue \cup AtDepth(new, 0) /\ seen' = seen \cup new
        /\ UNCHANGED <<inflight, written>>
    BY <1>3 DEF SpiderStarts, Schedule, AtDepth
  <2>2. \A p \in new : /\ p \notin seen /\ 0 <= opts.depth
                       /\ p \in StartUrls \/ (~site[p].foreign /\ ~site[p].denied)
    OBVIOUS
  <2> HIDE DEF new
  <2>3. Apart(queue \cup AtDepth(new, 0), inflight, seen \cup new, written)
    BY <2>2, ApartGrows
  <2>4. Answered \subseteq Answered'
    BY <2>1, <2>2 DEF Answered, AtDepth
  <2> QED BY <1>2, <2>1, <2>3, <2>4
<1>4. CASE Download
  <2>1. PICK r \in queue : queue' = queue \ {r} /\ inflight' = inflight \cup {r}
    BY <1>4 DEF Download
  <2>2. UNCHANGED <<seen, written>>
    BY <1>4 DEF Download
  <2>3. Apart(queue \ {r}, inflight \cup {r}, seen, written)
    BY ApartMoves
  <2>4. Answered \subseteq Answered'
    BY <2>1, <2>2 DEF Answered
  <2> QED BY <1>2, <2>1, <2>2, <2>3, <2>4
<1>5. CASE OnError
  <2>1. PICK r \in inflight : inflight' = inflight \ {r}
    BY <1>5 DEF OnError
  <2>2. UNCHANGED <<queue, seen, written>>
    BY <1>5 DEF OnError
  <2>3. Apart(queue, inflight \ {r}, seen, written)
    BY ApartDrops
  <2>4. Answered \subseteq Answered'
    BY <2>1, <2>2 DEF Answered
  <2> QED BY <1>2, <2>1, <2>2, <2>3, <2>4
<1>6. CASE Parse
  BY <1>2, <1>6, ApartAtParse, AnsweredAtParse
<1>7. CASE UNCHANGED <<queue, inflight, seen, written>>
  BY <1>2, <1>7 DEF Answered
<1> QED BY <1>3, <1>4, <1>5, <1>6, <1>7 DEF Child, SpiderRefuses, SpiderEnds, FlushItems,
           WriteStatus, ChildExits, ChildDies, ChildCloses, spiderVars

LEMMA SpiderAtChild == ASSUME CrawlInv, SpiderInv, Child PROVE SpiderInv'
<1>1. caller # "idle" /\ UNCHANGED <<opts, caller>>
  <2>1. UNCHANGED <<inputs, callerVars>>
    BY DEF Child, SpiderStarts, SpiderRefuses, Download, OnError, Parse, SpiderEnds, FlushItems,
           WriteStatus, ChildExits, ChildDies, ChildCloses
  <2> QED BY <2>1, CrawlGoesOn DEF OnGoing, inputs, callerVars
<1>2. Apart(queue, inflight, seen, written) /\ SpiderIsBounded /\ Limits
  BY <1>1, LimitsAre DEF SpiderInv
<1>3. ASSUME SpiderIsBounded' PROVE SpiderInv'
  BY <1>2, <1>3, ApartAtChild DEF SpiderInv
<1>4. CASE SpiderStarts
  <2>1. UNCHANGED <<inflight, closing, written, counts>>
    BY <1>4 DEF SpiderStarts
  <2>2. SpiderIsBounded'
    BY <1>1, <1>2, <2>1 DEF SpiderIsBounded
  <2> QED BY <1>3, <2>2
<1>5. CASE SpiderRefuses
  <2>1. /\ UNCHANGED <<queue, inflight, seen, closing, written>>
        /\ counts'.responses = counts.responses /\ counts'.items = counts.items
    BY <1>5 DEF SpiderRefuses, CrawlInv, CrawlTypes, Tally
  <2>2. SpiderIsBounded'
    BY <1>1, <1>2, <2>1 DEF SpiderIsBounded
  <2> QED BY <1>3, <2>2
<1>6. CASE Download
  <2>1. PICK r \in queue : queue' = queue \ {r} /\ inflight' = inflight \cup {r}
    BY <1>6 DEF Download
  <2>2. UNCHANGED <<seen, closing, written, counts>> /\ ~closing /\ Cardinality(inflight) < Concurrency
    BY <1>6 DEF Download
  <2>3. r \notin inflight
    BY <1>2, ApartMoves
  <2>4. IsFiniteSet(inflight') /\ Cardinality(inflight') = Cardinality(inflight) + 1
    BY <1>2, <2>1, <2>3, FS_AddElement DEF Limits
  <2>5. Cardinality(inflight') <= Concurrency
    BY <1>2, <2>2, <2>4 DEF Limits
  <2>6. SpiderIsBounded'
    BY <1>1, <1>2, <2>2, <2>4, <2>5 DEF SpiderIsBounded
  <2> QED BY <1>3, <2>6
<1>7. CASE OnError
  <2>1. PICK r \in inflight : inflight' = inflight \ {r}
    BY <1>7 DEF OnError
  <2>2. /\ UNCHANGED <<queue, seen, closing, written>>
        /\ counts'.responses = counts.responses /\ counts'.items = counts.items
    BY <1>7 DEF OnError, CrawlInv, CrawlTypes, Tally
  <2>4. IsFiniteSet(inflight') /\ Cardinality(inflight') = Cardinality(inflight) - 1
    BY <1>2, <2>1, OneFewer DEF Limits
  <2>5. /\ Cardinality(inflight') <= Concurrency
        /\ closing => counts.responses + Cardinality(inflight') < opts.max_pages + Concurrency
    BY <1>2, <2>4 DEF Limits, SpiderIsBounded
  <2>6. SpiderIsBounded'
    BY <1>1, <1>2, <2>2, <2>4, <2>5 DEF SpiderIsBounded
  <2> QED BY <1>3, <2>6
<1>8. CASE Parse
  BY <1>2, <1>3, <1>8, BoundedAtParse
<1>9. CASE SpiderEnds \/ FlushItems \/ WriteStatus \/ ChildExits \/ ChildDies
  <2>1. UNCHANGED <<queue, inflight, seen, closing, written, counts>>
    BY <1>9 DEF SpiderEnds, FlushItems, WriteStatus, ChildExits, ChildDies, spiderVars
  <2>2. SpiderIsBounded'
    BY <1>1, <1>2, <2>1 DEF SpiderIsBounded
  <2> QED BY <1>3, <2>2
<1>10. CASE ChildCloses
  <2>1. UNCHANGED <<queue, inflight, seen, written, counts>> /\ closing' = TRUE /\ ~closing
    BY <1>10 DEF ChildCloses
  <2>2. counts.responses + Cardinality(inflight) < opts.max_pages + Concurrency
    BY <1>2, <2>1 DEF SpiderIsBounded, Limits
  <2>3. SpiderIsBounded'
    BY <1>1, <1>2, <2>1, <2>2 DEF SpiderIsBounded
  <2> QED BY <1>3, <2>3
<1> QED BY <1>4, <1>5, <1>6, <1>7, <1>8, <1>9, <1>10 DEF Child

(* A crawl may be given any numbers that validate lets into the settings.  *)
ValidLimits(s) ==
  /\ "limit" \in DOMAIN s => s.limit \in Nat
  /\ "max_pages" \in DOMAIN s => s.max_pages \in Nat \ {0}

ValidSettings ==
  \A b \in Batches :
    /\ {"limit", "max_pages"} \subseteq DOMAIN b.base /\ ValidLimits(b.base)
    /\ \A s \in ToSet(b.sources) \cup ToSet(b.roster) : ValidLimits(s.over)

LEMMA SpiderAtSpawn ==
  ASSUME NEW b, Spawn(b), opts'.limit \in Nat, opts'.max_pages \in Nat \ {0}
  PROVE  SpiderInv'
<1>1. queue' = {} /\ inflight' = {} /\ seen' = {} /\ closing' = FALSE /\ written' = <<>>
      /\ counts' = NoCounts
  BY DEF Spawn
<1>2. <<>> \in Seq({}) /\ DOMAIN <<>> = {} /\ Len(<<>>) = 0
  OBVIOUS
<1>3. Apart(queue, inflight, seen, written)'
  BY <1>1, <1>2 DEF Apart
<1>4. IsFiniteSet(inflight') /\ Cardinality(inflight') = 0 /\ Concurrency \in Nat
  BY <1>1, FS_EmptySet, CrawlAssumption
<1>5. counts'.items = 0 /\ counts'.responses = 0 /\ Len(written') = 0
  BY <1>1, <1>2 DEF NoCounts
<1>6. SpiderIsBounded'
  BY <1>1, <1>4, <1>5 DEF SpiderIsBounded
<1> QED BY <1>3, <1>6 DEF SpiderInv

LEMMA SpiderKept ==
  ASSUME ValidSettings, CrawlSound, SpiderInv, BatchNext PROVE SpiderInv'
<1>1. CASE Child
  BY <1>1, SpiderAtChild DEF CrawlSound
<1>2. CASE Caller \/ TimeStep
  <2>1. UNCHANGED <<inputs, spiderVars>>
    BY <1>2 DEF Caller, Poll, Wake, DeadlineHit, LastLook, GraceIsOver, Joined, Overran, Terminate,
           Reap, ReadFiles, TimeStep, childVars
  <2>2. caller # "idle"
    BY <1>2, CrawlGoesOn DEF CrawlSound, OnGoing
  <2> QED BY <2>1, <2>2, SpiderStands DEF inputs, spiderVars
<1>3. CASE Fallback
  <2>1. opts' = batch.base /\ Spawn(DefaultRuntime) /\ batch \in Batches
    BY <1>3 DEF Fallback, CrawlSound, BatchTypes
  <2>2. opts'.limit \in Nat /\ opts'.max_pages \in Nat \ {0}
    BY <2>1 DEF ValidSettings, ValidLimits
  <2> QED BY <2>1, <2>2, SpiderAtSpawn
<1>4. CASE CrawlSource
  <2>1. opts' = Merged(Head(todo)) /\ Spawn(Remaining) /\ todo # <<>>
    BY <1>4 DEF CrawlSource
  <2>2. batch \in Batches /\ Head(todo) \in ToSet(batch.sources) \cup ToSet(batch.roster)
    BY <2>1 DEF CrawlSound, BatchTypes
  <2> DEFINE src == Head(todo)
  <2>3. /\ {"limit", "max_pages"} \subseteq DOMAIN batch.base
        /\ ValidLimits(batch.base) /\ ValidLimits(src.over)
    BY <2>2 DEF ValidSettings
  <2>4. opts'.limit \in Nat
    <3>1. opts'.limit = IF "limit" \in DOMAIN src.over THEN src.over.limit ELSE batch.base.limit
      BY <2>1, <2>3 DEF Merged, MergedOf, OverrideKeys
    <3> QED BY <2>3, <3>1 DEF ValidLimits
  <2>5. opts'.max_pages \in Nat \ {0}
    <3>1. opts'.max_pages = IF "max_pages" \in DOMAIN src.over THEN src.over.max_pages
                            ELSE batch.base.max_pages
      BY <2>1, <2>3 DEF Merged, MergedOf, OverrideKeys
    <3> QED BY <2>3, <3>1 DEF ValidLimits
  <2> QED BY <2>1, <2>4, <2>5, SpiderAtSpawn
<1>5. CASE FallbackEnds \/ SourceEnds
  BY <1>5 DEF FallbackEnds, SourceEnds, SpiderInv
<1>6. CASE StartBatch \/ ListRoster \/ RosterEnds
  <2>1. UNCHANGED crawlVars /\ caller = "idle"
    BY <1>6 DEF StartBatch, ListRoster, RosterEnds, CrawlSound, BatchTypes
  <2> QED BY <2>1 DEF SpiderInv, crawlVars, callerVars
<1> QED BY <1>1, <1>2, <1>3, <1>4, <1>5, <1>6 DEF BatchNext, Batch

LEMMA SpiderIsKept == ASSUME CrawlInv, SpiderInv PROVE SpiderKeepsLimits
<1> SUFFICES ASSUME caller # "idle"
             PROVE  /\ Len(written) <= opts.limit /\ counts.items = Len(written)
                    /\ Cardinality(ToSet(written)) = Len(written)
                    /\ counts.responses < opts.max_pages + Concurrency
                    /\ \A p \in seen \ StartUrls : ~site[p].foreign /\ ~site[p].denied
                    /\ \A r \in queue \cup inflight : r.depth <= opts.depth
  BY DEF SpiderKeepsLimits
<1>1. Apart(queue, inflight, seen, written) /\ SpiderIsBounded /\ Limits
  BY LimitsAre DEF SpiderInv
<1>2. Cardinality(ToSet(written)) = Len(written)
  BY <1>1, AllDifferent DEF Apart
<1>3. counts.responses < opts.max_pages + Concurrency
  <2>1. CASE closing
    BY <1>1, <2>1 DEF SpiderIsBounded, Limits
  <2>2. CASE ~closing
    BY <1>1, <2>2 DEF SpiderIsBounded, Limits
  <2> QED BY <2>1, <2>2
<1> QED BY <1>1, <1>2, <1>3 DEF Apart, SpiderIsBounded

LEMMA SpiderHolds == ASSUME ValidSettings PROVE BatchSpec => []SpiderInv
<1> DEFINE I == CrawlSound /\ SpiderInv
<1>1. BatchInit => I
  BY SoundStart DEF BatchInit, SpiderInv
<1>2. I /\ BatchNext => I'
  BY SoundKept, SpiderKept
<1>3. I /\ UNCHANGED batchAllVars => I'
  <2> SUFFICES ASSUME I, UNCHANGED batchAllVars PROVE I'
    OBVIOUS
  <2>1. UNCHANGED <<caller, site, opts, queue, inflight, seen, closing, written, counts>>
    BY DEF batchAllVars, crawlVars, inputs, callerVars, childVars, spiderVars
  <2>2. SpiderInv'
    <3>1. CASE caller = "idle"
      BY <2>1, <3>1 DEF SpiderInv
    <3>2. CASE caller # "idle"
      BY <2>1, <3>2, SpiderStands
    <3> QED BY <3>1, <3>2
  <2> QED BY <2>2, SoundStands
<1> QED BY <1>1, <1>2, <1>3, PTL DEF BatchSpec

(* However the requests of a crawl overlap, the spider keeps to limit,     *)
(* max_pages, the depth and its site, and writes no page twice, for any    *)
(* concurrency, given settings that webui_config.validate lets through.    *)
THEOREM SpidersKeepLimits == ASSUME ValidSettings PROVE BatchSpec => []SpiderKeepsLimits
<1>1. CrawlSound /\ SpiderInv => SpiderKeepsLimits
  BY SpiderIsKept DEF CrawlSound
<1> QED BY <1>1, BatchIsSound, SpiderHolds, PTL

-----------------------------------------------------------------------------
(* The types of a batch.  That the counts stay within the pages of a site  *)
(* is no matter of types: a page is answered at most once.                 *)

Snapshots == [items: Seq(Pages), status: Counts \cup {Nil}, progress: Counts \cup {Nil}]

CountsInv ==
  /\ caller # "idle" => /\ Apart(queue, inflight, seen, written)
                        /\ counts.responses <= Cardinality(Answered)
  /\ counts \in Counts /\ counts.items <= counts.responses
  /\ shown \in Counts \cup {Nil}
  /\ OnGoing => disk \in Snapshots
  /\ signalled \in BOOLEAN /\ closing \in BOOLEAN
  /\ outcome \in {Nil, "timeout", "dependency", "unreachable", "items"}

LEMMA MoreAnswered ==
  ASSUME IsFiniteSet(Pages), NEW A, NEW B, A \subseteq B, B \subseteq Pages
  PROVE  /\ Cardinality(A) \in Nat /\ Cardinality(B) \in Nat /\ Cardinality(Pages) \in Nat
         /\ Cardinality(A) <= Cardinality(B) /\ Cardinality(B) <= Cardinality(Pages)
         /\ (\E p \in B : p \notin A) => Cardinality(A) + 1 <= Cardinality(B)
<1>1. IsFiniteSet(A) /\ IsFiniteSet(B)
  BY FS_Subset
<1>2. Cardinality(A) <= Cardinality(B) /\ Cardinality(B) <= Cardinality(Pages)
  BY <1>1, FS_Subset
<1>3. Cardinality(A) \in Nat /\ Cardinality(B) \in Nat /\ Cardinality(Pages) \in Nat
  BY <1>1, FS_CardinalityType
<1>4. ASSUME NEW p \in B, p \notin A PROVE Cardinality(A) + 1 <= Cardinality(B)
  <2>1. IsFiniteSet(A \cup {p}) /\ Cardinality(A \cup {p}) = Cardinality(A) + 1
    BY <1>1, <1>4, FS_AddElement
  <2>2. A \cup {p} \subseteq B
    BY <1>4
  <2>3. Cardinality(A \cup {p}) <= Cardinality(B)
    BY <1>1, <2>2, FS_Subset
  <2> QED BY <2>1, <2>3
<1> QED BY <1>2, <1>3, <1>4

(* What a step of the child makes of the counts and of the files.          *)
LEMMA CountsAtChild ==
  ASSUME IsFiniteSet(Pages), CrawlInv, CrawlInv', CountsInv, Child
  PROVE  CountsInv'
<1>1. OnGoing /\ UNCHANGED <<caller, shown, outcome, signalled>>
  <2>1. UNCHANGED <<callerVars, signalled>>
    BY DEF Child, SpiderStarts, SpiderRefuses, Download, OnError, Parse, SpiderEnds, FlushItems,
           WriteStatus, ChildExits, ChildDies, ChildCloses, childVars
  <2> QED BY <2>1, CrawlGoesOn DEF callerVars
<1>2. disk \in Snapshots /\ written \in Seq(Pages) /\ Cardinality(Pages) \in Nat
  BY <1>1, FS_CardinalityType DEF CountsInv, CrawlInv, CrawlTypes
<1>3. /\ Apart(queue, inflight, seen, written)' /\ Answered \subseteq Answered'
      /\ counts.responses <= Cardinality(Answered)
  BY <1>1, ApartAtChild DEF CountsInv, OnGoing
<1>4. Answered' \subseteq Pages
  BY DEF CrawlInv, CrawlTypes, Answered
<1>5. closing' \in BOOLEAN
  BY DEF CountsInv, Child, SpiderStarts, SpiderRefuses, Download, OnError, Parse, SpiderEnds,
         FlushItems, WriteStatus, ChildExits, ChildDies, ChildCloses, spiderVars
<1>6. /\ counts.responses \in Nat /\ counts.items \in Nat /\ counts.items <= counts.responses
      /\ counts.error \in {"", "fetch", "raised", "__dependency__"}
      /\ DOMAIN counts = {"responses", "items", "error"}
  <2>1. counts \in Counts /\ counts.items <= counts.responses /\ Cardinality(Pages) \in Nat
    BY <1>2 DEF CountsInv
  <2>2. /\ counts.responses \in 0..Cardinality(Pages) /\ counts.items \in 0..Cardinality(Pages)
        /\ counts.error \in {"", "fetch", "raised", "__dependency__"}
    BY <2>1 DEF Counts
  <2>3. DOMAIN counts = {"responses", "items", "error"}
    BY <2>1 DEF Counts
  <2>4. counts.responses \in Nat /\ counts.items \in Nat
    BY DEF CrawlInv, CrawlTypes, Tally
  <2>5. counts.items <= counts.responses
    BY <2>1
  <2> QED BY <2>2, <2>3, <2>4, <2>5
<1>7. CASE Parse
  <2>1. \E n \in {0, 1} :
          /\ counts' = [counts EXCEPT !.responses = @ + 1, !.items = @ + n]
          /\ disk' = disk \/ disk' = [disk EXCEPT !.progress = counts']
    BY <1>7 DEF Parse
  <2>2. PICK n \in {0, 1} :
          /\ counts' = [counts EXCEPT !.responses = @ + 1, !.items = @ + n]
          /\ disk' = disk \/ disk' = [disk EXCEPT !.progress = counts']
    BY <2>1
  <2>3. Cardinality(Answered) + 1 <= Cardinality(Answered') /\ Cardinality(Answered) \in Nat
        /\ Cardinality(Answered') \in Nat /\ Cardinality(Answered') <= Cardinality(Pages)
    BY <1>1, <1>3, <1>4, <1>7, AnsweredAtParse, MoreAnswered DEF CountsInv, OnGoing
  <2>4. counts'.responses = counts.responses + 1 /\ counts'.items = counts.items + n
        /\ counts'.error = counts.error /\ DOMAIN counts' = DOMAIN counts
    BY <1>6, <2>2
  <2>5. counts'.responses <= Cardinality(Answered') /\ counts'.items <= counts'.responses
        /\ counts'.responses \in 0..Cardinality(Pages) /\ counts'.items \in 0..Cardinality(Pages)
    <3> DEFINE a == Cardinality(Answered)
               b == Cardinality(Answered')
               k == Cardinality(Pages)
               n0 == counts.responses
               m0 == counts.items
               n1 == counts'.responses
               m1 == counts'.items
    <3>1. /\ a \in Nat /\ b \in Nat /\ k \in Nat /\ a + 1 <= b /\ b <= k /\ n0 \in Nat /\ m0 \in Nat
          /\ n0 <= a /\ m0 <= n0 /\ n1 = n0 + 1 /\ m1 = m0 + n /\ n \in {0, 1}
      BY <1>2, <1>3, <1>6, <2>3, <2>4
    <3> HIDE DEF a, b, k, n0, m0, n1, m1
    <3>2. n1 <= b /\ m1 <= n1 /\ n1 \in 0..k /\ m1 \in 0..k
      BY <3>1
    <3> QED BY <3>2 DEF b, k, n1, m1
  <2>6. counts' \in Counts
    <3>1. counts' = [responses |-> counts'.responses, items |-> counts'.items, error |-> counts'.error]
      BY <2>2 DEF CountsInv, Counts
    <3> QED BY <1>6, <2>4, <2>5, <3>1 DEF Counts
  <2>7. disk' \in Snapshots
    BY <1>2, <2>2, <2>6 DEF Snapshots
  <2> QED BY <1>1, <1>3, <1>5, <2>5, <2>6, <2>7 DEF CountsInv
<1>8. CASE ~ Parse
  <2>1. /\ counts' = counts
           \/ \E e \in {"fetch", "raised", "__dependency__"} : counts' = [counts EXCEPT !.error = e]
        /\ \/ disk' = disk
           \/ disk' = [disk EXCEPT !.items = written]
           \/ disk' = [disk EXCEPT !.status = counts]
    BY <1>8 DEF Child, SpiderStarts, SpiderRefuses, Download, OnError, SpiderEnds, FlushItems,
           WriteStatus, ChildExits, ChildDies, ChildCloses, spiderVars
  <2>2. counts' \in Counts /\ counts'.responses = counts.responses /\ counts'.items = counts.items
    BY <2>1 DEF CountsInv, Counts
  <2>3. disk' \in Snapshots
    BY <1>2, <2>1 DEF Snapshots, CountsInv
  <2>4. Cardinality(Answered) <= Cardinality(Answered') /\ Cardinality(Answered) \in Nat
        /\ Cardinality(Answered') \in Nat
    BY <1>3, <1>4, MoreAnswered
  <2>5. counts'.responses <= Cardinality(Answered')
    <3> DEFINE a == Cardinality(Answered)
               b == Cardinality(Answered')
    <3>1. a \in Nat /\ b \in Nat /\ a <= b /\ counts.responses \in Nat /\ counts.responses <= a
      BY <1>3, <1>6, <2>4
    <3> HIDE DEF a, b
    <3>2. counts.responses <= b
      BY <3>1
    <3> QED BY <2>2, <3>2 DEF b
  <2>6. counts'.items <= counts'.responses
    BY <1>6, <2>2
  <2> QED BY <1>1, <1>3, <1>5, <2>2, <2>3, <2>5, <2>6 DEF CountsInv
<1> QED BY <1>7, <1>8

(* The caller, the clock and the batch leave the spider as it is.          *)
LEMMA CountsStand ==
  ASSUME CountsInv, caller # "idle" \/ caller' = "idle",
         UNCHANGED <<site, opts, spiderVars>>,
         shown' \in Counts \cup {Nil}, (OnGoing => disk \in Snapshots)', signalled' \in BOOLEAN,
         outcome' \in {Nil, "timeout", "dependency", "unreachable", "items"}
  PROVE  CountsInv'
<1>1. UNCHANGED <<queue, inflight, seen, closing, written, counts>>
  BY DEF spiderVars
<1>2. Answered' = Answered
  BY <1>1 DEF Answered
<1>3. caller' # "idle" => Apart(queue, inflight, seen, written)'
  BY <1>1 DEF CountsInv, Apart, StartUrls
<1> QED BY <1>1, <1>2, <1>3 DEF CountsInv

LEMMA CrawlUntouched == ASSUME CountsInv, UNCHANGED crawlVars PROVE CountsInv'
<1>1. /\ UNCHANGED <<site, opts, caller, shown, outcome, disk, signalled>>
      /\ UNCHANGED <<queue, inflight, seen, closing, written, counts>>
  BY DEF crawlVars, inputs, callerVars, childVars, spiderVars
<1>2. Answered' = Answered
  BY <1>1 DEF Answered
<1>3. caller' # "idle" => Apart(queue, inflight, seen, written)'
  BY <1>1 DEF CountsInv, Apart, StartUrls
<1> QED BY <1>1, <1>2, <1>3 DEF CountsInv, OnGoing, Snapshots

LEMMA CountsAtCaller ==
  ASSUME CrawlInv, CountsInv, Caller \/ TimeStep PROVE CountsInv'
<1>1. OnGoing /\ UNCHANGED <<site, opts, spiderVars>>
  <2>1. UNCHANGED <<inputs, spiderVars>>
    BY DEF Caller, Poll, Wake, DeadlineHit, LastLook, GraceIsOver, Joined, Overran, Terminate,
           Reap, ReadFiles, TimeStep, childVars
  <2> QED BY <2>1, CrawlGoesOn DEF inputs
<1>2. disk \in Snapshots
  BY <1>1 DEF CountsInv
<1>3. shown' \in Counts \cup {Nil}
  BY <1>2 DEF CountsInv, Caller, Poll, Wake, DeadlineHit, LastLook, GraceIsOver, Joined, Overran,
         Terminate, Reap, ReadFiles, TimeStep, callerVars, Look, Snapshots
<1>4. OnGoing' => disk' \in Snapshots
  BY <1>2 DEF OnGoing, Caller, Poll, Wake, DeadlineHit, LastLook, GraceIsOver, Joined, Overran,
         Terminate, Reap, ReadFiles, TimeStep
<1>5. signalled' \in BOOLEAN
  BY DEF CountsInv, Caller, Poll, Wake, DeadlineHit, LastLook, GraceIsOver, Joined, Overran,
         Terminate, Reap, ReadFiles, TimeStep, childVars
<1>6. outcome' \in {Nil, "timeout", "dependency", "unreachable", "items"}
  BY DEF CountsInv, Caller, Poll, Wake, DeadlineHit, LastLook, GraceIsOver, Joined, Overran,
         Terminate, Reap, ReadFiles, TimeStep, callerVars, Verdict
<1> QED BY <1>1, <1>3, <1>4, <1>5, <1>6, CountsStand DEF OnGoing

LEMMA CountsAtSpawn ==
  ASSUME IsFiniteSet(Pages), NEW b, Spawn(b) PROVE CountsInv'
<1>1. /\ queue' = {} /\ inflight' = {} /\ seen' = {} /\ closing' = FALSE /\ written' = <<>>
      /\ counts' = NoCounts /\ disk' = NoDisk /\ shown' = Nil /\ outcome' = Nil /\ signalled' = FALSE
  BY DEF Spawn
<1>2. <<>> \in Seq({}) /\ <<>> \in Seq(Pages) /\ DOMAIN <<>> = {}
  OBVIOUS
<1>3. Apart(queue, inflight, seen, written)'
  BY <1>1, <1>2 DEF Apart
<1>4. Answered' = {} /\ Cardinality(Answered') = 0 /\ Cardinality(Pages) \in Nat
  <2>1. Answered' = {}
    BY <1>1 DEF Answered
  <2> QED BY <2>1, FS_EmptySet, FS_CardinalityType
<1>5. NoCounts \in Counts /\ NoCounts.items <= NoCounts.responses
      /\ NoCounts.responses <= Cardinality(Answered')
  BY <1>4 DEF NoCounts, Counts
<1>6. NoDisk \in Snapshots
  BY <1>2 DEF NoDisk, Snapshots
<1> QED BY <1>1, <1>3, <1>5, <1>6 DEF CountsInv

LEMMA CountsKept ==
  ASSUME IsFiniteSet(Pages), CrawlSound, CountsInv, BatchNext PROVE CountsInv'
<1>1. CASE Child
  BY <1>1, CountsAtChild, SoundKept DEF CrawlSound
<1>2. CASE Caller \/ TimeStep
  BY <1>2, CountsAtCaller DEF CrawlSound
<1>3. CASE Fallback
  BY <1>3, CountsAtSpawn DEF Fallback
<1>4. CASE CrawlSource
  BY <1>4, CountsAtSpawn DEF CrawlSource
<1>5. CASE FallbackEnds \/ SourceEnds
  <2>1. caller' = "idle" /\ UNCHANGED <<inputs, outcome, shown, childVars, disk>>
    BY <1>5 DEF FallbackEnds, SourceEnds
  <2> QED BY <2>1, CountsStand DEF CountsInv, OnGoing, inputs, childVars
<1>6. CASE StartBatch \/ ListRoster \/ RosterEnds
  <2>1. UNCHANGED crawlVars
    BY <1>6 DEF StartBatch, ListRoster, RosterEnds
  <2> QED BY <2>1, CrawlUntouched
<1> QED BY <1>1, <1>2, <1>3, <1>4, <1>5, <1>6 DEF BatchNext, Batch

\* Every variable of a batch and of its crawl has its type at every moment, for any site
\* of finitely many pages; in particular no crawl counts more responses or items than
\* there are pages, in what it shows and in what it leaves on disk.
THEOREM BatchTyped == ASSUME IsFiniteSet(Pages) PROVE BatchSpec => []CrawlTypeOK
<1> DEFINE I == CrawlSound /\ CountsInv
<1>1. BatchInit => I
  <2> SUFFICES ASSUME BatchInit PROVE CountsInv
    BY SoundStart
  <2>1. NoCounts \in Counts
    <3>1. 0 \in 0..Cardinality(Pages)
      BY FS_CardinalityType
    <3> QED BY <3>1 DEF NoCounts, Counts
  <2>2. NoCounts.items <= NoCounts.responses
    BY DEF NoCounts
  <2>3. caller = "idle" /\ ~ OnGoing
    BY DEF BatchInit, OnGoing
  <2> QED BY <2>1, <2>2, <2>3 DEF BatchInit, CountsInv
<1>2. I /\ BatchNext => I'
  BY SoundKept, CountsKept
<1>3. I /\ UNCHANGED batchAllVars => I'
  <2> SUFFICES ASSUME I, UNCHANGED batchAllVars PROVE I'
    OBVIOUS
  <2>1. CountsInv'
    BY CrawlUntouched DEF batchAllVars
  <2> QED BY <2>1, SoundStands
<1>4. I => CrawlTypeOK
  BY DEF CrawlTypeOK, CrawlSound, CrawlInv, CrawlTypes, BatchTypes, CountsInv, Waiting, Snapshots,
         NothingLeftBehind, OnGoing
<1> QED BY <1>1, <1>2, <1>3, <1>4, PTL DEF BatchSpec

-----------------------------------------------------------------------------
(* The batch implements its promise: each crawl, with its child, its files *)
(* and its deadline, is one answer or one failure of a source.             *)

(* What is left of the roster comes in its turn; the crawl that goes on is *)
(* one of the source whose turn it is, and has no items before its end.    *)
TurnInv ==
  /\ phase = "roster" =>
        /\ Len(reports) + Len(todo) = Len(Enabled) + Len(Uncovered)
        /\ \A i \in 1..Len(todo) : todo[i] = Uncovered[Len(reports) - Len(Enabled) + i]
  /\ phase \in {"sources", "roster"} /\ caller # "idle" => opts = Merged(Head(todo))
  /\ phase \in {"fallback", "sources"} => stamped = {}
  /\ phase = "fallback" => opts = batch.base /\ combined = <<>>
  /\ OnGoing => returned = <<>>
  /\ caller = "done" /\ outcome # "items" => returned = <<>>

LEMMA TurnStart == ASSUME BatchInit PROVE TurnInv
BY DEF BatchInit, TurnInv, OnGoing

LEMMA TurnAsCrawlGoes ==
  ASSUME CrawlSound, TurnInv, Child \/ Caller \/ TimeStep, UNCHANGED batchVars PROVE TurnInv'
<1>1. OnGoing /\ UNCHANGED opts
  BY CrawlGoesOn DEF CrawlSound, Child, SpiderStarts, SpiderRefuses, Download, OnError, Parse, SpiderEnds,
     FlushItems, WriteStatus, ChildExits, ChildDies, ChildCloses, Caller, Poll, Wake, DeadlineHit,
     LastLook, GraceIsOver, Joined, Overran, Terminate, Reap, ReadFiles, TimeStep, inputs
<1>2. UNCHANGED <<batch, phase, todo, reports, combined, stamped, Enabled, Uncovered>>
  BY ListsStand DEF batchVars
<1>3. (OnGoing' => returned' = <<>>) /\ (caller' = "done" /\ outcome' # "items" => returned' = <<>>)
  <2>1. CASE Child \/ TimeStep
    <3>1. UNCHANGED <<caller, returned>>
      BY <2>1 DEF Child, SpiderStarts, SpiderRefuses, Download, OnError, Parse, SpiderEnds,
         FlushItems, WriteStatus, ChildExits, ChildDies, ChildCloses, TimeStep, callerVars
    <3> QED BY <1>1, <3>1 DEF TurnInv, OnGoing
  <2>2. CASE ReadFiles
    BY <2>2 DEF ReadFiles, OnGoing
  <2>3. CASE Caller /\ ~ ReadFiles
    <3>1. returned' = returned
      BY <2>3 DEF Caller, Poll, Wake, DeadlineHit, LastLook, GraceIsOver, Joined, Overran,
         Terminate, Reap
    <3> QED BY <1>1, <3>1 DEF TurnInv
  <2> QED BY <2>1, <2>2, <2>3 DEF Caller
<1>4. Merged(Head(todo))' = Merged(Head(todo))
  BY <1>2 DEF Merged
<1> QED BY <1>1, <1>2, <1>3, <1>4 DEF TurnInv, OnGoing

LEMMA TurnAtSpawn ==
  ASSUME CrawlSound, TurnInv, Fallback \/ CrawlSource PROVE TurnInv'
<1>1. /\ returned' = <<>> /\ UNCHANGED <<batch, todo, reports, combined, stamped>>
      /\ caller' \in {"poll", "join"}
  BY DEF Fallback, CrawlSource, Spawn, batchVars
<1>2. UNCHANGED <<Enabled, Uncovered>> /\ Merged(Head(todo))' = Merged(Head(todo))
  BY <1>1, ListsStand DEF Merged
<1>3. CASE Fallback
  BY <1>1, <1>2, <1>3 DEF Fallback, TurnInv, CrawlSound, BatchTypes
<1>4. CASE CrawlSource
  BY <1>1, <1>2, <1>4 DEF CrawlSource, TurnInv, CrawlSound, BatchTypes, batchVars
<1> QED BY <1>3, <1>4

LEMMA TurnAtEnds ==
  ASSUME Told, TurnInv, SourceEnds PROVE TurnInv'
<1>1. /\ phase \in {"sources", "roster"} /\ todo' = Tail(todo) /\ UNCHANGED <<batch, phase>>
      /\ \E r : reports' = Append(reports, r)
      /\ phase = "sources" => stamped' = stamped
      /\ caller = "done" /\ caller' = "idle"
  BY DEF SourceEnds
<1>2. /\ todo # <<>> /\ todo \in Seq(ToSet(batch.sources) \cup ToSet(batch.roster))
      /\ Len(reports) \in Nat /\ batch \in Batches
  BY <1>1 DEF Told, CrawlSound, BatchTypes, ReportsAreTrue
<1>3. UNCHANGED <<Enabled, Uncovered>> /\ Len(Enabled) \in Nat /\ Len(Uncovered) \in Nat
  BY <1>1, <1>2, ListsStand, SourcesAreTyped
<1>4. /\ Len(todo) \in Nat \ {0} /\ Len(todo') = Len(todo) - 1
      /\ \A i \in 1..Len(todo') : todo'[i] = todo[i + 1]
  <2> DEFINE All == ToSet(batch.sources) \cup ToSet(batch.roster)
  <2> HIDE DEF All
  <2> QED BY <1>1, <1>2 DEF All
<1>5. Len(reports') = Len(reports) + 1
  BY <1>1, <1>2 DEF Told, ReportsAreTrue
<1>6. ASSUME phase = "roster"
      PROVE  /\ Len(reports') + Len(todo') = Len(Enabled) + Len(Uncovered)
             /\ \A i \in 1..Len(todo') : todo'[i] = Uncovered[Len(reports') - Len(Enabled) + i]
  <2>1. /\ Len(reports) + Len(todo) = Len(Enabled) + Len(Uncovered)
        /\ \A i \in 1..Len(todo) : todo[i] = Uncovered[Len(reports) - Len(Enabled) + i]
    BY <1>6 DEF TurnInv
  <2>2. Len(reports') + Len(todo') = Len(Enabled) + Len(Uncovered)
    <3> DEFINE a == Len(reports)  b == Len(todo)  c == Len(reports')  d == Len(todo')
               e == Len(Enabled)  f == Len(Uncovered)
    <3>1. a \in Nat /\ b \in Nat /\ c = a + 1 /\ d = b - 1 /\ a + b = e + f
      BY <1>2, <1>4, <1>5, <2>1
    <3> HIDE DEF a, b, c, d, e, f
    <3>2. c + d = e + f
      BY <3>1
    <3> QED BY <3>2 DEF c, d, e, f
  <2>3. ASSUME NEW i \in 1..Len(todo') PROVE todo'[i] = Uncovered[Len(reports') - Len(Enabled) + i]
    <3>1. i + 1 \in 1..Len(todo) /\ i \in Nat
      BY <1>4
    <3>2. Len(reports) - Len(Enabled) + (i + 1) = Len(reports') - Len(Enabled) + i
      BY <1>2, <1>3, <1>5, <3>1
    <3>3. todo[i + 1] = Uncovered[Len(reports) - Len(Enabled) + (i + 1)]
      BY <2>1, <3>1
    <3> QED BY <1>4, <3>2, <3>3
  <2> QED BY <2>2, <2>3
<1> QED BY <1>1, <1>3, <1>6 DEF TurnInv, OnGoing

LEMMA TurnAtRoster ==
  ASSUME Told, TurnInv, ListRoster PROVE TurnInv'
<1>1. /\ phase' = IF todo' = <<>> THEN "done" ELSE "roster"
      /\ todo' \in {<<>>, Uncovered}
      /\ UNCHANGED <<batch, reports, caller, returned, outcome>>
      /\ phase = "listing" \/ (phase = "sources" /\ todo = <<>>)
  BY DEF ListRoster, crawlVars, callerVars
<1>2. caller = "idle" /\ batch \in Batches
  BY <1>1 DEF Told, CrawlSound, BatchTypes
<1>3. UNCHANGED <<Enabled, Uncovered>> /\ Len(Enabled) \in Nat /\ Len(Uncovered) \in Nat
  BY <1>1, <1>2, ListsStand, SourcesAreTyped
<1>4. Len(reports) = Len(Enabled)
  <2>1. CASE phase = "listing"
    BY <2>1 DEF Told, CrawlSound, BatchTypes
  <2>2. CASE phase = "sources" /\ todo = <<>>
    <3>1. Len(reports) + Len(todo) = Len(Enabled) /\ Len(todo) = 0 /\ Len(reports) \in Nat
      BY <2>2 DEF Told, ReportsAreTrue
    <3> QED BY <3>1
  <2> QED BY <1>1, <2>1, <2>2
<1>5. \A i \in 1..Len(Uncovered) : Len(reports) - Len(Enabled) + i = i
  BY <1>3, <1>4
<1> QED BY <1>1, <1>2, <1>3, <1>4, <1>5 DEF TurnInv, OnGoing

LEMMA TurnKept == ASSUME Told, TurnInv, BatchNext PROVE TurnInv'
<1>1. CASE (Child \/ Caller \/ TimeStep) /\ UNCHANGED batchVars
  BY <1>1, TurnAsCrawlGoes DEF Told
<1>2. CASE Fallback \/ CrawlSource
  BY <1>2, TurnAtSpawn DEF Told
<1>3. CASE FallbackEnds
  BY <1>3 DEF FallbackEnds, TurnInv, OnGoing
<1>4. CASE StartBatch
  <2>1. /\ phase = "start" /\ phase' = "sources" /\ UNCHANGED <<caller, returned, outcome, stamped>>
    BY <1>4 DEF StartBatch, crawlVars, callerVars
  <2>2. caller = "idle" /\ stamped = {}
    BY <2>1 DEF Told, CrawlSound, BatchTypes
  <2> QED BY <2>1, <2>2 DEF TurnInv, OnGoing
<1>5. CASE SourceEnds
  BY <1>5, TurnAtEnds
<1>6. CASE ListRoster
  BY <1>6, TurnAtRoster
<1>7. CASE RosterEnds
  <2>1. phase' = "done" /\ phase = "roster" /\ UNCHANGED <<caller, returned, outcome>>
    BY <1>7 DEF RosterEnds, crawlVars, callerVars
  <2> QED BY <2>1 DEF TurnInv, OnGoing
<1> QED BY <1>1, <1>2, <1>3, <1>4, <1>5, <1>6, <1>7 DEF BatchNext, Batch

LEMMA TurnStands == ASSUME TurnInv, UNCHANGED batchAllVars PROVE TurnInv'
<1>1. UNCHANGED <<batch, phase, todo, reports, combined, stamped, caller, opts, returned, outcome,
                  Enabled, Uncovered>>
  BY ListsStand DEF batchAllVars, batchVars, crawlVars, callerVars, inputs
<1>2. Merged(Head(todo))' = Merged(Head(todo))
  BY <1>1 DEF Merged
<1> QED BY <1>1, <1>2 DEF TurnInv, OnGoing

(* What a batch asks, as the promise lists it.                             *)
LEMMA AskedIs ==
  ASSUME batch \in Batches
  PROVE  /\ Pledge!Sources = [i \in 1..Len(Enabled) |-> Ask(batch, Enabled[i])]
         /\ Pledge!Roster = [i \in 1..Len(Uncovered) |-> Ask(batch, Uncovered[i])]
         /\ Asked[batch].alone = batch.base.limit
         /\ Len(Pledge!Sources) = Len(Enabled) /\ Len(Pledge!Roster) = Len(Uncovered)
         /\ Len(Enabled) \in Nat /\ Len(Uncovered) \in Nat
         /\ (Pledge!Sources = <<>>) = (Enabled = <<>>)
<1>1. Enabled \in Seq(ToSet(batch.sources)) /\ Uncovered \in Seq(ToSet(batch.roster))
  BY SourcesAreTyped
<1>2. Asked[batch] =
        [sources |-> [i \in 1..Len(Enabled) |-> Ask(batch, Enabled[i])],
         roster  |-> [i \in 1..Len(Uncovered) |-> Ask(batch, Uncovered[i])],
         alone   |-> batch.base.limit]
  BY DEF Asked, Enabled, Uncovered
<1>3. /\ Pledge!Sources = [i \in 1..Len(Enabled) |-> Ask(batch, Enabled[i])]
      /\ Pledge!Roster = [i \in 1..Len(Uncovered) |-> Ask(batch, Uncovered[i])]
      /\ Asked[batch].alone = batch.base.limit
  BY <1>2 DEF Pledge!Sources, Pledge!Roster
<1>4. Len(Enabled) \in Nat /\ Len(Uncovered) \in Nat
  BY <1>1
<1>5. Len(Pledge!Sources) = Len(Enabled) /\ Len(Pledge!Roster) = Len(Uncovered)
  BY <1>3, <1>4
<1>6. (Pledge!Sources = <<>>) = (Enabled = <<>>)
  <2>1. Enabled = <<>> <=> Len(Enabled) = 0
    BY <1>1
  <2>2. Pledge!Sources = <<>> <=> Len(Enabled) = 0
    <3>1. Len(Enabled) = 0 => 1..Len(Enabled) = {}
      BY <1>4
    <3>2. Pledge!Sources = <<>> => Len(Pledge!Sources) = 0
      OBVIOUS
    <3>3. Len(Enabled) = 0 => Pledge!Sources = <<>>
      BY <1>3, <3>1
    <3> QED BY <1>5, <3>2, <3>3
  <2> QED BY <2>1, <2>2
<1> QED BY <1>3, <1>4, <1>5, <1>6

(* The source whose turn it is, as the promise has it, is the one at the   *)
(* head of the list of the code.                                           *)
LEMMA TurnIs ==
  ASSUME Told, TurnInv, phase \in {"sources", "roster"}, todo # <<>>
  PROVE  /\ Pledge!Turn = Ask(batch, Head(todo))
         /\ Len(reports) < Len(Pledge!Sources) + Len(Pledge!Roster)
         /\ (Pledge!OfRoster <=> phase = "roster")
<1>1. /\ batch \in Batches /\ Len(reports) \in Nat
      /\ todo \in Seq(ToSet(batch.sources) \cup ToSet(batch.roster))
  BY DEF Told, CrawlSound, BatchTypes, ReportsAreTrue
<1>2. Len(todo) \in Nat \ {0} /\ Head(todo) = todo[1]
  <2> DEFINE All == ToSet(batch.sources) \cup ToSet(batch.roster)
  <2> HIDE DEF All
  <2> QED BY <1>1 DEF All
<1>3. /\ Pledge!Sources = [i \in 1..Len(Enabled) |-> Ask(batch, Enabled[i])]
      /\ Pledge!Roster = [i \in 1..Len(Uncovered) |-> Ask(batch, Uncovered[i])]
      /\ Len(Pledge!Sources) = Len(Enabled) /\ Len(Pledge!Roster) = Len(Uncovered)
      /\ Len(Enabled) \in Nat /\ Len(Uncovered) \in Nat
  BY <1>1, AskedIs
<1> DEFINE n == Len(reports) + 1
<1>4. CASE phase = "sources"
  <2>1. Len(reports) + Len(todo) = Len(Enabled) /\ todo[1] = Enabled[Len(reports) + 1]
    BY <1>2, <1>4 DEF Told, ReportsAreTrue
  <2>2. Len(reports) < Len(Enabled)
    BY <1>1, <1>2, <1>3, <2>1
  <2>3. n \in 1..Len(Enabled) /\ ~ (Len(reports) >= Len(Pledge!Sources))
    BY <1>1, <1>3, <2>2
  <2>4. Pledge!Turn = Pledge!Sources[n] /\ ~ Pledge!OfRoster
    BY <2>3 DEF Pledge!Turn, Pledge!OfRoster
  <2>5. Pledge!Sources[n] = Ask(batch, Enabled[n])
    BY <1>3, <2>3
  <2>6. Len(reports) < Len(Pledge!Sources) + Len(Pledge!Roster)
    BY <1>1, <1>3, <2>2
  <2>7. n = Len(reports) + 1 /\ Enabled[n] = Head(todo)
    BY <1>2, <2>1
  <2>8. Pledge!Turn = Ask(batch, Head(todo))
    BY <2>4, <2>5, <2>7
  <2>9. ~ Pledge!OfRoster /\ phase = "sources" /\ phase # "roster"
    BY <1>4, <2>4
  <2>10. Pledge!OfRoster <=> phase = "roster"
    BY <2>9, ZenonT(30)
  <2> HIDE DEF n
  <2> QED BY <2>6, <2>8, <2>10
<1>5. CASE phase = "roster"
  <2>1. /\ Len(reports) + Len(todo) = Len(Enabled) + Len(Uncovered)
        /\ todo[1] = Uncovered[Len(reports) - Len(Enabled) + 1]
    BY <1>2, <1>5 DEF TurnInv
  <2>2. Len(Enabled) <= Len(reports)
    BY <1>5 DEF Told, ReportsAreTrue
  <2>3. /\ Len(reports) < Len(Enabled) + Len(Uncovered)
        /\ n - Len(Enabled) \in 1..Len(Uncovered)
        /\ n - Len(Enabled) = Len(reports) - Len(Enabled) + 1
    BY <1>1, <1>2, <1>3, <2>1, <2>2
  <2>4. Pledge!Turn = Pledge!Roster[n - Len(Enabled)] /\ Pledge!OfRoster
    BY <1>3, <2>2 DEF Pledge!Turn, Pledge!OfRoster
  <2>5. Pledge!Roster[n - Len(Enabled)] = Ask(batch, Uncovered[n - Len(Enabled)])
    BY <1>3, <2>3
  <2> QED BY <1>2, <1>3, <1>5, <2>1, <2>3, <2>4, <2>5
<1> QED BY <1>4, <1>5

(* What a crawl that succeeded returns is a harvest within its limit.      *)
LEMMA HarvestIs ==
  ASSUME CrawlSound, SpiderInv, caller = "done", outcome = "items"
  PROVE  returned \in Pledge!Harvest(opts.limit)
<1>1. returned = written /\ written \in Seq(Pages)
  BY DEF CrawlSound, CrawlInv, CrawlTypes, AnswerIsTrue, ReturnedIsComplete
<1>2. /\ opts.limit \in Nat /\ Len(written) <= opts.limit
      /\ \A i, j \in DOMAIN written : written[i] = written[j] => i = j
  BY DEF SpiderInv, SpiderIsBounded, Apart
<1>3. Len(written) \in 0..opts.limit /\ written \in [1..Len(written) -> Pages]
  BY <1>1, <1>2
<1> QED BY <1>1, <1>2, <1>3 DEF Pledge!Harvest

PledgeStep ==
  Pledge!Next \/ UNCHANGED <<batch, reports, combined, stamped, Status>>

LEMMA SourceEndsPledged ==
  ASSUME Told, TurnInv, SpiderInv, SourceEnds PROVE PledgeStep
<1> DEFINE ok == outcome = "items"
<1>1. /\ phase \in {"sources", "roster"} /\ UNCHANGED <<batch, phase>>
      /\ reports' = Append(reports, [name  |-> Head(todo).name,
                                     count |-> IF ok THEN Len(returned) ELSE Nil])
      /\ combined' = IF ok THEN combined \o returned ELSE combined
      /\ stamped' \in IF ok /\ phase = "roster" THEN {stamped, stamped \cup {Head(todo).name}}
                      ELSE {stamped}
      /\ caller = "done"
  BY DEF SourceEnds
<1>2. todo # <<>>
  BY <1>1 DEF Told, CrawlSound, BatchTypes
<1>3. /\ Pledge!Turn = Ask(batch, Head(todo))
      /\ Len(reports) < Len(Pledge!Sources) + Len(Pledge!Roster)
      /\ (Pledge!OfRoster <=> phase = "roster")
  BY <1>1, <1>2, TurnIs
<1>4. Pledge!Turn.name = Head(todo).name /\ Pledge!Turn.limit = opts.limit
  BY <1>1, <1>3 DEF Ask, TurnInv, Merged
<1>5. Pledge!AskNext
  <2>1. Len(reports') = Len(reports) + 1
    BY <1>1 DEF Told, ReportsAreTrue
  <2>2. Status = "open" /\ Status' = "open"
    BY <1>1 DEF Status
  <2> QED BY <1>1, <1>3, <2>1, <2>2 DEF Pledge!AskNext
<1>6. CASE ok
  <2>1. returned \in Pledge!Harvest(Pledge!Turn.limit)
    BY <1>1, <1>4, <1>6, HarvestIs DEF Told
  <2>2. /\ reports' = Append(reports, [name |-> Pledge!Turn.name, count |-> Len(returned)])
        /\ combined' = combined \o returned
        /\ stamped' = stamped \/ (Pledge!OfRoster /\ stamped' = stamped \cup {Pledge!Turn.name})
    BY <1>1, <1>3, <1>4, <1>6
  <2>3. Pledge!Answer
    BY <1>5, <2>1, <2>2 DEF Pledge!Answer
  <2> QED BY <2>3 DEF PledgeStep, Pledge!Next
<1>7. CASE ~ ok
  <2>1. Pledge!Fail
    BY <1>1, <1>4, <1>5, <1>7 DEF Pledge!Fail
  <2> QED BY <2>1 DEF PledgeStep, Pledge!Next
<1> QED BY <1>6, <1>7

LEMMA FallbackEndsPledged ==
  ASSUME Told, TurnInv, SpiderInv, FallbackEnds PROVE PledgeStep
<1>1. /\ phase = "fallback" /\ caller = "done" /\ combined' = returned
      /\ phase' = IF outcome = "items" THEN "listing" ELSE "raised"
      /\ UNCHANGED <<batch, reports, stamped>>
  BY DEF FallbackEnds
<1>2. /\ Enabled = <<>> /\ reports = <<>> /\ combined = <<>> /\ batch \in Batches
      /\ opts = batch.base
  BY <1>1 DEF Told, CrawlSound, BatchTypes, TurnInv
<1>3. Pledge!Sources = <<>> /\ Asked[batch].alone = opts.limit
  BY <1>2, AskedIs
<1>4. Pledge!Unasked
  BY <1>1, <1>2, <1>3 DEF Pledge!Unasked, Status
<1>5. CASE outcome = "items"
  <2>1. combined' \in Pledge!Harvest(Asked[batch].alone)
    BY <1>1, <1>3, <1>5, HarvestIs DEF Told
  <2>2. UNCHANGED <<batch, reports, stamped, Status>>
    BY <1>1, <1>5 DEF Status
  <2>3. Pledge!Alone
    BY <1>4, <2>1, <2>2 DEF Pledge!Alone
  <2> QED BY <2>3 DEF PledgeStep, Pledge!Next
<1>6. CASE outcome # "items"
  <2>1. combined' = combined /\ Status' = "raised"
    BY <1>1, <1>2, <1>6 DEF TurnInv, Status
  <2>2. Pledge!Raise
    BY <1>1, <1>4, <2>1 DEF Pledge!Raise
  <2> QED BY <2>2 DEF PledgeStep, Pledge!Next
<1> QED BY <1>5, <1>6

LEMMA BatchEndsPledged ==
  ASSUME Told, TurnInv, ListRoster \/ RosterEnds PROVE PledgeStep
<1>1. UNCHANGED <<batch, reports, combined, stamped>> /\ batch \in Batches
  BY DEF ListRoster, RosterEnds, Told, CrawlSound, BatchTypes
<1>2. /\ Len(Pledge!Sources) = Len(Enabled) /\ Len(Pledge!Roster) = Len(Uncovered)
      /\ Len(Enabled) \in Nat /\ Len(Uncovered) \in Nat /\ Len(reports) \in Nat
  <2>1. Len(reports) \in Nat
    BY DEF Told, CrawlSound, BatchTypes, ReportsAreTrue
  <2> QED BY <1>1, <2>1, AskedIs
<1>3. CASE phase' = "roster"
  <2>1. Status' = Status
    BY <1>3 DEF ListRoster, RosterEnds, Status
  <2> QED BY <1>1, <2>1 DEF PledgeStep
<1>4. CASE phase' = "done"
  <2>1. Status = "open" /\ Status' = "done"
    BY <1>4 DEF ListRoster, RosterEnds, Status
  <2>2. Len(reports) \in {Len(Enabled), Len(Enabled) + Len(Uncovered)}
    <3>1. CASE phase = "listing"
      BY <3>1 DEF Told, CrawlSound, BatchTypes
    <3>2. CASE phase = "sources" /\ todo = <<>>
      <4>1. Len(reports) + Len(todo) = Len(Enabled) /\ Len(todo) = 0
        BY <3>2 DEF Told, ReportsAreTrue
      <4> QED BY <1>2, <4>1
    <3>3. CASE phase = "roster" /\ todo = <<>>
      <4>1. Len(reports) + Len(todo) = Len(Enabled) + Len(Uncovered) /\ Len(todo) = 0
        BY <3>3 DEF TurnInv
      <4> QED BY <1>2, <4>1
    <3> QED BY <3>1, <3>2, <3>3 DEF ListRoster, RosterEnds
  <2>3. Pledge!End
    BY <1>1, <1>2, <2>1, <2>2 DEF Pledge!End
  <2> QED BY <2>3 DEF PledgeStep, Pledge!Next
<1> QED BY <1>3, <1>4 DEF ListRoster, RosterEnds

LEMMA StepIsPledged ==
  ASSUME Told, TurnInv, SpiderInv, BatchNext PROVE PledgeStep
<1>1. CASE (Child \/ Caller \/ TimeStep) /\ UNCHANGED batchVars
  BY <1>1 DEF PledgeStep, batchVars, Status
<1>2. CASE Fallback \/ StartBatch \/ CrawlSource
  <2>1. UNCHANGED <<batch, reports, combined, stamped, Status>>
    BY <1>2 DEF Fallback, StartBatch, CrawlSource, batchVars, Status
  <2> QED BY <2>1 DEF PledgeStep
<1>3. CASE FallbackEnds
  BY <1>3, FallbackEndsPledged
<1>4. CASE SourceEnds
  BY <1>4, SourceEndsPledged
<1>5. CASE ListRoster \/ RosterEnds
  BY <1>5, BatchEndsPledged
<1> QED BY <1>1, <1>2, <1>3, <1>4, <1>5 DEF BatchNext, Batch

\* Whatever the children do (hang, die, overrun, write half a file), a batch looks to its
\* caller as one that asks every source once, in order, and gets from each all that its
\* spider wrote, different pages within its limit, or an error; it raises only without a
\* source.  For any sources, budgets and sites, given settings that were validated.
THEOREM BatchImplementsPromise == ASSUME ValidSettings PROVE BatchSpec => KeepsBatchPromise
<1>1. BatchInit => Pledge!Init
  BY DEF BatchInit, Pledge!Init, Status
<1>2. BatchInit => TurnInv
  BY TurnStart
<1>3. Told /\ TurnInv /\ BatchNext => TurnInv'
  BY TurnKept
<1>4. TurnInv /\ UNCHANGED batchAllVars => TurnInv'
  BY TurnStands
<1>5. Told /\ TurnInv /\ SpiderInv /\ BatchNext => PledgeStep
  BY StepIsPledged
<1>6. UNCHANGED batchAllVars => UNCHANGED <<batch, reports, combined, stamped, Status>>
  BY DEF batchAllVars, batchVars, Status
<1>7. Told /\ TurnInv /\ SpiderInv /\ [BatchNext]_batchAllVars
        => [Pledge!Next]_<<batch, reports, combined, stamped, Status>>
  BY <1>5, <1>6 DEF PledgeStep
<1>8. BatchSpec => []TurnInv
  BY <1>2, <1>3, <1>4, BatchIsTold, PTL DEF BatchSpec
<1> QED
  BY <1>1, <1>7, <1>8, BatchIsTold, SpiderHolds, PTL
  DEF BatchSpec, KeepsBatchPromise, Pledge!Spec, Pledge!pledgeVars

-----------------------------------------------------------------------------
(* What the promise means, without the steps of the code.                  *)

Names == {s.name : s \in ToSet(batch.sources) \cup ToSet(batch.roster)}
Report == [name: Names, count: Nat \cup {Nil}]

LEMMA ReportedOfNone == Reported(<<>>) = 0
<1> DEFINE r == [name |-> "", count |-> Nil]
<1>1. <<>> \in Seq({r}) /\ r \in {r}
  OBVIOUS
<1> QED BY <1>1, ReportedAppends

(* What was asked and answered so far, as the promise alone has it.        *)
Owed ==
  /\ batch \in Batches
  /\ reports \in Seq(Report) /\ combined \in Seq(Pages)
  /\ \A i \in 1..Len(Enabled) : i <= Len(reports) => reports[i].name = Enabled[i].name
  /\ \A d \in stamped : \E i \in 1..Len(reports) :
        i > Len(Enabled) /\ reports[i].name = d /\ reports[i].count # Nil
  /\ Enabled # <<>> => Len(combined) = Reported(reports)
  /\ Status = "done" => Len(Enabled) <= Len(reports)

(* Whose turn it is.                                                       *)
LEMMA TurnIsNext ==
  ASSUME Owed, Pledge!AskNext
  PROVE  /\ Pledge!Turn.name \in Names
         /\ Len(reports) + 1 <= Len(Enabled) => Pledge!Turn.name = Enabled[Len(reports) + 1].name
         /\ Pledge!OfRoster => Len(reports) + 1 > Len(Enabled)
<1> DEFINE n == Len(reports) + 1
<1>1. /\ Pledge!Sources = [i \in 1..Len(Enabled) |-> Ask(batch, Enabled[i])]
      /\ Pledge!Roster = [i \in 1..Len(Uncovered) |-> Ask(batch, Uncovered[i])]
      /\ Len(Pledge!Sources) = Len(Enabled) /\ Len(Pledge!Roster) = Len(Uncovered)
      /\ Len(Enabled) \in Nat /\ Len(Uncovered) \in Nat
  BY AskedIs DEF Owed
<1>2. /\ Enabled \in Seq(ToSet(batch.sources)) /\ Uncovered \in Seq(ToSet(batch.roster))
      /\ Len(reports) \in Nat
  BY SourcesAreTyped DEF Owed
<1>3. Len(reports) < Len(Enabled) + Len(Uncovered)
  BY <1>1 DEF Pledge!AskNext
<1>4. CASE n <= Len(Enabled)
  <2>1. n \in 1..Len(Enabled) /\ ~ (Len(reports) >= Len(Pledge!Sources))
    BY <1>1, <1>2, <1>4
  <2>2. Pledge!Turn = Pledge!Sources[n] /\ ~ Pledge!OfRoster
    BY <2>1 DEF Pledge!Turn, Pledge!OfRoster
  <2>3. Pledge!Sources[n] = Ask(batch, Enabled[n]) /\ Enabled[n] \in ToSet(batch.sources)
    BY <1>1, <1>2, <2>1
  <2>4. Pledge!Turn.name = Enabled[n].name
    BY <2>2, <2>3 DEF Ask
  <2>5. Pledge!Turn.name \in Names
    BY <2>3, <2>4 DEF Names
  <2> QED BY <2>2, <2>4, <2>5
<1>5. CASE n > Len(Enabled)
  <2>1. Len(reports) >= Len(Pledge!Sources) /\ n - Len(Enabled) \in 1..Len(Uncovered)
    BY <1>1, <1>2, <1>3, <1>5
  <2>2. Pledge!Turn = Pledge!Roster[n - Len(Enabled)]
    BY <1>1, <2>1 DEF Pledge!Turn, Pledge!OfRoster
  <2>3. /\ Pledge!Roster[n - Len(Enabled)] = Ask(batch, Uncovered[n - Len(Enabled)])
        /\ Uncovered[n - Len(Enabled)] \in ToSet(batch.roster)
    BY <1>1, <1>2, <2>1
  <2>4. Pledge!Turn.name \in Names
    BY <2>2, <2>3 DEF Ask, Names
  <2> QED BY <1>1, <1>2, <1>5, <2>4
<1> QED BY <1>1, <1>2, <1>4, <1>5

(* One more of them was asked: what the reports told stays true of them.   *)
LEMMA OwedAppends ==
  ASSUME Owed, Pledge!AskNext, NEW c \in Nat \cup {Nil},
         reports' = Append(reports, [name |-> Pledge!Turn.name, count |-> c]),
         combined' \in Seq(Pages),
         Enabled # <<>> => Len(combined') = Len(combined) + (IF c = Nil THEN 0 ELSE c),
         stamped' = stamped \/ (/\ Pledge!OfRoster /\ c # Nil
                                /\ stamped' = stamped \cup {Pledge!Turn.name})
  PROVE  Owed'
<1> DEFINE r == [name |-> Pledge!Turn.name, count |-> c]
           n == Len(reports) + 1
<1>1. UNCHANGED batch /\ Status' = Status /\ Status = "open"
  BY DEF Pledge!AskNext
<1>2. Enabled' = Enabled /\ Names' = Names /\ Report' = Report
  BY <1>1 DEF Enabled, Names, Report
<1>3. /\ r.name \in Names /\ r \in Report /\ r.count = c
      /\ n <= Len(Enabled) => r.name = Enabled[n].name
      /\ Pledge!OfRoster => n > Len(Enabled)
  BY TurnIsNext DEF Report
<1> HIDE DEF r
<1>4. /\ reports \in Seq(Report) /\ reports' = Append(reports, r)
      /\ r.name = Pledge!Turn.name
  BY DEF Owed, r
<1>5. /\ reports' \in Seq(Report) /\ Len(reports') = n /\ n \in Nat /\ Len(reports) \in Nat
      /\ reports'[n] = r /\ \A i \in 1..Len(reports) : reports'[i] = reports[i]
  BY <1>3, <1>4
<1>6. Len(Enabled) \in Nat
  BY AskedIs DEF Owed
<1>7. \A i \in 1..Len(Enabled) : i <= Len(reports') => reports'[i].name = Enabled[i].name
  <2> SUFFICES ASSUME NEW i \in 1..Len(Enabled), i <= n PROVE reports'[i].name = Enabled[i].name
    BY <1>5
  <2>1. CASE i = n
    BY <1>3, <1>5, <1>6, <2>1
  <2>2. CASE i # n
    <3>1. i \in 1..Len(reports) /\ i <= Len(reports)
      BY <1>5, <1>6, <2>2
    <3> QED BY <1>5, <3>1 DEF Owed
  <2> QED BY <2>1, <2>2
<1>8. \A d \in stamped' : \E i \in 1..Len(reports') :
        i > Len(Enabled) /\ reports'[i].name = d /\ reports'[i].count # Nil
  <2> SUFFICES ASSUME NEW d \in stamped'
               PROVE  \E i \in 1..n : i > Len(Enabled) /\ reports'[i].name = d /\ reports'[i].count # Nil
    BY <1>5
  <2>1. CASE d \in stamped
    <3>1. PICK i \in 1..Len(reports) :
            i > Len(Enabled) /\ reports[i].name = d /\ reports[i].count # Nil
      BY <2>1 DEF Owed
    <3>2. i \in 1..n
      BY <1>5
    <3> QED BY <1>5, <3>1, <3>2
  <2>2. CASE d \notin stamped
    <3>1. Pledge!OfRoster /\ c # Nil /\ d = Pledge!Turn.name
      BY <2>2
    <3>2. n \in 1..n
      BY <1>5
    <3> QED BY <1>3, <1>4, <1>5, <3>1, <3>2
  <2> QED BY <2>1, <2>2
<1>9. Enabled # <<>> => Len(combined') = Reported(reports')
  <2>1. Reported(Append(reports, r)) = Reported(reports) + (IF r.count = Nil THEN 0 ELSE r.count)
    BY <1>3, <1>4, ReportedAppends
  <2>2. Enabled # <<>> => Len(combined) = Reported(reports)
    BY DEF Owed
  <2> QED BY <1>3, <1>4, <2>1, <2>2
<1>10. batch \in Batches
  BY DEF Owed
<1>11. Owed' <=> /\ batch' \in Batches
                 /\ reports' \in Seq(Report') /\ combined' \in Seq(Pages)
                 /\ \A i \in 1..Len(Enabled') : i <= Len(reports') => reports'[i].name = Enabled'[i].name
                 /\ \A d \in stamped' : \E i \in 1..Len(reports') :
                       i > Len(Enabled') /\ reports'[i].name = d /\ reports'[i].count # Nil
                 /\ Enabled' # <<>> => Len(combined') = Reported(reports')
                 /\ Status' = "done" => Len(Enabled') <= Len(reports')
  BY DEF Owed
<1> QED BY <1>1, <1>2, <1>5, <1>7, <1>8, <1>9, <1>10, <1>11

(* The pages of one answer.                                                *)
LEMMA HarvestIsList ==
  ASSUME NEW limit, NEW got \in Pledge!Harvest(limit)
  PROVE  got \in Seq(Pages) /\ Len(got) \in Nat
<1>1. PICK n \in 0..limit : got \in [1..n -> Pages]
  BY DEF Pledge!Harvest
<1>2. n \in Nat
  BY <1>1
<1>3. got \in Seq(Pages)
  BY <1>1, <1>2
<1> QED BY <1>3

LEMMA OwedStands ==
  ASSUME Owed, UNCHANGED <<batch, reports, stamped>>, combined' \in Seq(Pages),
         Enabled # <<>> => combined' = combined,
         Status' = "done" => Status = "done" \/ Len(Enabled) <= Len(reports)
  PROVE  Owed'
<1>1. Enabled' = Enabled /\ Names' = Names /\ Report' = Report
  BY DEF Enabled, Names, Report
<1>2. Reported(reports') = Reported(reports)
  OBVIOUS
<1>3. Owed' <=> /\ batch' \in Batches
                /\ reports' \in Seq(Report') /\ combined' \in Seq(Pages)
                /\ \A i \in 1..Len(Enabled') : i <= Len(reports') => reports'[i].name = Enabled'[i].name
                /\ \A d \in stamped' : \E i \in 1..Len(reports') :
                      i > Len(Enabled') /\ reports'[i].name = d /\ reports'[i].count # Nil
                /\ Enabled' # <<>> => Len(combined') = Reported(reports')
                /\ Status' = "done" => Len(Enabled') <= Len(reports')
  BY DEF Owed
<1> QED BY <1>1, <1>2, <1>3 DEF Owed

LEMMA OwedStep == ASSUME Owed, PledgeStep PROVE Owed'
<1>1. CASE Pledge!Answer
  <2>1. PICK got \in Pledge!Harvest(Pledge!Turn.limit) :
          /\ reports' = Append(reports, [name |-> Pledge!Turn.name, count |-> Len(got)])
          /\ combined' = combined \o got
    BY <1>1 DEF Pledge!Answer
  <2>2. got \in Seq(Pages) /\ Len(got) \in Nat
    BY HarvestIsList
  <2>3. combined \in Seq(Pages)
    BY DEF Owed
  <2>4. combined' \in Seq(Pages) /\ Len(combined') = Len(combined) + Len(got)
    BY <2>1, <2>2, <2>3
  <2>5. Pledge!AskNext /\ (stamped' = stamped \/ (Pledge!OfRoster /\ stamped' = stamped \cup {Pledge!Turn.name}))
    BY <1>1 DEF Pledge!Answer
  <2>6. Len(got) # Nil
    BY <2>2, CrawlAssumption
  <2> QED BY <2>1, <2>2, <2>4, <2>5, <2>6, OwedAppends
<1>2. CASE Pledge!Fail
  <2>1. /\ Pledge!AskNext /\ stamped' = stamped /\ combined' = combined
        /\ reports' = Append(reports, [name |-> Pledge!Turn.name, count |-> Nil])
    BY <1>2 DEF Pledge!Fail
  <2>2. combined' \in Seq(Pages) /\ Len(combined') = Len(combined) + 0
    BY <2>1 DEF Owed
  <2> QED BY <2>1, <2>2, OwedAppends
<1>3. CASE Pledge!Alone
  <2>1. Enabled = <<>>
    BY <1>3, AskedIs DEF Pledge!Alone, Pledge!Unasked, Owed
  <2>2. combined' \in Seq(Pages)
    BY <1>3, HarvestIsList DEF Pledge!Alone
  <2> QED BY <1>3, <2>1, <2>2, OwedStands DEF Pledge!Alone
<1>4. CASE Pledge!Raise
  BY <1>4, OwedStands DEF Pledge!Raise, Owed
<1>5. CASE Pledge!End
  <2>1. Len(reports) \in {Len(Enabled), Len(Enabled) + Len(Uncovered)}
    BY <1>5, AskedIs DEF Pledge!End, Owed
  <2>2. Len(Enabled) <= Len(reports)
    BY <2>1, AskedIs DEF Owed
  <2> QED BY <1>5, <2>2, OwedStands DEF Pledge!End, Owed
<1>6. CASE UNCHANGED <<batch, reports, combined, stamped, Status>>
  BY <1>6, OwedStands DEF Owed
<1> QED BY <1>1, <1>2, <1>3, <1>4, <1>5, <1>6 DEF PledgeStep, Pledge!Next

\* What the promise means: whoever keeps it, for one of the batches, has asked every enabled
\* source when it is done, in order, has noted no site that did not answer, and holds as many
\* items as were reported (crawl_all_sources in pipeline.py).
THEOREM PromiseMeansAllReported == batch \in Batches /\ KeepsBatchPromise => []EverySourceReported
<1>1. batch \in Batches /\ Pledge!Init => Owed
  <2> SUFFICES ASSUME batch \in Batches, Pledge!Init PROVE Owed
    OBVIOUS
  <2>1. reports = <<>> /\ combined = <<>> /\ stamped = {} /\ Status = "open"
    BY DEF Pledge!Init
  <2>2. <<>> \in Seq(Report) /\ <<>> \in Seq(Pages)
    OBVIOUS
  <2>3. Len(Enabled) \in Nat
    BY AskedIs
  <2>4. Reported(<<>>) = 0
    BY <2>2, ReportedOfNone
  <2> QED BY <2>1, <2>2, <2>3, <2>4 DEF Owed
<1>2. Owed /\ [Pledge!Next]_<<batch, reports, combined, stamped, Status>> => Owed'
  BY OwedStep DEF PledgeStep
<1>3. Owed => EverySourceReported
  BY DEF Owed, EverySourceReported, Status
<1> QED BY <1>1, <1>2, <1>3, PTL DEF KeepsBatchPromise, Pledge!Spec, Pledge!pledgeVars
=============================================================================

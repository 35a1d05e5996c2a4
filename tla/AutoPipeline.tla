---------------------------- MODULE AutoPipeline ----------------------------
(***************************************************************************)
(* A crawl job (cpost/webui/routers/crawl.py): the batch of crawled items  *)
(* is deduplicated and built into packages (run_pipeline), and, if the     *)
(* auto mode is on, every built package is drafted, then every draft is    *)
(* verified, then every verified one is published (run_auto_pipeline).     *)
(* An item that fails a stage leaves the batch and the rest goes on; each  *)
(* draft, verify and publish run of an item is retried.  A package is      *)
(* built from several files that are never overwritten, and it outlives    *)
(* the job: the next crawl finds it as the last one left it.               *)
(*                                                                         *)
(* The steps of one publish run are the subject of PublishRunner; here a   *)
(* run is one step with its possible outcomes.                             *)
(***************************************************************************)
EXTENDS Naturals, Sequences

CONSTANTS
  Packages,    \* package folders, named by publication date and URL
  Urls,        \* canonical URLs
  UrlOf,       \* the URL of a package: a page without a date has one a day
  Texts,       \* what a crawl may find at a URL
  Jobs,        \* job threads
  None,        \* no such file
  Times,       \* attempts of _retry: 3
  MaxItems,    \* bound: items of a batch
  MaxFaults,   \* bound: exceptions
  MaxStops     \* bound: jobs that die or abort

VARIABLES
  caption,     \* caption.txt of each package
  manifest,    \* its manifest.json: body and backend.status
  row,         \* the status in each URL's state row
  drafts,      \* how many drafts of a package the backend was given
  posts,       \* how many of its drafts went live
  noted,       \* the WebUI knows that the login session has expired
  pc,          \* where each job is
  job,         \* what each job holds in memory
  faults,      \* exceptions so far
  stops        \* jobs that died so far

packages == <<caption, manifest>>
outside  == <<row, drafts, posts>>
budget   == <<faults, stops>>
vars     == <<caption, manifest, row, drafts, posts, noted, pc, job, faults, stops>>

Record   == [pkg : Packages, text : Texts]
Status   == {"package_built", "drafted", "draft_verified", "published"}
Manifest == [body : Texts, status : Status]
Stages   == {"dedupe", "build", "draft", "verify", "publish"}
Labels   == {"idle", "guard", "manifest", "save"} \cup Stages

ASSUME PipelineAssumption ==
  /\ UrlOf \in [Packages -> Urls]
  /\ None \notin Texts \cup Manifest
  /\ Times \in Nat \ {0}
  /\ MaxItems \in Nat /\ MaxFaults \in Nat /\ MaxStops \in Nat

\* todo: the stage's items; kept: those that passed it; tries: attempts of the
\* item in hand; expired: one of them found the login session expired.
Job  == [todo : Seq(Record), kept : Seq(Record), mem : Manifest \cup {None},
         stage : Stages, tries : Nat, expired : BOOLEAN]
Free == [todo |-> <<>>, kept |-> <<>>, mem |-> None, stage |-> "dedupe",
         tries |-> 0, expired |-> FALSE]

Item(w)  == Head(job[w].todo)
Pkg(w)   == Item(w).pkg
Url(w)   == UrlOf[Pkg(w)]
Stage(w) == job[w].stage

Control(w) ==
  /\ pc[w] \in Stages => pc[w] = Stage(w)
  /\ pc[w] \in {"guard", "manifest"} => Stage(w) = "build" /\ job[w].todo # <<>>
  /\ pc[w] = "save" => Stage(w) \in {"draft", "verify"} /\ job[w].todo # <<>> /\ job[w].mem # None

TypeOK ==
  /\ caption \in [Packages -> Texts \cup {None}]
  /\ manifest \in [Packages -> Manifest \cup {None}]
  /\ row \in [Urls -> {"free", "publishing", "published"}]
  /\ drafts \in [Packages -> Nat] /\ posts \in [Packages -> Nat]
  /\ noted \in BOOLEAN
  /\ pc \in [Jobs -> Labels] /\ job \in [Jobs -> Job]
  /\ \A w \in Jobs : Control(w)
  /\ faults \in Nat /\ stops \in Nat

Init ==
  /\ caption = [p \in Packages |-> None] /\ manifest = [p \in Packages |-> None]
  /\ row = [u \in Urls |-> "free"]
  /\ drafts = [p \in Packages |-> 0] /\ posts = [p \in Packages |-> 0]
  /\ noted = FALSE
  /\ pc = [w \in Jobs |-> "idle"] /\ job = [w \in Jobs |-> Free]
  /\ faults = 0 /\ stops = 0

-----------------------------------------------------------------------------
(* Control of one job.                                                      *)

Fault == faults < MaxFaults /\ faults' = faults + 1

At(w, l) == pc[w] = l
Goto(w, l) == pc' = [pc EXCEPT ![w] = l]
Hold(w, j) == job' = [job EXCEPT ![w] = j]
Finish(w)  == Goto(w, "idle") /\ Hold(w, Free)

\* There is an item left at the stage's loop.
AtItem(w, l) == At(w, l) /\ job[w].todo # <<>>

\* The loop goes on to the next item, with or without the one in hand.
Advance(w, kept) ==
  /\ Goto(w, Stage(w))
  /\ Hold(w, [job[w] EXCEPT !.todo = Tail(job[w].todo), !.kept = kept, !.mem = None,
                             !.tries = 0, !.expired = FALSE])
Drop(w) == Advance(w, job[w].kept)
Keep(w) == Advance(w, Append(job[w].kept, Item(w)))

\* Mutant of EndStage: the job is not told which stage it has reached.
EndStageUntold(w, from, to) ==
  /\ At(w, from) /\ job[w].todo = <<>>
  /\ Goto(w, to)
  /\ Hold(w, [job[w] EXCEPT !.todo = job[w].kept, !.kept = <<>>])
  /\ UNCHANGED <<packages, outside, noted, budget>>

\* The end of a stage's loop: what passed is the next stage's list.
EndStage(w, from, to) ==
  /\ At(w, from) /\ job[w].todo = <<>>
  /\ Goto(w, to)
  /\ Hold(w, [job[w] EXCEPT !.todo = job[w].kept, !.kept = <<>>, !.stage = to])
  /\ UNCHANGED <<packages, outside, noted, budget>>

\* A job starts with what it crawled and could normalize.
Crawl(w) ==
  /\ At(w, "idle")
  /\ Goto(w, "dedupe")
  /\ \E n \in 1..MaxItems : \E items \in [1..n -> Record] :
       Hold(w, [Free EXCEPT !.todo = items])
  /\ UNCHANGED <<packages, outside, noted, budget>>

-----------------------------------------------------------------------------
(* run_pipeline.                                                            *)

\* dedupe: only a published URL is skipped.
Dedupe(w) ==
  /\ AtItem(w, "dedupe")
  /\ IF row[Url(w)] = "published" THEN Drop(w) ELSE Keep(w)
  /\ UNCHANGED <<packages, outside, noted, budget>>

DedupeEnd(w) == EndStage(w, "dedupe", "build")

\* Mutant of Guard: a package that exists is taken for the item's.
GuardNothing(w) ==
  /\ AtItem(w, "build")
  /\ Goto(w, "guard")
  /\ UNCHANGED <<packages, outside, noted, job, budget>>

\* _guard_no_silent_overwrite: a package of other content is refused.
Guard(w) ==
  /\ AtItem(w, "build")
  /\ IF manifest[Pkg(w)] # None /\ manifest[Pkg(w)].body # Item(w).text
     THEN Drop(w)
     ELSE Goto(w, "guard") /\ UNCHANGED job
  /\ UNCHANGED <<packages, outside, noted, budget>>

\* write_text_no_overwrite: a file that exists is left as it is.
WriteCaption(w) ==
  /\ At(w, "guard")
  /\ Goto(w, "manifest")
  /\ caption' = [caption EXCEPT ![Pkg(w)] = IF @ = None THEN Item(w).text ELSE @]
  /\ UNCHANGED <<manifest, outside, noted, job, budget>>

\* Mutant of WriteManifest: the skeleton replaces a manifest that exists.
WriteManifestOver(w) ==
  /\ At(w, "manifest")
  /\ manifest' = [manifest EXCEPT ![Pkg(w)] = [body |-> Item(w).text, status |-> "package_built"]]
  /\ Keep(w)
  /\ UNCHANGED <<caption, outside, noted, budget>>

NewManifest(w) ==
  manifest' = [manifest EXCEPT ![Pkg(w)] =
                 IF @ = None THEN [body |-> Item(w).text, status |-> "package_built"] ELSE @]

WriteManifest(w) ==
  /\ At(w, "manifest")
  /\ NewManifest(w)
  /\ Keep(w)
  /\ UNCHANGED <<caption, outside, noted, budget>>

\* Building an item fails, at one of its files or at the audit line after them:
\* it is recorded and the batch goes on.
BuildFails(w) ==
  /\ pc[w] \in {"guard", "manifest"}
  /\ Fault
  /\ \/ UNCHANGED manifest
     \/ At(w, "manifest") /\ NewManifest(w)
  /\ Drop(w)
  /\ UNCHANGED <<caption, outside, noted, stops>>

\* The auto mode goes on with what was built; otherwise the job is done.
BuildEnd(w) == EndStage(w, "build", "draft")

BuildOnly(w) ==
  /\ At(w, "build") /\ job[w].todo = <<>>
  /\ Finish(w)
  /\ UNCHANGED <<packages, outside, noted, budget>>

-----------------------------------------------------------------------------
(* run_auto_pipeline: one attempt of a runner, and _retry around it.        *)

Before(s) == IF s = "draft" THEN "package_built" ELSE "drafted"
After(s)  == IF s = "draft" THEN "drafted" ELSE "draft_verified"

\* Mutant of Retry: the item counts as passed once its attempts are used up.
RetryKeeps(w, expiry) ==
  IF job[w].tries + 1 < Times
  THEN /\ Goto(w, Stage(w))
       /\ Hold(w, [job[w] EXCEPT !.tries = job[w].tries + 1, !.mem = None])
       /\ UNCHANGED noted
  ELSE /\ Keep(w)
       /\ noted' = (noted \/ expiry)

\* The runner raised: it is called again, or the item has failed the stage and
\* its last exception tells whether the session has expired.
Retry(w, expiry) ==
  IF job[w].tries + 1 < Times
  THEN /\ Goto(w, Stage(w))
       /\ Hold(w, [job[w] EXCEPT !.tries = job[w].tries + 1, !.mem = None,
                                  !.expired = job[w].expired \/ expiry])
       /\ UNCHANGED noted
  ELSE /\ Drop(w)
       /\ noted' = (noted \/ expiry)

\* require_status refuses a package that is not where the stage starts from.
WrongStatus(w, s) ==
  /\ AtItem(w, s)
  /\ manifest[Pkg(w)].status # Before(s)
  /\ Retry(w, FALSE)
  /\ UNCHANGED <<packages, outside, budget>>

\* The browser fails; a draft may have been saved on the backend by then.
BrowserFails(w, s) ==
  /\ AtItem(w, s)
  /\ manifest[Pkg(w)].status = Before(s)
  /\ Fault
  /\ \E expiry \in BOOLEAN : Retry(w, expiry)
  /\ \/ UNCHANGED drafts
     \/ s = "draft" /\ drafts' = [drafts EXCEPT ![Pkg(w)] = @ + 1]
  /\ UNCHANGED <<packages, row, posts, stops>>

\* The runner holds the manifest it will write back.
Ready(w, s) ==
  /\ AtItem(w, s)
  /\ manifest[Pkg(w)].status = Before(s)
  /\ Goto(w, "save")
  /\ Hold(w, [job[w] EXCEPT !.mem = [manifest[Pkg(w)] EXCEPT !.status = After(s)]])

\* Mutant of Draft: the form is filled and not saved.
DraftUnsaved(w) ==
  /\ Ready(w, "draft")
  /\ UNCHANGED <<packages, outside, noted, budget>>

Draft(w) ==
  /\ Ready(w, "draft")
  /\ drafts' = [drafts EXCEPT ![Pkg(w)] = @ + 1]
  /\ UNCHANGED <<packages, row, posts, noted, budget>>

Verify(w) ==
  /\ Ready(w, "verify")
  /\ UNCHANGED <<packages, outside, noted, budget>>

\* manifest.save; draft and verify then append to the audit log and are recorded.
Save(w) ==
  /\ At(w, "save")
  /\ manifest' = [manifest EXCEPT ![Pkg(w)] = job[w].mem]
  /\ Keep(w)
  /\ UNCHANGED <<caption, outside, noted, budget>>

\* The save raises, or, once it is made, the audit line after it.
SaveFails(w) ==
  /\ At(w, "save")
  /\ Fault
  /\ \E saved \in BOOLEAN :
       manifest' = IF saved THEN [manifest EXCEPT ![Pkg(w)] = job[w].mem] ELSE manifest
  /\ Retry(w, FALSE)
  /\ UNCHANGED <<caption, outside, stops>>

DraftEnd(w)  == EndStage(w, "draft", "verify")
VerifyEnd(w) == EndStage(w, "verify", "publish")

-----------------------------------------------------------------------------
(* The publish stage: one run of publish-post, by its outcome.              *)

\* reviewed.mark fails: the item fails the stage without an attempt.
MarkFails(w) ==
  /\ AtItem(w, "publish") /\ job[w].tries = 0
  /\ Fault
  /\ Drop(w)
  /\ UNCHANGED <<packages, outside, noted, stops>>

\* The post is live already, by the manifest or by the row.
Live(w) ==
  /\ AtItem(w, "publish")
  /\ manifest[Pkg(w)].status = "published" \/ row[Url(w)] = "published"

Publishable(w) ==
  /\ AtItem(w, "publish")
  /\ manifest[Pkg(w)].status = "draft_verified" /\ row[Url(w)] = "free"

Book(w, r) ==
  /\ manifest' = [manifest EXCEPT ![Pkg(w)].status = "published"]
  /\ row' = [row EXCEPT ![Url(w)] = r]

Publish(w) ==
  /\ Publishable(w)
  /\ posts' = [posts EXCEPT ![Pkg(w)] = @ + 1]
  /\ Book(w, "published") /\ Keep(w)
  /\ UNCHANGED <<caption, drafts, noted, budget>>

\* Nothing is clicked: only the stores are completed.
ForwardComplete(w) ==
  /\ Live(w)
  /\ Book(w, "published") /\ Keep(w)
  /\ UNCHANGED <<caption, drafts, posts, noted, budget>>

\* Neither live nor publishable: a reservation stands, or the status is wrong.
PublishRefuses(w) ==
  /\ AtItem(w, "publish") /\ ~ Live(w) /\ ~ Publishable(w)
  /\ Retry(w, FALSE)
  /\ UNCHANGED <<packages, outside, budget>>

\* The run fails at the browser, after its reservation: the session has expired,
\* or the click, made or not, is not confirmed.
PublishFails(w) ==
  /\ Publishable(w)
  /\ Fault
  /\ row' = [row EXCEPT ![Url(w)] = "publishing"]
  /\ \/ Retry(w, TRUE) /\ UNCHANGED posts
     \/ /\ Retry(w, FALSE)
        /\ \E n \in {0, 1} : posts' = [posts EXCEPT ![Pkg(w)] = @ + n]
  /\ UNCHANGED <<packages, drafts, stops>>

\* The post is live and the manifest says so; the bookkeeping after it raises,
\* before or after the row was marked.
BookingFails(w) ==
  /\ Fault
  /\ \/ Live(w) /\ UNCHANGED posts /\ \E r \in {row[Url(w)], "published"} : Book(w, r)
     \/ /\ Publishable(w)
        /\ posts' = [posts EXCEPT ![Pkg(w)] = @ + 1]
        /\ \E r \in {"publishing", "published"} : Book(w, r)
  /\ Retry(w, FALSE)
  /\ UNCHANGED <<caption, drafts, stops>>

PublishEnd(w) ==
  /\ At(w, "publish") /\ job[w].todo = <<>>
  /\ Finish(w)
  /\ UNCHANGED <<packages, outside, noted, budget>>

\* The server ends, or a write that no stage guards (record_run) raises.
Stop(w) ==
  /\ ~ At(w, "idle")
  /\ stops < MaxStops /\ stops' = stops + 1
  /\ Finish(w)
  /\ UNCHANGED <<packages, outside, noted, faults>>

-----------------------------------------------------------------------------

BuildStep(w) ==
  \/ Dedupe(w) \/ DedupeEnd(w) \/ Guard(w) \/ WriteCaption(w) \/ WriteManifest(w)
  \/ BuildFails(w) \/ BuildEnd(w) \/ BuildOnly(w)

AutoStep(w) ==
  \/ \E s \in {"draft", "verify"} : WrongStatus(w, s) \/ BrowserFails(w, s)
  \/ Draft(w) \/ Verify(w) \/ Save(w) \/ SaveFails(w) \/ DraftEnd(w) \/ VerifyEnd(w)
  \/ MarkFails(w) \/ Publish(w) \/ ForwardComplete(w) \/ PublishRefuses(w)
  \/ PublishFails(w) \/ BookingFails(w) \/ PublishEnd(w)

Next == \E w \in Jobs : Crawl(w) \/ BuildStep(w) \/ AutoStep(w) \/ Stop(w)

Spec == Init /\ [][Next]_vars

-----------------------------------------------------------------------------
(* Properties.                                                              *)

\* What a job reports as published (pipeline.py:504-514) is live, under its own or
\* a mirror's post, and recorded, so that no later crawl gets past the dedupe.
OkIsLive ==
  \A w \in Jobs : \A i \in DOMAIN job[w].kept :
    Stage(w) = "publish" =>
      LET u == UrlOf[job[w].kept[i].pkg]
      IN  row[u] = "published" /\ \E p \in Packages : UrlOf[p] = u /\ posts[p] > 0

\* A package says that it has a draft only if one was created, whatever retries,
\* aborted jobs and earlier crawls came between (draft_post.py:49-56).
StatusHasDraft ==
  \A p \in Packages : manifest[p] # None /\ manifest[p].status # "package_built" => drafts[p] > 0

\* "silently dropping this record" (build_manifest.py:125-127, R1) never happens: an
\* item that counts as built is what its package holds and will publish.
BuiltIsOwnContent ==
  \A w \in Jobs : \A i \in DOMAIN job[w].kept :
    Stage(w) # "dedupe" => LET r == job[w].kept[i]
                           IN  manifest[r.pkg] # None /\ manifest[r.pkg].body = r.text

Rank == [package_built |-> 1, drafted |-> 2, draft_verified |-> 3, published |-> 4]

\* Crawling a page again never sets its package back or replaces what it says
\* (build_manifest.py:110-111, R5).
NeverSetBack ==
  [][\A p \in Packages : manifest[p] # None =>
       /\ manifest'[p] # None /\ manifest'[p].body = manifest[p].body
       /\ Rank[manifest'[p].status] >= Rank[manifest[p].status]]_vars

\* A package is of one piece: the text the WebUI shows is the body it publishes
\* (no "OLD files" under "a green status", build_manifest.py:70-73).
OneCrawlPerPackage == \A p \in Packages : manifest[p] # None => caption[p] = manifest[p].body

\* "on_session_expired(cfg) -- called on SessionExpiredError" (pipeline.py:372): an
\* item that is dropped after an attempt found the session expired is noted.
ExpiryIsNoted ==
  [][\A w \in Jobs : job[w].expired /\ Len(job'[w].todo) < Len(job[w].todo)
       /\ Len(job'[w].kept) = Len(job[w].kept) /\ pc'[w] # "idle" => noted']_vars
=============================================================================

# Verification of local-crawl-post-factory (`cpost`)

TLA+ modules of the parts of `cpost` that hold state which several runs, requests, threads or crashes
can get between, TLC configurations that check them on small instances, and theorems about them with
proofs checked by TLAPS.  Paths below are relative to `src/` and written without it.

- [1. The system](#1-the-system)
- [2. The modules](#2-the-modules)
- [3. The runs](#3-the-runs)
- [4. The theorems](#4-the-theorems)
- [5. Disagreements between the code and what it says](#5-disagreements-between-the-code-and-what-it-says)
- [6. What is not modelled](#6-what-is-not-modelled)
- [7. Plan](#7-plan)
- [8. Running it](#8-running-it)

## 1. The system

`cpost` crawls sites, turns what it finds into *packages* (directories of files) and publishes them
through a backend that has no API: a browser fills in a form, saves a draft, searches for it, and
finally clicks "publish".  Nothing in it is a server with a database of its own: the state is spread
over JSON files, a SQLite file, a JSON-lines log, an in-memory job registry and the backend, none of
which share a transaction, and three kinds of process work on it: command line tools, request threads
of the WebUI and background job threads (also of the WebUI).

| Component (source under `cpost/`) | State | Operations | Correct when |
|---|---|---|---|
| **Publish runner** `cli/publish_post.py` | manifest, state row, receipt, run table, audit log, the backend's posts | publish, forward-complete, bookkeeping tail, refusal and the operator's two answers to it | a URL is posted at most once per release; nothing claims a publication that never happened; a post always leaves a mark a later run finds; every run ends |
| **State store** `core/state.py` | `items`: status and `published_url` per canonical URL | `upsert`, `is_processed`, `is_publishing`, `reset_for_republish` | a known `published_url` is never lost, a reservation protects its click |
| **Backend driver** `browser/backend_driver.py` | the backend's drafts and posts | create draft, verify draft, publish draft, each under `_run_with_retry` | a retry does not repeat what took effect |
| **Draft and verify** `cli/draft_post.py`, `cli/verify_draft.py` | manifest | load, browser step, whole-manifest save | a status that says "draft" has a draft |
| **Package content and review gate** `webui/routers/packages.py`, `core/reviewed.py`, `core/manifest.py` | manifest, `caption.txt`, reviewed marker | view, edit, generate, rollback | what is shown is what is reviewed is what is published |
| **WebUI actions** `webui/routers/actions.py`, `webui/_helpers.py` | none of its own; submits jobs | the publish gates, draft, verify, publish, bulk delete | the gates still hold when the job runs |
| **Job registry** `core/jobs.py` | `_JOBS` in memory, under a lock | submit, run, end, get, prune | an active job is never dropped; the registry is bounded |
| **Pipeline** `core/pipeline.py`, `core/runs.py`, `cli/build_manifest.py`, `cli/dedupe_posts.py`, `webui/routers/crawl.py`, `webui/_auto_pipeline.py` | a batch in memory; packages, state rows, run table | dedupe, build, draft, verify, publish stages, `_retry` | what is reported published is live; a package holds its own item; a package is never set back |
| **Crawl process** `cli/crawl_posts.py` | a Scrapy child process, its temporary directory | spawn, poll, deadline, grace, kill, read | what is returned is complete or an error; a crawl that ended in time keeps its results; the caller never hangs; no child and no file is left |
| **Crawl batch** `core/pipeline.py` | items so far, reports, what is left of the time | enabled sources, fallback, roster sites | one bad source never takes the others with it; the batch ends |
| **Schema migrations** `core/db.py` | the tables of one SQLite file and one table of versions | create, migrate, index | a version means that its columns are there; who gets the file can use it |
| **Trash** `webui/routers/trash.py`, part of `webui/_helpers.py` | package directories in the store and in the trash | delete, batch delete, restore, empty | a delete can be undone; nothing is mixed up |
| **Site roster** `core/site_roster.py`, `cli/health_check_sources.py`, `cli/discover_sources.py` | a row per domain: tier, mirror flag, counters | discover, assess, promote, retire, crawl | tiers are earned and follow the machine; no row is set back |
| **Scoop library** `core/library.py`, `core/cluster.py`, `core/scoring.py` and their commands | items, scoops, scores in SQLite | ingest, cluster, score | nothing known is lost; scoops partition the items; scores keep their meaning |
| **Generation track** `core/scoop_pipeline.py` | cached articles, packages | prep job, generation job | an article is of the scoop it is shown under; a rerun reuses it |
| **Gossip materials** `core/gossip_crawl.py`, `webui/routers/gossip_materials.py` | submitted URLs and their status | submit, crawl, delete | a status tells what is stored |
| **Settings** `core/webui_config.py`, `webui/routers/settings_auth.py` | `configs/webui.yaml` | form, add, edit, delete, toggle, batch add | a request changes what it was asked to and nothing else |
| **Login light** `browser/auth.py`, `cli/auth_login.py`, `webui/routers/_ctx.py` | storage state, the note of an expired session | login, note, light | the light tells whether the stored login was refused |
| **Audit log** `core/audit.py`, `cli/maintenance.py` | a JSON-lines file | append, purge (called by nothing) | - |
| **Normalize, render** `cli/normalize_items.py`, `cli/render_caption.py`, `core/url_utils.py`, ... | none | conversions of one record | unit tests |
| **External search, model client** `core/external_search.py`, `core/llm.py` | none | HTTP calls | - |
| **Pages** `webui/routers/{dashboard,history_audit,scoops,roster}.py`, `core/output_table.py` | none | reads, submission of jobs | - |
| **CLI plumbing** `core/cli.py`, `core/errors.py`, `core/io_ndjson.py` | none | exit codes, NDJSON | - |

### How they interact

    request threads ──(check gates, submit)──> job registry ──(thread)──> job
         │                                                                │
         │ view / edit / generate / rollback                              │ crawl job: pipeline stages
         ▼                                                                ▼
    manifest.json  caption.txt  reviewed marker  <──────── draft-post / verify-draft / publish-post
                                                                          │        │
                        state row, receipt, run table, audit log  <───────┘        ▼
                                                                           backend: drafts, posts

* Request threads and job threads call the same functions as the command line tools (`_auto_pipeline.py`
  and `actions.py` call the runners in process).
* A runner loads the whole manifest, works in the browser for seconds to minutes, and writes the whole
  manifest back; there is no lock on a package, and only the job registry has a lock at all.
* The state row, the receipt, the run record and the audit line are written one after the other, each in
  its own transaction.
* A crawl runs in a child process that hands its items over in files of a temporary directory; the batch of
  `crawl_all_sources` runs one after another and feeds the pipeline, the library's prep job and the roster.
* The library, the roster and the run history are SQLite files.  Each call of `library.py` or `site_roster.py` is
  a transaction of its own unless the caller hands it a connection, which the prep, generation and gossip jobs do.
* The settings file, the package directories and the login note have no lock at all: each request reads, thinks
  and replaces.

### What is hard

Steps of two actors between a check and its act; whole-file writes of stale copies; a crash between
the click, which cannot be undone, and the records of it; a retry of something that took effect; an
operator who answers a refusal while the world moves on; batches whose items share a URL; packages that
outlive the job that built them; a child process that hangs, dies or finishes just as its time is up; counters
and tiers written minutes after they were read; lists that are stale when they replace a table; one version
table for several schemas; directories that move while others hold their path.  `PROJECT.json` lists each hazard at its line with the properties that
are about it.

## 2. The modules

`X.tla` models a component, `MCX.tla` gives its constants small values.  `XProofs.tla` holds the theorems of `X`, `XPromise.tla` what `X` promises, abstractly; the theorems of the smaller components are
in `ComponentsProofs` (job registry, login light, settings, and the ten components of one run together), `LibraryProofs` (clusters, library and articles, scores), `StoreProofs` (schemas, trash), `RosterProofs` and `CrawlProofs`.
In each component module the sections are: constants, variables, `TypeOK` and `Init`; the control of
one worker; the actions in the order of the code; `Next` and `Spec`; the properties; the inductive
strengthenings.  Operators named "Mutant of A" stand before `A` and say what `A` would be with a plausible
bug; no specification uses them, they are there so that each property can be shown to fail.

### `PublishRunner` - the steps of a publish run

One action per read, write or click of `publish_post._run`, for any number of workers.  A worker's `job`
holds its local variables (the package, the manifest in memory, attempts left) and `pc` the next step.

| Module | Code |
|---|---|
| `StartCli`, `StartWeb`, `StartAuto` | the command line, `action_publish`, the publish stage of the pipeline |
| `Load`, `ForwardComplete`, `NotYetPublished`, `RefusePublishing`, `GateRefuses`, `GatesPass` | `publish_post.py:45-100`: each check is a transaction of its own |
| `Reserve` | `upsert(status="publishing")`, line 103 |
| `Click`, `Confirm`, `TryAgain`, `GiveUp` | `publish_draft` under `_run_with_retry`: the click takes effect before the success text is awaited |
| `Save`, `Mark`, `CheckReceipt` ... `Audit` | the durable-first save and the bookkeeping tail |
| `StartRollback`, `RollbackSave`, `RollbackReceipt`, `RollbackRow` | `rollback_package` |
| `Fail`, `Crash` | any step may raise, any process may die |
| `OperatorConfirmsLive`, `OperatorReleases` | the two answers the refusal's message tells the operator to give |

`clicks[u]` counts the clicks that took effect since `u` was last released; `posted` is what the backend
ever published.  What a package says is abstracted away: the comparison with the reviewed content may
refuse (`GateRefuses`).  Two packages may share a canonical URL (mirrors).

`PublishPromise` is what publishing promises for one URL: `free -> reserved -> posted -> recorded`, and back
to `free` only by a release.  `Phase` maps the state row and `clicks` to it; `KeepsPromise` says that
serial runs implement it.

### `ReviewGate` - what a package says and which of its versions goes live

The content of one package in its four places (`manifest`, `caption`, `reviewed`, `drafts`), and every handler
that reads or writes one: `package_detail`, `edit_package`, `generate_article`, `draft-post`, `verify-draft`,
`action_publish` with its gates and the job it submits, the auto pipeline's mark, `rollback_package`.
Each file that is replaced is one action (the writes are atomic renames); each handler holds the manifest that it
loaded (`job[w].mem`) and writes it back whole.  `May` says which handlers a worker runs.  A content-id is its
title and body; a `draft_url` is named by what the draft said when it was made, because the backend keeps it so.
The steps around the click are coarser than in `PublishRunner`: the row is read and reserved in one step,
and one worker publishes (`SolePublisher`); the races that this leaves out are those of `PublishRunner`.
`drafts` holds the titles of the backend's drafts, which is what a search finds them by.

`caption` and the manifest's body are written one after the other and undone in two different ways, with no lock, so that they do part in
the code.  Two history variables say where.  `overtaken` remembers the handlers since whose load of the manifest another one changed the body, or
was between its two writes (`Halfway`).  `texts` is "parted" from the steps that may part the two: an edit's undo, which removes the body; an end
between the two writes; a manifest written back by a handler that was overtaken.  It is "joined" again by the caption of an edit or a generation that was
not overtaken.  `CaptionIsBody` says that nothing else parts them, `ReviewIsWhatWasShown` that a page shows what its
marker names as long as they are joined and nobody overtakes the page between its two reads.  What the comments promise without these
conditions is in `InSync`, which the code violates (section 5).

`ReviewPromise` is what the review gate promises for one URL: a publication is granted for the content that the marker names at that
moment; a grant becomes a licence for one click only while the gate is open, which closes it; a click uses its licence up; and the gate opens
again only by a release, never under a licence.  `Granted` maps to it the content-ids of jobs past their gates, `Pending` the content of a run that is
about to click, `Gate` the state row; the promise knows no worker, handler or file.
`KeepsReviewPromise` says that pages and jobs that act at once implement it.

### `JobRegistry` - the WebUI's jobs

`Submit`, `Run`, `End`, `Get`, each one critical section, and `_prune_locked` as the set `Prune(R, at)` of the
registries it may leave: the jobs that expired go, then the oldest finished ones while there are too many.  Jobs
with equal finish times may go in either order.  `Run` does not prune, as in the code.

### `AutoPipeline` - crawl jobs over packages that outlive them

A job is a batch `todo` that a stage works through into `kept`, the next stage's list: `Dedupe`; `Guard`,
`WriteCaption`, `WriteManifest` (the build); `Draft`, `Verify`, `Save`; `Publish` and its outcomes.  `Retry` is
`_retry`: the item is attempted again or leaves the batch, and only its last exception tells whether the login session
expired.  `BuildFails`, `BrowserFails`, `SaveFails`, `MarkFails`, `PublishFails`, `BookingFails` are the failures of
each step, with all they may have done by then; `Stop` is the end of the server or an exception that no stage catches
(`record_run`).  A publish run is one action here, by its outcome (`PublishRunner` has its steps), and the
run history and the audit line appear as something that may fail.  `Texts` is what a page may say: it may change between two
crawls.  Two packages may have one URL: a page without a date is put in a folder of the day it was crawled.

### `CrawlProcess` and `CrawlBatch` - a crawl, and a crawl of every source

`CrawlProcess` has three actors.  The spider (`Download`, `Parse`, ... with `Emits` and `Follows` for what a page is) keeps up to
`Concurrency` requests in flight, so that answers arrive after a limit was reached.  The child wraps it: it writes snapshots,
flushes its items and only then writes the status file, and it may hang (nothing forces its steps) or die at any of them.
The caller of `crawl_items` polls, or sleeps when nobody asked for progress, joins, sends SIGTERM and SIGKILL, reads
the files (`Verdict`) and removes the directory.  Time passes only while the caller waits.  `CrawlBatch` extends it with
the loop over the sources: which settings a source may override, the fallback to the base `start_url`, what is left of
the time, which roster sites the sources cover, the reports and the items so far.  Its lists are folds (`Kept`), which can be proved about.

`BatchPromise` is a batch as its caller sees it: the enabled sources and then the sites of the roster (all of them, or none when the roster
cannot be read) are asked in their order, each once; each answers with different pages within its limit or is reported as failed; it
raises only when no source is enabled.  It knows neither processes nor clocks.  `Asked` computes the names and limits from
the settings; `KeepsBatchPromise` says that the crawls implement it, whatever their children do.

### `SiteRoster` - the tiers of a site

The rows, and three programs without a lock: discovery (its six queries of known domains one by one, then its inserts),
the health check (the queries, an assessment, then `Transition(row, a)`, the sequence of transactions of a verdict, one
step each) and the crawl (reads the active sites, stamps them, and so fills the library the mirror check looks at).  Each
may stop between any two steps.  `failures` and `passes` count what was really assessed.

### `ScoopLibrary`, `ScoopClusters`, `ScoopScore` - items, scoops, articles

`ScoopLibrary` has the tables as `db`, what is committed.  A task is a job or a command line process; its memory is what it
has read.  `writer` is the task that holds SQLite's write lock between two of its steps: a generation job does, from its first cached
article to its end, over every call of the model.  `LockedOut` is what then happens to the others.  The groups are the connected components of
alike items here; `ScoopClusters` is the union-find that computes them, with the path halving inside `find` as steps of their own, and
`ScoopScore` the arithmetic of the scores, with fractions for floats, over members that join and time that passes.

### `PackageStore` - package directories and the trash

The directory of a package in the store and in the trash: its manifest, its caption, temporary files of atomic writes, and
whether another directory was moved inside of it, which is what `shutil.move` does when the target exists.  Builds write with
`write_text_no_overwrite`, jobs with `atomic_write_text`, both making the directory anew if it is gone.  `mishaps` remembers
which overlaps happened, and the properties say exactly which of them they exclude.

### `SchemaVersions` - several schemas, one version table

`connect` as its steps: tables, the highest version, each migration with its version as one transaction (a savepoint), the indexes.
`Created` has the columns that each `CREATE TABLE` of a module gives, and `tables` the columns that are there; a table is there when one of
its columns is.  `CreateTables` adds the tables that are missing, with the columns of their statements and no others: `core/library.py`'s
`clusters` gets its nine columns of migration 102 from `Migrate` only, in a fresh file too.  Each statement of the script is
committed by itself, so that a process may die after some of the tables (`DieCreating`), as it may before, between and after the migrations (`Close`).
`hidden` remembers the modules of which a migration that was never applied was passed over, because another module's
version was higher.

### `SettingsFile`, `LoginLight`

The settings form reads and replaces the file; a source handler reads the list, and `_save_sources` reads the file again
for the other fields.  `overtaken` remembers the requests that met another change of the file.  `LoginLight` is the time
stamp of the storage state, the note a refused job leaves and the two reads of a page that shows the light.

### `MCComponents` - ten small components in one run

`JobRegistry` and the components above share no variable with each other.  `MCComponents` extends them all; `part` says of which one a behaviour is, and the others stay
as they were.  One run thus explores ten separate state spaces, their sum and not their product.  Its `PartsNext` is a
disjunction of their next-state relations, and the fairness of the crawl is that of `CrawlBatch`, restricted to its behaviours.

## 3. The runs

"Violated" runs check what a comment, a docstring or a test says and the code does not do; see section 5.

| Run | Instance | Shows |
|---|---|---|
| `publish_serial` | 1 worker, 2 packages, own URLs, 1 browser attempt, 3 invocations, 2 faults, 2 crashes, 2 clicks | `AtMostOnePost`, `PostLeavesTrace`, `OneOkRun`, `BookedInOrder`, `NoPhantom`, `ClickIsReserved`, `KeepsPromise`, whatever step a run fails or dies at, and whatever the operator answers |
| `publish_live` | 1 package, 2 browser attempts, 3 invocations, 1 fault, with and without a state file, `FairSpec` | `EveryRunEnds`; `AutoBooksPublication`: the auto pipeline completes the bookkeeping of a publication whose tail failed |
| `publish_reclick` | as `publish_serial`, 2 browser attempts | `NeverReclicked` is violated |
| `publish_race` | 2 workers, 1 package | `AtMostOnePost` is violated |
| `review_concurrent` | 2 workers, one with views, edits and generations, one with the jobs, views and generations; 1 title, 2 bodies; caption writes of edits and generations fail; ends at the browser, before a generation's first write and between its two | `OnlyReviewedIsClicked`, lost updates included; `KeepsReviewPromise`, which implies `OnePost`; `CaptionIsBody`; `ReviewIsWhatWasShown`, with generations and edits between the view's two reads |
| `review_failed_edit` | 1 worker, the caption writes of edits fail | `InSync` is violated |
| `review_stale_draft` | 1 worker | `LiveIsWhatWasReviewed` is violated |
| `auto_pipeline` | jobs one after another, 3 packages of 2 URLs, 2 texts, batches of up to 2, 3 attempts, 2 faults, 1 stop | `OkIsLive`, `StatusHasDraft`, `BuiltIsOwnContent`, `NeverSetBack` |
| `pipeline_torn_build` | 1 fault | `OneCrawlPerPackage` is violated |
| `pipeline_expiry` | 1 fault | `ExpiryIsNoted` is violated |
| `components` | ten components, one per behaviour (below) | twenty properties, below |
| `trash_twice` | 2 threads, 1 package, 2 page texts | `DeleteIsReversible` is violated |

What `components` shows of each part, and in which instance:

| Part | Instance | Properties |
|---|---|---|
| all | | `WellFormed`: the types; the forest has no cycle; every score is in 0..1; the settings file is valid or as written by hand |
| jobs | 4 jobs, a limit of 2, a lifetime of 2, a clock up to 4 | `ActiveIsKept`, `Bounded` |
| crawl | 3 pages, 2 requests in flight, a budget of 2; two sources and a disabled one with two roster sites, or the fallback alone; with and without a progress callback | `AnswerIsTrue` (complete or an error, no overrun that was none, the last snapshot), `CrawlsEndInTime`, `SpiderKeepsLimits`, `KeepsBatchPromise`, which implies `EverySourceReported`, `BatchesEnd` |
| roster | a settings source and a site whose pages it republishes, 1 check, 1 discovery, 1 crawl, 6 runs, 5 assessments of a site | `TiersAreEarned`, `TiersFollowMachine` |
| library | 2 URLs, 4 versions of their pages, 1 submitted URL, 2 tasks at once, 3 in all | `ScoopsAndItemsAgree`, `CacheIsSound`, `GossipIsTruthful`, `NothingIsDropped` |
| clusters | 6 items, every set of up to 4 alike pairs | `GroupsAreComponents` |
| score | 2 members, 4 hours, the shipped proportions and a degenerate configuration | `ScoresAreMonotone` |
| store | 1 package, 2 texts, 2 threads, stops anywhere | `StoreIsSound` |
| schema | 2 modules (one table, and four of which one lacks the columns of its second migration), a fresh file and 5 of earlier releases, 2 processes | `SchemasAreCurrent` |
| settings | 2 source ids, 2 requests at once, 3 requests or edits by hand | `OwnChangeOnly` |
| login | 2 jobs, 1 page, 2 logins | `LightIsTruthful` |

The definitions of the properties state, above each, what they say and which lines of the code they are about.

**Why the bounds are enough.**  Every bound is a constant.  `MaxClicks` is 2, one more than `AtMostOnePost` allows, so that
a violation is not cut off.  Two faults and two crashes let a failure hit the run that recovers from a failure.
Two packages are the fewest that can be mirrors, two bodies the fewest that can differ, two items the fewest for a
batch with a repeated URL; the third package of `auto_pipeline` is one whose fate must not depend on the other two.  `Times`
is the code's 3.  Four jobs over a limit of two fill the registry with active jobs and with finished ones, and the
clock outlives the lifetime of the oldest.  A site of three pages with two requests in flight exceeds `limit` and
`max_pages` by every page that can; a budget of two with a poll of one lets the child end before, at and after the deadline.  Five assessments
take a site from candidate to active and down to inactive by way of failures in between.  Two tasks are every overlap of
two programs, and a third one finds what they left.  Six items with four alike pairs are chains of
five, and a path long enough to be halved twice.  Two modules with two and three migrations are those of `core/runs.py` and
`core/library.py`: a column that only `CREATE` gives, one that both give, two that only a migration adds, and a table that a migration would
create.  `AtMostOnePost` and its relatives do not grow with these numbers,
which is what the theorems show: they hold for every value of them.

**What the runs do not exercise.**  `publish_serial` has one worker: the races of two between a check and its write are in `publish_race` only, and there is none of
two between the check of the run table and its insert.  `review_concurrent` has one title, so that edits change bodies only; the theorems have any number.
`auto_pipeline` has one job at a time: its torn builds and retries follow one another, and two jobs that build one page at once are not in it.
`components` has one check of the roster: two that overlap are only in the theorem `SitesEarnTheirTier`.

**Deadlock** is checked in every run but `components` and `trash_twice`, where the system may stop: a batch is over, a grouping is done,
no task is left to start, the clock is at its bound.

**Symmetry** is used where packages, bodies or jobs are interchangeable and no liveness is checked.

**Fairness.**  `publish_live` assumes weak fairness of each worker's `CodeStep`, that is, a thread or process that is
running takes its next step.  Nothing makes a user start a run, the operator answer or a fault happen.  The browser's
waits all have timeouts, so the step after a click is always possible: `Confirm`, `TryAgain` or `GiveUp`.  `BatchesEnd` in
`components` assumes that the caller of a crawl is scheduled and that time passes (`BatchFairness`), and nothing of the child,
which may hang for ever: the deadline and SIGKILL are there for that.

**One worker in the serial runs** is how the tool is used by one person, and what its comments argue about
("worst case is operator confirmation").  That nothing in the code enforces it is what `publish_race` shows.

## 4. The theorems

All are of the form `Spec => []P`, `Spec => [][A]_v` or `Spec => Abstract!Spec`, for every value of the constants that the named
assumption allows.  The invariants the proofs rest on were first checked by TLC on the instances of section 3.

| Theorem | States | Assumes, beside the module's own assumption |
|---|---|---|
| `PublishRunnerProofs!TypeCorrect` | `TypeOK` | |
| `PublishRunnerProofs!PublicationsAreReal` | `NoPhantom`: for any number of workers, retries, failures and recoveries | |
| `PublishRunnerProofs!OnePostPerRelease` | `AtMostOnePost` | `Serial` |
| `PublishRunnerProofs!LivePostsLeaveTrace` | `PostLeavesTrace` | `Serial` |
| `PublishRunnerProofs!ClicksAreReserved` | `ClickIsReserved` | `Serial` |
| `PublishRunnerProofs!RunsAreRecordedOnce` | `OneOkRun`, with any retries | `OneWorker` |
| `PublishRunnerProofs!BookkeepingIsOrdered` | `BookedInOrder` | `Serial`, `Unshared` |
| `PublishRunnerProofs!ImplementsPromise` | `KeepsPromise`: refinement of `PublishPromise` | `Serial`, `Unshared` |
| `ReviewGateProofs!GateTyped` | `TypeOK` | |
| `ReviewGateProofs!ReviewGateHolds` | `OnlyReviewedIsClicked`, any number of pages and jobs | |
| `ReviewGateProofs!OnePostHolds` | `OnePost` | (`SolePublisher`, in `ReviewAssumption`) |
| `ReviewGateProofs!GateKeepsPromise` | `KeepsReviewPromise`: refinement of `ReviewPromise`, any number of pages and jobs | (the same) |
| `ReviewGateProofs!PromiseMeansOnePost` | `KeepsReviewPromise => []OnePost`: the promise alone implies it | |
| `ReviewGateProofs!TextsPartOnlyThere` | `CaptionIsBody`, any number of pages and jobs at once, failing and stopping anywhere | (`ReviewAssumption`, with its one publisher) |
| `ReviewGateProofs!ReviewShowsItsText` | `ReviewIsWhatWasShown`, the same | (`ReviewAssumption`) |
| `AutoPipelineProofs!PipelineTyped` | `TypeOK`, any number of concurrent jobs, batches of any length | |
| `AutoPipelineProofs!DraftsExist` | `StatusHasDraft` | |
| `AutoPipelineProofs!ReportedIsLive` | `OkIsLive` | |
| `AutoPipelineProofs!BuiltHoldsItsText` | `BuiltIsOwnContent` | `OneJob` |
| `AutoPipelineProofs!PackagesGoForward` | `NeverSetBack` | `OneJob` |
| `ComponentsProofs!RegistryTyped`, `ActiveJobsAreKept`, `RegistryIsBounded` | `TypeOK`, `ActiveIsKept`, `Bounded` of the job registry, any limit and lifetime | |
| `ComponentsProofs!LightTellsTheTruth` | `LightIsTruthful`, any number of jobs, pages and logins | |
| `ComponentsProofs!SettingsAreKeptSound` | `SettingsStaySound`, any number of overlapping requests | (`HandAssumption`: what is written by hand is a mapping; its sources are a list of entries and scalars, or no list) |
| `ComponentsProofs!RequestsChangeTheirOwn` | `OwnChangeOnly`, any number of overlapping requests, any file | (the same) |
| `CrawlProofs!BatchTyped` | `CrawlTypeOK`, with the bounds of the counts | `IsFiniteSet(Pages)`: a site has finitely many pages |
| `CrawlProofs!CrawlsAnswerTruly` | `AnswerIsTrue`, any site, options and child | |
| `CrawlProofs!CrawlsNeverHang` | `CrawlsEndInTime`, any sources and budgets | |
| `CrawlProofs!NoSourceIsLost` | `EverySourceReported` | |
| `CrawlProofs!BatchImplementsPromise` | `KeepsBatchPromise`: refinement of `BatchPromise`, any sources, budgets and children | `ValidSettings` |
| `CrawlProofs!PromiseMeansAllReported` | `batch \in Batches /\ KeepsBatchPromise => []EverySourceReported`: the promise alone implies it | |
| `CrawlProofs!SpidersKeepLimits` | `SpiderKeepsLimits` | `ValidSettings` |
| `RosterProofs!RosterTyped` | `RosterTypeOK`, any number of checks and discoveries | (`RosterAssumption`) |
| `RosterProofs!SitesEarnTheirTier` | two of the three parts of `TiersAreEarned`, any number of checks and discoveries | |
| `RosterProofs!TiersStayEarned` | `TiersAreEarned` | `OneOfEach` |
| `RosterProofs!TiersKeepToTheMachine` | `TiersFollowMachine` | `OneOfEach` |
| `LibraryProofs!ForestHolds` | `ForestOK`, any number of items, any alike pairs | |
| `LibraryProofs!GroupsHold` | `GroupsAreComponents`, the same | |
| `LibraryProofs!LibraryDropsNothing` | `NothingIsDropped`, any tasks, records and texts | (`LibraryAssumption`: `NULL` is no row, id or material; finitely many URLs) |
| `LibraryProofs!ScoopsStayAgreed` | `ScoopsAndItemsAgree`, any tasks and any similarity of titles | (the same) |
| `LibraryProofs!GossipStaysTruthful` | `GossipIsTruthful`, any tasks and submitted URLs | (the same) |
| `LibraryProofs!CacheStaysSound` | `CacheIsSound`, any tasks, scoops and articles | (the same) |
| `LibraryProofs!ScoresStayInRange` | `ScoresInRange`, any articles, caps, windows and weights, also degenerate or negative ones | (`ScoreAssumption`: the settings are finite numbers) |
| `LibraryProofs!ScoresKeepOrder` | `ScoresAreMonotone`, the same | (the same) |
| `StoreProofs!VersionsAreApplied`, `OpenFilesAreCurrent` | `RecordedIsApplied`, `OpenIsCurrent`, any modules, migrations, earlier files and processes | (`SchemaAssumption`: versions are distinct; what the `CREATE`s of a module do not give, or a table of an earlier release lacks, its migrations add; a version of an earlier release has its columns) |
| `StoreProofs!SchemasStayCurrent` | `SchemasAreCurrent`: the two and `HighestIsNeverHidden` | (`VersionAssumption`: a module lists its migrations in the order of their versions) |
| `StoreProofs!StoreStaysSound` | `StoreIsSound`, any number of threads on one path | |
| `ComponentsProofs!PartsAreComponents` | the ten components side by side: `PartsSpec` implies the specification of each | |
| `ComponentsProofs!PartsStayWellFormed` | `WellFormed` | `IsFiniteSet(Pages)` |

**The hypotheses.**  Each is a definition, and each run that checks the property is an instance of it.

* `OneWorker` is one run at a time.  `Serial` adds `Attempts = 1` (the driver's default) and a state file on every run; `Unshared` says
  that no two packages have the same URL.  All are needed: `publish_race` and `publish_reclick` violate what would hold without the
  first two, and a mirror's forward-completion is a step the promise does not have without the last.
* `OneJob` and `OneOfEach` are one pipeline job, one check and one discovery at a time.  Two jobs that build one page, or two checks of one site,
  do violate the properties, see section 5.
* `ValidSettings` is what `webui_config.validate` enforces on a form: `limit` is a natural number and `max_pages` a positive one, in the base
  settings and wherever a source overrides them.  Overrides that were written by hand are not validated by the code.
* `CrawlAssumption` and `BatchAssumption` type the constants (times, sites, budgets, lists of sources) and keep `Nil` apart from them.
* `ScoreAssumption`: every setting is a finite number.  A float is the fraction it stands for, scaled to integers.  `scoring_config.load` coerces every
  value to a number, but `.nan` and `.inf` in the file pass its `float()`: both are outside of the model (see section 5), and so is rounding.
* `StoreAssumption`, `RosterAssumption`, `LightAssumption`, `LibraryAssumption` say that a marker of absence is none of the values it stands beside; `RosterAssumption`
  also that the settings and the pages name hosts that are in `Domains`, and that samples have a size.

**The arguments.**

* `NoPhantom` is not inductive: a worker that is about to write a URL down must hold one of a real post.  `PhantomInv` adds
  that, by label, and that a row never keeps a stale `published_url` of another URL.  No assumption on the interleaving
  is used, since `posted` only grows.
* `AtMostOnePost` and `PostLeavesTrace` rest on `SerialInv`: between `Reserve` and `Click` the row says `publishing`, the URL has not been
  clicked and awaits no operator, so that no reset can be under way; a URL that was clicked has a row that stops the next
  run.  `ClickIsReserved` follows from the same invariant.
* `OneOkRun` needs what the only worker knows by label: from the check of the run table to the record of its own, nobody adds one (`RunsInv`).
  `BookedInOrder` needs how far the tail has come at each label, and that what was booked before is not taken back on the way (`BookInv`).
* The refinement adds `PromiseInv`: a row or manifest that says `published` is one of the current licence.  Each
  action maps to one step of the promise or to a stutter.
* `GateInv` says that the content-id a job carries past its gates was once in the marker, and that the marker is
  (`marked` remembers); `PostInv` that a reservation in use is the sole publisher's.  With both, each action is a step of `ReviewPromise` or a stutter:
  a job that passes its gates is a `Grant`, one that ends before its reservation a `Withdraw`, the reservation a `License`; a worker that neither holds nor
  gets one leaves `Granted` and `Pending` as they are (`SetsFrame`).  That the promise implies `OnePost` needs three lines of invariant.
* `TextInv` says that whoever runs beside a handler that is halfway was overtaken by it, so that two that get halfway at once have parted the texts; and, of a handler that was
  not overtaken, that the manifest it holds has the body of the file, or, between its two writes, the body or the text with which its next step
  joins the two files again.  Both theorems follow from it, without any assumption on who runs beside whom.
* `Bounded` and `ActiveIsKept` come from lemmas on `Prune`: what it drops is finished, and it stops early only within the limit.
* `AutoPipeline`'s invariant has three parts, of each job, of each package and of each row.  What they say of a package
  (`posts > 0`, `drafts > 0`, a row that is published) is never undone by any step of any job (`Lasting`), so a job
  that acts on a stale copy cannot falsify another's list.  The lists change in five ways only (stay, drop an item, keep it,
  end the stage, empty), one lemma each.  `OwnInv` adds for one job that the records of its lists are what
  their packages hold (`Own`) from the build on, and that the copy it is about to save has the file's text and is not behind it.
* `ForestOK` is inductive: a node never hangs under a larger one, and halving moves it to a smaller one still.  That every `find`
  ends follows, since parents only get smaller until a root.  `GroupsAreComponents` needs `ForestInv`: a node is connected with its parent by united
  pairs, the two ends of a united pair have one root, and the walk of a `find` stays within the component.  Connectedness is "in the same smallest closed
  set", so that no induction over paths is needed.
* `SchemaInv` adds to `RecordedIsApplied` that tables hold columns of their schema, that a table that is there lacks only what a migration adds (one that is
  not there lacks everything, and the next `CREATE` gives it), that a process past its `CREATE`s has all its tables (`HasTable`), and that what a process does not have before it any more is applied or hidden (`Settled`).  Every step only adds
  columns (`Grows`), so what the other processes settled stays settled; one lemma says so for all of them.  `OrderInv` adds that a migration before a recorded one is
  recorded too, or was overtaken by another module's version, and the same of what a process has behind it.
* `StoreInv` says, while no mishap is recorded that its properties exclude, which pairs of labels two threads can be at (`Apart`) and what each
  knows of the path by its label (`HandsKnow`).
* `EarnedInv` says that the counters of a row are never ahead of what was really assessed, and that every write a check still has before it
  is earned by then; this needs no exclusion.  `AloneInv` adds for one check and one discovery that the row a check has read is still the one in the table, and that the
  writes before it come in turn.
* `LightInv` bounds the note and the login a job began with by the login on file; `SettingsInv` says that what a request is about to save starts from a file as it was written.
* `OwnInv` says that what a request which nobody overtook is about to write keeps the form or the entries of other ids of the file as it is.  A list is
  filtered by a fold; what appending, replacing entries of an id and filtering twice do to a filtered list are lemmas by induction over its length.
* `NothingIsDropped` and `ScoopsAndItemsAgree` rest on `TablesInv`: scoops and stamps agree, and what a task has listed is still in the table.  Ingesting is a fold over the
  records; that replacing the scoops of a list leaves no stamp without its scoop needs
  that two components are equal or disjoint, which smallest closed sets are.  `GossipInv` adds that a pending URL has the task that will finish it, or that
  one died; `CacheInv` that there is one writer, that a key is put only while it is new, and that what the packages were made of is cached.
* The scores need arithmetic.  The recursion of `Gcd` has a value (`EuclidExists`, `EuclidUnique`), which divides both numbers, so that `Reduced` is the same
  fraction; the order of fractions is stated by cross products, and the few facts on products that the solver needs are lemmas.  A weighted mean is a fraction between
  0 and 1 and rises with its parts, by induction over them.  What is left is that each dimension falls with the hour and that coverage rises with the articles:
  cardinalities of sets that grow, and the greatest of a set of dates.
* `CrawlInv` ties the caller's label to the clock and to the child's end (`CallerIsTimed`, `EndsAreTimed`), and the child's label to what is on disk (`FilesAreTrue`); with `BatchTypes` it is inductive
  (`Sound`).  `ReportsAreTrue` says what the reports and the items are after the `i`-th source: folds over the sources crawled so far, whose
  unfolding by one source is the lemma `KeptOf`.  `BatchIsTimed` bounds the batch's clock by what is left and the grace of the crawl under way.
  `SpiderInv` keeps requests queued or in flight apart from each other and from what is written, within depth and site (`Apart`), and bounds what answers that
  are under way may add to the counts (`SpiderIsBounded`).  `CountsInv` bounds the responses by the pages that no longer wait: their set only grows, and gains a page
  with each response; this needs no assumption on the settings.
* The refinement of `BatchPromise` adds `TurnInv`, of the list that is still to crawl and of whose settings the crawl under way has: the head of the list of the code
  is the one whose turn it is in the promise (`TurnIs`), and what its crawl returned is what the spider wrote, which `SpiderInv` bounds by that source's limit
  (`HarvestIs`).  A crawl is a stutter until `SourceEnds`.  `ValidSettings` is needed for the limit to be a number.  That the promise implies `EverySourceReported` has an
  invariant of its own (`Owed`), which knows nothing of the code.
* The components that run side by side share no variable: a step of one leaves each of the others as it is (`PartsStep`), so that a behaviour of `PartsSpec` is one of each
  component, and their theorems apply.

**Only model-checked.**  `EveryRunEnds`, `AutoBooksPublication`, `BatchesEnd`: liveness (fairness and `ENABLED`) is beyond the prover.
Every other property of a passing run is stated by a theorem.

The library defines folds by recursion over a well-founded relation on sets, and its induction theorems take an operator, which no prover here can instantiate.  The unfolding
of a fold, and of Euclid's algorithm, is proved by an induction that is carried out on a set of numbers: the least one for which the claim fails (`WFMin`) leads to a contradiction.

## 5. Disagreements between the code and what it says

Each is the counterexample of a run.

1. **A live post is clicked again** (`publish_reclick`).  With `configs/backend.yaml`'s retry count of 2, a click
   whose success text does not appear in time is retried as a whole, on the same draft
   (`browser/backend_driver.py:275`); `cli/publish_post.py:52-53` says that we "must never re-click publish".
2. **Two runs reserve the same URL** (`publish_race`).  The check and the reservation are two transactions
   (`publish_post.py:73`, `103`).
3. **A stale draft goes live** (`review_stale_draft`).  The content of the post is what the draft said when it was
   created; an edit and a review after that pass every gate.
4. **A package of two crawls** (`pipeline_torn_build`).  A build that fails between `caption.txt` and `manifest.json`
   leaves the caption; the guard looks at the manifest only, and the next build keeps the old caption.
5. **An expiry that is not noted** (`pipeline_expiry`).  The publish stage's second attempt meets the reservation of the
   first and is refused, so the last exception, the one `_note_expiry` looks at, is not the expiry.
6. **A delete that cannot be undone** (`trash_twice`).  Of two deletes of one package the second removes the copy that the
   first moved to the trash, to make room for what is no longer there (`webui/_helpers.py:148`).
7. **A failed edit loses the body** (`review_failed_edit`).  When `caption.txt` cannot be written, `edit_package` removes `content.body` instead of
   restoring it (`webui/routers/packages.py:102`), and the caption keeps the old text, where lines 95-96 say "old body or both-new, never diverged".  The
   test of it (`tests/test_webui_packages.py:558`) has a package that had no body before, for which removing and restoring are the same.

Met while modelling, and kept as bounds or notes rather than as runs.  Publishing and packages: a failed browser step before the click leaves the
reservation, and every later run is refused until the operator resets it (by design, "never a second live post"); a
receipt that was torn by a crash stays torn, since one that exists is not rewritten; a draft or verify save can undo an edit that was made meanwhile,
and a view can show a caption of a later generation than it marks, or mark a generated body and show the caption that the generation
has not yet replaced, or may then fail to, although it is "the content version just shown" that line 50 says it marks: `overtaken` and `texts` name these cases; two jobs that build one changed page at once can both count as built, which is why
`auto_pipeline` has one job at a time; a package deleted under a job comes back with its next save as a directory without a caption,
and a restore is then refused (`mishaps` in `PackageStore`).

Crawling: a `progress_cb` that raises leaves the child and its directory behind; the base `start_url`'s host keeps a roster site of that host from being
crawled even when sources exist and the base is not crawled itself (`core/pipeline.py:204-211`); the fallback branch is neither guarded against
a failing crawl nor bounded by the batch's time.

The roster: `health_check_sources.py:82` speaks of the canonical URL of a sample, but line 90 compares the pages' own addresses; a
site that republishes is not recognised, and one whose articles are in the library counts as its own mirror.  A pass in
tier active does not reset the failure counter, so that failures need not be consecutive.  Two checks at
once can set a tier back, which is why `TiersFollowMachine` has one; the roster page may miss a site that is promoted between its queries.

The library: a gossip crawl looks for `source_text`, which normalized items do not have (`core/gossip_crawl.py:82`): its articles are stored
without a body, and its upsert takes over the `source_id` of an item that was known.  The generation job's lock makes other writers fail with "database is locked"
for as long as the model takes; if it dies, its packages stand without their cached articles.  `cluster-scoops` with a stale list can take an item
out of its scoop until the next clustering.  A weight of `.inf` or `.nan` in `scoring.yaml` passes `scoring_config.load` and makes
scores NaN, which `core/scoring.py:10` says they never are; `.inf` for a whole number raises an `OverflowError` there, which is not among the errors it reports as invalid settings.  The prep job and the page break ties of the top ten in opposite directions (`core/library.py:206`).

Schemas: the versions 101 to 103 of `core/library.py` hide the migrations 1 and 2 of `core/runs.py` in a file that both use; the index on `run_id` then
fails, and with it the connect (`hidden`).

Settings and login: two requests that change the settings at once each replace the file, and one of the changes is lost (`core/webui_config.py:168`); entries that are no
mapping vanish with the next save of the panel; the toggle does not catch a validation error (`settings_auth.py:210`).  A login that
is renewed while a job fails makes the light call the new login expired, and a note that comes between a page's two reads is forgotten (`_ctx.py:36`, `48-52`).

## 6. What is not modelled

* The content of a receipt beyond the URL it names, of log lines, messages and pages.
* The selectors, the screenshots and the login of the browser: a browser step takes effect, fails, or takes
  effect and then fails.
* A process killed in the middle of a write that does not replace its file (the package's text files).
* The newest-100 limit of the query behind `_publish_run_recorded` (`core/runs.py:127`): a package is assumed
  to have fewer runs than that.
* The run history's reads and its purge; the audit log: lines for people, which only a page reads back, and whose purge nothing calls.
* Of the crawl: how Scrapy downloads and parses (a page is what `_extract` tells apart), the merging of the command line's options
  (`crawl_posts.py:370-419`) and the parent's check that Scrapy is installed.
* Of the roster: how links are extracted and sites probed; an assessment is its result.
* Of the library: titles and their similarity (alike pairs are an input), the filters of the lists, the search for outside articles, the prompt
  and the command line of `generate-article`, which does what a generation job does for one scoop.
* Of the settings and the login: the coercion of form values, and how a human logs in.
* Normalizing and rendering, the external clients, the pages and the command line plumbing: they hold no state that two steps could disagree
  about.  The clients' answers, errors and time-outs are choices of the modules that call them.

## 7. Plan

Done: the fifteen component modules of section 2 and their runs; the promises of the publish run, of the review gate and of the crawl batch, and
that the code implements them; proofs of all that section 4 lists.

Left: liveness (three properties) stays with TLC, for the reason given in section 4.  A next step would be a promise of the
pipeline as its caller sees it, built on those of the publish run and the crawl batch.

## 8. Running it

    tlc -config publish_serial.cfg MCPublishRunner      
    tlapm PublishRunnerProofs.tla

`PROJECT.json` names the module of each configuration, the mutant of each property, and for every definition the lines of
the code that it models.

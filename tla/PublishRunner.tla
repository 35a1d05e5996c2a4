--------------------------- MODULE PublishRunner ---------------------------
(***************************************************************************)
(* publish-post (cpost/cli/publish_post.py) run by concurrent workers: a   *)
(* CLI process, a WebUI job thread or the auto pipeline's publish stage.   *)
(* A run touches five stores that share no transaction: the package's      *)
(* manifest.json, the state row of its canonical URL, the receipt file,    *)
(* the run table and the audit log, and between two of those writes it     *)
(* clicks "publish" on a backend it cannot roll back.  Every action below  *)
(* is one such read, write or click; a run may raise or its process may    *)
(* die between any two of them.  The WebUI's rollback handler and the      *)
(* operator's recovery steps share the same stores.                        *)
(*                                                                         *)
(* What a package says (title, body) is not modelled here: the check that  *)
(* the content is the reviewed one is a gate that may refuse.              *)
(***************************************************************************)
EXTENDS Naturals

CONSTANTS
  Packages,    \* post ids, the directories under out/
  Urls,        \* canonical URLs
  UrlOf,       \* the canonical URL of each package (mirrors share one)
  Workers,     \* CLI processes, job threads and request threads
  None,        \* Python's None for a published_url
  Torn,        \* a receipt file that exists but whose text is not all there
  Attempts,    \* browser attempts of one run: max(1, retry.count)
  AutoTimes,   \* invocations of one item by the auto pipeline's _retry
  CliState,    \* whether a CLI run may be, must be or is never given --state
  MaxClicks,   \* bound: publish clicks that take effect per licence
  MaxFaults,   \* bound: exceptions
  MaxCrashes   \* bound: process deaths

ASSUME PublishAssumption ==
  /\ UrlOf \in [Packages -> Urls]
  /\ None \notin Packages /\ Torn \notin Packages \cup {None}
  /\ Attempts \in Nat \ {0}
  /\ AutoTimes \in Nat \ {0}
  /\ CliState \subseteq BOOLEAN
  /\ MaxClicks \in Nat /\ MaxFaults \in Nat /\ MaxCrashes \in Nat

VARIABLES
  manifest,    \* manifest.json: backend.status and backend.published_url
  row,         \* the items table: status and published_url per URL
  receipt,     \* publish_receipt.json: the URL it names, None or Torn
  okRuns,      \* number of (publish, ok) rows of the run table
  audited,     \* packages with a publish-post "ok" line in the audit log
  posted,      \* packages whose draft the backend has ever published
  clicks,      \* publish clicks that took effect since the URL was released
  refused,     \* URLs whose "prior run crashed mid-publish" awaits the operator
  pc,          \* where each worker is
  job,         \* what each worker holds in memory
  faults,      \* exceptions so far
  crashes      \* process deaths so far

stores  == <<manifest, row, receipt, okRuns, audited>>
backend == <<posted, clicks>>
control == <<pc, job>>
budget  == <<faults, crashes>>
vars    == <<manifest, row, receipt, okRuns, audited, posted, clicks, refused,
             pc, job, faults, crashes>>

\* A published_url is identified by the package whose post it shows.
PostUrl  == Packages \cup {None}
Manifest == [status : {"drafted", "draft_verified", "published"}, url : PostUrl]
Row      == [status : {"absent", "draft_verified", "publishing", "published"},
             url : PostUrl]
Absent   == [status |-> "absent", url |-> None]

Labels == {"idle", "load", "checkPublished", "checkPublishing", "reserve",
           "drive", "confirm", "save", "mark", "receipt", "openReceipt",
           "fillReceipt", "checkRun", "insertRun", "audit", "rbSave", "rbReceipt", "rbRow"}

\* kind: who started the run; left: invocations left; tries: failed attempts.
Job  == [pkg : PostUrl, kind : {"cli", "web", "auto"}, state : BOOLEAN,
         mem : Manifest, tries : Nat, left : Nat]
Free == [pkg |-> None, kind |-> "cli", state |-> FALSE, tries |-> 0,
         mem |-> [status |-> "drafted", url |-> None], left |-> 0]

Pkg(w) == job[w].pkg
Url(w) == UrlOf[Pkg(w)]

TypeOK ==
  /\ manifest \in [Packages -> Manifest]
  /\ row \in [Urls -> Row]
  /\ receipt \in [Packages -> PostUrl \cup {Torn}]
  /\ okRuns \in [Packages -> Nat]
  /\ audited \subseteq Packages
  /\ posted \subseteq Packages
  /\ clicks \in [Urls -> Nat]
  /\ refused \subseteq Urls
  /\ pc \in [Workers -> Labels]
  /\ job \in [Workers -> Job]
  /\ \A w \in Workers : pc[w] # "idle" => Pkg(w) \in Packages
  /\ faults \in Nat /\ crashes \in Nat

Init ==
  /\ manifest \in [Packages -> [status : {"drafted", "draft_verified"}, url : {None}]]
  /\ row = [u \in Urls |-> Absent]
  /\ receipt = [p \in Packages |-> None]
  /\ okRuns = [p \in Packages |-> 0]
  /\ audited = {} /\ posted = {} /\ refused = {}
  /\ clicks = [u \in Urls |-> 0]
  /\ pc = [w \in Workers |-> "idle"]
  /\ job = [w \in Workers |-> Free]
  /\ faults = 0 /\ crashes = 0

-----------------------------------------------------------------------------
(* Control of one worker.                                                   *)

At(w, l) == pc[w] = l
Goto(w, l) == pc' = [pc EXCEPT ![w] = l]
Step(w, from, to) == At(w, from) /\ Goto(w, to)

Finish(w) ==
  /\ Goto(w, "idle")
  /\ job' = [job EXCEPT ![w] = Free]

\* Mutants of Raise: the count of invocations is not looked at; there is no retry.
RaiseUncounted(w) ==
  /\ Goto(w, "load")
  /\ job' = [job EXCEPT ![w].left = @ - 1]

RaiseWithoutRetry(w) == Finish(w)

\* The invocation raises: _retry calls the runner again while attempts are
\* left, the CLI and a single WebUI action give up.
Raise(w) ==
  \/ /\ job[w].left > 1
     /\ Goto(w, "load")
     /\ job' = [job EXCEPT ![w].left = @ - 1]
  \/ /\ job[w].left <= 1
     /\ Finish(w)

Begin(w, p, l, kind, state, mem, n) ==
  /\ At(w, "idle")
  /\ Goto(w, l)
  /\ job' = [job EXCEPT ![w] = [pkg |-> p, kind |-> kind, state |-> state,
                                tries |-> 0, mem |-> mem, left |-> n]]
  /\ UNCHANGED <<stores, backend, budget>>

StartCli(w, p) ==
  /\ \E s \in CliState : Begin(w, p, "load", "cli", s, Free.mem, 1)
  /\ UNCHANGED refused

\* action_publish: the request's gate 2 reads the manifest before the job does.
StartWeb(w, p) ==
  /\ manifest[p].status = "draft_verified"
  /\ Begin(w, p, "load", "web", TRUE, Free.mem, 1)
  /\ UNCHANGED refused

\* The publish stage takes the items whose verify run has just succeeded.
StartAuto(w, p) ==
  /\ manifest[p].status = "draft_verified"
  /\ Begin(w, p, "load", "auto", TRUE, Free.mem, AutoTimes)
  /\ UNCHANGED refused

-----------------------------------------------------------------------------
(* publish_post._run, up to the click.                                      *)

\* A manifest already published goes straight to the bookkeeping tail.
Load(w) ==
  /\ At(w, "load")
  /\ Goto(w, IF manifest[Pkg(w)].status = "published" THEN "mark" ELSE "checkPublished")
  /\ job' = [job EXCEPT ![w].mem = manifest[Pkg(w)]]
  /\ UNCHANGED <<stores, backend, refused, budget>>

\* Mutant of RowSaysPublished: a published row is not looked for.
PublishedRowIgnored(w) == FALSE

\* _state_published_url: the state row knows the post's URL.
RowSaysPublished(w) ==
  /\ job[w].state
  /\ row[Url(w)].status = "published"
  /\ row[Url(w)].url # None

ForwardComplete(w) ==
  /\ Step(w, "checkPublished", "save")
  /\ RowSaysPublished(w)
  /\ job' = [job EXCEPT ![w].mem = [status |-> "published", url |-> row[Url(w)].url]]
  /\ UNCHANGED <<stores, backend, refused, budget>>

NotYetPublished(w) ==
  /\ Step(w, "checkPublished", "checkPublishing")
  /\ ~ RowSaysPublished(w)
  /\ UNCHANGED <<stores, backend, refused, job, budget>>

\* Mutant of RowSaysPublishing: a reservation is not looked for.
ReservationIgnored(w) == FALSE

\* _state_is_publishing: another run reserved the URL and never finished.
RowSaysPublishing(w) ==
  /\ job[w].state
  /\ row[Url(w)].status = "publishing"

RefusePublishing(w) ==
  /\ At(w, "checkPublishing")
  /\ RowSaysPublishing(w)
  /\ refused' = refused \cup {Url(w)}
  /\ Raise(w)
  /\ UNCHANGED <<stores, backend, budget>>

\* Gate 2, and Q9 for the runs that carry the reviewed content-id.
GateRefuses(w) ==
  /\ At(w, "checkPublishing")
  /\ ~ RowSaysPublishing(w)
  /\ job[w].mem.status # "draft_verified" \/ job[w].kind # "cli"
  /\ Raise(w)
  /\ UNCHANGED <<stores, backend, refused, budget>>

GatesPass(w) ==
  /\ Step(w, "checkPublishing", "reserve")
  /\ ~ RowSaysPublishing(w)
  /\ job[w].mem.status = "draft_verified"
  /\ UNCHANGED <<stores, backend, refused, job, budget>>

\* state.upsert: the status is overwritten, a known published_url is kept.
Upsert(u, status, url) ==
  row' = [row EXCEPT ![u] = [status |-> status, url |-> IF url = None THEN @.url ELSE url]]

\* Mutants of Reserve: the row is not written; it is written as done already.
ReserveNothing(w) ==
  /\ Step(w, "reserve", "drive")
  /\ job' = [job EXCEPT ![w].tries = 0]
  /\ UNCHANGED <<stores, backend, refused, budget>>

ReserveAsPublished(w) ==
  /\ Step(w, "reserve", "drive")
  /\ Upsert(Url(w), "published", None)
  /\ job' = [job EXCEPT ![w].tries = 0]
  /\ UNCHANGED <<manifest, receipt, okRuns, audited, backend, refused, budget>>

Reserve(w) ==
  /\ Step(w, "reserve", "drive")
  /\ IF job[w].state THEN Upsert(Url(w), "publishing", None) ELSE UNCHANGED row
  /\ job' = [job EXCEPT ![w].tries = 0]
  /\ UNCHANGED <<manifest, receipt, okRuns, audited, backend, refused, budget>>

-----------------------------------------------------------------------------
(* backend_driver.publish_draft under _run_with_retry.                      *)

\* The click takes effect on the backend; its success text is still awaited.
Click(w) ==
  /\ Step(w, "drive", "confirm")
  /\ clicks[Url(w)] < MaxClicks
  /\ clicks' = [clicks EXCEPT ![Url(w)] = @ + 1]
  /\ posted' = posted \cup {Pkg(w)}
  /\ UNCHANGED <<stores, refused, job, budget>>

\* Mutant of Confirm: the driver does not wait for the success text.
ConfirmUnseen(w) ==
  /\ pc[w] \in {"drive", "confirm"}
  /\ Goto(w, "save")
  /\ job' = [job EXCEPT ![w].mem = [status |-> "published", url |-> Pkg(w)]]
  /\ UNCHANGED <<stores, backend, refused, budget>>

Confirm(w) ==
  /\ Step(w, "confirm", "save")
  /\ job' = [job EXCEPT ![w].mem = [status |-> "published", url |-> Pkg(w)]]
  /\ UNCHANGED <<stores, backend, refused, budget>>

\* Mutant of TryAgain: the attempts are not counted.
TryAgainUncounted(w) ==
  /\ pc[w] \in {"drive", "confirm"}
  /\ job[w].tries + 1 < Attempts
  /\ Goto(w, "drive")
  /\ UNCHANGED <<stores, backend, refused, job, budget>>

\* A Playwright error, before the click took effect (drive) or after it
\* (confirm), is transient: the driver starts over while attempts are left.
TryAgain(w) ==
  /\ pc[w] \in {"drive", "confirm"}
  /\ job[w].tries + 1 < Attempts
  /\ Goto(w, "drive")
  /\ job' = [job EXCEPT ![w].tries = @ + 1]
  /\ UNCHANGED <<stores, backend, refused, budget>>

\* Mutant of GiveUp: the driver's error releases the reservation.
GiveUpReleasing(w) ==
  /\ pc[w] \in {"drive", "confirm"}
  /\ job[w].tries + 1 >= Attempts
  /\ Upsert(Url(w), "draft_verified", None)
  /\ Raise(w)
  /\ UNCHANGED <<manifest, receipt, okRuns, audited, backend, refused, budget>>

GiveUp(w) ==
  /\ pc[w] \in {"drive", "confirm"}
  /\ job[w].tries + 1 >= Attempts
  /\ Raise(w)
  /\ UNCHANGED <<stores, backend, refused, budget>>

-----------------------------------------------------------------------------
(* The durable-first manifest save and the bookkeeping tail.                *)

Save(w) ==
  /\ Step(w, "save", "mark")
  /\ manifest' = [manifest EXCEPT ![Pkg(w)] = job[w].mem]
  /\ UNCHANGED <<row, receipt, okRuns, audited, backend, refused, job, budget>>

Mark(w) ==
  /\ Step(w, "mark", "receipt")
  /\ IF job[w].state THEN Upsert(Url(w), "published", job[w].mem.url) ELSE UNCHANGED row
  /\ UNCHANGED <<manifest, receipt, okRuns, audited, backend, refused, job, budget>>

\* _write_receipt: a file that exists is kept, whatever it holds.
CheckReceipt(w) ==
  /\ At(w, "receipt")
  /\ Goto(w, IF receipt[Pkg(w)] = None THEN "openReceipt" ELSE "checkRun")
  /\ UNCHANGED <<stores, backend, refused, job, budget>>

\* write_text opens the file, which truncates it, and then writes the text.
OpenReceipt(w) ==
  /\ Step(w, "openReceipt", "fillReceipt")
  /\ receipt' = [receipt EXCEPT ![Pkg(w)] = Torn]
  /\ UNCHANGED <<manifest, row, okRuns, audited, backend, refused, job, budget>>

FillReceipt(w) ==
  /\ Step(w, "fillReceipt", "checkRun")
  /\ receipt' = [receipt EXCEPT ![Pkg(w)] = job[w].mem.url]
  /\ UNCHANGED <<manifest, row, okRuns, audited, backend, refused, job, budget>>

\* Mutant of CheckRun: a run is recorded on every re-entry.
CheckRunBlind(w) ==
  /\ At(w, "checkRun")
  /\ Goto(w, IF job[w].state THEN "insertRun" ELSE "audit")
  /\ UNCHANGED <<stores, backend, refused, job, budget>>

\* _publish_run_recorded and record_run are two transactions.
CheckRun(w) ==
  /\ At(w, "checkRun")
  /\ Goto(w, IF job[w].state /\ okRuns[Pkg(w)] = 0 THEN "insertRun" ELSE "audit")
  /\ UNCHANGED <<stores, backend, refused, job, budget>>

InsertRun(w) ==
  /\ Step(w, "insertRun", "audit")
  /\ okRuns' = [okRuns EXCEPT ![Pkg(w)] = @ + 1]
  /\ UNCHANGED <<manifest, row, receipt, audited, backend, refused, job, budget>>

Audit(w) ==
  /\ At(w, "audit")
  /\ audited' = audited \cup {Pkg(w)}
  /\ Finish(w)
  /\ UNCHANGED <<manifest, row, receipt, okRuns, backend, refused, budget>>

-----------------------------------------------------------------------------
(* rollback_package: manifest, then receipt, then state row.                *)

\* The operator who rolls a package back has dealt with an earlier refusal.
StartRollback(w, p) ==
  /\ manifest[p].status = "published"
  /\ Begin(w, p, "rbSave", "web", TRUE, [status |-> "draft_verified", url |-> None], 1)
  /\ refused' = refused \ {UrlOf[p]}

RollbackSave(w) ==
  /\ Step(w, "rbSave", "rbReceipt")
  /\ manifest' = [manifest EXCEPT ![Pkg(w)] = job[w].mem]
  /\ UNCHANGED <<row, receipt, okRuns, audited, backend, refused, job, budget>>

\* Mutant of RollbackReceipt: the receipt is left behind.
RollbackKeepsReceipt(w) ==
  /\ Step(w, "rbReceipt", "rbRow")
  /\ UNCHANGED <<stores, backend, refused, job, budget>>

RollbackReceipt(w) ==
  /\ Step(w, "rbReceipt", "rbRow")
  /\ receipt' = [receipt EXCEPT ![Pkg(w)] = None]
  /\ UNCHANGED <<manifest, row, okRuns, audited, backend, refused, job, budget>>

\* reset_for_republish licenses a new publication of the URL.
RollbackRow(w) ==
  /\ At(w, "rbRow")
  /\ Finish(w)
  /\ row' = [row EXCEPT ![Url(w)] = Absent]
  /\ clicks' = [clicks EXCEPT ![Url(w)] = 0]
  /\ UNCHANGED <<manifest, receipt, okRuns, audited, posted, refused, budget>>

-----------------------------------------------------------------------------
(* Failures, and the operator's recovery after a refusal.                   *)

\* Any step may raise instead: SessionExpiredError or DependencyError at the
\* browser, a locked database, a full disk.
Fail(w) ==
  /\ pc[w] # "idle"
  /\ faults < MaxFaults
  /\ faults' = faults + 1
  /\ Raise(w)
  /\ UNCHANGED <<stores, backend, refused, crashes>>

Crash(w) ==
  /\ pc[w] # "idle"
  /\ crashes < MaxCrashes
  /\ crashes' = crashes + 1
  /\ Finish(w)
  /\ UNCHANGED <<stores, backend, refused, faults>>

\* "Post IS live: set manifest backend.status=published + published_url".
OperatorConfirmsLive(p) ==
  /\ UrlOf[p] \in refused
  /\ p \in posted /\ clicks[UrlOf[p]] > 0
  /\ manifest' = [manifest EXCEPT ![p] = [status |-> "published", url |-> p]]
  /\ refused' = refused \ {UrlOf[p]}
  /\ UNCHANGED <<row, receipt, okRuns, audited, backend, control, budget>>

\* "Post NOT live: UPDATE items SET status='draft_verified'".
OperatorReleases(u) ==
  /\ u \in refused
  /\ clicks[u] = 0
  /\ row' = [row EXCEPT ![u].status = IF @ = "absent" THEN @ ELSE "draft_verified"]
  /\ refused' = refused \ {u}
  /\ UNCHANGED <<manifest, receipt, okRuns, audited, backend, control, budget>>

-----------------------------------------------------------------------------

BrowserStep(w) == Click(w) \/ Confirm(w) \/ TryAgain(w) \/ GiveUp(w)

CodeStep(w) ==
  \/ Load(w) \/ ForwardComplete(w) \/ NotYetPublished(w)
  \/ RefusePublishing(w) \/ GateRefuses(w) \/ GatesPass(w) \/ Reserve(w)
  \/ BrowserStep(w)
  \/ Save(w) \/ Mark(w)
  \/ CheckReceipt(w) \/ OpenReceipt(w) \/ FillReceipt(w)
  \/ CheckRun(w) \/ InsertRun(w) \/ Audit(w)
  \/ RollbackSave(w) \/ RollbackReceipt(w) \/ RollbackRow(w)

Request(w) ==
  \E p \in Packages : StartCli(w, p) \/ StartWeb(w, p) \/ StartAuto(w, p) \/ StartRollback(w, p)

Operator ==
  \/ \E p \in Packages : OperatorConfirmsLive(p)
  \/ \E u \in Urls : OperatorReleases(u)

Next ==
  \/ \E w \in Workers : Request(w) \/ CodeStep(w) \/ Fail(w) \/ Crash(w)
  \/ Operator

Spec == Init /\ [][Next]_vars

\* A thread or process that is running takes its next step.
FairSpec == Spec /\ \A w \in Workers : WF_vars(CodeStep(w))

-----------------------------------------------------------------------------
(* Properties.                                                              *)

\* x names a post of URL u that the backend really published.
PostOf(x, u) == x \in posted /\ UrlOf[x] = u

\* Nothing claims a publication that never happened: whatever the interleaving
\* of runs, rollbacks, failures and recoveries, a manifest or a state row that
\* says "published" and a receipt that exists name a post of that very URL which
\* a click really published (publish_post.py:122, 137-143; the forward-complete
\* branches trust each other's stores at 57 and 70).
NoPhantom ==
  /\ \A p \in Packages : manifest[p].status = "published" => PostOf(manifest[p].url, UrlOf[p])
  /\ \A u \in Urls : row[u].status = "published" => PostOf(row[u].url, u)
  /\ \A p \in Packages : receipt[p] \notin {None, Torn} => PostOf(receipt[p], UrlOf[p])

\* No duplicate live post: between two releases of a URL (a rollback, or the
\* operator's reset) at most one publish click takes effect (publish_post.py:53,
\* 117-118, "worst case is operator confirmation, not a second live post" 77-78).
AtMostOnePost == \A u \in Urls : clicks[u] <= 1

\* A post that went live leaves a durable mark a later run will find: its state
\* row is reserved or published until a rollback releases it, so no crash point
\* lets the next run take the URL for a new one (B1, publish_post.py:156-161).
PostLeavesTrace ==
  \A u \in Urls : clicks[u] > 0 => row[u].status \in {"publishing", "published"}

\* Re-entries and rollbacks never append a second ok publish row for a package
\* (_publish_run_recorded, publish_post.py:212-224).
OneOkRun == \A p \in Packages : okRuns[p] <= 1

\* The bookkeeping tail is ordered: a receipt is only there while the state row
\* says published, so dedupe never lets a package with a receipt through again,
\* and an audit "ok" line implies the run was recorded (publish_post.py:137-149).
BookedInOrder ==
  /\ \A p \in Packages : receipt[p] # None => row[UrlOf[p]].status = "published"
  /\ \A p \in audited : okRuns[p] > 0

\* A click takes effect only while the URL's reservation stands: nothing, the
\* operator's reset included, can take the reservation away between the write
\* of 'publishing' and the click it protects (publish_post.py:103-107).
ClickIsReserved ==
  [][\A u \in Urls : clicks'[u] > clicks[u] => row[u].status = "publishing"]_vars

\* "The post is ALREADY live, so we must never re-click publish"
\* (publish_post.py:52-53): no click takes effect on a post that is live.
NeverReclicked ==
  [][\A u \in Urls : clicks'[u] > clicks[u] => clicks[u] = 0]_vars

\* Every run ends: no sequence of retries, re-entries and refusals keeps a
\* worker busy for ever.
EveryRunEnds == \A w \in Workers : pc[w] # "idle" ~> pc[w] = "idle"

Booked(p) ==
  /\ row[UrlOf[p]].status = "published"
  /\ receipt[p] # None
  /\ okRuns[p] > 0

\* A publication of the auto pipeline whose bookkeeping fails once is completed
\* by the next invocation of _retry (publish_post.py:132-136, pipeline.py:340-352):
\* with an invocation left, a published manifest gets its row, receipt and record.
AutoBooksPublication ==
  \A w \in Workers, p \in Packages :
    (pc[w] = "mark" /\ job[w].kind = "auto" /\ job[w].left > 1 /\ Pkg(w) = p) ~> Booked(p)

-----------------------------------------------------------------------------
(* The promise of PublishPromise, and how the stores and the backend of one  *)
(* run at a time keep it.                                                    *)

PhaseOf(u) ==
  CASE row[u].status = "published"                   -> "recorded"
    [] row[u].status # "published" /\ clicks[u] > 0  -> "posted"
    [] row[u].status = "publishing" /\ clicks[u] = 0 -> "reserved"
    [] OTHER                                         -> "free"

Phase == [u \in Urls |-> PhaseOf(u)]

Promise == INSTANCE PublishPromise WITH phase <- Phase

\* Serial runs implement the promise: with a URL of its own, a package is
\* reserved, posted once and recorded, and starts over only after a release.
KeepsPromise == Promise!Spec

-----------------------------------------------------------------------------
(* The inductive strengthenings the proofs rest on.                         *)

\* A run that is going to write a URL down holds the URL of a real post.
PhantomInv ==
  /\ NoPhantom
  /\ \A u \in Urls : row[u].url # None => PostOf(row[u].url, u)
  /\ \A w \in Workers :
       /\ pc[w] = "confirm" => Pkg(w) \in posted
       /\ pc[w] \in {"save", "mark", "receipt", "openReceipt", "fillReceipt"}
            => job[w].mem.status = "published" /\ PostOf(job[w].mem.url, Url(w))
       /\ pc[w] = "rbSave" => job[w].mem.status # "published"

\* One run at a time.
OneWorker == \A v, w \in Workers : v = w

\* One run at a time, one browser attempt, always a state file.
Serial ==
  /\ OneWorker
  /\ Attempts = 1
  /\ CliState = {TRUE}

\* A reservation in use awaits no operator and has not been clicked on.
SerialInv ==
  /\ AtMostOnePost /\ PostLeavesTrace
  /\ \A u \in refused : row[u].status \in {"publishing", "published"}
  /\ \A w \in Workers :
       /\ pc[w] # "idle" => job[w].state
       /\ pc[w] \in {"rbSave", "rbReceipt", "rbRow"} => Url(w) \notin refused
       /\ pc[w] = "checkPublishing" => row[Url(w)].status # "published"
       /\ pc[w] = "reserve" => row[Url(w)].status \notin {"publishing", "published"}
       /\ pc[w] = "drive" => /\ clicks[Url(w)] = 0
                             /\ row[Url(w)].status = "publishing"
                             /\ Url(w) \notin refused

\* No two packages share a canonical URL.
Unshared == \A p, q \in Packages : UrlOf[p] = UrlOf[q] => p = q

\* Every claim of a publication is one of the current licence.
PromiseInv ==
  /\ \A u \in Urls : row[u].status = "published" => clicks[u] > 0
  /\ \A p \in Packages : manifest[p].status = "published" => clicks[UrlOf[p]] > 0
  /\ \A w \in Workers :
       /\ pc[w] \in {"confirm", "save", "mark"} => clicks[Url(w)] > 0
       /\ pc[w] \in {"rbReceipt", "rbRow"} => manifest[Pkg(w)].status # "published"

\* Only a worker that found no ok run records one, and none is audited without.
RunsInv ==
  /\ OneOkRun
  /\ \A w \in Workers : pc[w] = "insertRun" => okRuns[Pkg(w)] = 0

\* From Mark to the receipt the row says published; a rollback removes the receipt first.
BookInv ==
  /\ BookedInOrder
  /\ \A w \in Workers :
       /\ pc[w] \in {"receipt", "openReceipt", "fillReceipt"} => row[Url(w)].status = "published"
       /\ pc[w] = "audit" => okRuns[Pkg(w)] > 0
       /\ pc[w] = "rbRow" => receipt[Pkg(w)] = None
=============================================================================

------------------------- MODULE AutoPipelineProofs -------------------------
(***************************************************************************)
(* What AutoPipeline guarantees for any number of jobs, packages, URLs and *)
(* texts, batches of any length, and failures and aborted jobs anywhere:   *)
(* its state is well typed, a package that says it has a draft has one,    *)
(* and what a job reports as published is live.  If the jobs run one at a  *)
(* time, what counts as built is what its package holds, and no package is *)
(* set back.                                                               *)
(*                                                                         *)
(* Each step of a job changes its lists in one of five ways (Stays, Drops, *)
(* Keeps, Ends, Empties).  JobInv says what an item has achieved by being  *)
(* in a stage's list; it moves along the lists with the item, because what *)
(* it says of a package is never undone (Lasting).                         *)
(***************************************************************************)
EXTENDS AutoPipeline, TLAPS

TodoRecs(w) == {job[w].todo[i] : i \in DOMAIN job[w].todo}
KeptRecs(w) == {job[w].kept[i] : i \in DOMAIN job[w].kept}
TodoPkgs(w) == {r.pkg : r \in TodoRecs(w)}
KeptPkgs(w) == {r.pkg : r \in KeptRecs(w)}
HasPost(u)  == \E p \in Packages : UrlOf[p] = u /\ posts[p] > 0

JobInv(w) ==
  /\ Stage(w) \in {"draft", "verify", "publish"} => \A p \in TodoPkgs(w) : manifest[p] # None
  /\ Stage(w) # "dedupe" => \A p \in KeptPkgs(w) : manifest[p] # None
  /\ Stage(w) \in {"verify", "publish"} => \A p \in TodoPkgs(w) : drafts[p] > 0
  /\ Stage(w) \in {"draft", "verify", "publish"} => \A p \in KeptPkgs(w) : drafts[p] > 0
  /\ Stage(w) = "publish" => \A p \in KeptPkgs(w) : row[UrlOf[p]] = "published"
  /\ pc[w] = "save" => /\ drafts[Pkg(w)] > 0
                       /\ job[w].mem.status \in {"drafted", "draft_verified"}

PkgInv(p) ==
  manifest[p] # None =>
    /\ manifest[p].status # "package_built" => drafts[p] > 0
    /\ manifest[p].status = "published" => HasPost(UrlOf[p])

RowInv == \A u \in Urls : row[u] = "published" => HasPost(u)

IInv ==
  /\ TypeOK
  /\ \A w \in Jobs : JobInv(w)
  /\ \A p \in Packages : PkgInv(p)
  /\ RowInv

-----------------------------------------------------------------------------
(* The five ways in which a step moves the lists of its job.                *)

Others(w)  == \A v \in Jobs \ {w} : pc'[v] = pc[v] /\ job'[v] = job[v]
JobsTyped  == pc' \in [Jobs -> Labels] /\ job' \in [Jobs -> Job]
Moved(w)   == JobsTyped /\ Others(w) /\ Control(w)'

\* The job is then at a stage's loop, with no item in hand, or idle.
Between(w) == pc'[w] \notin {"guard", "manifest", "save"}

Stays(w)   == /\ Moved(w) /\ Stage(w)' = Stage(w)
              /\ TodoRecs(w)' = TodoRecs(w) /\ KeptRecs(w)' = KeptRecs(w)
Drops(w)   == /\ Moved(w) /\ Stage(w)' = Stage(w) /\ Between(w)
              /\ TodoRecs(w)' \subseteq TodoRecs(w) /\ KeptRecs(w)' = KeptRecs(w)
Keeps(w)   == /\ Moved(w) /\ Stage(w)' = Stage(w) /\ Between(w)
              /\ TodoRecs(w)' \subseteq TodoRecs(w)
              /\ KeptRecs(w)' \subseteq KeptRecs(w) \cup {Item(w)}
Ends(w, from, to) ==
              /\ Moved(w) /\ Stage(w) = from /\ Stage(w)' = to /\ Between(w)
              /\ TodoRecs(w)' = KeptRecs(w) /\ KeptRecs(w)' = {}
Empties(w) == /\ Moved(w) /\ Stage(w)' = "dedupe" /\ Between(w)
              /\ KeptRecs(w)' = {}

\* A failed attempt: the item is tried again or dropped.
Fails(w)   == (Stays(w) /\ pc'[w] # "save") \/ Drops(w)

LEMMA TailOfSeq ==
  ASSUME NEW S, NEW s \in Seq(S), s # <<>>
  PROVE  /\ Head(s) \in S /\ Tail(s) \in Seq(S)
         /\ s[1] = Head(s) /\ 1 \in DOMAIN s
         /\ \A i \in DOMAIN Tail(s) : i + 1 \in DOMAIN s /\ Tail(s)[i] = s[i + 1]
OBVIOUS

LEMMA AppendOfSeq ==
  ASSUME NEW S, NEW s \in Seq(S), NEW e \in S
  PROVE  /\ Append(s, e) \in Seq(S)
         /\ \A i \in DOMAIN Append(s, e) :
              (i \in DOMAIN s /\ Append(s, e)[i] = s[i]) \/ Append(s, e)[i] = e
OBVIOUS

\* The item in hand is a record of the batch.
LEMMA ItemTyped ==
  ASSUME TypeOK, NEW w \in Jobs, job[w].todo # <<>>
  PROVE  /\ job[w] \in Job /\ Item(w) \in Record /\ Pkg(w) \in Packages /\ Url(w) \in Urls
         /\ Item(w) \in TodoRecs(w) /\ Pkg(w) \in TodoPkgs(w)
<1>1. job[w] \in Job /\ job[w].todo \in Seq(Record)
  BY DEF TypeOK, Job
<1>2. /\ Item(w) \in Record
      /\ job[w].todo[1] = Item(w) /\ 1 \in DOMAIN job[w].todo
  BY <1>1, TailOfSeq DEF Item
<1>3. Pkg(w) \in Packages /\ Item(w) \in TodoRecs(w) /\ Pkg(w) \in TodoPkgs(w)
  BY <1>2 DEF Pkg, TodoPkgs, TodoRecs, Record
<1>4. Url(w) \in Urls
  BY <1>3, PipelineAssumption DEF Url
<1> QED BY <1>1, <1>2, <1>3, <1>4

\* What a job holds is its own affair.
LEMMA HoldTyped ==
  ASSUME TypeOK, NEW w \in Jobs, NEW j \in Job, Hold(w, j), NEW l \in Labels, Goto(w, l)
  PROVE  JobsTyped /\ Others(w) /\ job'[w] = j /\ pc'[w] = l
BY DEF TypeOK, Hold, Goto, JobsTyped, Others

LEMMA AdvanceMoves ==
  ASSUME TypeOK, NEW w \in Jobs, job[w].todo # <<>>,
         NEW kept \in Seq(Record), Advance(w, kept)
  PROVE  /\ Moved(w) /\ Stage(w)' = Stage(w) /\ Between(w)
         /\ TodoRecs(w)' \subseteq TodoRecs(w)
         /\ job'[w].kept = kept
<1>1. job[w] \in Job /\ job[w].todo \in Seq(Record) /\ Stage(w) \in Stages
  BY DEF TypeOK, Job, Stage
<1>2. Tail(job[w].todo) \in Seq(Record)
  BY <1>1, TailOfSeq
<1> DEFINE j == [job[w] EXCEPT !.todo = Tail(job[w].todo), !.kept = kept, !.mem = None,
                               !.tries = 0, !.expired = FALSE]
<1>3. /\ j \in Job
      /\ j.todo = Tail(job[w].todo) /\ j.kept = kept /\ j.stage = job[w].stage
  BY <1>1, <1>2 DEF Job
<1>4. Hold(w, j) /\ Goto(w, Stage(w)) /\ Stage(w) \in Labels
  BY <1>1 DEF Advance, Labels
<1> HIDE DEF j
<1>5. JobsTyped /\ Others(w) /\ job'[w] = j /\ pc'[w] = Stage(w)
  BY <1>3, <1>4, HoldTyped
<1>6. Control(w)' /\ Stage(w)' = Stage(w) /\ Between(w)
  BY <1>1, <1>3, <1>5 DEF Control, Stage, Stages, Between
<1>7. TodoRecs(w)' \subseteq TodoRecs(w)
  <2>1. job'[w].todo = Tail(job[w].todo)
    BY <1>3, <1>5
  <2>2. \A i \in DOMAIN Tail(job[w].todo) :
          i + 1 \in DOMAIN job[w].todo /\ Tail(job[w].todo)[i] = job[w].todo[i + 1]
    BY <1>1, TailOfSeq
  <2> QED BY <2>1, <2>2 DEF TodoRecs
<1> QED BY <1>3, <1>5, <1>6, <1>7 DEF Moved

LEMMA DropMoves ==
  ASSUME TypeOK, NEW w \in Jobs, job[w].todo # <<>>, Drop(w)
  PROVE  Drops(w)
<1>1. job[w].kept \in Seq(Record)
  BY DEF TypeOK, Job
<1> QED BY <1>1, AdvanceMoves DEF Drop, Drops, KeptRecs

LEMMA KeepMoves ==
  ASSUME TypeOK, NEW w \in Jobs, job[w].todo # <<>>, Keep(w)
  PROVE  Keeps(w)
<1>1. job[w].kept \in Seq(Record) /\ Item(w) \in Record
  BY ItemTyped DEF TypeOK, Job
<1>2. Append(job[w].kept, Item(w)) \in Seq(Record)
  BY <1>1, AppendOfSeq
<1>3. /\ Moved(w) /\ Stage(w)' = Stage(w) /\ Between(w)
      /\ TodoRecs(w)' \subseteq TodoRecs(w)
      /\ job'[w].kept = Append(job[w].kept, Item(w))
  BY <1>2, AdvanceMoves DEF Keep
<1>4. KeptRecs(w)' \subseteq KeptRecs(w) \cup {Item(w)}
  BY <1>1, <1>3, AppendOfSeq DEF KeptRecs
<1> QED BY <1>3, <1>4 DEF Keeps

LEMMA EndStageMoves ==
  ASSUME TypeOK, NEW w \in Jobs, NEW from \in Stages, NEW to \in Stages, EndStage(w, from, to)
  PROVE  Ends(w, from, to)
<1>1. job[w] \in Job /\ pc[w] = from /\ Stage(w) = from
  BY DEF TypeOK, EndStage, At, Control
<1> DEFINE j == [job[w] EXCEPT !.todo = job[w].kept, !.kept = <<>>, !.stage = to]
<1>e. <<>> \in Seq(Record)
  OBVIOUS
<1>2. j \in Job /\ j.todo = job[w].kept /\ j.kept = <<>> /\ j.stage = to
  BY <1>1, <1>e DEF Job
<1>3. Hold(w, j) /\ Goto(w, to) /\ to \in Labels
  BY DEF EndStage, Labels
<1> HIDE DEF j
<1>4. JobsTyped /\ Others(w) /\ job'[w] = j /\ pc'[w] = to
  BY <1>2, <1>3, HoldTyped
<1>5. Control(w)' /\ Stage(w)' = to /\ Between(w)
  BY <1>2, <1>4 DEF Control, Stage, Stages, Between
<1> QED BY <1>1, <1>2, <1>4, <1>5 DEF Ends, Moved, TodoRecs, KeptRecs

LEMMA FreeTyped == Free \in Job
BY DEF Free, Job, Stages

LEMMA FinishMoves ==
  ASSUME TypeOK, NEW w \in Jobs, Finish(w)
  PROVE  Empties(w)
<1>1. Hold(w, Free) /\ Goto(w, "idle") /\ "idle" \in Labels
  BY DEF Finish, Labels
<1>2. JobsTyped /\ Others(w) /\ job'[w] = Free /\ pc'[w] = "idle"
  BY <1>1, FreeTyped, HoldTyped
<1> QED BY <1>2 DEF Empties, Between, Moved, Control, Stage, Stages, Free, KeptRecs

LEMMA CrawlMoves ==
  ASSUME TypeOK, NEW w \in Jobs, Crawl(w)
  PROVE  Empties(w)
<1>n. PICK n \in 1..MaxItems : \E items \in [1..n -> Record] : Hold(w, [Free EXCEPT !.todo = items])
  BY DEF Crawl
<1>1. PICK items \in [1..n -> Record] : Hold(w, [Free EXCEPT !.todo = items])
  BY <1>n
<1>2. items \in Seq(Record)
  BY PipelineAssumption
<1> DEFINE j == [Free EXCEPT !.todo = items]
<1>f. Free.kept = <<>> /\ Free.stage = "dedupe"
  BY DEF Free
<1>3. j \in Job /\ j.kept = <<>> /\ j.stage = "dedupe"
  BY <1>2, <1>f, FreeTyped DEF Job
<1>4. Hold(w, j) /\ Goto(w, "dedupe") /\ "dedupe" \in Labels
  BY <1>1 DEF Crawl, Labels, Stages
<1> HIDE DEF j
<1>5. JobsTyped /\ Others(w) /\ job'[w] = j /\ pc'[w] = "dedupe"
  BY <1>3, <1>4, HoldTyped
<1> QED BY <1>3, <1>5 DEF Empties, Between, Moved, Control, Stage, Stages, KeptRecs

LEMMA RetryMoves ==
  ASSUME TypeOK, NEW w \in Jobs, job[w].todo # <<>>, NEW expiry \in BOOLEAN, Retry(w, expiry)
  PROVE  Fails(w) /\ Between(w) /\ noted' \in BOOLEAN
<1>1. job[w] \in Job /\ Stage(w) \in Stages
  BY DEF TypeOK, Job, Stage
<1>2. CASE job[w].tries + 1 < Times
  <2> DEFINE e == job[w].expired \/ expiry
  <2> DEFINE j == [job[w] EXCEPT !.tries = job[w].tries + 1, !.mem = None, !.expired = e]
  <2>1. e \in BOOLEAN
    BY <1>1 DEF Job
  <2>2. Hold(w, j) /\ Goto(w, Stage(w)) /\ Stage(w) \in Labels
    BY <1>1, <1>2 DEF Retry, Labels
  <2> HIDE DEF e
  <2>3. /\ j \in Job
        /\ j.todo = job[w].todo /\ j.kept = job[w].kept /\ j.stage = job[w].stage
    <3>1. job[w].tries + 1 \in Nat
      BY <1>1 DEF Job
    <3> QED BY <1>1, <2>1, <3>1 DEF Job
  <2> HIDE DEF j
  <2>4. JobsTyped /\ Others(w) /\ job'[w] = j /\ pc'[w] = Stage(w)
    BY <2>3, <2>2, HoldTyped
  <2>5. Control(w)' /\ Stage(w)' = Stage(w) /\ Between(w)
    BY <1>1, <2>3, <2>4 DEF Control, Stage, Stages, Between
  <2>6. noted' \in BOOLEAN
    BY <1>2 DEF Retry, TypeOK
  <2> QED BY <2>3, <2>4, <2>5, <2>6 DEF Fails, Stays, Between, Moved, TodoRecs, KeptRecs
<1>3. CASE ~ (job[w].tries + 1 < Times)
  <2>1. Drop(w) /\ noted' = (noted \/ expiry)
    BY <1>3 DEF Retry
  <2> QED BY <2>1, DropMoves DEF Fails, Drops, TypeOK
<1> QED BY <1>2, <1>3

\* A step within an item leaves the job's record as it is.
LEMMA GotoMoves ==
  ASSUME TypeOK, NEW w \in Jobs, NEW l \in {"guard", "manifest"},
         Stage(w) = "build", job[w].todo # <<>>, Goto(w, l), job' = job
  PROVE  Stays(w) /\ pc'[w] # "save"
<1>1. pc' \in [Jobs -> Labels] /\ pc'[w] = l /\ Others(w)
  BY DEF TypeOK, Goto, Labels, Others
<1>2. Control(w)' /\ Stage(w)' = Stage(w) /\ pc'[w] # "save"
  BY <1>1 DEF Control, Stage, Stages
<1> QED BY <1>1, <1>2 DEF TypeOK, Stays, Moved, JobsTyped, TodoRecs, KeptRecs

LEMMA ReadyMoves ==
  ASSUME TypeOK, NEW w \in Jobs, NEW s \in {"draft", "verify"}, Ready(w, s),
         manifest[Pkg(w)] \in Manifest
  PROVE  /\ Stays(w) /\ Pkg(w)' = Pkg(w)
         /\ job'[w].mem.status \in {"drafted", "draft_verified"}
<1> DEFINE m == [manifest[Pkg(w)] EXCEPT !.status = After(s)]
<1> DEFINE j == [job[w] EXCEPT !.mem = m]
<1>1. job[w] \in Job /\ Stage(w) = s /\ job[w].todo # <<>>
  BY DEF TypeOK, Ready, AtItem, At, Control, Stages
<1>2. m \in Manifest /\ m.status \in {"drafted", "draft_verified"}
  BY DEF Manifest, Status, After
<1>3. m # None
  BY <1>2, PipelineAssumption
<1>4. Hold(w, j) /\ Goto(w, "save") /\ "save" \in Labels
  BY DEF Ready, Labels
<1> HIDE DEF m
<1>5. /\ j \in Job
      /\ j.todo = job[w].todo /\ j.kept = job[w].kept /\ j.stage = job[w].stage /\ j.mem = m
  BY <1>1, <1>2 DEF Job
<1> HIDE DEF j
<1>6. JobsTyped /\ Others(w) /\ job'[w] = j /\ pc'[w] = "save"
  BY <1>4, <1>5, HoldTyped
<1>7. Control(w)' /\ Stage(w)' = Stage(w)
  BY <1>1, <1>3, <1>5, <1>6 DEF Control, Stage, Stages
<1> QED BY <1>2, <1>5, <1>6, <1>7
        DEF Stays, Moved, TodoRecs, KeptRecs, Pkg, Item

-----------------------------------------------------------------------------
(* What an item has achieved goes with it along the lists.                  *)

\* What is said of a package or a URL stays true.
Lasting ==
  /\ \A p \in Packages : manifest[p] # None => manifest'[p] # None
  /\ \A p \in Packages : drafts[p] > 0 => drafts'[p] > 0
  /\ \A p \in Packages : posts[p] > 0 => posts'[p] > 0
  /\ \A u \in Urls : row[u] = "published" => row'[u] = "published"

\* What the item in hand must have achieved to be kept.
Earned(w) ==
  /\ Stage(w) # "dedupe" => manifest'[Pkg(w)] # None
  /\ Stage(w) \in {"draft", "verify", "publish"} => drafts'[Pkg(w)] > 0
  /\ Stage(w) = "publish" => row'[Url(w)] = "published"

LEMMA PkgsTyped ==
  ASSUME TypeOK, NEW w \in Jobs
  PROVE  TodoPkgs(w) \subseteq Packages /\ KeptPkgs(w) \subseteq Packages
<1>1. job[w].todo \in Seq(Record) /\ job[w].kept \in Seq(Record)
  BY DEF TypeOK, Job
<1>2. /\ \A i \in DOMAIN job[w].todo : job[w].todo[i] \in Record
      /\ \A i \in DOMAIN job[w].kept : job[w].kept[i] \in Record
  BY <1>1
<1> QED BY <1>2 DEF TodoPkgs, KeptPkgs, TodoRecs, KeptRecs, Record

LEMMA OthersKeep ==
  ASSUME TypeOK, Lasting, NEW w \in Jobs, Others(w), NEW v \in Jobs, v # w, JobInv(v)
  PROVE  JobInv(v)'
<1>1. pc'[v] = pc[v] /\ job'[v] = job[v]
  BY DEF Others
<1>2. /\ Stage(v)' = Stage(v) /\ TodoPkgs(v)' = TodoPkgs(v) /\ KeptPkgs(v)' = KeptPkgs(v)
      /\ Pkg(v)' = Pkg(v)
  BY <1>1 DEF Stage, TodoPkgs, KeptPkgs, TodoRecs, KeptRecs, Pkg, Item
<1>3. TodoPkgs(v) \subseteq Packages /\ KeptPkgs(v) \subseteq Packages
  BY PkgsTyped
<1>4. pc[v] = "save" => Pkg(v) \in Packages
  BY ItemTyped DEF TypeOK, Control
<1>5. \A p \in Packages : UrlOf[p] \in Urls
  BY PipelineAssumption
<1> QED BY <1>1, <1>2, <1>3, <1>4, <1>5 DEF JobInv, Lasting

LEMMA StaysKeeps ==
  ASSUME TypeOK, Lasting, NEW w \in Jobs, JobInv(w), pc'[w] # "save",
         Stays(w) \/ Drops(w)
  PROVE  JobInv(w)'
<1>1. /\ Stage(w)' = Stage(w) /\ TodoPkgs(w)' \subseteq TodoPkgs(w)
      /\ KeptPkgs(w)' = KeptPkgs(w)
  BY DEF Stays, Drops, TodoPkgs, KeptPkgs
<1>2. TodoPkgs(w) \subseteq Packages /\ KeptPkgs(w) \subseteq Packages
  BY PkgsTyped
<1>3. \A p \in Packages : UrlOf[p] \in Urls
  BY PipelineAssumption
<1> QED BY <1>1, <1>2, <1>3 DEF JobInv, Lasting

LEMMA KeepsKeeps ==
  ASSUME TypeOK, Lasting, NEW w \in Jobs, JobInv(w), Keeps(w), Earned(w)
  PROVE  JobInv(w)'
<1>1. /\ Stage(w)' = Stage(w) /\ TodoPkgs(w)' \subseteq TodoPkgs(w) /\ pc'[w] # "save"
      /\ KeptPkgs(w)' \subseteq KeptPkgs(w) \cup {Pkg(w)}
  BY DEF Keeps, Between, TodoPkgs, KeptPkgs, Pkg
<1>2. TodoPkgs(w) \subseteq Packages /\ KeptPkgs(w) \subseteq Packages
  BY PkgsTyped
<1>3. \A p \in Packages : UrlOf[p] \in Urls
  BY PipelineAssumption
<1> QED BY <1>1, <1>2, <1>3 DEF JobInv, Lasting, Earned, Url

LEMMA EndsKeeps ==
  ASSUME TypeOK, Lasting, NEW w \in Jobs, JobInv(w),
         \/ Ends(w, "dedupe", "build") \/ Ends(w, "build", "draft")
         \/ Ends(w, "draft", "verify") \/ Ends(w, "verify", "publish")
  PROVE  JobInv(w)'
<1>1. KeptPkgs(w) \subseteq Packages
  BY PkgsTyped
<1>2. TodoPkgs(w)' = KeptPkgs(w) /\ KeptPkgs(w)' = {}
  BY DEF Ends, TodoPkgs, KeptPkgs
<1> QED BY <1>1, <1>2 DEF JobInv, Lasting, Ends, Between

LEMMA EmptiesKeeps ==
  ASSUME NEW w \in Jobs, Empties(w)
  PROVE  JobInv(w)'
BY DEF JobInv, Empties, Between, KeptPkgs

-----------------------------------------------------------------------------
(* Steps that leave the stores alone, and steps that do not.                *)

\* What every step of a job establishes.
StepOK(w) ==
  /\ TypeOK' /\ JobInv(w)' /\ Others(w) /\ Lasting
  /\ \A p \in Packages : PkgInv(p)'
  /\ RowInv'

StoresTyped ==
  /\ caption \in [Packages -> Texts \cup {None}]
  /\ manifest \in [Packages -> Manifest \cup {None}]
  /\ row \in [Urls -> {"free", "publishing", "published"}]
  /\ drafts \in [Packages -> Nat] /\ posts \in [Packages -> Nat]
  /\ noted \in BOOLEAN
  /\ faults \in Nat /\ stops \in Nat

LEMMA TypedAgain ==
  ASSUME TypeOK, StoresTyped', NEW w \in Jobs, Moved(w)
  PROVE  TypeOK'
<1>1. \A v \in Jobs : Control(v)'
  <2> SUFFICES ASSUME NEW v \in Jobs PROVE Control(v)'
    OBVIOUS
  <2>1. CASE v = w
    BY <2>1 DEF Moved
  <2>2. CASE v # w
    <3>1. pc'[v] = pc[v] /\ job'[v] = job[v] /\ Control(v)
      BY <2>2 DEF Moved, Others, TypeOK
    <3> QED BY <3>1 DEF Control, Stage
  <2> QED BY <2>1, <2>2
<1> QED BY <1>1 DEF TypeOK, StoresTyped, Moved, JobsTyped

\* A step that moves the lists and at most fills the caption file or makes a draft.
LEMMA DraftingStep ==
  ASSUME IInv, NEW w \in Jobs, UNCHANGED <<manifest, row, posts>>,
         caption' \in [Packages -> Texts \cup {None}],
         drafts' \in [Packages -> Nat], \A p \in Packages : drafts[p] > 0 => drafts'[p] > 0,
         noted' \in BOOLEAN, faults' \in Nat, stops' \in Nat,
         \/ Fails(w) \/ (Keeps(w) /\ Earned(w)) \/ Empties(w)
         \/ Ends(w, "dedupe", "build") \/ Ends(w, "build", "draft")
         \/ Ends(w, "draft", "verify") \/ Ends(w, "verify", "publish")
  PROVE  StepOK(w)
<1>1. Lasting
  BY DEF Lasting
<1>2. StoresTyped' /\ TypeOK
  BY DEF IInv, TypeOK, StoresTyped
<1>3. Moved(w)
  BY DEF Fails, Stays, Drops, Keeps, Empties, Ends
<1>4. JobInv(w) /\ JobInv(w)'
  BY <1>1, <1>2, StaysKeeps, KeepsKeeps, EndsKeeps, EmptiesKeeps DEF Fails, Drops, Between, IInv
<1>5. TypeOK'
  BY <1>2, <1>3, TypedAgain
<1>6. RowInv' /\ \A p \in Packages : PkgInv(p)'
  BY DEF IInv, RowInv, PkgInv, HasPost
<1> QED BY <1>1, <1>3, <1>4, <1>5, <1>6 DEF StepOK, Moved

\* A step that moves the lists and at most fills the caption file.
LEMMA QuietStep ==
  ASSUME IInv, NEW w \in Jobs, UNCHANGED <<manifest, outside>>,
         caption' \in [Packages -> Texts \cup {None}],
         noted' \in BOOLEAN, faults' \in Nat, stops' \in Nat,
         \/ Fails(w) \/ (Keeps(w) /\ Earned(w)) \/ Empties(w)
         \/ Ends(w, "dedupe", "build") \/ Ends(w, "build", "draft")
         \/ Ends(w, "draft", "verify") \/ Ends(w, "verify", "publish")
  PROVE  StepOK(w)
<1>1. UNCHANGED <<manifest, row, posts>> /\ UNCHANGED drafts
  BY DEF outside
<1>2. drafts' \in [Packages -> Nat]
  BY <1>1 DEF IInv, TypeOK
<1> QED BY <1>1, <1>2, DraftingStep

\* A step that writes one manifest, which claims no publication.
LEMMA ManifestStep ==
  ASSUME IInv, NEW w \in Jobs, UNCHANGED outside, UNCHANGED caption,
         noted' \in BOOLEAN, faults' \in Nat, stops' \in Nat,
         NEW p \in Packages, NEW m \in Manifest, manifest' = [manifest EXCEPT ![p] = m],
         m.status # "package_built" => drafts[p] > 0, m.status # "published",
         Fails(w) \/ (Keeps(w) /\ Earned(w))
  PROVE  StepOK(w)
<1>1. manifest \in [Packages -> Manifest \cup {None}] /\ m # None
  BY PipelineAssumption DEF IInv, TypeOK
<1>2. Lasting
  BY <1>1 DEF outside, Lasting
<1>3. StoresTyped' /\ TypeOK
  BY <1>1 DEF IInv, TypeOK, StoresTyped, outside
<1>4. Moved(w)
  BY DEF Fails, Stays, Drops, Keeps
<1>5. JobInv(w)'
  BY <1>2, <1>3, StaysKeeps, KeepsKeeps DEF Fails, Drops, Between, IInv
<1>6. TypeOK'
  BY <1>3, <1>4, TypedAgain
<1>7. RowInv'
  BY DEF IInv, RowInv, HasPost, outside
<1>8. ASSUME NEW q \in Packages PROVE PkgInv(q)'
  <2>1. CASE q = p
    BY <2>1, <1>1 DEF PkgInv, outside
  <2>2. CASE q # p
    BY <2>2, <1>1 DEF IInv, PkgInv, HasPost, outside
  <2> QED BY <2>1, <2>2
<1> QED BY <1>2, <1>4, <1>5, <1>6, <1>7, <1>8 DEF StepOK, Moved

\* A step of the publish stage: the row of the item's URL is written, its manifest
\* may be set to published once there is a post, and there may be one post more.
PublishForm(w, r, n) ==
  /\ AtItem(w, "publish") /\ UNCHANGED <<caption, drafts>>
  /\ noted' \in BOOLEAN /\ faults' \in Nat /\ stops' \in Nat
  /\ row' = [row EXCEPT ![Url(w)] = r]
  /\ row[Url(w)] = "published" => r = "published"
  /\ posts' = [posts EXCEPT ![Pkg(w)] = posts[Pkg(w)] + n]
  /\ r = "published" => n = 1 \/ HasPost(Url(w))
  /\ \/ UNCHANGED manifest
     \/ /\ manifest' = [manifest EXCEPT ![Pkg(w)].status = "published"]
        /\ n = 1 \/ HasPost(Url(w))
  /\ Fails(w) \/ (Keeps(w) /\ r = "published")

LEMMA PublishStep ==
  ASSUME IInv, NEW w \in Jobs, NEW r \in {"free", "publishing", "published"}, NEW n \in {0, 1},
         PublishForm(w, r, n)
  PROVE  StepOK(w)
<1>1. TypeOK
  BY DEF IInv
<1>p. PICK p \in Packages : p = Pkg(w)
  BY <1>1, ItemTyped DEF PublishForm, AtItem
<1>v. PICK u \in Urls : u = Url(w)
  BY <1>1, ItemTyped DEF PublishForm, AtItem
<1>u. u = UrlOf[p] /\ p \in TodoPkgs(w) /\ \A q \in Packages : UrlOf[q] \in Urls
  BY <1>1, <1>p, <1>v, ItemTyped, PipelineAssumption DEF PublishForm, AtItem, Url
<1>2. /\ row \in [Urls -> {"free", "publishing", "published"}]
      /\ posts \in [Packages -> Nat] /\ drafts \in [Packages -> Nat]
      /\ manifest \in [Packages -> Manifest \cup {None}]
  BY <1>1 DEF TypeOK
<1>3. Stage(w) = "publish" /\ JobInv(w)
  BY <1>1 DEF PublishForm, IInv, AtItem, At, TypeOK, Control, Stages
<1>4. manifest[p] # None /\ drafts[p] > 0
  BY <1>u, <1>3 DEF JobInv
<1>5. /\ manifest' \in [Packages -> Manifest \cup {None}]
      /\ \A q \in Packages : /\ q # p => manifest'[q] = manifest[q]
                             /\ manifest[q] # None => manifest'[q] # None
      /\ \/ UNCHANGED manifest
         \/ manifest'[p].status = "published" /\ (n = 1 \/ HasPost(u))
  <2>1. CASE UNCHANGED manifest
    BY <1>2, <2>1
  <2>2. CASE ~ UNCHANGED manifest
    <3> DEFINE m == [manifest[p] EXCEPT !.status = "published"]
    <3>1. m \in Manifest /\ m.status = "published"
      BY <1>2, <1>4 DEF Manifest, Status
    <3>2. m # None
      BY <3>1, PipelineAssumption
    <3>3. manifest' = [manifest EXCEPT ![p] = m] /\ (n = 1 \/ HasPost(u))
      BY <1>p, <1>v, <2>2 DEF PublishForm
    <3> HIDE DEF m
    <3> QED BY <1>2, <2>2, <3>1, <3>2, <3>3
  <2> QED BY <2>1, <2>2
<1>6. /\ posts' \in [Packages -> Nat]
      /\ \A q \in Packages : posts[q] > 0 => posts'[q] > 0
      /\ n = 1 => posts'[p] > 0
  BY <1>p, <1>2 DEF PublishForm
<1>7. \A v \in Urls : HasPost(v) => HasPost(v)'
  BY <1>6 DEF HasPost
<1>8. n = 1 \/ HasPost(u) => HasPost(u)'
  BY <1>u, <1>6, <1>7 DEF HasPost
<1>r. /\ row' \in [Urls -> {"free", "publishing", "published"}]
      /\ row'[u] = r
      /\ \A v \in Urls : /\ v # u => row'[v] = row[v]
                         /\ row[v] = "published" => row'[v] = "published"
  BY <1>v, <1>2 DEF PublishForm
<1>c. caption' = caption /\ drafts' = drafts /\ (r = "published" => n = 1 \/ HasPost(u))
  BY <1>v DEF PublishForm
<1>9. Lasting
  BY <1>5, <1>6, <1>c, <1>r DEF Lasting
<1>10. StoresTyped'
  BY <1>1, <1>2, <1>5, <1>6, <1>r DEF PublishForm, TypeOK, StoresTyped
<1>11. Keeps(w) /\ r = "published" => Earned(w)
  BY <1>p, <1>v, <1>4, <1>5, <1>r DEF PublishForm, Earned
<1>12. Moved(w)
  BY DEF PublishForm, Fails, Stays, Drops, Keeps
<1>13. JobInv(w)'
  BY <1>1, <1>3, <1>9, <1>11, StaysKeeps, KeepsKeeps DEF PublishForm, Fails, Drops, Between
<1>14. TypeOK'
  BY <1>1, <1>10, <1>12, TypedAgain
<1>15. RowInv'
  <2> SUFFICES ASSUME NEW v \in Urls, row'[v] = "published" PROVE HasPost(v)'
    BY DEF RowInv
  <2>1. CASE v = u
    BY <2>1, <1>c, <1>r, <1>8
  <2>2. CASE v # u
    <3>1. row[v] = "published"
      BY <2>2, <1>r
    <3>2. HasPost(v)
      BY <3>1 DEF IInv, RowInv
    <3> QED BY <3>2, <1>7
  <2> QED BY <2>1, <2>2
<1>16. ASSUME NEW q \in Packages PROVE PkgInv(q)'
  <2>1. PkgInv(q) /\ UrlOf[q] \in Urls
    BY <1>u DEF IInv
  <2>2. HasPost(UrlOf[q]) => HasPost(UrlOf[q])'
    BY <2>1, <1>7
  <2>3. CASE q = p
    BY <2>1, <2>2, <2>3, <1>u, <1>4, <1>5, <1>8, <1>c DEF PkgInv
  <2>4. CASE q # p
    BY <2>1, <2>2, <2>4, <1>5, <1>c DEF PkgInv
  <2> QED BY <2>3, <2>4
<1> QED BY <1>9, <1>12, <1>13, <1>14, <1>15, <1>16 DEF StepOK, Moved

-----------------------------------------------------------------------------
(* The steps of a job.                                                      *)

\* An item in hand, in whatever label, is a record whose package is typed.
LEMMA BuildStepOK ==
  ASSUME IInv, NEW w \in Jobs, BuildStep(w)
  PROVE  StepOK(w)
<1>1. TypeOK
  BY DEF IInv
<1>2. /\ caption \in [Packages -> Texts \cup {None}] /\ noted \in BOOLEAN
      /\ faults \in Nat /\ stops \in Nat
      /\ manifest \in [Packages -> Manifest \cup {None}]
  BY <1>1 DEF TypeOK
<1>3. ASSUME pc[w] \in {"guard", "manifest"} \/ AtItem(w, "build")
      PROVE  /\ Stage(w) = "build" /\ job[w].todo # <<>>
             /\ Pkg(w) \in Packages /\ Item(w).text \in Texts
  <2>1. Stage(w) = "build" /\ job[w].todo # <<>>
    BY <1>1, <1>3 DEF TypeOK, Control, AtItem, At, Stages
  <2> QED BY <1>1, <2>1, ItemTyped DEF Record
<1>4. CASE Dedupe(w)
  <2>1. job[w].todo # <<>> /\ Stage(w) = "dedupe"
    BY <1>1, <1>4 DEF Dedupe, AtItem, At, TypeOK, Control, Stages
  <2>2. Drops(w) \/ Keeps(w)
    BY <1>1, <1>4, <2>1, DropMoves, KeepMoves DEF Dedupe
  <2>3. Earned(w)
    BY <2>1 DEF Earned
  <2> QED BY <1>2, <1>4, <2>2, <2>3, QuietStep DEF Dedupe, packages, outside, budget, Fails
<1>5. CASE DedupeEnd(w)
  <2>1. Ends(w, "dedupe", "build")
    BY <1>1, <1>5, EndStageMoves DEF DedupeEnd, Stages
  <2> QED BY <1>2, <1>5, <2>1, QuietStep DEF DedupeEnd, EndStage, packages, outside, budget
<1>6. CASE Guard(w)
  <2>1. AtItem(w, "build") /\ Stage(w) = "build" /\ job[w].todo # <<>>
    BY <1>3, <1>6 DEF Guard
  <2>2. Fails(w)
    BY <1>1, <1>6, <2>1, DropMoves, GotoMoves DEF Guard, Fails
  <2> QED BY <1>2, <1>6, <2>2, QuietStep DEF Guard, packages, outside, budget
<1>7. CASE WriteCaption(w)
  <2>1. Stage(w) = "build" /\ job[w].todo # <<>> /\ Pkg(w) \in Packages /\ Item(w).text \in Texts
    BY <1>3, <1>7 DEF WriteCaption, At
  <2>2. Fails(w)
    BY <1>1, <1>7, <2>1, GotoMoves DEF WriteCaption, Fails
  <2>3. caption' \in [Packages -> Texts \cup {None}]
    BY <1>2, <1>7, <2>1 DEF WriteCaption
  <2> QED BY <1>2, <1>7, <2>2, <2>3, QuietStep DEF WriteCaption, outside, budget
<1>8. ASSUME At(w, "manifest"), NewManifest(w), UNCHANGED <<caption, outside, noted, stops>>,
             faults' \in Nat, Drop(w) \/ Keep(w)
      PROVE  StepOK(w)
  <2>1. Stage(w) = "build" /\ job[w].todo # <<>> /\ Pkg(w) \in Packages /\ Item(w).text \in Texts
    BY <1>3, <1>8 DEF At
  <2>2. Drops(w) \/ Keeps(w)
    BY <1>1, <1>8, <2>1, DropMoves, KeepMoves
  <2> DEFINE m == [body |-> Item(w).text, status |-> "package_built"]
  <2>3. m \in Manifest /\ m.status = "package_built"
    BY <2>1 DEF Manifest, Status
  <2>4. m # None
    BY <2>3, PipelineAssumption
  <2>5. CASE manifest[Pkg(w)] = None
    <3>1. manifest' = [manifest EXCEPT ![Pkg(w)] = m]
      BY <1>2, <1>8, <2>1, <2>5 DEF NewManifest
    <3> HIDE DEF m
    <3>2. Earned(w)
      BY <1>2, <2>1, <2>4, <3>1 DEF Earned
    <3> QED BY <1>2, <1>8, <2>1, <2>2, <2>3, <3>1, <3>2, ManifestStep DEF Fails, Drops
  <2>6. CASE manifest[Pkg(w)] # None
    <3>1. UNCHANGED manifest
      BY <1>2, <1>8, <2>1, <2>6 DEF NewManifest
    <3>2. Earned(w)
      BY <2>1, <2>6, <3>1 DEF Earned
    <3> QED BY <1>2, <1>8, <2>2, <3>1, <3>2, QuietStep DEF Fails, Drops, outside
  <2> QED BY <2>5, <2>6
<1>9. CASE WriteManifest(w)
  BY <1>2, <1>8, <1>9 DEF WriteManifest, budget
<1>10. CASE BuildFails(w)
  <2>1. faults' \in Nat
    BY <1>2, <1>10 DEF BuildFails, Fault
  <2>2. CASE UNCHANGED manifest
    <3>1. job[w].todo # <<>>
      BY <1>3, <1>10 DEF BuildFails
    <3>2. Fails(w)
      BY <1>1, <1>10, <3>1, DropMoves DEF BuildFails, Fails
    <3> QED BY <1>2, <1>10, <2>1, <2>2, <3>2, QuietStep DEF BuildFails, outside
  <2>3. CASE At(w, "manifest") /\ NewManifest(w)
    BY <1>8, <1>10, <2>1, <2>3 DEF BuildFails
  <2> QED BY <1>10, <2>2, <2>3 DEF BuildFails
<1>11. CASE BuildEnd(w)
  <2>1. Ends(w, "build", "draft")
    BY <1>1, <1>11, EndStageMoves DEF BuildEnd, Stages
  <2> QED BY <1>2, <1>11, <2>1, QuietStep DEF BuildEnd, EndStage, packages, outside, budget
<1>12. CASE BuildOnly(w)
  <2>1. Empties(w)
    BY <1>1, <1>12, FinishMoves DEF BuildOnly
  <2> QED BY <1>2, <1>12, <2>1, QuietStep DEF BuildOnly, packages, outside, budget
<1> QED BY <1>4, <1>5, <1>6, <1>7, <1>9, <1>10, <1>11, <1>12 DEF BuildStep

LEMMA DraftStepOK ==
  ASSUME IInv, NEW w \in Jobs,
         \/ \E s \in {"draft", "verify"} : WrongStatus(w, s) \/ BrowserFails(w, s)
         \/ Draft(w) \/ Verify(w) \/ Save(w) \/ SaveFails(w) \/ DraftEnd(w) \/ VerifyEnd(w)
  PROVE  StepOK(w)
<1>1. TypeOK /\ JobInv(w)
  BY DEF IInv
<1>2. /\ caption \in [Packages -> Texts \cup {None}] /\ noted \in BOOLEAN
      /\ faults \in Nat /\ stops \in Nat
      /\ manifest \in [Packages -> Manifest \cup {None}]
      /\ drafts \in [Packages -> Nat] /\ posts \in [Packages -> Nat]
  BY <1>1 DEF TypeOK
<1>3. ASSUME NEW s \in {"draft", "verify"}, WrongStatus(w, s) PROVE StepOK(w)
  <2>1. Fails(w) /\ noted' \in BOOLEAN
    BY <1>1, <1>3, RetryMoves DEF WrongStatus, AtItem
  <2> QED BY <1>2, <1>3, <2>1, QuietStep DEF WrongStatus, packages, outside, budget
<1>4. ASSUME NEW s \in {"draft", "verify"}, BrowserFails(w, s) PROVE StepOK(w)
  <2>1. Fails(w) /\ noted' \in BOOLEAN
    BY <1>1, <1>4, RetryMoves DEF BrowserFails, AtItem
  <2>2. Pkg(w) \in Packages
    BY <1>1, <1>4, ItemTyped DEF BrowserFails, AtItem
  <2>3. drafts' \in [Packages -> Nat] /\ \A p \in Packages : drafts[p] > 0 => drafts'[p] > 0
    BY <1>2, <1>4, <2>2 DEF BrowserFails
  <2> QED BY <1>2, <1>4, <2>1, <2>3, DraftingStep DEF BrowserFails, Fault, packages
<1>5. ASSUME NEW s \in {"draft", "verify"}, Ready(w, s), UNCHANGED <<packages, row, posts, noted, budget>>,
             \/ s = "draft" /\ drafts' = [drafts EXCEPT ![Pkg(w)] = @ + 1]
             \/ s = "verify" /\ UNCHANGED drafts
      PROVE  StepOK(w)
  <2>1. /\ Stage(w) = s /\ job[w].todo # <<>> /\ Pkg(w) \in Packages /\ Pkg(w) \in TodoPkgs(w)
    BY <1>1, <1>5, ItemTyped DEF Ready, AtItem, At, TypeOK, Control, Stages
  <2>2. manifest[Pkg(w)] \in Manifest
    BY <1>1, <1>2, <2>1 DEF JobInv
  <2>3. /\ Stays(w) /\ Pkg(w)' = Pkg(w)
        /\ job'[w].mem.status \in {"drafted", "draft_verified"}
    BY <1>1, <1>5, <2>2, ReadyMoves
  <2>4. /\ drafts' \in [Packages -> Nat] /\ drafts'[Pkg(w)] > 0
        /\ \A p \in Packages : drafts[p] > 0 => drafts'[p] > 0
    <3>1. CASE s = "draft"
      BY <1>2, <1>5, <2>1, <3>1
    <3>2. CASE s = "verify"
      BY <1>1, <1>2, <1>5, <2>1, <3>2 DEF JobInv
    <3> QED BY <3>1, <3>2
  <2>5. UNCHANGED <<caption, manifest, row, posts, noted, faults, stops>>
    BY <1>5 DEF packages, budget
  <2>6. Lasting
    BY <2>4, <2>5 DEF Lasting
  <2>7. TypeOK'
    <3>1. StoresTyped'
      BY <1>1, <2>4, <2>5 DEF TypeOK, StoresTyped
    <3> QED BY <1>1, <2>3, <3>1, TypedAgain DEF Stays
  <2>8. RowInv' /\ \A p \in Packages : PkgInv(p)'
    BY <2>4, <2>5 DEF IInv, RowInv, PkgInv, HasPost
  <2>9. JobInv(w)'
    <3>1. TodoPkgs(w) \subseteq Packages /\ KeptPkgs(w) \subseteq Packages
      BY <1>1, PkgsTyped
    <3>2. /\ Stage(w)' = Stage(w) /\ TodoPkgs(w)' = TodoPkgs(w) /\ KeptPkgs(w)' = KeptPkgs(w)
          /\ Stage(w) \in {"draft", "verify"}
      BY <2>1, <2>3 DEF Stays, TodoPkgs, KeptPkgs
    <3>3. drafts'[Pkg(w)'] > 0
      BY <2>3, <2>4
    <3> QED BY <1>1, <2>3, <2>4, <2>5, <3>1, <3>2, <3>3 DEF JobInv
  <2> QED BY <2>3, <2>6, <2>7, <2>8, <2>9 DEF StepOK, Stays, Moved
<1>6. CASE Draft(w)
  BY <1>5, <1>6 DEF Draft
<1>7. CASE Verify(w)
  BY <1>5, <1>7 DEF Verify, outside
<1>8. ASSUME At(w, "save")
      PROVE  /\ Stage(w) \in {"draft", "verify"} /\ job[w].todo # <<>> /\ Pkg(w) \in Packages
             /\ job[w].mem \in Manifest /\ drafts[Pkg(w)] > 0
             /\ job[w].mem.status \in {"drafted", "draft_verified"}
  <2>1. Stage(w) \in {"draft", "verify"} /\ job[w].todo # <<>> /\ job[w].mem # None
    BY <1>1, <1>8 DEF At, TypeOK, Control
  <2>2. job[w].mem \in Manifest
    BY <1>1, <2>1 DEF TypeOK, Job
  <2> QED BY <1>1, <1>8, <2>1, <2>2, ItemTyped DEF At, JobInv
<1>9. CASE Save(w)
  <2>1. Keeps(w)
    BY <1>1, <1>8, <1>9, KeepMoves DEF Save
  <2>2. job[w].mem # None
    BY <1>8, <1>9, PipelineAssumption DEF Save
  <2>3. Earned(w)
    BY <1>2, <1>8, <1>9, <2>2 DEF Save, Earned, outside
  <2> QED BY <1>2, <1>8, <1>9, <2>1, <2>3, ManifestStep DEF Save, outside, budget
<1>10. CASE SaveFails(w)
  <2>1. Fails(w) /\ noted' \in BOOLEAN
    BY <1>1, <1>8, <1>10, RetryMoves DEF SaveFails
  <2>2. faults' \in Nat /\ stops' \in Nat /\ UNCHANGED <<caption, outside>> /\ At(w, "save")
    BY <1>2, <1>10 DEF SaveFails, Fault
  <2>3. CASE UNCHANGED manifest
    BY <1>2, <2>1, <2>2, <2>3, QuietStep
  <2>4. CASE manifest' = [manifest EXCEPT ![Pkg(w)] = job[w].mem]
    BY <1>2, <1>8, <2>1, <2>2, <2>4, ManifestStep
  <2> QED BY <1>10, <2>3, <2>4 DEF SaveFails
<1>11. CASE DraftEnd(w)
  <2>1. Ends(w, "draft", "verify")
    BY <1>1, <1>11, EndStageMoves DEF DraftEnd, Stages
  <2> QED BY <1>2, <1>11, <2>1, QuietStep DEF DraftEnd, EndStage, packages, outside, budget
<1>12. CASE VerifyEnd(w)
  <2>1. Ends(w, "verify", "publish")
    BY <1>1, <1>12, EndStageMoves DEF VerifyEnd, Stages
  <2> QED BY <1>2, <1>12, <2>1, QuietStep DEF VerifyEnd, EndStage, packages, outside, budget
<1> QED BY <1>3, <1>4, <1>6, <1>7, <1>9, <1>10, <1>11, <1>12

LEMMA PublishStageOK ==
  ASSUME IInv, NEW w \in Jobs,
         \/ MarkFails(w) \/ Publish(w) \/ ForwardComplete(w) \/ PublishRefuses(w)
         \/ PublishFails(w) \/ BookingFails(w) \/ PublishEnd(w)
  PROVE  StepOK(w)
<1>1. TypeOK
  BY DEF IInv
<1>2. /\ caption \in [Packages -> Texts \cup {None}] /\ noted \in BOOLEAN
      /\ faults \in Nat /\ stops \in Nat
      /\ manifest \in [Packages -> Manifest \cup {None}]
      /\ row \in [Urls -> {"free", "publishing", "published"}]
      /\ posts \in [Packages -> Nat]
  BY <1>1 DEF TypeOK
<1>3. ASSUME AtItem(w, "publish")
      PROVE  /\ job[w].todo # <<>> /\ Pkg(w) \in Packages
             /\ Url(w) \in Urls /\ Url(w) = UrlOf[Pkg(w)] /\ manifest[Pkg(w)] # None
  <2>1. Stage(w) = "publish" /\ job[w].todo # <<>>
    BY <1>1, <1>3 DEF AtItem, At, TypeOK, Control, Stages
  <2>2. Pkg(w) \in Packages /\ Url(w) \in Urls /\ Pkg(w) \in TodoPkgs(w)
    BY <1>1, <2>1, ItemTyped
  <2> QED BY <2>1, <2>2 DEF IInv, JobInv, Url
<1>4. Live(w) => HasPost(Url(w))
  <2> SUFFICES ASSUME Live(w) PROVE HasPost(Url(w))
    OBVIOUS
  <2>1. AtItem(w, "publish") /\ (manifest[Pkg(w)].status = "published" \/ row[Url(w)] = "published")
    BY DEF Live
  <2> QED BY <1>3, <2>1 DEF IInv, PkgInv, RowInv
<1>5. Fault => faults' \in Nat
  BY <1>2 DEF Fault
<1>6. CASE MarkFails(w)
  <2>1. Fails(w)
    BY <1>1, <1>6, DropMoves DEF MarkFails, AtItem, Fails
  <2> QED BY <1>2, <1>5, <1>6, <2>1, QuietStep DEF MarkFails, packages, outside
<1>7. CASE Publish(w)
  <2>1. AtItem(w, "publish") /\ Keeps(w)
    BY <1>1, <1>3, <1>7, KeepMoves DEF Publish, Publishable
  <2>2. PublishForm(w, "published", 1)
    BY <1>2, <1>3, <1>7, <2>1 DEF Publish, Book, budget, PublishForm
  <2> QED BY <2>2, PublishStep
<1>8. CASE ForwardComplete(w)
  <2>1. AtItem(w, "publish") /\ Keeps(w)
    BY <1>1, <1>3, <1>8, KeepMoves DEF ForwardComplete, Live
  <2>2. posts' = [posts EXCEPT ![Pkg(w)] = posts[Pkg(w)] + 0]
    BY <1>2, <1>3, <1>8, <2>1 DEF ForwardComplete
  <2>3. PublishForm(w, "published", 0)
    BY <1>2, <1>3, <1>4, <1>8, <2>1, <2>2 DEF ForwardComplete, Book, budget, PublishForm
  <2> QED BY <2>3, PublishStep
<1>9. CASE PublishRefuses(w)
  <2>1. Fails(w) /\ noted' \in BOOLEAN
    BY <1>1, <1>3, <1>9, RetryMoves DEF PublishRefuses
  <2> QED BY <1>2, <1>9, <2>1, QuietStep DEF PublishRefuses, packages, outside, budget
<1>10. CASE PublishFails(w)
  <2>1. AtItem(w, "publish") /\ row[Url(w)] = "free"
    BY <1>10 DEF PublishFails, Publishable
  <2>2. Fails(w) /\ noted' \in BOOLEAN
    BY <1>1, <1>3, <1>10, <2>1, RetryMoves DEF PublishFails
  <2>3. PICK n \in {0, 1} : posts' = [posts EXCEPT ![Pkg(w)] = posts[Pkg(w)] + n]
    <3>1. posts = [posts EXCEPT ![Pkg(w)] = posts[Pkg(w)] + 0]
      BY <1>2, <1>3, <2>1
    <3> QED BY <1>10, <3>1 DEF PublishFails
  <2>4. PublishForm(w, "publishing", n)
    BY <1>2, <1>5, <1>10, <2>1, <2>2, <2>3 DEF PublishFails, packages, PublishForm
  <2> QED BY <2>4, PublishStep
<1>11. CASE BookingFails(w)
  <2>1. AtItem(w, "publish")
    BY <1>11 DEF BookingFails, Live, Publishable
  <2>2. Fails(w) /\ noted' \in BOOLEAN
    BY <1>1, <1>3, <1>11, <2>1, RetryMoves DEF BookingFails
  <2>3. CASE Live(w) /\ UNCHANGED posts /\ \E r \in {row[Url(w)], "published"} : Book(w, r)
    <3>1. PICK r \in {row[Url(w)], "published"} : Book(w, r)
      BY <2>3
    <3>2. r \in {"free", "publishing", "published"}
      BY <1>2, <1>3, <2>1
    <3>3. posts' = [posts EXCEPT ![Pkg(w)] = posts[Pkg(w)] + 0]
      BY <1>2, <1>3, <2>1, <2>3
    <3>4. PublishForm(w, r, 0)
      BY <1>2, <1>4, <1>5, <1>11, <2>1, <2>2, <2>3, <3>1, <3>3 DEF BookingFails, Book, PublishForm
    <3> QED BY <3>2, <3>4, PublishStep
  <2>4. CASE /\ Publishable(w)
             /\ posts' = [posts EXCEPT ![Pkg(w)] = @ + 1]
             /\ \E r \in {"publishing", "published"} : Book(w, r)
    <3>1. PICK r \in {"publishing", "published"} : Book(w, r)
      BY <2>4
    <3>2. PublishForm(w, r, 1)
      BY <1>2, <1>5, <1>11, <2>1, <2>2, <2>4, <3>1 DEF BookingFails, Publishable, Book, PublishForm
    <3> QED BY <3>2, PublishStep
  <2> QED BY <1>11, <2>3, <2>4 DEF BookingFails
<1>12. CASE PublishEnd(w)
  <2>1. Empties(w)
    BY <1>1, <1>12, FinishMoves DEF PublishEnd
  <2> QED BY <1>2, <1>12, <2>1, QuietStep DEF PublishEnd, packages, outside, budget
<1> QED BY <1>6, <1>7, <1>8, <1>9, <1>10, <1>11, <1>12

-----------------------------------------------------------------------------
(* The theorems.                                                            *)

LEMMA InvInit == Init => IInv
<1> SUFFICES ASSUME Init PROVE IInv
  OBVIOUS
<1>1. TypeOK
  <2>1. job \in [Jobs -> Job] /\ pc \in [Jobs -> Labels]
    BY FreeTyped DEF Init, Labels
  <2>2. \A w \in Jobs : Control(w)
    BY DEF Init, Control, Stages
  <2> QED BY <2>1, <2>2 DEF Init, TypeOK
<1>2. \A w \in Jobs : JobInv(w)
  BY DEF Init, JobInv, Stage, Free, KeptPkgs, KeptRecs
<1>3. RowInv /\ \A p \in Packages : PkgInv(p)
  BY DEF Init, RowInv, PkgInv
<1> QED BY <1>1, <1>2, <1>3 DEF IInv

LEMMA InvNext == IInv /\ [Next]_vars => IInv'
<1> SUFFICES ASSUME IInv, [Next]_vars PROVE IInv'
  OBVIOUS
<1>1. TypeOK
  BY DEF IInv
<1>2. ASSUME NEW w \in Jobs, StepOK(w) PROVE IInv'
  <2>1. \A v \in Jobs : JobInv(v)'
    BY <1>1, <1>2, OthersKeep DEF IInv, StepOK
  <2> QED BY <1>2, <2>1 DEF IInv, StepOK
<1>3. ASSUME NEW w \in Jobs, Crawl(w) PROVE StepOK(w)
  <2>1. Empties(w)
    BY <1>1, <1>3, CrawlMoves
  <2> QED BY <1>1, <1>3, <2>1, QuietStep DEF Crawl, TypeOK, packages, outside, budget
<1>4. ASSUME NEW w \in Jobs, Stop(w) PROVE StepOK(w)
  <2>1. Empties(w)
    BY <1>1, <1>4, FinishMoves DEF Stop
  <2> QED BY <1>1, <1>4, <2>1, QuietStep DEF Stop, TypeOK, packages, outside
<1>5. ASSUME NEW w \in Jobs, AutoStep(w) PROVE StepOK(w)
  BY <1>5, DraftStepOK, PublishStageOK DEF AutoStep
<1>6. CASE Next
  BY <1>2, <1>3, <1>4, <1>5, <1>6, BuildStepOK DEF Next
<1>7. CASE UNCHANGED vars
  <2>1. /\ UNCHANGED <<caption, manifest, row, drafts, posts, noted>>
        /\ UNCHANGED <<pc, job, faults, stops>>
    BY <1>7 DEF vars
  <2>2. TypeOK'
    BY <1>1, <2>1 DEF TypeOK, Control, Stage
  <2>3. \A w \in Jobs : JobInv(w)'
    BY <2>1 DEF IInv, JobInv, Stage, TodoPkgs, KeptPkgs, TodoRecs, KeptRecs, Pkg, Item
  <2>4. RowInv' /\ \A p \in Packages : PkgInv(p)'
    BY <2>1 DEF IInv, RowInv, PkgInv, HasPost
  <2> QED BY <2>2, <2>3, <2>4 DEF IInv
<1> QED BY <1>6, <1>7

LEMMA InvHolds == Spec => []IInv
BY InvInit, InvNext, PTL DEF Spec

\* Every reachable state is well typed, and a job's label agrees with its stage and
\* with what it has in hand.
THEOREM PipelineTyped == Spec => []TypeOK
<1>1. IInv => TypeOK
  BY DEF IInv
<1> QED BY <1>1, InvHolds, PTL

\* A package that says it has a draft has one on the backend, whatever retries,
\* aborted jobs and stale saves of other jobs came between.
THEOREM DraftsExist == Spec => []StatusHasDraft
<1>1. IInv => StatusHasDraft
  BY DEF IInv, PkgInv, StatusHasDraft
<1> QED BY <1>1, InvHolds, PTL

\* What any job reports as published is live, under its own post or a mirror's, and
\* its row says so.
THEOREM ReportedIsLive == Spec => []OkIsLive
<1>1. IInv => OkIsLive
  <2> SUFFICES ASSUME IInv, NEW w \in Jobs, NEW i \in DOMAIN job[w].kept, Stage(w) = "publish"
               PROVE  LET u == UrlOf[job[w].kept[i].pkg]
                      IN  row[u] = "published" /\ HasPost(u)
    BY DEF OkIsLive, HasPost
  <2> DEFINE p == job[w].kept[i].pkg
  <2>1. p \in KeptPkgs(w)
    BY DEF KeptPkgs, KeptRecs
  <2>2. row[UrlOf[p]] = "published"
    BY <2>1 DEF IInv, JobInv
  <2>3. UrlOf[p] \in Urls
    BY <2>1, PkgsTyped, PipelineAssumption DEF IInv
  <2> QED BY <2>2, <2>3 DEF IInv, RowInv
<1> QED BY <1>1, InvHolds, PTL

-----------------------------------------------------------------------------
(* One job at a time: what counts as built is what its package holds.       *)

OneJob == \A v, w \in Jobs : v = w

\* The package of a record holds the record's text.
Own(r) == manifest[r.pkg] # None /\ manifest[r.pkg].body = r.text

\* An item past the guard owns its package or is about to make it; a runner that is
\* about to save holds what the package says, at least as far as it has come.
ContentInv(w) ==
  /\ Stage(w) # "dedupe" => \A r \in KeptRecs(w) : Own(r)
  /\ Stage(w) \in {"draft", "verify", "publish"} => \A r \in TodoRecs(w) : Own(r)
  /\ pc[w] \in {"guard", "manifest"} => manifest[Pkg(w)] = None \/ Own(Item(w))
  /\ pc[w] = "save" => /\ job[w].mem.body = manifest[Pkg(w)].body
                       /\ Rank[job[w].mem.status] >= Rank[manifest[Pkg(w)].status]

\* No package is set back or says something else.
Forward ==
  \A p \in Packages : manifest[p] # None =>
    /\ manifest'[p] # None /\ manifest'[p].body = manifest[p].body
    /\ Rank[manifest'[p].status] >= Rank[manifest[p].status]

LEMMA RankFacts ==
  /\ Rank["package_built"] = 1 /\ Rank["drafted"] = 2
  /\ Rank["draft_verified"] = 3 /\ Rank["published"] = 4
  /\ \A st \in Status : Rank[st] \in 1..4
BY DEF Rank, Status

LEMMA RecsTyped ==
  ASSUME TypeOK, NEW w \in Jobs
  PROVE  TodoRecs(w) \subseteq Record /\ KeptRecs(w) \subseteq Record
<1>1. job[w].todo \in Seq(Record) /\ job[w].kept \in Seq(Record)
  BY DEF TypeOK, Job
<1> QED BY <1>1 DEF TodoRecs, KeptRecs

LEMMA StandsStill ==
  ASSUME TypeOK, UNCHANGED manifest
  PROVE  Forward
<1>1. \A p \in Packages : manifest[p] # None => Rank[manifest[p].status] \in 1..4
  BY RankFacts DEF TypeOK, Manifest
<1> QED BY <1>1 DEF Forward

LEMMA OneForward ==
  ASSUME TypeOK, NEW p \in Packages, NEW m \in Manifest, manifest' = [manifest EXCEPT ![p] = m],
         manifest[p] # None => /\ m.body = manifest[p].body
                               /\ Rank[m.status] >= Rank[manifest[p].status]
  PROVE  Forward
<1>1. manifest \in [Packages -> Manifest \cup {None}] /\ m # None
  BY PipelineAssumption DEF TypeOK
<1>2. \A q \in Packages : manifest[q] # None => Rank[manifest[q].status] \in 1..4
  BY RankFacts DEF TypeOK, Manifest
<1> QED BY <1>1, <1>2 DEF Forward

\* After the step, the package of the item that was in hand holds its text.
OwnsAfter(w) == manifest'[Pkg(w)] # None /\ manifest'[Pkg(w)].body = Item(w).text

\* Items keep what they own, wherever a step moves them.
LEMMA ContentFrame ==
  ASSUME TypeOK, NEW w \in Jobs, ContentInv(w), Forward,
         \/ Fails(w) /\ Between(w)
         \/ Keeps(w) /\ (Stage(w) # "dedupe" => OwnsAfter(w))
         \/ Empties(w)
         \/ Ends(w, "dedupe", "build") \/ Ends(w, "build", "draft")
         \/ Ends(w, "draft", "verify") \/ Ends(w, "verify", "publish")
  PROVE  ContentInv(w)'
<1>1. \A r \in TodoRecs(w) \cup KeptRecs(w) : Own(r) => Own(r)'
  BY RecsTyped DEF Own, Forward, Record
<1>2. Between(w)
  BY DEF Fails, Drops, Keeps, Empties, Ends
<1>3. CASE Fails(w)
  BY <1>1, <1>2, <1>3 DEF Fails, Stays, Drops, ContentInv, Between
<1>4. CASE Keeps(w) /\ (Stage(w) # "dedupe" => OwnsAfter(w))
  <2>1. Stage(w)' # "dedupe" => \A r \in KeptRecs(w)' : Own(r)'
    <3> SUFFICES ASSUME Stage(w) # "dedupe", NEW r \in KeptRecs(w) \cup {Item(w)},
                        OwnsAfter(w)
                 PROVE  Own(r)'
      BY <1>4 DEF Keeps
    <3>1. CASE r \in KeptRecs(w)
      BY <1>1, <3>1 DEF ContentInv
    <3>2. CASE r = Item(w)
      BY <3>2 DEF Own, OwnsAfter, Pkg
    <3> QED BY <3>1, <3>2
  <2>2. Stage(w)' \in {"draft", "verify", "publish"} => \A r \in TodoRecs(w)' : Own(r)'
    BY <1>1, <1>4 DEF Keeps, ContentInv
  <2> QED BY <1>2, <2>1, <2>2 DEF ContentInv, Between
<1>5. CASE Empties(w)
  BY <1>2, <1>5 DEF Empties, ContentInv, Between
<1>6. CASE \/ Ends(w, "dedupe", "build") \/ Ends(w, "build", "draft")
           \/ Ends(w, "draft", "verify") \/ Ends(w, "verify", "publish")
  BY <1>1, <1>2, <1>6 DEF Ends, ContentInv, Between
<1> QED BY <1>3, <1>4, <1>5, <1>6

LEMMA OwnLasts ==
  ASSUME TypeOK, Forward, NEW w \in Jobs, job[w].todo # <<>>, Own(Item(w))
  PROVE  OwnsAfter(w)
BY ItemTyped DEF Own, OwnsAfter, Forward, Pkg

\* The lists hold the item in hand, which owns its package from the draft stage on.
LEMMA ItemOwns ==
  ASSUME TypeOK, NEW w \in Jobs, ContentInv(w), job[w].todo # <<>>,
         Stage(w) \in {"draft", "verify", "publish"}
  PROVE  Own(Item(w)) /\ manifest[Pkg(w)] \in Manifest
<1>1. Own(Item(w)) /\ Pkg(w) \in Packages
  BY ItemTyped DEF ContentInv
<1> QED BY <1>1 DEF Own, Pkg, TypeOK

LEMMA BuildContent ==
  ASSUME IInv, NEW w \in Jobs, ContentInv(w), BuildStep(w)
  PROVE  Forward /\ ContentInv(w)'
<1>1. TypeOK /\ Control(w)
  BY DEF IInv, TypeOK
<1>2. pc \in [Jobs -> Labels] /\ manifest \in [Packages -> Manifest \cup {None}]
  BY <1>1 DEF TypeOK
<1>3. UNCHANGED manifest => Forward
  BY <1>1, StandsStill
<1>4. CASE Dedupe(w)
  <2>1. Stage(w) = "dedupe" /\ job[w].todo # <<>> /\ Forward
    BY <1>1, <1>3, <1>4 DEF Dedupe, AtItem, At, Control, Stages, packages
  <2>2. Drops(w) \/ Keeps(w)
    BY <1>1, <1>4, <2>1, DropMoves, KeepMoves DEF Dedupe
  <2> QED BY <1>1, <2>1, <2>2, ContentFrame DEF Fails, Drops
<1>5. CASE DedupeEnd(w)
  <2>1. Ends(w, "dedupe", "build") /\ Forward
    BY <1>1, <1>3, <1>5, EndStageMoves DEF DedupeEnd, EndStage, Stages, packages
  <2> QED BY <1>1, <2>1, ContentFrame
<1>6. ASSUME Goto(w, "guard") \/ Goto(w, "manifest"), UNCHANGED <<job, manifest>>,
             manifest[Pkg(w)] = None \/ Own(Item(w))
      PROVE  ContentInv(w)'
  <2>1. pc'[w] \in {"guard", "manifest"}
    BY <1>2, <1>6 DEF Goto, Labels
  <2>2. /\ TodoRecs(w)' = TodoRecs(w) /\ KeptRecs(w)' = KeptRecs(w)
        /\ Stage(w)' = Stage(w) /\ Pkg(w)' = Pkg(w) /\ Item(w)' = Item(w)
        /\ \A r : Own(r)' <=> Own(r)
    BY <1>6 DEF TodoRecs, KeptRecs, Stage, Pkg, Item, Own
  <2> QED BY <1>6, <2>1, <2>2 DEF ContentInv
<1>7. CASE Guard(w)
  <2>1. job[w].todo # <<>> /\ UNCHANGED manifest
    BY <1>7 DEF Guard, AtItem, packages
  <2>2. CASE manifest[Pkg(w)] # None /\ manifest[Pkg(w)].body # Item(w).text
    <3>1. Drops(w)
      BY <1>1, <1>7, <2>1, <2>2, DropMoves DEF Guard
    <3> QED BY <1>1, <1>3, <2>1, <3>1, ContentFrame DEF Fails, Drops
  <2>3. CASE ~ (manifest[Pkg(w)] # None /\ manifest[Pkg(w)].body # Item(w).text)
    <3>1. Goto(w, "guard") /\ UNCHANGED job
      BY <1>7, <2>3 DEF Guard
    <3> QED BY <1>3, <1>6, <2>1, <2>3, <3>1 DEF Own, Pkg
  <2> QED BY <2>2, <2>3
<1>8. CASE WriteCaption(w)
  <2>1. manifest[Pkg(w)] = None \/ Own(Item(w))
    BY <1>8 DEF WriteCaption, At, ContentInv
  <2> QED BY <1>3, <1>6, <1>8, <2>1 DEF WriteCaption
<1>9. ASSUME At(w, "manifest"), NewManifest(w), Drop(w) \/ Keep(w)
      PROVE  Forward /\ ContentInv(w)'
  <2>1. Stage(w) = "build" /\ job[w].todo # <<>>
    BY <1>1, <1>9 DEF At, Control
  <2>2. Pkg(w) \in Packages /\ Item(w) \in Record
    BY <1>1, <2>1, ItemTyped
  <2>3. manifest[Pkg(w)] = None \/ Own(Item(w))
    BY <1>9 DEF At, ContentInv
  <2> DEFINE m == [body |-> Item(w).text, status |-> "package_built"]
  <2>4. m \in Manifest /\ m.body = Item(w).text
    BY <2>2 DEF Manifest, Record, Status
  <2>5. m # None
    BY <2>4, PipelineAssumption
  <2>6. Forward /\ OwnsAfter(w)
    <3>1. CASE manifest[Pkg(w)] = None
      <4>1. manifest' = [manifest EXCEPT ![Pkg(w)] = m]
        BY <1>2, <1>9, <2>2, <3>1 DEF NewManifest
      <4> HIDE DEF m
      <4>2. manifest'[Pkg(w)] = m
        BY <1>2, <2>2, <4>1
      <4>3. Forward
        BY <1>1, <2>2, <2>4, <3>1, <4>1, OneForward
      <4> QED BY <2>4, <2>5, <4>2, <4>3 DEF OwnsAfter
    <3>2. CASE manifest[Pkg(w)] # None
      <4>1. UNCHANGED manifest
        BY <1>2, <1>9, <2>2, <3>2 DEF NewManifest
      <4> QED BY <1>3, <2>3, <3>2, <4>1 DEF Own, OwnsAfter, Pkg
    <3> QED BY <3>1, <3>2
  <2>7. Drops(w) \/ Keeps(w)
    BY <1>1, <1>9, <2>1, DropMoves, KeepMoves
  <2> QED BY <1>1, <2>6, <2>7, ContentFrame DEF Fails, Drops
<1>10. CASE WriteManifest(w)
  BY <1>9, <1>10 DEF WriteManifest
<1>11. CASE BuildFails(w)
  <2>1. CASE UNCHANGED manifest
    <3>1. job[w].todo # <<>>
      BY <1>1, <1>11 DEF BuildFails, Control
    <3>2. Drops(w)
      BY <1>1, <1>11, <3>1, DropMoves DEF BuildFails
    <3> QED BY <1>1, <1>3, <2>1, <3>2, ContentFrame DEF Fails, Drops
  <2>2. CASE At(w, "manifest") /\ NewManifest(w)
    BY <1>9, <1>11, <2>2 DEF BuildFails
  <2> QED BY <1>11, <2>1, <2>2 DEF BuildFails
<1>12. CASE BuildEnd(w)
  <2>1. Ends(w, "build", "draft") /\ Forward
    BY <1>1, <1>3, <1>12, EndStageMoves DEF BuildEnd, EndStage, Stages, packages
  <2> QED BY <1>1, <2>1, ContentFrame
<1>13. CASE BuildOnly(w)
  <2>1. Empties(w) /\ Forward
    BY <1>1, <1>3, <1>13, FinishMoves DEF BuildOnly, packages
  <2> QED BY <1>1, <2>1, ContentFrame
<1> QED BY <1>4, <1>5, <1>7, <1>8, <1>10, <1>11, <1>12, <1>13 DEF BuildStep

\* What the draft, verify and publish stages write is the manifest they read, with
\* a status further on.
LEMMA WriteBack ==
  ASSUME TypeOK, NEW w \in Jobs, NEW m \in Manifest, job[w].todo # <<>>,
         manifest' = [manifest EXCEPT ![Pkg(w)] = m], Own(Item(w)),
         m.body = manifest[Pkg(w)].body, Rank[m.status] >= Rank[manifest[Pkg(w)].status]
  PROVE  Forward /\ OwnsAfter(w)
<1>1. Pkg(w) \in Packages
  BY ItemTyped
<1> QED BY <1>1, OneForward, OwnLasts

LEMMA DraftContent ==
  ASSUME IInv, NEW w \in Jobs, ContentInv(w),
         \/ \E s \in {"draft", "verify"} : WrongStatus(w, s) \/ BrowserFails(w, s)
         \/ Draft(w) \/ Verify(w) \/ Save(w) \/ SaveFails(w) \/ DraftEnd(w) \/ VerifyEnd(w)
  PROVE  Forward /\ ContentInv(w)'
<1>1. TypeOK /\ Control(w)
  BY DEF IInv, TypeOK
<1>2. UNCHANGED manifest => Forward
  BY <1>1, StandsStill
<1>3. ASSUME NEW expiry \in BOOLEAN, Retry(w, expiry), job[w].todo # <<>>, Forward
      PROVE  ContentInv(w)'
  BY <1>1, <1>3, RetryMoves, ContentFrame
<1>4. ASSUME NEW s \in {"draft", "verify"}, WrongStatus(w, s) \/ BrowserFails(w, s)
      PROVE  Forward /\ ContentInv(w)'
  BY <1>2, <1>3, <1>4 DEF WrongStatus, BrowserFails, AtItem, packages
<1>5. ASSUME NEW s \in {"draft", "verify"}, Ready(w, s), UNCHANGED manifest
      PROVE  Forward /\ ContentInv(w)'
  <2>1. Stage(w) = s /\ job[w].todo # <<>> /\ manifest[Pkg(w)].status = Before(s)
    BY <1>1, <1>5 DEF Ready, AtItem, At, Control, Stages
  <2>2. manifest[Pkg(w)] \in Manifest
    BY <1>1, <2>1, ItemOwns
  <2>3. Stays(w) /\ Pkg(w)' = Pkg(w)
    BY <1>1, <1>5, <2>2, ReadyMoves
  <2> DEFINE m == [manifest[Pkg(w)] EXCEPT !.status = After(s)]
  <2>4. m.body = manifest[Pkg(w)].body /\ Rank[m.status] >= Rank[manifest[Pkg(w)].status]
    BY <2>1, <2>2, RankFacts DEF Manifest, Before, After
  <2>5. job'[w].mem = m /\ pc'[w] = "save"
    BY <1>1, <1>5 DEF Ready, Hold, Goto, TypeOK, Job, Labels
  <2> HIDE DEF m
  <2>6. /\ job'[w].mem.body = manifest'[Pkg(w)'].body
        /\ Rank[job'[w].mem.status] >= Rank[manifest'[Pkg(w)'].status]
    BY <1>5, <2>3, <2>4, <2>5
  <2>7. \A r : Own(r)' <=> Own(r)
    BY <1>5 DEF Own
  <2> QED BY <1>2, <1>5, <2>3, <2>5, <2>6, <2>7 DEF Stays, ContentInv
<1>6. CASE Draft(w)
  BY <1>5, <1>6 DEF Draft, packages
<1>7. CASE Verify(w)
  BY <1>5, <1>7 DEF Verify, packages
<1>8. ASSUME At(w, "save"), manifest' = [manifest EXCEPT ![Pkg(w)] = job[w].mem]
      PROVE  Forward /\ OwnsAfter(w)
  <2>1. Stage(w) \in {"draft", "verify"} /\ job[w].todo # <<>> /\ job[w].mem # None
    BY <1>1, <1>8 DEF At, Control
  <2>2. job[w].mem \in Manifest
    BY <1>1, <2>1 DEF TypeOK, Job
  <2>3. Own(Item(w))
    BY <1>1, <2>1, ItemOwns
  <2> QED BY <1>1, <1>8, <2>1, <2>2, <2>3, WriteBack DEF At, ContentInv
<1>9. At(w, "save") => job[w].todo # <<>>
  BY <1>1 DEF At, Control
<1>10. CASE Save(w)
  <2>1. Keeps(w)
    BY <1>1, <1>9, <1>10, KeepMoves DEF Save
  <2> QED BY <1>1, <1>8, <1>10, <2>1, ContentFrame DEF Save
<1>11. CASE SaveFails(w)
  BY <1>2, <1>3, <1>8, <1>9, <1>11 DEF SaveFails
<1>12. CASE DraftEnd(w)
  <2>1. Ends(w, "draft", "verify") /\ Forward
    BY <1>1, <1>2, <1>12, EndStageMoves DEF DraftEnd, EndStage, Stages, packages
  <2> QED BY <1>1, <2>1, ContentFrame
<1>13. CASE VerifyEnd(w)
  <2>1. Ends(w, "verify", "publish") /\ Forward
    BY <1>1, <1>2, <1>13, EndStageMoves DEF VerifyEnd, EndStage, Stages, packages
  <2> QED BY <1>1, <2>1, ContentFrame
<1> QED BY <1>4, <1>6, <1>7, <1>10, <1>11, <1>12, <1>13

LEMMA PublishContent ==
  ASSUME IInv, NEW w \in Jobs, ContentInv(w),
         \/ MarkFails(w) \/ Publish(w) \/ ForwardComplete(w) \/ PublishRefuses(w)
         \/ PublishFails(w) \/ BookingFails(w) \/ PublishEnd(w)
  PROVE  Forward /\ ContentInv(w)'
<1>1. TypeOK /\ Control(w)
  BY DEF IInv, TypeOK
<1>2. UNCHANGED manifest => Forward
  BY <1>1, StandsStill
<1>3. AtItem(w, "publish") => /\ job[w].todo # <<>>
                              /\ Own(Item(w)) /\ manifest[Pkg(w)] \in Manifest
  BY <1>1, ItemOwns DEF AtItem, At, Control, Stages
<1>4. ASSUME AtItem(w, "publish"), NEW r, Book(w, r)
      PROVE  Forward /\ OwnsAfter(w)
  <2> DEFINE m == [manifest[Pkg(w)] EXCEPT !.status = "published"]
  <2>1. manifest' = [manifest EXCEPT ![Pkg(w)] = m]
    BY <1>1, <1>4 DEF Book, TypeOK
  <2>2. m \in Manifest /\ m.body = manifest[Pkg(w)].body /\ m.status = "published"
    BY <1>3, <1>4 DEF Manifest, Status
  <2>3. Rank["published"] >= Rank[manifest[Pkg(w)].status]
    BY <1>3, <1>4, RankFacts DEF Manifest
  <2> HIDE DEF m
  <2> QED BY <1>1, <1>3, <1>4, <2>1, <2>2, <2>3, WriteBack
<1>5. ASSUME NEW expiry \in BOOLEAN, Retry(w, expiry), AtItem(w, "publish"), Forward
      PROVE  ContentInv(w)'
  BY <1>1, <1>3, <1>5, RetryMoves, ContentFrame
<1>6. ASSUME AtItem(w, "publish"), NEW r, Book(w, r), Keep(w)
      PROVE  Forward /\ ContentInv(w)'
  <2>1. Keeps(w)
    BY <1>1, <1>3, <1>6, KeepMoves
  <2> QED BY <1>1, <1>4, <1>6, <2>1, ContentFrame
<1>7. CASE MarkFails(w)
  <2>1. Drops(w) /\ Forward
    BY <1>1, <1>2, <1>3, <1>7, DropMoves DEF MarkFails, packages
  <2> QED BY <1>1, <2>1, ContentFrame DEF Fails, Drops
<1>8. CASE Publish(w)
  BY <1>6, <1>8 DEF Publish, Publishable
<1>9. CASE ForwardComplete(w)
  BY <1>6, <1>9 DEF ForwardComplete, Live
<1>10. CASE PublishRefuses(w)
  BY <1>2, <1>5, <1>10 DEF PublishRefuses, packages
<1>11. CASE PublishFails(w)
  BY <1>2, <1>5, <1>11 DEF PublishFails, Publishable, packages
<1>12. CASE BookingFails(w)
  BY <1>4, <1>5, <1>12 DEF BookingFails, Live, Publishable
<1>13. CASE PublishEnd(w)
  <2>1. Empties(w) /\ Forward
    BY <1>1, <1>2, <1>13, FinishMoves DEF PublishEnd, packages
  <2> QED BY <1>1, <2>1, ContentFrame
<1> QED BY <1>7, <1>8, <1>9, <1>10, <1>11, <1>12, <1>13

OwnInv == IInv /\ \A w \in Jobs : ContentInv(w)

LEMMA OwnInit == Init => OwnInv
<1> SUFFICES ASSUME Init PROVE OwnInv
  OBVIOUS
<1>1. \A w \in Jobs : ContentInv(w)
  BY DEF Init, ContentInv, Stage, Free
<1> QED BY <1>1, InvInit DEF OwnInv

LEMMA OwnNext ==
  ASSUME OneJob, OwnInv, [Next]_vars
  PROVE  OwnInv' /\ Forward
<1>1. IInv' /\ TypeOK
  BY InvNext DEF OwnInv, IInv
<1>2. ASSUME NEW w \in Jobs, Forward /\ ContentInv(w)' PROVE OwnInv' /\ Forward
  BY <1>1, <1>2 DEF OneJob, OwnInv
<1>3. ASSUME NEW w \in Jobs, Crawl(w) \/ Stop(w) PROVE Forward /\ ContentInv(w)'
  <2>1. Empties(w)
    BY <1>1, <1>3, CrawlMoves, FinishMoves DEF Stop
  <2>2. Forward
    BY <1>1, <1>3, StandsStill DEF Crawl, Stop, packages
  <2> QED BY <1>1, <1>3, <2>1, <2>2, ContentFrame DEF OwnInv
<1>4. ASSUME NEW w \in Jobs, AutoStep(w) PROVE Forward /\ ContentInv(w)'
  BY <1>4, DraftContent, PublishContent DEF AutoStep, OwnInv
<1>5. CASE Next
  BY <1>2, <1>3, <1>4, <1>5, BuildContent DEF Next, OwnInv
<1>6. CASE UNCHANGED vars
  <2>1. UNCHANGED <<manifest, pc, job>>
    BY <1>6 DEF vars
  <2>2. \A w \in Jobs : ContentInv(w)'
    BY <2>1 DEF OwnInv, ContentInv, Own, TodoRecs, KeptRecs, Stage, Pkg, Item
  <2> QED BY <1>1, <2>1, <2>2, StandsStill DEF OwnInv
<1> QED BY <1>5, <1>6

LEMMA OwnHolds == ASSUME OneJob PROVE Spec => []OwnInv
<1>1. OwnInv /\ [Next]_vars => OwnInv'
  BY OwnNext
<1> QED BY <1>1, OwnInit, PTL DEF Spec

\* One job at a time: an item that counts as built is what its package holds, after
\* any number of crawls of the same page, failed writes, retries and aborted jobs.
THEOREM BuiltHoldsItsText == ASSUME OneJob PROVE Spec => []BuiltIsOwnContent
<1>1. OwnInv => BuiltIsOwnContent
  BY DEF OwnInv, ContentInv, Own, KeptRecs, BuiltIsOwnContent
<1> QED BY <1>1, OwnHolds, PTL

\* One job at a time: no step sets a package back or replaces what it says.
THEOREM PackagesGoForward == ASSUME OneJob PROVE Spec => NeverSetBack
<1>1. OwnInv /\ [Next]_vars =>
        [\A p \in Packages : manifest[p] # None =>
           /\ manifest'[p] # None /\ manifest'[p].body = manifest[p].body
           /\ Rank[manifest'[p].status] >= Rank[manifest[p].status]]_vars
  BY OwnNext DEF Forward
<1> QED BY <1>1, OwnHolds, PTL DEF Spec, NeverSetBack
=============================================================================

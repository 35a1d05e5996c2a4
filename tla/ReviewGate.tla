----------------------------- MODULE ReviewGate -----------------------------
(***************************************************************************)
(* What one package says, and which of its versions may go live.  The      *)
(* content lives in four places that share no transaction: manifest.json   *)
(* (title, body), caption.txt (the text the WebUI shows), the reviewed     *)
(* marker, which names the content an operator reviewed, and the drafts    *)
(* the backend keeps.  Request threads view, edit and generate while job   *)
(* threads draft, verify and publish; each loads the whole manifest at its *)
(* start and writes the whole manifest back, without a lock.               *)
(*                                                                         *)
(* The steps of a publish run around its click, its bookkeeping and its    *)
(* recovery are the subject of PublishRunner: here its reads and writes of *)
(* the state row are one step, and one worker at a time publishes.         *)
(***************************************************************************)
EXTENDS Naturals

CONSTANTS
  Titles, Bodies,  \* what a title and a body may be
  Missing,         \* the body of a manifest whose body key was removed
  None,            \* no marker, no draft, a form field left blank
  Workers,         \* request threads and job threads
  May,             \* the handlers each worker runs: its subset of Kinds
  Failing,         \* the handlers whose write of caption.txt may fail
  StopsAt,         \* the labels at which a run may raise or its process die
  MaxPosts         \* bound: posts per release

Kinds == {"view", "edit", "generate", "draft", "verify", "publish", "auto", "rollback"}

Labels == {"idle", "viewMark", "viewShow", "editSave", "editCaption", "editMark", "editUndo",
           "genSave", "genCaption", "genUndo", "draftDrive", "draftSave", "verifyDrive",
           "verifySave", "pubGates", "autoMark", "pubLoad", "pubCheck", "pubClick", "pubSave",
           "pubMark", "rbSave", "rbRow"}

\* The handlers that may change the state row or click "publish".
Publishing == {"publish", "auto", "rollback"}
SolePublisher ==
  \A v, w \in Workers : May[v] \cap Publishing # {} /\ May[w] \cap Publishing # {} => v = w

ASSUME ReviewAssumption ==
  /\ None \notin Titles \cup Bodies \cup {Missing}
  /\ May \in [Workers -> SUBSET Kinds]
  /\ SolePublisher
  /\ Failing \subseteq {"edit", "generate"}
  /\ StopsAt \subseteq Labels \ {"idle"}
  /\ MaxPosts \in Nat

VARIABLES
  manifest,   \* manifest.json: content, backend.status and backend.draft_url
  caption,    \* caption.txt
  reviewed,   \* the reviewed marker: the content-id it is bound to
  drafts,     \* the titles of the drafts the backend has
  row,        \* the status in the state row of the canonical URL
  posts,      \* posts since the URL was released
  marked,     \* history: every content the marker was ever bound to
  overtaken,  \* history: workers since whose load another one changed the body
  texts,      \* history: "parted" from a step that may part caption and body
  pc,         \* where each worker is
  job         \* what each worker holds in memory

vars == <<manifest, caption, reviewed, drafts, row, posts, marked, overtaken, texts, pc, job>>

Body     == Bodies \cup {Missing}
Content  == [title : Titles, body : Body]
Status   == {"package_built", "drafted", "draft_verified", "published"}
\* A draft_url is named by what the draft says: the backend keeps it as filled.
Manifest == [title : Titles, body : Body, status : Status, draft : Content \cup {None}]
Job      == [mem : Manifest \cup {None}, text : Bodies \cup {None}, cid : Content \cup {None}]
Free     == [mem |-> None, text |-> None, cid |-> None]

\* content_id: the title and body, not the status (the URL never changes).
Cid(m) == [title |-> m.title, body |-> m.body]

TypeOK ==
  /\ manifest \in Manifest
  /\ caption \in Bodies
  /\ reviewed \in Content \cup {None}
  /\ drafts \subseteq Titles
  /\ row \in {"free", "publishing", "published"}
  /\ posts \in Nat
  /\ marked \subseteq Content
  /\ overtaken \subseteq Workers
  /\ texts \in {"joined", "parted"}
  /\ pc \in [Workers -> Labels]
  /\ job \in [Workers -> Job]
  /\ \A w \in Workers :
       /\ pc[w] # "idle" => job[w].mem \in Manifest
       /\ pc[w] \in {"genSave", "genCaption", "editCaption"} => job[w].text # None

\* build has just written caption.txt and the manifest from one record.
Init ==
  /\ manifest \in [title : Titles, body : Bodies, status : {"package_built"}, draft : {None}]
  /\ caption = manifest.body
  /\ reviewed = None
  /\ drafts = {} /\ marked = {}
  /\ overtaken = {} /\ texts = "joined"
  /\ row = "free" /\ posts = 0
  /\ pc = [w \in Workers |-> "idle"]
  /\ job = [w \in Workers |-> Free]

-----------------------------------------------------------------------------
(* Control of one worker.                                                   *)

At(w, l) == pc[w] = l
Goto(w, l) == pc' = [pc EXCEPT ![w] = l]
Step(w, from, to) == At(w, from) /\ Goto(w, to)
Finish(w, from) ==
  /\ Step(w, from, "idle")
  /\ job' = [job EXCEPT ![w] = Free]
  /\ overtaken' = overtaken \ {w}
Hold(w, mem) == job' = [job EXCEPT ![w].mem = mem]
Mem(w) == job[w].mem

\* Where a handler has written one of the two texts and not yet the other.
Halfway == {"editCaption", "editUndo", "genCaption", "genUndo"}
Others(w) == {v \in Workers \ {w} : pc[v] # "idle"}

\* A manifest loaded while another handler is halfway may be about to change.
Loads(w) ==
  overtaken' = IF \E v \in Workers : pc[v] \in Halfway THEN overtaken \cup {w}
                                                       ELSE overtaken \ {w}

\* A handler starts by loading the manifest; m is what it makes of it.
Begin(w, kind, l, m, text) ==
  /\ Step(w, "idle", l)
  /\ kind \in May[w]
  /\ job' = [job EXCEPT ![w] = [mem |-> m, text |-> text, cid |-> None]]
  /\ Loads(w)
  /\ UNCHANGED <<manifest, caption, reviewed, drafts, row, posts, marked, texts>>

\* What the writes of the two texts mean for the histories.  A manifest written
\* back after another handler changed the body undoes that change: the texts part.
\* A caption written by a handler that nobody overtook joins them again.  OldBody is
\* for a manifest with the body that it was loaded with, NewBody for one with another.
Overtaken(w) == IF w \in overtaken THEN overtaken \cup Others(w) ELSE overtaken
BodyWritten(w) == texts' = IF w \in overtaken THEN "parted" ELSE texts
OldBody(w) == BodyWritten(w) /\ overtaken' = Overtaken(w)
NewBody(w) == BodyWritten(w) /\ overtaken' = overtaken \cup Others(w)
CaptionWritten(w) == texts' = IF w \in overtaken THEN texts ELSE "joined"

\* reviewed.mark binds the marker to a content.
Bind(c) ==
  /\ reviewed' = c
  /\ marked' = marked \cup {c}

\* manifest.save and the routers' atomic_write_text replace the whole file.
SaveManifest(w, from, to) ==
  /\ Step(w, from, to)
  /\ manifest' = Mem(w)
  /\ UNCHANGED <<caption, reviewed, drafts, row, posts, marked, job>>

SaveAndFinish(w, from) ==
  /\ Step(w, from, "idle")
  /\ job' = [job EXCEPT ![w] = Free]
  /\ manifest' = Mem(w)
  /\ overtaken' = Overtaken(w) \ {w}
  /\ UNCHANGED <<caption, reviewed, drafts, row, posts, marked>>

-----------------------------------------------------------------------------
(* package_detail.                                                          *)

StartView(w) == Begin(w, "view", "viewMark", manifest, None)

ViewMark(w) ==
  /\ Step(w, "viewMark", "viewShow")
  /\ Bind(Cid(Mem(w)))
  /\ UNCHANGED <<manifest, caption, drafts, row, posts, job, overtaken, texts>>

\* Only now is caption.txt read, and shown as the package's text.
ViewShow(w) ==
  /\ Finish(w, "viewShow")
  /\ UNCHANGED <<manifest, caption, reviewed, drafts, row, posts, marked, texts>>

-----------------------------------------------------------------------------
(* edit_package: a blank title or caption is left as it is.                 *)

Edited(t, b) == [manifest EXCEPT !.title = IF t = None THEN @ ELSE t,
                                 !.body  = IF b = None THEN @ ELSE b]

StartEdit(w) ==
  \E t \in Titles \cup {None}, b \in Bodies \cup {None} :
    /\ t # None \/ b # None
    /\ Begin(w, "edit", "editSave", Edited(t, b), b)

\* Mutant of EditSave: a blank caption is written too.
EditSaveBlank(w) == SaveManifest(w, "editSave", "editCaption") /\ NewBody(w)

EditSave(w) ==
  \/ job[w].text = None /\ SaveManifest(w, "editSave", "editMark") /\ OldBody(w)
  \/ job[w].text # None /\ SaveManifest(w, "editSave", "editCaption") /\ NewBody(w)

EditCaption(w) ==
  /\ Step(w, "editCaption", "editMark")
  /\ caption' = job[w].text
  /\ CaptionWritten(w)
  /\ UNCHANGED overtaken
  /\ UNCHANGED <<manifest, reviewed, drafts, row, posts, marked, job>>

\* The write fails: the manifest is read again and its body key removed.
EditCaptionFails(w) ==
  /\ Step(w, "editCaption", "editUndo")
  /\ "edit" \in Failing
  /\ Hold(w, [manifest EXCEPT !.body = Missing])
  /\ UNCHANGED <<manifest, caption, reviewed, drafts, row, posts, marked, overtaken, texts>>

\* The body is gone, where the caption is still the old one.
EditUndo(w) == SaveAndFinish(w, "editUndo") /\ texts' = "parted"

EditMark(w) ==
  /\ Finish(w, "editMark")
  /\ Bind(Cid(Mem(w)))
  /\ UNCHANGED <<manifest, caption, drafts, row, posts, texts>>

-----------------------------------------------------------------------------
(* generate_article: the manifest is loaded before the model is called.     *)

StartGenerate(w) == \E b \in Bodies : Begin(w, "generate", "genSave", manifest, b)

GenerateSave(w) ==
  /\ Step(w, "genSave", "genCaption")
  /\ manifest' = [Mem(w) EXCEPT !.body = job[w].text]
  /\ NewBody(w)
  /\ UNCHANGED <<caption, reviewed, drafts, row, posts, marked, job>>

GenerateCaption(w) ==
  /\ Finish(w, "genCaption")
  /\ caption' = job[w].text
  /\ CaptionWritten(w)
  /\ UNCHANGED <<manifest, reviewed, drafts, row, posts, marked>>

\* Mutant of GenerateCaptionFails: the failure is only reported.
GenerateCaptionLost(w) ==
  /\ Finish(w, "genCaption")
  /\ "generate" \in Failing
  /\ UNCHANGED <<manifest, caption, reviewed, drafts, row, posts, marked, texts>>

\* The write fails: the manifest is written back with its previous body.
GenerateCaptionFails(w) ==
  /\ Step(w, "genCaption", "genUndo")
  /\ "generate" \in Failing
  /\ UNCHANGED <<manifest, caption, reviewed, drafts, row, posts, marked, job, overtaken, texts>>

\* Mutant of GenerateUndo: the undo writes the new body once more.
GenerateUndoNew(w) ==
  /\ Finish(w, "genUndo")
  /\ manifest' = [Mem(w) EXCEPT !.body = job[w].text]
  /\ BodyWritten(w)
  /\ UNCHANGED <<caption, reviewed, drafts, row, posts, marked>>

GenerateUndo(w) == SaveAndFinish(w, "genUndo") /\ BodyWritten(w)

-----------------------------------------------------------------------------
(* draft-post and verify-draft.                                             *)

StartDraft(w) ==
  /\ manifest.status = "package_built"
  /\ Begin(w, "draft", "draftDrive", manifest, None)

\* The form is filled from the manifest in memory and saved as a draft.
CreateDraft(w) ==
  /\ Step(w, "draftDrive", "draftSave")
  /\ drafts' = drafts \cup {Mem(w).title}
  /\ Hold(w, [Mem(w) EXCEPT !.status = "drafted", !.draft = Cid(Mem(w))])
  /\ UNCHANGED <<manifest, caption, reviewed, row, posts, marked, overtaken, texts>>

DraftSave(w) == SaveAndFinish(w, "draftSave") /\ BodyWritten(w)

StartVerify(w) ==
  /\ manifest.status = "drafted"
  /\ Begin(w, "verify", "verifyDrive", manifest, None)

\* The backend is searched for a draft with the title.
Found(title) == title \in drafts

FindDraft(w) ==
  /\ Step(w, "verifyDrive", "verifySave")
  /\ Found(Mem(w).title)
  /\ Hold(w, [Mem(w) EXCEPT !.status = "draft_verified"])
  /\ UNCHANGED <<manifest, caption, reviewed, drafts, row, posts, marked, overtaken, texts>>

\* Its row does not show in time, or the browser fails, whether it is there or not.
MissDraft(w) ==
  /\ Finish(w, "verifyDrive")
  /\ UNCHANGED <<manifest, caption, reviewed, drafts, row, posts, marked, texts>>

VerifySave(w) == SaveAndFinish(w, "verifySave") /\ BodyWritten(w)

-----------------------------------------------------------------------------
(* action_publish, the auto pipeline's publish stage, publish-post.         *)

StartPublish(w) == Begin(w, "publish", "pubGates", manifest, None)

\* check_publish_gates: reviewed and unchanged, verified, title retyped.
GatesPass(w) ==
  /\ Step(w, "pubGates", "pubLoad")
  /\ reviewed # None /\ reviewed = Cid(Mem(w))
  /\ Mem(w).status = "draft_verified"
  /\ job' = [job EXCEPT ![w].cid = reviewed]
  /\ UNCHANGED <<manifest, caption, reviewed, drafts, row, posts, marked, overtaken, texts>>

\* A gate refuses; whatever the first two say, the retyped title may differ.
GateRefuses(w) ==
  /\ Finish(w, "pubGates")
  /\ UNCHANGED <<manifest, caption, reviewed, drafts, row, posts, marked, texts>>

\* The auto pipeline marks what it is about to publish.
StartAuto(w) ==
  /\ manifest.status = "draft_verified"
  /\ Begin(w, "auto", "autoMark", manifest, None)

AutoMark(w) ==
  /\ Step(w, "autoMark", "pubLoad")
  /\ Bind(Cid(Mem(w)))
  /\ job' = [job EXCEPT ![w].cid = Cid(Mem(w))]
  /\ UNCHANGED <<manifest, caption, drafts, row, posts, overtaken, texts>>

\* publish_post loads the manifest again.
PublishLoad(w) ==
  /\ At(w, "pubLoad")
  /\ Goto(w, IF manifest.status = "published" THEN "pubMark" ELSE "pubCheck")
  /\ Hold(w, manifest)
  /\ Loads(w)
  /\ UNCHANGED <<manifest, caption, reviewed, drafts, row, posts, marked, texts>>

PublishForward(w) ==
  /\ Step(w, "pubCheck", "pubSave")
  /\ row = "published"
  /\ Hold(w, [Mem(w) EXCEPT !.status = "published"])
  /\ UNCHANGED <<manifest, caption, reviewed, drafts, row, posts, marked, overtaken, texts>>

\* Mutants of Publishable: the content is not compared; a published row passes.
PublishableUnread(w) ==
  /\ row = "free"
  /\ Mem(w).status = "draft_verified"

PublishableAgain(w) ==
  /\ row # "publishing"
  /\ Mem(w).status = "draft_verified"
  /\ Cid(Mem(w)) = job[w].cid

\* Gate 2 and Q9: the content is still the one the job was submitted with.
Publishable(w) ==
  /\ row = "free"
  /\ Mem(w).status = "draft_verified"
  /\ Cid(Mem(w)) = job[w].cid

PublishReserve(w) ==
  /\ Step(w, "pubCheck", "pubClick")
  /\ Publishable(w)
  /\ row' = "publishing"
  /\ UNCHANGED <<manifest, caption, reviewed, drafts, posts, marked, job, overtaken, texts>>

PublishRefuses(w) ==
  /\ Finish(w, "pubCheck")
  /\ row # "published" /\ ~ Publishable(w)
  /\ UNCHANGED <<manifest, caption, reviewed, drafts, row, posts, marked, texts>>

\* The driver opens the draft_url and publishes the draft that it finds there.
Posted(w) == Mem(w).draft

PublishClick(w) ==
  /\ Step(w, "pubClick", "pubSave")
  /\ posts < MaxPosts
  /\ posts' = posts + 1
  /\ Hold(w, [Mem(w) EXCEPT !.status = "published"])
  /\ UNCHANGED <<manifest, caption, reviewed, drafts, row, marked, overtaken, texts>>

PublishSave(w) == SaveManifest(w, "pubSave", "pubMark") /\ OldBody(w)

PublishMark(w) ==
  /\ Finish(w, "pubMark")
  /\ row' = "published"
  /\ UNCHANGED <<manifest, caption, reviewed, drafts, posts, marked, texts>>

-----------------------------------------------------------------------------
(* rollback_package, and runs that stop.                                    *)

StartRollback(w) ==
  /\ manifest.status = "published"
  /\ Begin(w, "rollback", "rbSave", [manifest EXCEPT !.status = "draft_verified"], None)

RollbackSave(w) == SaveManifest(w, "rbSave", "rbRow") /\ OldBody(w)

RollbackRow(w) ==
  /\ Finish(w, "rbRow")
  /\ row' = "free" /\ posts' = 0
  /\ UNCHANGED <<manifest, caption, reviewed, drafts, marked, texts>>

\* A browser error, an LLM error, a full disk or the end of the process.
Stop(w) ==
  /\ \E l \in StopsAt : Finish(w, l)
  /\ texts' = IF pc[w] \in Halfway THEN "parted" ELSE texts
  /\ UNCHANGED <<manifest, caption, reviewed, drafts, row, posts, marked>>

-----------------------------------------------------------------------------

Request(w) ==
  \/ StartView(w) \/ StartEdit(w) \/ StartGenerate(w) \/ StartDraft(w) \/ StartVerify(w)
  \/ StartPublish(w) \/ StartAuto(w) \/ StartRollback(w)

PageStep(w) ==
  \/ ViewMark(w) \/ ViewShow(w)
  \/ EditSave(w) \/ EditCaption(w) \/ EditCaptionFails(w) \/ EditUndo(w) \/ EditMark(w)
  \/ GenerateSave(w) \/ GenerateCaption(w) \/ GenerateCaptionFails(w) \/ GenerateUndo(w)

BackendStep(w) ==
  \/ CreateDraft(w) \/ DraftSave(w) \/ FindDraft(w) \/ MissDraft(w) \/ VerifySave(w)
  \/ GatesPass(w) \/ GateRefuses(w) \/ AutoMark(w)
  \/ PublishLoad(w) \/ PublishForward(w) \/ PublishReserve(w) \/ PublishRefuses(w)
  \/ PublishClick(w) \/ PublishSave(w) \/ PublishMark(w)
  \/ RollbackSave(w) \/ RollbackRow(w)

Next == \E w \in Workers : Request(w) \/ PageStep(w) \/ BackendStep(w) \/ Stop(w)

Spec == Init /\ [][Next]_vars

-----------------------------------------------------------------------------
(* Properties.                                                              *)

\* Gate 1 and Q9 together (actions.py:50-62, publish_post.py:94-100): however
\* views, edits, generations and jobs interleave, a publish click is only made for
\* a manifest whose content the reviewed marker was once bound to.
OnlyReviewedIsClicked == \A w \in Workers : At(w, "pubClick") => Cid(Mem(w)) \in marked

\* Whole-manifest writes of concurrent handlers may put an old status back, but
\* never a second post: the state row stops the next run (publish_post.py:58-72).
OnePost == posts <= 1

\* "record the review bound to the content version just shown" (packages.py:50), as
\* far as the code keeps it: while caption and body are joined, the text a review page
\* shows is the body its marker was bound to, unless an edit or a generation changed
\* the body, or was about to write its caption, between the page's two reads.
ReviewIsWhatWasShown ==
  [][\A w \in Workers \ overtaken :
       At(w, "viewShow") /\ At(w, "idle")' /\ texts = "joined" => caption = Mem(w).body]_vars

\* "the two stores stay consistent (old body or both-new, never diverged)", of an
\* edit whose caption.txt cannot be written (packages.py:95-96): whenever no handler
\* runs, the text the pages show is the body that would be published.
InSync == (\A w \in Workers : At(w, "idle")) => caption = manifest.body

\* "the displayed text and the publishable body stay in sync" (packages.py:116-118),
\* as far as the code keeps it: the caption is the manifest's body whenever no handler
\* is between its two writes, but after an edit's undo, a run that ended between its
\* two writes, or a manifest written back over a body changed since it was loaded; and
\* the next edit or generation that nothing overtakes puts it right.
CaptionIsBody ==
  texts = "joined" /\ (\A w \in Workers : pc[w] \notin Halfway) => caption = manifest.body

\* "refuse to publish content that changed since review" (publish_post.py:94-96):
\* what a click puts live is the content its job was submitted for.
LiveIsWhatWasReviewed ==
  [][\A w \in Workers : At(w, "pubClick") /\ posts' > posts => Posted(w) = job[w].cid]_vars

-----------------------------------------------------------------------------
(* The promise of ReviewPromise, and how the package and its jobs keep it.   *)

\* What a job past its gates was granted, and what it is about to click.
Granted == {job[w].cid : w \in {v \in Workers : pc[v] \in {"pubLoad", "pubCheck"}}}
Pending == {Cid(Mem(w)) : w \in {v \in Workers : At(v, "pubClick")}}
Gate    == IF row = "free" THEN "open" ELSE "closed"

Promise ==
  INSTANCE ReviewPromise
    WITH marker <- reviewed, granted <- Granted, pending <- Pending,
         gate <- Gate

\* Views, edits, generations, jobs and rollbacks implement the promise, also where
\* they overwrite each other's manifest: a click publishes what the marker named when
\* its job passed the gates, only while the URL is free, and at most once until a
\* rollback (actions.py:50-62, publish_post.py:58-107, packages.py:202-209).
KeepsReviewPromise == Promise!Spec

-----------------------------------------------------------------------------
(* The inductive strengthenings the proofs rest on.                         *)

\* A job past its gates carries a content the marker was bound to.
GateInv ==
  /\ OnlyReviewedIsClicked
  /\ reviewed # None => reviewed \in marked
  /\ \A w \in Workers :
       /\ pc[w] \in {"pubLoad", "pubCheck", "pubClick"} => job[w].cid \in marked

\* A reservation is the only publisher's, and protects its click.
PostInv ==
  /\ OnePost
  /\ posts > 0 => row \in {"publishing", "published"}
  /\ \A w \in Workers :
       /\ pc[w] \in {"pubGates", "autoMark", "pubLoad", "pubCheck", "pubClick", "pubSave",
                     "pubMark", "rbSave", "rbRow"} => May[w] \cap Publishing # {}
       /\ pc[w] = "pubClick" => row = "publishing" /\ posts = 0

\* Who runs beside a handler that is halfway was overtaken by it, so a second one that
\* gets halfway has parted the texts; who was not overtaken holds the manifest's body,
\* or the body and the text whose writing joins the texts or undoes the first write.
TextInv ==
  /\ CaptionIsBody
  /\ \A v, w \in Workers : v # w /\ pc[v] \in Halfway /\ pc[w] # "idle" => w \in overtaken
  /\ \A w \in Workers :
       /\ pc[w] \in Halfway /\ w \in overtaken => texts = "parted"
       /\ pc[w] \in {"editSave", "editCaption"} /\ job[w].text # None => Mem(w).body = job[w].text
  /\ \A w \in Workers \ overtaken :
       /\ pc[w] \in {"editCaption", "genCaption"} => manifest.body = job[w].text
       /\ texts = "joined" =>
            /\ pc[w] \in {"genCaption", "genUndo"} => Mem(w).body = caption
            /\ pc[w] = "editSave" /\ job[w].text = None => Mem(w).body = manifest.body
            /\ pc[w] \notin Halfway \cup {"idle", "editSave"} => Mem(w).body = manifest.body
=============================================================================

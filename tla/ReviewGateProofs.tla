-------------------------- MODULE ReviewGateProofs --------------------------
(* Theorems about ReviewGate, for every set of titles, bodies and workers,   *)
(* every assignment of handlers with one publisher, and any points of        *)
(* failure.                                                                  *)
EXTENDS ReviewGate, TLAPS

(***************************************************************************)
(* Typing.  ControlOK is the part of TypeOK about the workers.             *)
(***************************************************************************)
Carrying == {"genSave", "genCaption", "editCaption"}

ControlOK ==
  /\ pc \in [Workers -> Labels]
  /\ job \in [Workers -> Job]
  /\ \A w \in Workers : /\ pc[w] # "idle" => job[w].mem \in Manifest
                        /\ pc[w] \in Carrying => job[w].text # None

StoresOK ==
  /\ manifest \in Manifest
  /\ caption \in Bodies
  /\ reviewed \in Content \cup {None}
  /\ drafts \subseteq Titles
  /\ row \in {"free", "publishing", "published"}
  /\ posts \in Nat
  /\ marked \subseteq Content

HistoriesOK == overtaken \subseteq Workers /\ texts \in {"joined", "parted"}

LEMMA TypeSplit == TypeOK <=> StoresOK /\ HistoriesOK /\ ControlOK
  BY DEF TypeOK, StoresOK, HistoriesOK, ControlOK, Carrying

\* The content-id of a manifest is a content.
LEMMA CidType == \A m \in Manifest : Cid(m) \in Content
  BY DEF Manifest, Cid, Content

LEMMA FinishControl ==
  ASSUME ControlOK, NEW w \in Workers, NEW l, Step(w, l, "idle"),
         job' = [job EXCEPT ![w] = Free]
  PROVE  ControlOK'
<1>1. Free \in Job
  BY DEF Free, Job
<1> QED
  BY <1>1 DEF ControlOK, Carrying, Step, Goto, Labels

\* A worker that goes on, with what it holds unchanged.
LEMMA StepControl ==
  ASSUME ControlOK, NEW w \in Workers, pc[w] # "idle", NEW l \in Labels,
         l \in Carrying => job[w].text # None, Goto(w, l), UNCHANGED job
  PROVE  ControlOK'
  BY DEF ControlOK, Goto

\* A worker that goes on with another manifest in memory.
LEMMA HoldControl ==
  ASSUME ControlOK, NEW w \in Workers, pc[w] # "idle", NEW l \in Labels \ Carrying,
         Goto(w, l), NEW m \in Manifest, Hold(w, m)
  PROVE  ControlOK' /\ Mem(w)' = m
<1>1. [job[w] EXCEPT !.mem = m] \in Job /\ [job[w] EXCEPT !.mem = m].mem = m
  BY DEF ControlOK, Job
<1> QED
  BY <1>1 DEF ControlOK, Goto, Hold, Mem

\* A worker whose gates were passed with content c.
LEMMA CidControl ==
  ASSUME ControlOK, NEW w \in Workers, pc[w] # "idle", Goto(w, "pubLoad"),
         NEW c \in Content, job' = [job EXCEPT ![w].cid = c]
  PROVE  ControlOK'
<1>1. [job[w] EXCEPT !.cid = c] \in Job /\ [job[w] EXCEPT !.cid = c].mem = job[w].mem
  BY DEF ControlOK, Job
<1> QED
  BY <1>1 DEF ControlOK, Goto, Labels, Carrying

LEMMA BeginControl ==
  ASSUME ControlOK, NEW w \in Workers, NEW k, NEW l \in Labels, NEW m \in Manifest,
         NEW x \in Bodies \cup {None}, l \in Carrying => x # None, Begin(w, k, l, m, x)
  PROVE  ControlOK'
<1>1. [mem |-> m, text |-> x, cid |-> None] \in Job
  BY DEF Job
<1> QED
  BY <1>1 DEF ControlOK, Begin, Step, Goto

LEMMA Holding ==
  ASSUME ControlOK, NEW w \in Workers, pc[w] # "idle"
  PROVE  /\ job[w] \in Job /\ Mem(w) \in Manifest /\ Cid(Mem(w)) \in Content
         /\ job[w].text \in Bodies \cup {None}
  BY CidType DEF ControlOK, Job, Mem

\* A handler that starts: one of the eight loads the manifest.
LEMMA RequestBegins ==
  ASSUME TypeOK, NEW w \in Workers, Request(w)
  PROVE  \E k \in Kinds, l \in {"viewMark", "editSave", "genSave", "draftDrive", "verifyDrive",
                                "pubGates", "autoMark", "rbSave"},
            m \in Manifest, x \in Bodies \cup {None} :
            /\ Begin(w, k, l, m, x)
            /\ l \in Carrying => x # None
            /\ l \in {"pubGates", "autoMark", "rbSave"} => k \in Publishing
<1> DEFINE Starts == \E k \in Kinds, l \in {"viewMark", "editSave", "genSave", "draftDrive",
                                "verifyDrive", "pubGates", "autoMark", "rbSave"},
                        m \in Manifest, x \in Bodies \cup {None} :
                        /\ Begin(w, k, l, m, x)
                        /\ l \in Carrying => x # None
                        /\ l \in {"pubGates", "autoMark", "rbSave"} => k \in Publishing
<1>0. manifest \in Manifest
  BY DEF TypeOK
<1>1. CASE StartView(w)
  <2>1. Begin(w, "view", "viewMark", manifest, None)
    BY <1>1 DEF StartView
  <2> QED
    BY <2>1, <1>0 DEF Kinds, Carrying
<1>2. CASE StartEdit(w)
  <2>1. PICK t \in Titles \cup {None}, b \in Bodies \cup {None} :
          Begin(w, "edit", "editSave", Edited(t, b), b)
    BY <1>2 DEF StartEdit
  <2>2. Edited(t, b) \in Manifest
    BY <1>0 DEF Edited, Manifest, Body
  <2> QED
    BY <2>1, <2>2 DEF Kinds, Carrying
<1>3. CASE StartGenerate(w)
  <2>1. PICK b \in Bodies : Begin(w, "generate", "genSave", manifest, b)
    BY <1>3 DEF StartGenerate
  <2> QED
    BY <2>1, <1>0, ReviewAssumption DEF Kinds, Carrying
<1>4. CASE StartDraft(w)
  <2>1. Begin(w, "draft", "draftDrive", manifest, None)
    BY <1>4 DEF StartDraft
  <2> QED
    BY <2>1, <1>0 DEF Kinds, Carrying
<1>5. CASE StartVerify(w)
  <2>1. Begin(w, "verify", "verifyDrive", manifest, None)
    BY <1>5 DEF StartVerify
  <2> QED
    BY <2>1, <1>0 DEF Kinds, Carrying
<1>6. CASE StartPublish(w)
  <2>1. Begin(w, "publish", "pubGates", manifest, None)
    BY <1>6 DEF StartPublish
  <2> QED
    BY <2>1, <1>0 DEF Kinds, Carrying, Publishing
<1>7. CASE StartAuto(w)
  <2>1. Begin(w, "auto", "autoMark", manifest, None)
    BY <1>7 DEF StartAuto
  <2> QED
    BY <2>1, <1>0 DEF Kinds, Carrying, Publishing
<1>8. CASE StartRollback(w)
  <2>1. Begin(w, "rollback", "rbSave", [manifest EXCEPT !.status = "draft_verified"], None)
    BY <1>8 DEF StartRollback
  <2>2. [manifest EXCEPT !.status = "draft_verified"] \in Manifest
    BY <1>0 DEF Manifest, Status
  <2> QED
    BY <2>1, <2>2 DEF Kinds, Carrying, Publishing
<1> QED
  BY <1>1, <1>2, <1>3, <1>4, <1>5, <1>6, <1>7, <1>8 DEF Request

(***************************************************************************)
(* A step of a handler keeps every store and worker typed.     *)
(***************************************************************************)

\* The request threads' steps.
LEMMA PageType ==
  ASSUME TypeOK, NEW w \in Workers, PageStep(w)
  PROVE  (StoresOK /\ ControlOK)'
<1>0. StoresOK /\ ControlOK
  BY TypeSplit
<1>1. CASE ViewMark(w)
  <2>1. pc[w] # "idle"
    BY <1>1 DEF ViewMark, Step, At
  <2>2. Mem(w) \in Manifest /\ Cid(Mem(w)) \in Content /\ job[w].text \in Bodies \cup {None}
    BY <1>0, <2>1, Holding
  <2>3. ControlOK'
    BY <1>0, <1>1, <2>1, StepControl DEF ViewMark, Step, At, ControlOK, Labels, Carrying
  <2>5. StoresOK'
    BY <1>0, <1>1, <2>2 DEF StoresOK, ViewMark, Bind
  <2> QED
    BY <2>3, <2>5
<1>2. CASE ViewShow(w)
  <2>1. pc[w] # "idle"
    BY <1>2 DEF ViewShow, Finish, Step, At
  <2>2. Mem(w) \in Manifest /\ Cid(Mem(w)) \in Content /\ job[w].text \in Bodies \cup {None}
    BY <1>0, <2>1, Holding
  <2>3. ControlOK'
    BY <1>0, <1>2, FinishControl DEF ViewShow, Finish
  <2>5. StoresOK'
    BY <1>0, <1>2, <2>2 DEF StoresOK, ViewShow
  <2> QED
    BY <2>3, <2>5
<1>3. CASE EditSave(w)
  <2>1. pc[w] # "idle"
    BY <1>3 DEF EditSave, SaveManifest, Step, At
  <2>2. Mem(w) \in Manifest /\ Cid(Mem(w)) \in Content /\ job[w].text \in Bodies \cup {None}
    BY <1>0, <2>1, Holding
  <2>3. ControlOK'
    BY <1>0, <1>3, <2>1, StepControl DEF EditSave, SaveManifest, Step, At, ControlOK, Labels, Carrying
  <2>5. StoresOK'
    BY <1>0, <1>3, <2>2 DEF StoresOK, EditSave, SaveManifest
  <2> QED
    BY <2>3, <2>5
<1>4. CASE EditCaption(w)
  <2>1. pc[w] # "idle"
    BY <1>4 DEF EditCaption, Step, At
  <2>2. Mem(w) \in Manifest /\ Cid(Mem(w)) \in Content /\ job[w].text \in Bodies \cup {None}
    BY <1>0, <2>1, Holding
  <2>3. ControlOK'
    BY <1>0, <1>4, <2>1, StepControl DEF EditCaption, Step, At, ControlOK, Labels, Carrying
  <2>4. job[w].text \in Bodies
    BY <1>0, <1>4, <2>2 DEF EditCaption, Step, At, ControlOK, Carrying
  <2>5. StoresOK'
    BY <1>0, <1>4, <2>2, <2>4 DEF StoresOK, EditCaption
  <2> QED
    BY <2>3, <2>5
<1>5. CASE EditCaptionFails(w)
  <2>1. pc[w] # "idle"
    BY <1>5 DEF EditCaptionFails, Step, At
  <2>2. Mem(w) \in Manifest /\ Cid(Mem(w)) \in Content /\ job[w].text \in Bodies \cup {None}
    BY <1>0, <2>1, Holding
  <2>m. [manifest EXCEPT !.body = Missing] \in Manifest
    BY <1>0, <2>2 DEF StoresOK, Manifest, Body, Status
  <2>3. ControlOK'
    BY <1>0, <1>5, <2>1, <2>m, HoldControl DEF EditCaptionFails, Step, Labels, Carrying
  <2>5. StoresOK'
    BY <1>0, <1>5, <2>2 DEF StoresOK, EditCaptionFails
  <2> QED
    BY <2>3, <2>5
<1>6. CASE EditUndo(w)
  <2>1. pc[w] # "idle"
    BY <1>6 DEF EditUndo, SaveAndFinish, Finish, Step, At
  <2>2. Mem(w) \in Manifest /\ Cid(Mem(w)) \in Content /\ job[w].text \in Bodies \cup {None}
    BY <1>0, <2>1, Holding
  <2>3. ControlOK'
    BY <1>0, <1>6, FinishControl DEF EditUndo, SaveAndFinish
  <2>5. StoresOK'
    BY <1>0, <1>6, <2>2 DEF StoresOK, EditUndo, SaveAndFinish
  <2> QED
    BY <2>3, <2>5
<1>7. CASE EditMark(w)
  <2>1. pc[w] # "idle"
    BY <1>7 DEF EditMark, Finish, Step, At
  <2>2. Mem(w) \in Manifest /\ Cid(Mem(w)) \in Content /\ job[w].text \in Bodies \cup {None}
    BY <1>0, <2>1, Holding
  <2>3. ControlOK'
    BY <1>0, <1>7, FinishControl DEF EditMark, Finish
  <2>5. StoresOK'
    BY <1>0, <1>7, <2>2 DEF StoresOK, EditMark, Bind
  <2> QED
    BY <2>3, <2>5
<1>8. CASE GenerateSave(w)
  <2>1. pc[w] # "idle"
    BY <1>8 DEF GenerateSave, Step, At
  <2>2. Mem(w) \in Manifest /\ Cid(Mem(w)) \in Content /\ job[w].text \in Bodies \cup {None}
    BY <1>0, <2>1, Holding
  <2>3. ControlOK'
    BY <1>0, <1>8, <2>1, StepControl DEF GenerateSave, Step, At, ControlOK, Labels, Carrying
  <2>4. job[w].text \in Bodies
    BY <1>0, <1>8, <2>2 DEF GenerateSave, Step, At, ControlOK, Carrying
  <2>5. StoresOK'
    BY <1>0, <1>8, <2>2, <2>4 DEF StoresOK, GenerateSave, Manifest, Body
  <2> QED
    BY <2>3, <2>5
<1>9. CASE GenerateCaption(w)
  <2>1. pc[w] # "idle"
    BY <1>9 DEF GenerateCaption, Finish, Step, At
  <2>2. Mem(w) \in Manifest /\ Cid(Mem(w)) \in Content /\ job[w].text \in Bodies \cup {None}
    BY <1>0, <2>1, Holding
  <2>3. ControlOK'
    BY <1>0, <1>9, FinishControl DEF GenerateCaption, Finish
  <2>4. job[w].text \in Bodies
    BY <1>0, <1>9, <2>2 DEF GenerateCaption, Finish, Step, At, ControlOK, Carrying
  <2>5. StoresOK'
    BY <1>0, <1>9, <2>2, <2>4 DEF StoresOK, GenerateCaption
  <2> QED
    BY <2>3, <2>5
<1>10. CASE GenerateCaptionFails(w)
  <2>1. pc[w] # "idle"
    BY <1>10 DEF GenerateCaptionFails, Step, At
  <2>2. Mem(w) \in Manifest /\ Cid(Mem(w)) \in Content /\ job[w].text \in Bodies \cup {None}
    BY <1>0, <2>1, Holding
  <2>3. ControlOK'
    BY <1>0, <1>10, <2>1, StepControl DEF GenerateCaptionFails, Step, At, ControlOK, Labels, Carrying
  <2>5. StoresOK'
    BY <1>0, <1>10, <2>2 DEF StoresOK, GenerateCaptionFails
  <2> QED
    BY <2>3, <2>5
<1>11. CASE GenerateUndo(w)
  <2>1. pc[w] # "idle"
    BY <1>11 DEF GenerateUndo, SaveAndFinish, Finish, Step, At
  <2>2. Mem(w) \in Manifest /\ Cid(Mem(w)) \in Content /\ job[w].text \in Bodies \cup {None}
    BY <1>0, <2>1, Holding
  <2>3. ControlOK'
    BY <1>0, <1>11, FinishControl DEF GenerateUndo, SaveAndFinish
  <2>5. StoresOK'
    BY <1>0, <1>11, <2>2 DEF StoresOK, GenerateUndo, SaveAndFinish
  <2> QED
    BY <2>3, <2>5
<1> QED
  BY <1>1, <1>2, <1>3, <1>4, <1>5, <1>6, <1>7, <1>8, <1>9, <1>10, <1>11 DEF PageStep

\* The job threads' steps.
LEMMA BackendType ==
  ASSUME TypeOK, NEW w \in Workers, BackendStep(w)
  PROVE  (StoresOK /\ ControlOK)'
<1>0. StoresOK /\ ControlOK
  BY TypeSplit
<1>1. CASE CreateDraft(w)
  <2>1. pc[w] # "idle"
    BY <1>1 DEF CreateDraft, Step, At
  <2>2. Mem(w) \in Manifest /\ Cid(Mem(w)) \in Content /\ job[w].text \in Bodies \cup {None}
    BY <1>0, <2>1, Holding
  <2>m. [Mem(w) EXCEPT !.status = "drafted", !.draft = Cid(Mem(w))] \in Manifest
    BY <1>0, <2>2 DEF StoresOK, Manifest, Body, Status
  <2>3. ControlOK'
    BY <1>0, <1>1, <2>1, <2>m, HoldControl DEF CreateDraft, Step, Labels, Carrying
  <2>5. StoresOK'
    BY <1>0, <1>1, <2>2 DEF StoresOK, CreateDraft, Manifest
  <2> QED
    BY <2>3, <2>5
<1>2. CASE DraftSave(w)
  <2>1. pc[w] # "idle"
    BY <1>2 DEF DraftSave, SaveAndFinish, Finish, Step, At
  <2>2. Mem(w) \in Manifest /\ Cid(Mem(w)) \in Content /\ job[w].text \in Bodies \cup {None}
    BY <1>0, <2>1, Holding
  <2>3. ControlOK'
    BY <1>0, <1>2, FinishControl DEF DraftSave, SaveAndFinish
  <2>5. StoresOK'
    BY <1>0, <1>2, <2>2 DEF StoresOK, DraftSave, SaveAndFinish
  <2> QED
    BY <2>3, <2>5
<1>3. CASE FindDraft(w)
  <2>1. pc[w] # "idle"
    BY <1>3 DEF FindDraft, Step, At
  <2>2. Mem(w) \in Manifest /\ Cid(Mem(w)) \in Content /\ job[w].text \in Bodies \cup {None}
    BY <1>0, <2>1, Holding
  <2>m. [Mem(w) EXCEPT !.status = "draft_verified"] \in Manifest
    BY <1>0, <2>2 DEF StoresOK, Manifest, Body, Status
  <2>3. ControlOK'
    BY <1>0, <1>3, <2>1, <2>m, HoldControl DEF FindDraft, Step, Labels, Carrying
  <2>5. StoresOK'
    BY <1>0, <1>3, <2>2 DEF StoresOK, FindDraft
  <2> QED
    BY <2>3, <2>5
<1>4. CASE MissDraft(w)
  <2>1. pc[w] # "idle"
    BY <1>4 DEF MissDraft, Finish, Step, At
  <2>2. Mem(w) \in Manifest /\ Cid(Mem(w)) \in Content /\ job[w].text \in Bodies \cup {None}
    BY <1>0, <2>1, Holding
  <2>3. ControlOK'
    BY <1>0, <1>4, FinishControl DEF MissDraft, Finish
  <2>5. StoresOK'
    BY <1>0, <1>4, <2>2 DEF StoresOK, MissDraft
  <2> QED
    BY <2>3, <2>5
<1>5. CASE VerifySave(w)
  <2>1. pc[w] # "idle"
    BY <1>5 DEF VerifySave, SaveAndFinish, Finish, Step, At
  <2>2. Mem(w) \in Manifest /\ Cid(Mem(w)) \in Content /\ job[w].text \in Bodies \cup {None}
    BY <1>0, <2>1, Holding
  <2>3. ControlOK'
    BY <1>0, <1>5, FinishControl DEF VerifySave, SaveAndFinish
  <2>5. StoresOK'
    BY <1>0, <1>5, <2>2 DEF StoresOK, VerifySave, SaveAndFinish
  <2> QED
    BY <2>3, <2>5
<1>6. CASE GatesPass(w)
  <2>1. pc[w] # "idle"
    BY <1>6 DEF GatesPass, Step, At
  <2>2. Mem(w) \in Manifest /\ Cid(Mem(w)) \in Content /\ job[w].text \in Bodies \cup {None}
    BY <1>0, <2>1, Holding
  <2>3. ControlOK'
    BY <1>0, <1>6, <2>1, <2>2, CidControl DEF GatesPass, Step, StoresOK
  <2>5. StoresOK'
    BY <1>0, <1>6, <2>2 DEF StoresOK, GatesPass
  <2> QED
    BY <2>3, <2>5
<1>7. CASE GateRefuses(w)
  <2>1. pc[w] # "idle"
    BY <1>7 DEF GateRefuses, Finish, Step, At
  <2>2. Mem(w) \in Manifest /\ Cid(Mem(w)) \in Content /\ job[w].text \in Bodies \cup {None}
    BY <1>0, <2>1, Holding
  <2>3. ControlOK'
    BY <1>0, <1>7, FinishControl DEF GateRefuses, Finish
  <2>5. StoresOK'
    BY <1>0, <1>7, <2>2 DEF StoresOK, GateRefuses
  <2> QED
    BY <2>3, <2>5
<1>8. CASE AutoMark(w)
  <2>1. pc[w] # "idle"
    BY <1>8 DEF AutoMark, Step, At
  <2>2. Mem(w) \in Manifest /\ Cid(Mem(w)) \in Content /\ job[w].text \in Bodies \cup {None}
    BY <1>0, <2>1, Holding
  <2>3. ControlOK'
    BY <1>0, <1>8, <2>1, <2>2, CidControl DEF AutoMark, Step, StoresOK
  <2>5. StoresOK'
    BY <1>0, <1>8, <2>2 DEF StoresOK, AutoMark, Bind
  <2> QED
    BY <2>3, <2>5
<1>9. CASE PublishLoad(w)
  <2>1. pc[w] # "idle"
    BY <1>9 DEF PublishLoad, Step, At
  <2>2. Mem(w) \in Manifest /\ Cid(Mem(w)) \in Content /\ job[w].text \in Bodies \cup {None}
    BY <1>0, <2>1, Holding
  <2>m. manifest \in Manifest
    BY <1>0, <2>2 DEF StoresOK, Manifest, Body, Status
  <2>3. ControlOK'
    BY <1>0, <1>9, <2>1, <2>m, HoldControl DEF PublishLoad, Step, Labels, Carrying
  <2>5. StoresOK'
    BY <1>0, <1>9, <2>2 DEF StoresOK, PublishLoad
  <2> QED
    BY <2>3, <2>5
<1>10. CASE PublishForward(w)
  <2>1. pc[w] # "idle"
    BY <1>10 DEF PublishForward, Step, At
  <2>2. Mem(w) \in Manifest /\ Cid(Mem(w)) \in Content /\ job[w].text \in Bodies \cup {None}
    BY <1>0, <2>1, Holding
  <2>m. [Mem(w) EXCEPT !.status = "published"] \in Manifest
    BY <1>0, <2>2 DEF StoresOK, Manifest, Body, Status
  <2>3. ControlOK'
    BY <1>0, <1>10, <2>1, <2>m, HoldControl DEF PublishForward, Step, Labels, Carrying
  <2>5. StoresOK'
    BY <1>0, <1>10, <2>2 DEF StoresOK, PublishForward
  <2> QED
    BY <2>3, <2>5
<1>11. CASE PublishReserve(w)
  <2>1. pc[w] # "idle"
    BY <1>11 DEF PublishReserve, Step, At
  <2>2. Mem(w) \in Manifest /\ Cid(Mem(w)) \in Content /\ job[w].text \in Bodies \cup {None}
    BY <1>0, <2>1, Holding
  <2>3. ControlOK'
    BY <1>0, <1>11, <2>1, StepControl DEF PublishReserve, Step, At, ControlOK, Labels, Carrying
  <2>5. StoresOK'
    BY <1>0, <1>11, <2>2 DEF StoresOK, PublishReserve
  <2> QED
    BY <2>3, <2>5
<1>12. CASE PublishRefuses(w)
  <2>1. pc[w] # "idle"
    BY <1>12 DEF PublishRefuses, Finish, Step, At
  <2>2. Mem(w) \in Manifest /\ Cid(Mem(w)) \in Content /\ job[w].text \in Bodies \cup {None}
    BY <1>0, <2>1, Holding
  <2>3. ControlOK'
    BY <1>0, <1>12, FinishControl DEF PublishRefuses, Finish
  <2>5. StoresOK'
    BY <1>0, <1>12, <2>2 DEF StoresOK, PublishRefuses
  <2> QED
    BY <2>3, <2>5
<1>13. CASE PublishClick(w)
  <2>1. pc[w] # "idle"
    BY <1>13 DEF PublishClick, Step, At
  <2>2. Mem(w) \in Manifest /\ Cid(Mem(w)) \in Content /\ job[w].text \in Bodies \cup {None}
    BY <1>0, <2>1, Holding
  <2>m. [Mem(w) EXCEPT !.status = "published"] \in Manifest
    BY <1>0, <2>2 DEF StoresOK, Manifest, Body, Status
  <2>3. ControlOK'
    BY <1>0, <1>13, <2>1, <2>m, HoldControl DEF PublishClick, Step, Labels, Carrying
  <2>5. StoresOK'
    BY <1>0, <1>13, <2>2 DEF StoresOK, PublishClick
  <2> QED
    BY <2>3, <2>5
<1>14. CASE PublishSave(w)
  <2>1. pc[w] # "idle"
    BY <1>14 DEF PublishSave, SaveManifest, Step, At
  <2>2. Mem(w) \in Manifest /\ Cid(Mem(w)) \in Content /\ job[w].text \in Bodies \cup {None}
    BY <1>0, <2>1, Holding
  <2>3. ControlOK'
    BY <1>0, <1>14, <2>1, StepControl DEF PublishSave, SaveManifest, Step, At, ControlOK, Labels, Carrying
  <2>5. StoresOK'
    BY <1>0, <1>14, <2>2 DEF StoresOK, PublishSave, SaveManifest
  <2> QED
    BY <2>3, <2>5
<1>15. CASE PublishMark(w)
  <2>1. pc[w] # "idle"
    BY <1>15 DEF PublishMark, Finish, Step, At
  <2>2. Mem(w) \in Manifest /\ Cid(Mem(w)) \in Content /\ job[w].text \in Bodies \cup {None}
    BY <1>0, <2>1, Holding
  <2>3. ControlOK'
    BY <1>0, <1>15, FinishControl DEF PublishMark, Finish
  <2>5. StoresOK'
    BY <1>0, <1>15, <2>2 DEF StoresOK, PublishMark
  <2> QED
    BY <2>3, <2>5
<1>16. CASE RollbackSave(w)
  <2>1. pc[w] # "idle"
    BY <1>16 DEF RollbackSave, SaveManifest, Step, At
  <2>2. Mem(w) \in Manifest /\ Cid(Mem(w)) \in Content /\ job[w].text \in Bodies \cup {None}
    BY <1>0, <2>1, Holding
  <2>3. ControlOK'
    BY <1>0, <1>16, <2>1, StepControl DEF RollbackSave, SaveManifest, Step, At, ControlOK, Labels, Carrying
  <2>5. StoresOK'
    BY <1>0, <1>16, <2>2 DEF StoresOK, RollbackSave, SaveManifest
  <2> QED
    BY <2>3, <2>5
<1>17. CASE RollbackRow(w)
  <2>1. pc[w] # "idle"
    BY <1>17 DEF RollbackRow, Finish, Step, At
  <2>2. Mem(w) \in Manifest /\ Cid(Mem(w)) \in Content /\ job[w].text \in Bodies \cup {None}
    BY <1>0, <2>1, Holding
  <2>3. ControlOK'
    BY <1>0, <1>17, FinishControl DEF RollbackRow, Finish
  <2>5. StoresOK'
    BY <1>0, <1>17, <2>2 DEF StoresOK, RollbackRow
  <2> QED
    BY <2>3, <2>5
<1> QED
  BY <1>1, <1>2, <1>3, <1>4, <1>5, <1>6, <1>7, <1>8, <1>9, <1>10, <1>11, <1>12, <1>13, <1>14, <1>15, <1>16, <1>17 DEF BackendStep

LEMMA RequestType ==
  ASSUME TypeOK, NEW w \in Workers, Request(w)
  PROVE  (StoresOK /\ ControlOK)'
<1>0. StoresOK /\ ControlOK
  BY TypeSplit
<1>1. PICK k \in Kinds, l \in {"viewMark", "editSave", "genSave", "draftDrive", "verifyDrive",
                               "pubGates", "autoMark", "rbSave"},
           m \in Manifest, x \in Bodies \cup {None} :
        Begin(w, k, l, m, x) /\ (l \in Carrying => x # None)
  BY RequestBegins
<1>2. ControlOK'
  BY <1>0, <1>1, BeginControl DEF Labels
<1>3. StoresOK'
  BY <1>0, <1>1 DEF Begin, StoresOK
<1> QED
  BY <1>2, <1>3

\* A step adds to the overtaken workers, or takes its own worker from them.
LEMMA HistoryType ==
  ASSUME TypeOK, NEW w \in Workers, Request(w) \/ PageStep(w) \/ BackendStep(w) \/ Stop(w)
  PROVE  HistoriesOK'
<1>0. overtaken \subseteq Workers /\ texts \in {"joined", "parted"} /\ Others(w) \subseteq Workers
      /\ Overtaken(w) \subseteq Workers
  BY DEF TypeOK, Others, Overtaken
<1>1. CASE Request(w)
  BY <1>0, <1>1, RequestBegins DEF Begin, Loads, HistoriesOK
<1>2. CASE PageStep(w)
  BY <1>0, <1>2 DEF PageStep, ViewMark, ViewShow, EditSave, EditCaption, EditCaptionFails,
                    EditUndo, EditMark, GenerateSave, GenerateCaption, GenerateCaptionFails,
                    GenerateUndo, SaveAndFinish, Finish, OldBody, NewBody, BodyWritten,
                    CaptionWritten, HistoriesOK
<1>3. CASE BackendStep(w)
  BY <1>0, <1>3 DEF BackendStep, CreateDraft, DraftSave, FindDraft, MissDraft, VerifySave,
                    GatesPass, GateRefuses, AutoMark, PublishLoad, PublishForward,
                    PublishReserve, PublishRefuses, PublishClick, PublishSave, PublishMark,
                    RollbackSave, RollbackRow, SaveAndFinish, Finish, Loads, OldBody,
                    BodyWritten, HistoriesOK
<1>4. CASE Stop(w)
  BY <1>0, <1>4 DEF Stop, Finish, HistoriesOK
<1> QED
  BY <1>1, <1>2, <1>3, <1>4

\* Every store and every worker's memory is of its type in every reachable state.
THEOREM GateTyped == Spec => []TypeOK
<1>1. Init => TypeOK
  <2> SUFFICES ASSUME Init PROVE TypeOK
    OBVIOUS
  <2>1. manifest \in Manifest /\ caption \in Bodies
    BY DEF Init, Manifest, Body, Status
  <2>2. Free \in Job
    BY DEF Free, Job
  <2>3. StoresOK /\ HistoriesOK
    BY <2>1 DEF Init, StoresOK, HistoriesOK
  <2>4. ControlOK
    BY <2>2 DEF Init, ControlOK, Labels, Carrying
  <2> QED
    BY <2>3, <2>4, TypeSplit
<1>2. TypeOK /\ [Next]_vars => TypeOK'
  <2> SUFFICES ASSUME TypeOK, [Next]_vars PROVE TypeOK'
    OBVIOUS
  <2>0. StoresOK /\ ControlOK
    BY TypeSplit
  <2>1. ASSUME NEW w \in Workers, Stop(w)
        PROVE  (StoresOK /\ ControlOK)'
    <3>1. ControlOK'
      BY <2>0, <2>1, FinishControl DEF Stop, Finish
    <3>2. StoresOK'
      BY <2>0, <2>1 DEF Stop, StoresOK
    <3> QED
      BY <3>1, <3>2
  <2>2. ASSUME NEW w \in Workers, Request(w) \/ PageStep(w) \/ BackendStep(w) \/ Stop(w)
        PROVE  TypeOK'
    <3>1. (StoresOK /\ ControlOK)'
      BY <2>1, <2>2, RequestType, PageType, BackendType
    <3>2. HistoriesOK'
      BY <2>2, HistoryType
    <3> QED
      BY <3>1, <3>2 DEF TypeOK, StoresOK, HistoriesOK, ControlOK, Carrying
  <2>3. CASE UNCHANGED vars
    BY <2>3 DEF TypeOK, vars
  <2> QED
    BY <2>2, <2>3 DEF Next
<1> QED
  BY <1>1, <1>2, PTL DEF Spec

(***************************************************************************)
(* Only reviewed content is clicked on.                                   *)
(***************************************************************************)

\* A step of w leaves the invariant alone unless w goes on past its gates.
LEMMA GateFrame ==
  ASSUME GateInv, NEW w \in Workers, marked \subseteq marked', reviewed' \in marked' \cup {None},
         \A v \in Workers \ {w} : pc'[v] = pc[v] /\ job'[v] = job[v],
         pc'[w] \in {"pubLoad", "pubCheck", "pubClick"} => job'[w].cid \in marked',
         pc'[w] = "pubClick" => Cid(job'[w].mem) \in marked'
  PROVE  GateInv'
  BY DEF GateInv, OnlyReviewedIsClicked, At, Mem, Cid

\* Every step is a step of one worker; it keeps the contents marked so far,
\* and the marker names one of them.
LEMMA MarkerFrame ==
  ASSUME TypeOK, GateInv, NEW w \in Workers, Request(w) \/ PageStep(w) \/ BackendStep(w) \/ Stop(w)
  PROVE  /\ marked \subseteq marked' /\ reviewed' \in marked' \cup {None}
         /\ \A v \in Workers \ {w} : pc'[v] = pc[v] /\ job'[v] = job[v]
<1>0. pc \in [Workers -> Labels] /\ job \in [Workers -> Job]
      /\ reviewed \in marked \cup {None}
  BY DEF TypeOK, GateInv
<1>1. CASE Request(w)
  BY <1>0, <1>1 DEF Request, StartView, StartEdit, StartGenerate, StartDraft, StartVerify,
                    StartPublish, StartAuto, StartRollback, Begin, Step, Goto
<1>2. CASE PageStep(w)
  BY <1>0, <1>2 DEF PageStep, ViewMark, ViewShow, EditSave, EditCaption, EditCaptionFails,
                    EditUndo, EditMark, GenerateSave, GenerateCaption, GenerateCaptionFails,
                    GenerateUndo, Bind, SaveManifest, SaveAndFinish, Finish, Step, Goto, Hold
<1>3. CASE BackendStep(w)
  BY <1>0, <1>3 DEF BackendStep, CreateDraft, DraftSave, FindDraft, MissDraft, VerifySave,
                    GatesPass, GateRefuses, AutoMark, PublishLoad, PublishForward,
                    PublishReserve, PublishRefuses, PublishClick, PublishSave, PublishMark,
                    RollbackSave, RollbackRow, Bind, SaveManifest, SaveAndFinish, Finish, Step,
                    Goto, Hold
<1>4. CASE Stop(w)
  BY <1>0, <1>4 DEF Stop, Finish, Step, Goto
<1> QED
  BY <1>1, <1>2, <1>3, <1>4

\* The steps past the gates: GatesPass and AutoMark carry a marked content,
\* PublishLoad keeps it, PublishReserve compares it with what it has loaded.
LEMMA PastGates ==
  ASSUME TypeOK, GateInv, NEW w \in Workers, Request(w) \/ PageStep(w) \/ BackendStep(w) \/ Stop(w)
  PROVE  /\ pc'[w] \in {"pubLoad", "pubCheck", "pubClick"} => job'[w].cid \in marked'
         /\ pc'[w] = "pubClick" => Cid(job'[w].mem) \in marked'
<1>0. pc \in [Workers -> Labels] /\ job \in [Workers -> Job]
  BY DEF TypeOK
<1>1. CASE GatesPass(w)
  BY <1>0, <1>1 DEF GatesPass, Step, Goto, GateInv, Job
<1>2. CASE AutoMark(w)
  BY <1>0, <1>2 DEF AutoMark, Bind, Step, Goto, Job
<1>3. CASE PublishLoad(w)
  <2>1. pc[w] = "pubLoad" /\ pc'[w] # "pubClick" /\ marked' = marked
    BY <1>0, <1>3 DEF PublishLoad, At, Goto
  <2>2. job'[w].cid = job[w].cid
    BY <1>0, <1>3 DEF PublishLoad, Hold, Job
  <2> QED
    BY <2>1, <2>2 DEF GateInv
<1>4. CASE PublishReserve(w)
  <2>1. pc[w] = "pubCheck" /\ job' = job /\ marked' = marked
    BY <1>4 DEF PublishReserve, Step, At
  <2>2. Cid(job[w].mem) = job[w].cid
    BY <1>4 DEF PublishReserve, Publishable, Mem
  <2> QED
    BY <2>1, <2>2 DEF GateInv, Cid
<1>5. CASE Request(w)
  <2>1. pc'[w] \notin {"pubLoad", "pubCheck", "pubClick"}
    BY <1>0, <1>5 DEF Request, StartView, StartEdit, StartGenerate, StartDraft, StartVerify,
                      StartPublish, StartAuto, StartRollback, Begin, Step, Goto
  <2> QED
    BY <2>1
<1>6. CASE PageStep(w)
  <2>1. pc'[w] \notin {"pubLoad", "pubCheck", "pubClick"}
    BY <1>0, <1>6 DEF PageStep, ViewMark, ViewShow, EditSave, EditCaption, EditCaptionFails,
                      EditUndo, EditMark, GenerateSave, GenerateCaption, GenerateCaptionFails,
                      GenerateUndo, SaveManifest, SaveAndFinish, Finish, Step, Goto
  <2> QED
    BY <2>1
<1>7. CASE BackendStep(w) /\ ~ (GatesPass(w) \/ AutoMark(w) \/ PublishLoad(w) \/ PublishReserve(w))
  <2>1. \/ CreateDraft(w) \/ DraftSave(w) \/ FindDraft(w) \/ MissDraft(w) \/ VerifySave(w)
        \/ GateRefuses(w) \/ PublishForward(w) \/ PublishRefuses(w) \/ PublishClick(w)
        \/ PublishSave(w) \/ PublishMark(w) \/ RollbackSave(w) \/ RollbackRow(w)
    BY <1>7 DEF BackendStep
  <2>2. pc'[w] \notin {"pubLoad", "pubCheck", "pubClick"}
    BY <1>0, <2>1 DEF CreateDraft, DraftSave, FindDraft, MissDraft, VerifySave, GateRefuses,
                      PublishForward, PublishRefuses, PublishClick, PublishSave, PublishMark,
                      RollbackSave, RollbackRow, SaveManifest, SaveAndFinish, Finish, Step, Goto
  <2> QED
    BY <2>2
<1>8. CASE Stop(w)
  <2>1. pc'[w] = "idle"
    BY <1>0, <1>8 DEF Stop, Finish, Step, Goto
  <2> QED
    BY <2>1
<1> QED
  BY <1>1, <1>2, <1>3, <1>4, <1>5, <1>6, <1>7, <1>8 DEF BackendStep

\* Gate 1 and Q9: a publish click is only ever made for a content the reviewed
\* marker was bound to, however handlers interleave and wherever they fail.
THEOREM ReviewGateHolds == Spec => []OnlyReviewedIsClicked
<1>1. Init => GateInv
  BY DEF Init, GateInv, OnlyReviewedIsClicked, At
<1>2. TypeOK /\ GateInv /\ [Next]_vars => GateInv'
  <2>1. TypeOK /\ GateInv /\ Next => GateInv'
    BY MarkerFrame, PastGates, GateFrame DEF Next
  <2>2. GateInv /\ UNCHANGED vars => GateInv'
    BY DEF GateInv, OnlyReviewedIsClicked, At, Mem, Cid, vars
  <2> QED
    BY <2>1, <2>2
<1>3. GateInv => OnlyReviewedIsClicked
  BY DEF GateInv
<1> QED
  BY <1>1, <1>2, <1>3, GateTyped, PTL DEF Spec

(***************************************************************************)
(* One post per release.                                                   *)
(***************************************************************************)
PubLabels == {"pubGates", "autoMark", "pubLoad", "pubCheck", "pubClick", "pubSave", "pubMark",
              "rbSave", "rbRow"}

\* A step that leaves the row and the posts alone, and does not reserve.
LEMMA PostFrame ==
  ASSUME TypeOK, PostInv, NEW w \in Workers, row' = row, posts' = posts,
         \A v \in Workers \ {w} : pc'[v] = pc[v],
         pc'[w] # "pubClick",
         pc'[w] \in PubLabels => pc[w] \in PubLabels \/ May[w] \cap Publishing # {}
  PROVE  PostInv'
  BY DEF PostInv, OnePost, PubLabels

LEMMA RequestPost ==
  ASSUME TypeOK, PostInv, NEW w \in Workers, Request(w)
  PROVE  PostInv'
<1>1. PICK k \in Kinds, l \in {"viewMark", "editSave", "genSave", "draftDrive", "verifyDrive",
                               "pubGates", "autoMark", "rbSave"},
           m \in Manifest, x \in Bodies \cup {None} :
        Begin(w, k, l, m, x) /\ (l \in {"pubGates", "autoMark", "rbSave"} => k \in Publishing)
  BY RequestBegins
<1>2. pc' = [pc EXCEPT ![w] = l] /\ row' = row /\ posts' = posts /\ k \in May[w]
  BY <1>1 DEF Begin, Step, Goto
<1>3. pc'[w] = l /\ \A v \in Workers \ {w} : pc'[v] = pc[v]
  BY <1>2 DEF TypeOK
<1> QED
  BY <1>1, <1>2, <1>3, PostFrame DEF PubLabels

\* The steps of the publishing handlers that write the row or count a post.
LEMMA PublisherPost ==
  ASSUME TypeOK, PostInv, NEW w \in Workers,
         PublishReserve(w) \/ PublishClick(w) \/ PublishMark(w) \/ RollbackRow(w)
  PROVE  PostInv'
<1>0. pc \in [Workers -> Labels] /\ posts \in Nat /\ row \in {"free", "publishing", "published"}
  BY DEF TypeOK
<1>a. pc[w] \in PubLabels
  BY DEF PublishReserve, PublishClick, PublishMark, RollbackRow, Finish, Step, At, PubLabels
<1>b. May[w] \cap Publishing # {}
  BY <1>a DEF PostInv, PubLabels
<1>c. \A v \in Workers \ {w} : pc[v] # "pubClick"
  BY <1>b, ReviewAssumption DEF PostInv, SolePublisher
<1>d. \A v \in Workers \ {w} : pc'[v] = pc[v]
  BY <1>0 DEF PublishReserve, PublishClick, PublishMark, RollbackRow, Finish, Step, Goto
<1>1. CASE PublishReserve(w)
  <2>1. pc'[w] = "pubClick" /\ row = "free" /\ row' = "publishing" /\ posts' = posts
    BY <1>0, <1>1 DEF PublishReserve, Publishable, Step, Goto
  <2>2. posts = 0
    BY <1>0, <2>1 DEF PostInv
  <2> QED
    BY <1>b, <1>c, <1>d, <2>1, <2>2 DEF PostInv, OnePost
<1>2. CASE PublishClick(w)
  <2>1. pc[w] = "pubClick" /\ pc'[w] = "pubSave" /\ row' = row /\ posts' = posts + 1
    BY <1>0, <1>2 DEF PublishClick, Step, At, Goto
  <2>2. row = "publishing" /\ posts = 0
    BY <2>1 DEF PostInv
  <2> QED
    BY <1>b, <1>c, <1>d, <2>1, <2>2 DEF PostInv, OnePost
<1>3. CASE PublishMark(w)
  <2>1. pc'[w] = "idle" /\ row' = "published" /\ posts' = posts
    BY <1>0, <1>3 DEF PublishMark, Finish, Step, Goto
  <2> QED
    BY <1>c, <1>d, <2>1 DEF PostInv, OnePost
<1>4. CASE RollbackRow(w)
  <2>1. pc'[w] = "idle" /\ row' = "free" /\ posts' = 0
    BY <1>0, <1>4 DEF RollbackRow, Finish, Step, Goto
  <2> QED
    BY <1>c, <1>d, <2>1 DEF PostInv, OnePost
<1> QED
  BY <1>1, <1>2, <1>3, <1>4

\* Every other step leaves the row and the posts alone.
LEMMA OtherPost ==
  ASSUME TypeOK, PostInv, NEW w \in Workers, PageStep(w) \/ BackendStep(w) \/ Stop(w),
         ~ (PublishReserve(w) \/ PublishClick(w) \/ PublishMark(w) \/ RollbackRow(w))
  PROVE  PostInv'
<1>0. pc \in [Workers -> Labels]
  BY DEF TypeOK
<1>1. CASE PageStep(w)
  <2>1. row' = row /\ posts' = posts /\ pc'[w] \notin PubLabels
        /\ \A v \in Workers \ {w} : pc'[v] = pc[v]
    BY <1>0, <1>1 DEF PageStep, ViewMark, ViewShow, EditSave, EditCaption, EditCaptionFails,
                      EditUndo, EditMark, GenerateSave, GenerateCaption, GenerateCaptionFails,
                      GenerateUndo, SaveManifest, SaveAndFinish, Finish, Step, Goto, PubLabels
  <2> QED
    BY <2>1, PostFrame DEF PubLabels
<1>2. CASE BackendStep(w)
  <2>1. \/ CreateDraft(w) \/ DraftSave(w) \/ FindDraft(w) \/ MissDraft(w) \/ VerifySave(w)
        \/ GatesPass(w) \/ GateRefuses(w) \/ AutoMark(w) \/ PublishLoad(w) \/ PublishForward(w)
        \/ PublishRefuses(w) \/ PublishSave(w) \/ RollbackSave(w)
    BY <1>2 DEF BackendStep
  <2>2. /\ row' = row /\ posts' = posts /\ pc'[w] # "pubClick"
        /\ pc'[w] \in PubLabels => pc[w] \in PubLabels
        /\ \A v \in Workers \ {w} : pc'[v] = pc[v]
    BY <1>0, <2>1 DEF CreateDraft, DraftSave, FindDraft, MissDraft, VerifySave, GatesPass,
                      GateRefuses, AutoMark, PublishLoad, PublishForward, PublishRefuses,
                      PublishSave, RollbackSave, SaveManifest, SaveAndFinish, Finish, Step, Goto,
                      At, PubLabels
  <2> QED
    BY <2>2, PostFrame
<1>3. CASE Stop(w)
  <2>1. row' = row /\ posts' = posts /\ pc'[w] = "idle"
        /\ \A v \in Workers \ {w} : pc'[v] = pc[v]
    BY <1>0, <1>3 DEF Stop, Finish, Step, Goto
  <2> QED
    BY <2>1, PostFrame DEF PubLabels
<1> QED
  BY <1>1, <1>2, <1>3

LEMMA PostHolds == Spec => []PostInv
<1>1. Init => PostInv
  BY DEF Init, PostInv, OnePost
<1>2. TypeOK /\ PostInv /\ [Next]_vars => PostInv'
  <2>1. TypeOK /\ PostInv /\ Next => PostInv'
    BY RequestPost, PublisherPost, OtherPost DEF Next
  <2>2. PostInv /\ UNCHANGED vars => PostInv'
    BY DEF PostInv, OnePost, vars
  <2> QED
    BY <2>1, <2>2
<1> QED
  BY <1>1, <1>2, GateTyped, PTL DEF Spec

\* With one publisher at a time, no interleaving with the handlers that rewrite
\* the manifest, and no failure, lets a URL be posted twice before a rollback.
THEOREM OnePostHolds == Spec => []OnePost
<1>1. PostInv => OnePost
  BY DEF PostInv
<1> QED
  BY <1>1, PostHolds, PTL

(***************************************************************************)
(* The gate implements its promise.                                        *)
(***************************************************************************)
Licensing == {"pubLoad", "pubCheck", "pubClick"}

\* While a worker is at a label of a publishing handler, no other worker is.
LEMMA OnePublisher ==
  ASSUME PostInv, NEW w \in Workers, pc[w] \in PubLabels \/ May[w] \cap Publishing # {}
  PROVE  \A v \in Workers \ {w} : pc[v] \notin PubLabels
BY ReviewAssumption DEF PostInv, PubLabels, SolePublisher

\* A step of a worker that neither holds a grant or a licence nor gets one.
LEMMA SetsFrame ==
  ASSUME NEW w \in Workers, \A v \in Workers \ {w} : pc'[v] = pc[v] /\ job'[v] = job[v],
         pc[w] \notin Licensing, pc'[w] \notin Licensing
  PROVE  UNCHANGED <<Granted, Pending>>
<1>1. {v \in Workers : pc'[v] \in {"pubLoad", "pubCheck"}}
        = {v \in Workers : pc[v] \in {"pubLoad", "pubCheck"}}
  BY DEF Licensing
<1>2. {v \in Workers : pc'[v] = "pubClick"} = {v \in Workers : pc[v] = "pubClick"}
  BY DEF Licensing
<1>3. Granted' = Granted
  BY <1>1 DEF Granted, Licensing
<1>4. Pending' = Pending
  BY <1>2 DEF Pending, At, Mem, Cid, Licensing
<1> QED
  BY <1>3, <1>4

\* The grants and the licences of the only worker that publishes.
LEMMA SetsOf ==
  ASSUME NEW w \in Workers, \A v \in Workers \ {w} : pc[v] \notin PubLabels
  PROVE  /\ Granted = IF pc[w] \in {"pubLoad", "pubCheck"} THEN {job[w].cid} ELSE {}
         /\ Pending = IF pc[w] = "pubClick" THEN {Cid(Mem(w))} ELSE {}
BY DEF Granted, Pending, At, PubLabels

LEMMA SetsOfNext ==
  ASSUME NEW w \in Workers, \A v \in Workers \ {w} : pc[v] \notin PubLabels /\ pc'[v] = pc[v]
  PROVE  /\ Granted' = IF pc'[w] \in {"pubLoad", "pubCheck"} THEN {job'[w].cid} ELSE {}
         /\ Pending' = IF pc'[w] = "pubClick" THEN {Cid(Mem(w))'} ELSE {}
BY DEF Granted, Pending, At, PubLabels

PromiseStep == Promise!Next \/ UNCHANGED <<reviewed, Granted, Pending, Gate, posts>>

\* A worker that leaves the marker, the row and the posts alone and publishes nothing.
LEMMA SilentStep ==
  ASSUME NEW w \in Workers, \A v \in Workers \ {w} : pc'[v] = pc[v] /\ job'[v] = job[v],
         pc[w] \notin Licensing, pc'[w] \notin Licensing, UNCHANGED <<reviewed, row, posts>>
  PROVE  PromiseStep
BY SetsFrame DEF PromiseStep, Gate

\* A page binds the marker: a review.
LEMMA ReviewStep ==
  ASSUME NEW w \in Workers, \A v \in Workers \ {w} : pc'[v] = pc[v] /\ job'[v] = job[v],
         pc[w] \notin Licensing, pc'[w] \notin Licensing, UNCHANGED <<row, posts>>,
         NEW c \in Content, reviewed' = c
  PROVE  PromiseStep
<1>1. UNCHANGED <<Granted, Pending, Gate>>
  BY SetsFrame DEF Gate
<1>2. Promise!Review(c)
  BY <1>1 DEF Promise!Review
<1> QED
  BY <1>2 DEF PromiseStep, Promise!Next

LEMMA PagePromise ==
  ASSUME TypeOK, NEW w \in Workers, PageStep(w) PROVE PromiseStep
<1>0. pc \in [Workers -> Labels] /\ job \in [Workers -> Job]
  BY DEF TypeOK
<1>1. \A v \in Workers \ {w} : pc'[v] = pc[v] /\ job'[v] = job[v]
  BY <1>0 DEF PageStep, ViewMark, ViewShow, EditSave, EditCaption, EditCaptionFails,
              EditUndo, EditMark, GenerateSave, GenerateCaption, GenerateCaptionFails,
              GenerateUndo, SaveManifest, SaveAndFinish, Finish, Step, Goto, Hold
<1>2. pc[w] \notin Licensing /\ pc'[w] \notin Licensing /\ pc[w] # "idle"
  BY <1>0 DEF PageStep, ViewMark, ViewShow, EditSave, EditCaption, EditCaptionFails,
              EditUndo, EditMark, GenerateSave, GenerateCaption, GenerateCaptionFails,
              GenerateUndo, SaveManifest, SaveAndFinish, Finish, Step, Goto, At, Licensing
<1>3. UNCHANGED <<row, posts>>
  BY DEF PageStep, ViewMark, ViewShow, EditSave, EditCaption, EditCaptionFails,
         EditUndo, EditMark, GenerateSave, GenerateCaption, GenerateCaptionFails,
         GenerateUndo, SaveManifest, SaveAndFinish
<1>4. CASE ViewMark(w) \/ EditMark(w)
  <2>1. reviewed' = Cid(Mem(w))
    BY <1>4 DEF ViewMark, EditMark, Bind
  <2>2. Cid(Mem(w)) \in Content
    BY <1>2, CidType DEF TypeOK, Mem
  <2> QED
    BY <1>1, <1>2, <1>3, <2>1, <2>2, ReviewStep
<1>5. CASE ~ (ViewMark(w) \/ EditMark(w))
  <2>1. reviewed' = reviewed
    BY <1>5 DEF PageStep, ViewShow, EditSave, EditCaption, EditCaptionFails,
                EditUndo, GenerateSave, GenerateCaption, GenerateCaptionFails,
                GenerateUndo, SaveManifest, SaveAndFinish
  <2> QED
    BY <1>1, <1>2, <1>3, <2>1, SilentStep
<1> QED
  BY <1>4, <1>5

\* The jobs before the gates and after the click, but for the writes of the row.
LEMMA QuietPromise ==
  ASSUME TypeOK, NEW w \in Workers,
         \/ CreateDraft(w) \/ DraftSave(w) \/ FindDraft(w) \/ MissDraft(w) \/ VerifySave(w)
         \/ GateRefuses(w) \/ PublishSave(w) \/ RollbackSave(w)
  PROVE  PromiseStep
<1>0. pc \in [Workers -> Labels] /\ job \in [Workers -> Job]
  BY DEF TypeOK
<1>1. \A v \in Workers \ {w} : pc'[v] = pc[v] /\ job'[v] = job[v]
  BY <1>0 DEF CreateDraft, DraftSave, FindDraft, MissDraft, VerifySave, GateRefuses, PublishSave,
              RollbackSave, SaveManifest, SaveAndFinish, Finish, Step, Goto, Hold
<1>2. pc[w] \notin Licensing /\ pc'[w] \notin Licensing
  BY <1>0 DEF CreateDraft, DraftSave, FindDraft, MissDraft, VerifySave, GateRefuses, PublishSave,
              RollbackSave, SaveManifest, SaveAndFinish, Finish, Step, Goto, At, Licensing
<1>3. UNCHANGED <<reviewed, row, posts>>
  BY DEF CreateDraft, DraftSave, FindDraft, MissDraft, VerifySave, GateRefuses, PublishSave,
         RollbackSave, SaveManifest, SaveAndFinish
<1> QED
  BY <1>1, <1>2, <1>3, SilentStep

\* The steps from the gates to the click, and the writes of the row: each is a step
\* of the promise, since its worker is the only one that publishes.
LEMMA PublishPromised ==
  ASSUME TypeOK, PostInv, NEW w \in Workers,
         \/ GatesPass(w) \/ AutoMark(w) \/ PublishLoad(w) \/ PublishForward(w)
         \/ PublishReserve(w) \/ PublishRefuses(w) \/ PublishClick(w) \/ PublishMark(w)
         \/ RollbackRow(w)
  PROVE  PromiseStep
<1>0. pc \in [Workers -> Labels] /\ job \in [Workers -> Job]
  BY DEF TypeOK
<1>1. pc[w] \in PubLabels /\ pc[w] # "idle"
  BY DEF GatesPass, AutoMark, PublishLoad, PublishForward, PublishReserve, PublishRefuses,
         PublishClick, PublishMark, RollbackRow, Finish, Step, At, PubLabels
<1>2. \A v \in Workers \ {w} : pc[v] \notin PubLabels /\ pc'[v] = pc[v]
  BY <1>0, <1>1, OnePublisher
  DEF GatesPass, AutoMark, PublishLoad, PublishForward, PublishReserve, PublishRefuses,
      PublishClick, PublishMark, RollbackRow, Finish, Step, Goto
<1>3. /\ Granted = IF pc[w] \in {"pubLoad", "pubCheck"} THEN {job[w].cid} ELSE {}
      /\ Pending = IF pc[w] = "pubClick" THEN {Cid(Mem(w))} ELSE {}
  BY <1>2, SetsOf
<1>4. /\ Granted' = IF pc'[w] \in {"pubLoad", "pubCheck"} THEN {job'[w].cid} ELSE {}
      /\ Pending' = IF pc'[w] = "pubClick" THEN {Cid(Mem(w))'} ELSE {}
  BY <1>2, SetsOfNext
<1>5. CASE GatesPass(w)
  <2>1. /\ pc[w] = "pubGates" /\ pc'[w] = "pubLoad" /\ job'[w].cid = reviewed
        /\ reviewed # None /\ UNCHANGED <<reviewed, row, posts>>
    BY <1>0, <1>5 DEF GatesPass, Step, At, Goto, Job
  <2>2. Promise!Grant
    BY <1>3, <1>4, <2>1 DEF Promise!Grant, Gate
  <2> QED
    BY <2>2 DEF PromiseStep, Promise!Next
<1>6. CASE AutoMark(w)
  <2>1. /\ pc[w] = "autoMark" /\ pc'[w] = "pubLoad" /\ job'[w].cid = Cid(Mem(w))
        /\ reviewed' = Cid(Mem(w)) /\ UNCHANGED <<row, posts>>
    BY <1>0, <1>6 DEF AutoMark, Bind, Step, At, Goto, Job
  <2>2. Promise!ReviewAndGrant(Cid(Mem(w)))
    BY <1>3, <1>4, <2>1 DEF Promise!ReviewAndGrant, Gate
  <2>3. Cid(Mem(w)) \in Content
    BY <1>1, CidType DEF TypeOK, Mem
  <2> QED
    BY <2>2, <2>3 DEF PromiseStep, Promise!Next
<1>7. CASE PublishLoad(w)
  <2>1. /\ pc[w] = "pubLoad" /\ pc'[w] \in {"pubCheck", "pubMark"} /\ job'[w].cid = job[w].cid
        /\ UNCHANGED <<reviewed, row, posts>>
    BY <1>0, <1>7 DEF PublishLoad, Hold, At, Goto, Job
  <2>2. pc'[w] = "pubMark" => Promise!Withdraw
    BY <1>3, <1>4, <2>1 DEF Promise!Withdraw, Gate
  <2>3. pc'[w] = "pubCheck" => UNCHANGED <<reviewed, Granted, Pending, Gate, posts>>
    BY <1>3, <1>4, <2>1 DEF Gate
  <2> QED
    BY <2>1, <2>2, <2>3 DEF PromiseStep, Promise!Next
<1>8. CASE PublishForward(w) \/ PublishRefuses(w)
  <2>1. /\ pc[w] = "pubCheck" /\ pc'[w] \in {"pubSave", "idle"}
        /\ UNCHANGED <<reviewed, row, posts>>
    BY <1>0, <1>8 DEF PublishForward, PublishRefuses, Finish, Step, At, Goto
  <2>2. Promise!Withdraw
    BY <1>3, <1>4, <2>1 DEF Promise!Withdraw, Gate
  <2> QED
    BY <2>2 DEF PromiseStep, Promise!Next
<1>9. CASE PublishReserve(w)
  <2>1. /\ pc[w] = "pubCheck" /\ pc'[w] = "pubClick" /\ row = "free" /\ row' = "publishing"
        /\ Cid(Mem(w)) = job[w].cid /\ UNCHANGED <<job, reviewed, posts>>
    BY <1>0, <1>9 DEF PublishReserve, Publishable, Step, At, Goto
  <2>2. Cid(Mem(w))' = job[w].cid
    BY <2>1 DEF Mem, Cid
  <2>3. Promise!License
    BY <1>3, <1>4, <2>1, <2>2 DEF Promise!License, Gate
  <2> QED
    BY <2>3 DEF PromiseStep, Promise!Next
<1>10. CASE PublishClick(w)
  <2>1. /\ pc[w] = "pubClick" /\ pc'[w] = "pubSave" /\ posts' = posts + 1
        /\ UNCHANGED <<reviewed, row>>
    BY <1>0, <1>10 DEF PublishClick, Step, At, Goto
  <2>2. Promise!Post
    BY <1>3, <1>4, <2>1 DEF Promise!Post, Gate
  <2> QED
    BY <2>2 DEF PromiseStep, Promise!Next
<1>11. CASE PublishMark(w)
  <2>1. /\ pc[w] = "pubMark" /\ pc'[w] = "idle" /\ row' = "published"
        /\ UNCHANGED <<reviewed, posts>>
    BY <1>0, <1>11 DEF PublishMark, Finish, Step, At, Goto
  <2>2. Promise!Close
    BY <1>3, <1>4, <2>1 DEF Promise!Close, Gate
  <2> QED
    BY <2>2 DEF PromiseStep, Promise!Next
<1>12. CASE RollbackRow(w)
  <2>1. /\ pc[w] = "rbRow" /\ pc'[w] = "idle" /\ row' = "free" /\ posts' = 0
        /\ UNCHANGED reviewed
    BY <1>0, <1>12 DEF RollbackRow, Finish, Step, At, Goto
  <2>2. Promise!Release
    BY <1>3, <1>4, <2>1 DEF Promise!Release, Gate
  <2> QED
    BY <2>2 DEF PromiseStep, Promise!Next
<1> QED
  BY <1>5, <1>6, <1>7, <1>8, <1>9, <1>10, <1>11, <1>12

\* A run that stops loses its grant or its licence.
LEMMA StopPromised ==
  ASSUME TypeOK, PostInv, NEW w \in Workers, Stop(w) PROVE PromiseStep
<1>0. pc \in [Workers -> Labels] /\ job \in [Workers -> Job]
  BY DEF TypeOK
<1>1. /\ \A v \in Workers \ {w} : pc'[v] = pc[v] /\ job'[v] = job[v]
      /\ pc'[w] = "idle" /\ UNCHANGED <<reviewed, row, posts>>
  BY <1>0 DEF Stop, Finish, Step, Goto
<1>2. CASE pc[w] \notin Licensing
  BY <1>1, <1>2, SilentStep DEF Licensing
<1>3. CASE pc[w] \in Licensing
  <2>1. \A v \in Workers \ {w} : pc[v] \notin PubLabels /\ pc'[v] = pc[v]
    BY <1>1, <1>3, OnePublisher DEF Licensing, PubLabels
  <2>2. /\ Granted = IF pc[w] \in {"pubLoad", "pubCheck"} THEN {job[w].cid} ELSE {}
        /\ Pending = IF pc[w] = "pubClick" THEN {Cid(Mem(w))} ELSE {}
    BY <2>1, SetsOf
  <2>3. Granted' = {} /\ Pending' = {}
    BY <1>1, <2>1, SetsOfNext
  <2>4. pc[w] = "pubClick" => Promise!Lapse
    BY <1>1, <2>2, <2>3 DEF Promise!Lapse, Gate
  <2>5. pc[w] # "pubClick" => Promise!Withdraw
    BY <1>1, <1>3, <2>2, <2>3 DEF Promise!Withdraw, Gate, Licensing
  <2> QED
    BY <2>4, <2>5 DEF PromiseStep, Promise!Next
<1> QED
  BY <1>2, <1>3

LEMMA RequestPromised ==
  ASSUME TypeOK, NEW w \in Workers, Request(w) PROVE PromiseStep
<1>0. pc \in [Workers -> Labels] /\ job \in [Workers -> Job]
  BY DEF TypeOK
<1>1. /\ \A v \in Workers \ {w} : pc'[v] = pc[v] /\ job'[v] = job[v]
      /\ pc[w] \notin Licensing /\ pc'[w] \notin Licensing
      /\ UNCHANGED <<reviewed, row, posts>>
  BY <1>0 DEF Request, StartView, StartEdit, StartGenerate, StartDraft, StartVerify,
              StartPublish, StartAuto, StartRollback, Begin, Step, Goto, At, Licensing
<1> QED
  BY <1>1, SilentStep

\* Any number of views, edits and generations beside the handlers of one publisher,
\* wherever they overwrite each other, fail or stop, implement the promise: a click
\* publishes what the marker named when its job passed the gates, only while the URL
\* is free, and at most once until a rollback.
THEOREM GateKeepsPromise == Spec => KeepsReviewPromise
<1>1. Init => Promise!Init
  BY DEF Init, Promise!Init, Granted, Pending, Gate, At
<1>2. TypeOK /\ PostInv /\ [Next]_vars => [Promise!Next]_<<reviewed, Granted, Pending, Gate, posts>>
  <2>1. TypeOK /\ PostInv /\ Next => PromiseStep
    BY RequestPromised, PagePromise, QuietPromise, PublishPromised, StopPromised
    DEF Next, BackendStep
  <2>2. UNCHANGED vars => UNCHANGED <<reviewed, Granted, Pending, Gate, posts>>
    BY DEF vars, Granted, Pending, Gate, At, Mem, Cid
  <2> QED
    BY <2>1, <2>2 DEF PromiseStep
<1> QED
  BY <1>1, <1>2, GateTyped, PostHolds, PTL
  DEF Spec, KeepsReviewPromise, Promise!Spec, Promise!promiseVars

\* What the promise means: nothing that keeps it posts twice without a release.
THEOREM PromiseMeansOnePost == KeepsReviewPromise => []OnePost
<1> DEFINE Once == /\ posts \in {0, 1}
                   /\ Gate = "open" => posts = 0
                   /\ Pending # {} => posts = 0 /\ Gate = "closed"
<1>1. Promise!Init => Once
  BY DEF Promise!Init
<1>2. Once /\ [Promise!Next]_<<reviewed, Granted, Pending, Gate, posts>> => Once'
  <2> SUFFICES ASSUME Once, [Promise!Next]_<<reviewed, Granted, Pending, Gate, posts>>
               PROVE  Once'
    OBVIOUS
  <2>1. CASE \/ \E c \in Content : Promise!Review(c) \/ Promise!ReviewAndGrant(c)
             \/ Promise!Grant \/ Promise!Withdraw
    BY <2>1 DEF Promise!Review, Promise!ReviewAndGrant, Promise!Grant, Promise!Withdraw
  <2>2. CASE Promise!License
    BY <2>2 DEF Promise!License
  <2>3. CASE Promise!Post \/ Promise!Lapse
    BY <2>3 DEF Promise!Post, Promise!Lapse
  <2>4. CASE Promise!Close \/ Promise!Release
    BY <2>4 DEF Promise!Close, Promise!Release
  <2>5. CASE UNCHANGED <<reviewed, Granted, Pending, Gate, posts>>
    BY <2>5
  <2> QED
    BY <2>1, <2>2, <2>3, <2>4, <2>5 DEF Promise!Next
<1>3. Once => OnePost
  BY DEF OnePost
<1> QED
  BY <1>1, <1>2, <1>3, PTL DEF KeepsReviewPromise, Promise!Spec, Promise!promiseVars

(***************************************************************************)
(* The shown text and the publishable body agree, but where the code parts  *)
(* them: any number of handlers at once.                                    *)
(***************************************************************************)
\* The parts of TextInv, and what it says of one worker that was not overtaken.
Alone  == \A v, w \in Workers : v # w /\ pc[v] \in Halfway /\ pc[w] # "idle" => w \in overtaken
Late   == \A w \in Workers : pc[w] \in Halfway /\ w \in overtaken => texts = "parted"
Edits  == \A w \in Workers : pc[w] \in {"editSave", "editCaption"} /\ job[w].text # None =>
                               Mem(w).body = job[w].text
HoldsBody(w) ==
  /\ pc[w] \in {"editCaption", "genCaption"} => manifest.body = job[w].text
  /\ texts = "joined" =>
       /\ pc[w] \in {"genCaption", "genUndo"} => Mem(w).body = caption
       /\ pc[w] = "editSave" /\ job[w].text = None => Mem(w).body = manifest.body
       /\ pc[w] \notin Halfway \cup {"idle", "editSave"} => Mem(w).body = manifest.body

LEMMA TextParts ==
  TextInv <=> CaptionIsBody /\ Alone /\ Late /\ Edits /\ \A w \in Workers \ overtaken : HoldsBody(w)
  BY DEF TextInv, Alone, Late, Edits, HoldsBody

\* The other workers stay where they are.
Frame(w) == \A v \in Workers \ {w} : pc'[v] = pc[v] /\ job'[v] = job[v]

\* What TextInv says after a step, conjunct by conjunct.
LEMMA TextPartsNext ==
  ASSUME CaptionIsBody', Alone', Late', Edits', \A v \in Workers \ overtaken' : HoldsBody(v)'
  PROVE  TextInv'
  BY DEF TextInv, Alone, Late, Edits, HoldsBody

\* A step that writes neither text and is not halfway before or after it.
LEMMA TextFrame ==
  ASSUME TextInv, NEW w \in Workers, Frame(w),
         manifest'.body = manifest.body, caption' = caption, texts' = texts,
         overtaken \ {w} \subseteq overtaken', overtaken' \subseteq overtaken \cup {w},
         pc[w] \notin Halfway, pc'[w] \notin Halfway,
         pc'[w] # "idle" /\ (\E v \in Workers : pc[v] \in Halfway) => w \in overtaken',
         pc'[w] = "editSave" /\ job'[w].text # None => job'[w].mem.body = job'[w].text,
         texts = "joined" /\ w \notin overtaken' =>
           /\ pc'[w] = "editSave" /\ job'[w].text = None => job'[w].mem.body = manifest.body
           /\ pc'[w] \notin {"idle", "editSave"} => job'[w].mem.body = manifest.body
  PROVE  TextInv'
<1>0. CaptionIsBody /\ Alone /\ Late /\ Edits /\ \A v \in Workers \ overtaken : HoldsBody(v)
  BY TextParts
<1>1. Alone'
  BY <1>0 DEF Alone, Frame
<1>2. Late'
  BY <1>0 DEF Late, Frame
<1>3. Edits'
  BY <1>0 DEF Edits, Frame, Mem, Halfway
<1>4. CaptionIsBody'
  BY <1>0 DEF CaptionIsBody, Frame
<1>5. ASSUME NEW v \in Workers \ overtaken' PROVE HoldsBody(v)'
  <2>1. CASE v = w
    BY <2>1 DEF HoldsBody, Mem, Halfway
  <2>2. CASE v # w
    <3>1. v \notin overtaken /\ HoldsBody(v) /\ pc'[v] = pc[v] /\ job'[v] = job[v]
      BY <1>0, <2>2 DEF Frame
    <3> QED
      BY <3>1 DEF HoldsBody, Mem
  <2> QED
    BY <2>1, <2>2
<1> QED
  BY <1>1, <1>2, <1>3, <1>4, <1>5, TextPartsNext

\* A handler that goes on, or ends, with the body that it holds.
LEMMA TextGoesOn ==
  ASSUME TextInv, NEW w \in Workers, Frame(w),
         manifest' = manifest, caption' = caption, texts' = texts,
         pc[w] \notin Halfway \cup {"idle"},
         \/ pc'[w] = "idle" /\ overtaken' = overtaken \ {w}
         \/ /\ pc[w] # "editSave" /\ pc'[w] \notin Halfway \cup {"idle", "editSave"}
            /\ overtaken' = overtaken /\ job'[w].mem.body = Mem(w).body
  PROVE  TextInv'
<1>0. Alone /\ \A v \in Workers \ overtaken : HoldsBody(v)
  BY TextParts
<1>1. (\E v \in Workers : pc[v] \in Halfway) => w \in overtaken
  BY <1>0 DEF Alone
<1>2. CASE pc'[w] = "idle" /\ overtaken' = overtaken \ {w}
  BY <1>2, TextFrame DEF Halfway
<1>3. CASE /\ pc[w] # "editSave" /\ pc'[w] \notin Halfway \cup {"idle", "editSave"}
           /\ overtaken' = overtaken /\ job'[w].mem.body = Mem(w).body
  <2>1. texts = "joined" /\ w \notin overtaken => Mem(w).body = manifest.body
    BY <1>0 , <1>3 DEF HoldsBody
  <2> QED
    BY <1>1, <1>3, <2>1, TextFrame
<1> QED
  BY <1>2, <1>3

\* A handler that writes back a manifest with the body it was loaded with.
LEMMA TextSave ==
  ASSUME TextInv, NEW w \in Workers, Frame(w), manifest' = Mem(w), caption' = caption,
         BodyWritten(w), pc[w] \notin Halfway \cup {"idle"},
         pc[w] = "editSave" => job[w].text = None, pc'[w] \notin Halfway \cup {"editSave"},
         \/ pc'[w] = "idle" /\ overtaken' = Overtaken(w) \ {w}
         \/ pc'[w] # "idle" /\ job'[w] = job[w] /\ overtaken' = Overtaken(w)
  PROVE  TextInv'
<1>0. CaptionIsBody /\ Alone /\ Late /\ Edits /\ \A v \in Workers \ overtaken : HoldsBody(v)
  BY TextParts
<1>a. /\ overtaken \ {w} \subseteq overtaken'
      /\ pc'[w] # "idle" => overtaken \subseteq overtaken'
      /\ overtaken' \subseteq overtaken \cup Others(w)
      /\ w \in overtaken => Others(w) \subseteq overtaken'
  BY DEF Overtaken, Others
<1>b. \A v \in Workers : pc[v] \in Halfway => w \in overtaken
  BY <1>0 DEF Alone
<1>c. w \notin overtaken => texts' = texts /\ (texts = "joined" => Mem(w).body = manifest.body)
  BY <1>0 DEF BodyWritten, HoldsBody
<1>1. Alone'
  BY <1>0, <1>a, <1>b DEF Alone, Frame
<1>2. Late'
  BY <1>b DEF Late, Frame, BodyWritten
<1>3. Edits'
  BY <1>0 DEF Edits, Frame, Mem, Halfway
<1>4. CaptionIsBody'
  <2> SUFFICES ASSUME texts' = "joined", \A v \in Workers : pc'[v] \notin Halfway
               PROVE  caption' = manifest'.body
    BY DEF CaptionIsBody
  <2>1. w \notin overtaken
    BY DEF BodyWritten
  <2>2. \A v \in Workers : pc[v] \notin Halfway
    BY DEF Frame
  <2> QED
    BY <1>0, <1>c, <2>1, <2>2 DEF CaptionIsBody
<1>5. ASSUME NEW v \in Workers \ overtaken' PROVE HoldsBody(v)'
  <2>1. CASE pc'[v] = "idle"
    BY <2>1 DEF HoldsBody, Halfway
  <2>2. CASE pc'[v] # "idle" /\ v # w
    <3>1. pc'[v] = pc[v] /\ job'[v] = job[v] /\ v \in Others(w)
      BY <2>2 DEF Frame, Others
    <3>2. w \notin overtaken /\ v \notin overtaken /\ pc[v] \notin Halfway
      BY <1>a, <1>b, <2>2, <3>1
    <3>3. HoldsBody(v)
      BY <1>0, <3>2
    <3> QED
      BY <1>c, <3>1, <3>2, <3>3 DEF HoldsBody, Mem, Halfway
  <2>3. CASE pc'[v] # "idle" /\ v = w
    <3>1. w \notin overtaken /\ job'[w] = job[w]
      BY <1>a, <2>3
    <3> QED
      BY <1>c, <2>3, <3>1 DEF HoldsBody, Mem, Halfway
  <2> QED
    BY <2>1, <2>2, <2>3
<1> QED
  BY <1>1, <1>2, <1>3, <1>4, <1>5, TextPartsNext

\* An edit or a generation that writes its manifest is halfway, and overtakes all others.
LEMMA TextHalfway ==
  ASSUME TextInv, NEW w \in Workers, Frame(w), caption' = caption, NewBody(w),
         manifest'.body = job[w].text, job'[w] = job[w],
         \/ pc[w] = "editSave" /\ pc'[w] = "editCaption" /\ Mem(w).body = job[w].text
         \/ pc[w] = "genSave" /\ pc'[w] = "genCaption"
  PROVE  TextInv'
<1>0. CaptionIsBody /\ Alone /\ Late /\ Edits /\ \A v \in Workers \ overtaken : HoldsBody(v)
  BY TextParts
<1>a. overtaken' = overtaken \cup Others(w) /\ pc[w] \notin Halfway \cup {"idle"} /\ pc'[w] \in Halfway
  BY DEF NewBody, Halfway
<1>b. \A v \in Workers : pc[v] \in Halfway => w \in overtaken
  BY <1>0, <1>a DEF Alone
<1>c. \A v \in Workers \ {w} : pc'[v] # "idle" => v \in Others(w)
  BY DEF Frame, Others
<1>1. Alone'
  BY <1>a, <1>b, <1>c DEF Alone, Frame
<1>2. Late'
  <2>1. w \notin Others(w)
    BY DEF Others
  <2> QED
    BY <1>a, <1>b, <2>1 DEF Late, Frame, NewBody, BodyWritten
<1>3. Edits'
  BY <1>0 DEF Edits, Frame, Mem
<1>4. CaptionIsBody'
  BY <1>a DEF CaptionIsBody
<1>5. ASSUME NEW v \in Workers \ overtaken' PROVE HoldsBody(v)'
  <2>1. CASE v # w
    <3>1. pc'[v] = "idle"
      BY <1>a, <1>c, <2>1
    <3> QED
      BY <3>1 DEF HoldsBody, Halfway
  <2>2. CASE v = w
    <3>1. w \notin overtaken /\ HoldsBody(w)
      BY <1>0, <1>a, <2>2
    <3>2. texts' = texts
      BY <3>1 DEF NewBody, BodyWritten
    <3>3. pc[w] = "genSave" /\ texts = "joined" => Mem(w).body = caption
      <4>1. \A v2 \in Workers : pc[v2] \notin Halfway
        BY <1>b, <3>1
      <4> QED
        BY <1>0, <3>1, <4>1 DEF HoldsBody, CaptionIsBody, Halfway
    <3> QED
      BY <2>2, <3>2, <3>3 DEF HoldsBody, Mem, Halfway
  <2> QED
    BY <2>1, <2>2
<1> QED
  BY <1>1, <1>2, <1>3, <1>4, <1>5, TextPartsNext

\* A caption that is written: whoever was not overtaken joins the texts.
LEMMA TextCaption ==
  ASSUME TextInv, NEW w \in Workers, Frame(w), manifest' = manifest, caption' = job[w].text,
         CaptionWritten(w), pc[w] \in {"editCaption", "genCaption"},
         \/ pc'[w] = "idle" /\ overtaken' = overtaken \ {w}
         \/ /\ pc[w] = "editCaption" /\ pc'[w] = "editMark" /\ job[w].text # None
            /\ job'[w] = job[w] /\ overtaken' = overtaken
  PROVE  TextInv'
<1>0. CaptionIsBody /\ Alone /\ Late /\ Edits /\ \A v \in Workers \ overtaken : HoldsBody(v)
  BY TextParts
<1>a. pc[w] \in Halfway /\ pc'[w] \notin Halfway
  BY DEF Halfway
<1>b. /\ \A v \in Workers \ {w} : pc[v] \in Halfway => w \in overtaken
      /\ \A v \in Workers \ {w} : pc[v] # "idle" => v \in overtaken
  BY <1>0, <1>a DEF Alone, Halfway
<1>c. w \in overtaken => texts = "parted" /\ texts' = "parted"
  BY <1>0, <1>a DEF Late, CaptionWritten
<1>1. Alone'
  BY <1>0, <1>a, <1>b DEF Alone, Frame
<1>2. Late'
  BY <1>a, <1>b, <1>c DEF Late, Frame
<1>3. Edits'
  BY <1>0 DEF Edits, Frame, Mem
<1>4. CaptionIsBody'
  <2> SUFFICES ASSUME texts' = "joined" PROVE caption' = manifest'.body
    BY DEF CaptionIsBody
  <2>1. HoldsBody(w)
    BY <1>0, <1>c
  <2> QED
    BY <2>1 DEF HoldsBody
<1>5. ASSUME NEW v \in Workers \ overtaken' PROVE HoldsBody(v)'
  <2>1. CASE v # w
    <3>1. pc'[v] = "idle"
      BY <1>b, <2>1 DEF Frame
    <3> QED
      BY <3>1 DEF HoldsBody, Halfway
  <2>2. CASE v = w /\ pc'[w] = "idle"
    BY <2>2 DEF HoldsBody, Halfway
  <2>3. CASE v = w /\ pc'[w] # "idle"
    <3>1. w \notin overtaken /\ HoldsBody(w) /\ Mem(w).body = job[w].text
      BY <1>0, <2>3 DEF Edits
    <3> QED
      BY <2>3, <3>1 DEF HoldsBody, Mem, Halfway
  <2> QED
    BY <2>1, <2>2, <2>3
<1> QED
  BY <1>1, <1>2, <1>3, <1>4, <1>5, TextPartsNext

\* A caption that cannot be written: the handler turns to undoing its first write.
LEMMA TextFails ==
  ASSUME TextInv, NEW w \in Workers, Frame(w), UNCHANGED <<manifest, caption, overtaken, texts>>,
         \/ pc[w] = "editCaption" /\ pc'[w] = "editUndo"
         \/ pc[w] = "genCaption" /\ pc'[w] = "genUndo" /\ job'[w] = job[w]
  PROVE  TextInv'
<1>0. CaptionIsBody /\ Alone /\ Late /\ Edits /\ \A v \in Workers \ overtaken : HoldsBody(v)
  BY TextParts
<1>a. pc[w] \in Halfway /\ pc'[w] \in Halfway
  BY DEF Halfway
<1>1. Alone'
  BY <1>0, <1>a DEF Alone, Frame, Halfway
<1>2. Late'
  BY <1>0, <1>a DEF Late, Frame
<1>3. Edits'
  BY <1>0 DEF Edits, Frame, Mem
<1>4. CaptionIsBody'
  BY <1>a DEF CaptionIsBody
<1>5. ASSUME NEW v \in Workers \ overtaken' PROVE HoldsBody(v)'
  <2>1. HoldsBody(v)
    BY <1>0
  <2>2. CASE v # w
    BY <2>1, <2>2 DEF HoldsBody, Frame, Mem
  <2>3. CASE v = w
    BY <2>1, <2>3 DEF HoldsBody, Mem, Halfway
  <2> QED
    BY <2>2, <2>3
<1> QED
  BY <1>1, <1>2, <1>3, <1>4, <1>5, TextPartsNext

\* A handler that ends halfway, and so parts the texts, or has undone its first write.
LEMMA TextEnds ==
  ASSUME TextInv, NEW w \in Workers, Frame(w), caption' = caption, pc[w] \in Halfway,
         pc'[w] = "idle", overtaken \ {w} \subseteq overtaken',
         \/ texts' = "parted"
         \/ pc[w] = "genUndo" /\ manifest' = Mem(w) /\ BodyWritten(w)
  PROVE  TextInv'
<1>0. CaptionIsBody /\ Alone /\ Late /\ Edits /\ \A v \in Workers \ overtaken : HoldsBody(v)
  BY TextParts
<1>b. /\ \A v \in Workers \ {w} : pc[v] \in Halfway => w \in overtaken
      /\ \A v \in Workers \ {w} : pc[v] # "idle" => v \in overtaken
  BY <1>0 DEF Alone, Halfway
<1>c. w \in overtaken => texts' = "parted"
  BY DEF BodyWritten
<1>1. Alone'
  BY <1>0, <1>b DEF Alone, Frame, Halfway
<1>2. Late'
  BY <1>b, <1>c DEF Late, Frame, Halfway
<1>3. Edits'
  BY <1>0 DEF Edits, Frame, Mem
<1>4. CaptionIsBody'
  <2> SUFFICES ASSUME texts' = "joined" PROVE caption' = manifest'.body
    BY DEF CaptionIsBody
  <2>1. HoldsBody(w) /\ texts = "joined" /\ pc[w] = "genUndo" /\ manifest' = Mem(w)
    BY <1>0, <1>c DEF BodyWritten
  <2> QED
    BY <2>1 DEF HoldsBody
<1>5. ASSUME NEW v \in Workers \ overtaken' PROVE HoldsBody(v)'
  <2>1. pc'[v] = "idle"
    BY <1>b DEF Frame
  <2> QED
    BY <2>1 DEF HoldsBody, Halfway
<1> QED
  BY <1>1, <1>2, <1>3, <1>4, <1>5, TextPartsNext

\* Every step is one worker's.
LEMMA TextOthers ==
  ASSUME TypeOK, NEW w \in Workers, Request(w) \/ PageStep(w) \/ BackendStep(w) \/ Stop(w)
  PROVE  Frame(w)
<1>0. pc \in [Workers -> Labels] /\ job \in [Workers -> Job]
  BY DEF TypeOK
<1>1. CASE Request(w)
  BY <1>0, <1>1, RequestBegins DEF Begin, Step, Goto, Frame
<1>2. CASE PageStep(w)
  BY <1>0, <1>2 DEF PageStep, ViewMark, ViewShow, EditSave, EditCaption, EditCaptionFails,
                    EditUndo, EditMark, GenerateSave, GenerateCaption, GenerateCaptionFails,
                    GenerateUndo, SaveManifest, SaveAndFinish, Finish, Step, Goto, Hold, Frame
<1>3. CASE BackendStep(w)
  BY <1>0, <1>3 DEF BackendStep, CreateDraft, DraftSave, FindDraft, MissDraft, VerifySave,
                    GatesPass, GateRefuses, AutoMark, PublishLoad, PublishForward,
                    PublishReserve, PublishRefuses, PublishClick, PublishSave, PublishMark,
                    RollbackSave, RollbackRow, SaveManifest, SaveAndFinish, Finish, Step,
                    Goto, Hold, Frame
<1>4. CASE Stop(w)
  BY <1>0, <1>4 DEF Stop, Finish, Step, Goto, Frame
<1> QED
  BY <1>1, <1>2, <1>3, <1>4

\* A handler that starts holds the manifest's body, but for an edit of the body.
LEMMA TextRequest ==
  ASSUME TypeOK, TextInv, NEW w \in Workers, Request(w)
  PROVE  TextInv'
<1>0. pc \in [Workers -> Labels] /\ job \in [Workers -> Job] /\ manifest \in Manifest
      /\ overtaken \subseteq Workers
  BY DEF TypeOK
<1>1. ASSUME NEW k, NEW l \in {"viewMark", "editSave", "genSave", "draftDrive", "verifyDrive",
                               "pubGates", "autoMark", "rbSave"}, NEW m, NEW x,
             Begin(w, k, l, m, x),
             m.body = IF l = "editSave" /\ x # None THEN x ELSE manifest.body
      PROVE  TextInv'
  <2>1. /\ pc[w] = "idle" /\ pc'[w] = l /\ job'[w].mem = m /\ job'[w].text = x
        /\ UNCHANGED <<manifest, caption, texts>>
    BY <1>0, <1>1 DEF Begin, Step, Goto, At
  <2>2. /\ overtaken \ {w} \subseteq overtaken' /\ overtaken' \subseteq overtaken \cup {w}
        /\ (\E v \in Workers : pc[v] \in Halfway) => w \in overtaken'
    BY <1>1 DEF Begin, Loads
  <2>3. Frame(w)
    BY TextOthers
  <2> QED
    BY <1>1, <2>1, <2>2, <2>3, TextFrame DEF Halfway
<1>2. CASE StartEdit(w)
  <2>1. PICK t \in Titles \cup {None}, b \in Bodies \cup {None} :
          Begin(w, "edit", "editSave", Edited(t, b), b)
    BY <1>2 DEF StartEdit
  <2>2. Edited(t, b).body = IF b = None THEN manifest.body ELSE b
    BY <1>0 DEF Edited, Manifest
  <2> QED
    BY <1>1, <2>1, <2>2
<1>3. CASE StartGenerate(w)
  <2>1. PICK b \in Bodies : Begin(w, "generate", "genSave", manifest, b)
    BY <1>3 DEF StartGenerate
  <2> QED
    BY <1>1, <2>1
<1>4. CASE StartRollback(w)
  <2>1. [manifest EXCEPT !.status = "draft_verified"].body = manifest.body
    BY <1>0 DEF Manifest
  <2> QED
    BY <1>1, <1>4, <2>1 DEF StartRollback
<1>5. CASE \/ StartView(w) \/ StartDraft(w) \/ StartVerify(w) \/ StartPublish(w) \/ StartAuto(w)
  BY <1>1, <1>5 DEF StartView, StartDraft, StartVerify, StartPublish, StartAuto
<1> QED
  BY <1>2, <1>3, <1>4, <1>5 DEF Request

\* The pages' steps: both texts are written, or the first write is undone.
LEMMA TextPage ==
  ASSUME TypeOK, TextInv, NEW w \in Workers, PageStep(w)
  PROVE  TextInv'
<1>0. pc \in [Workers -> Labels] /\ job \in [Workers -> Job] /\ manifest \in Manifest
  BY DEF TypeOK
<1>f. Frame(w)
  BY TextOthers
<1>1. CASE ViewMark(w)
  BY <1>0, <1>f, <1>1, TextGoesOn DEF ViewMark, Step, At, Goto, Halfway, Mem
<1>2. CASE ViewShow(w)
  BY <1>0, <1>f, <1>2, TextGoesOn DEF ViewShow, Finish, Step, At, Goto, Halfway
<1>3. CASE EditSave(w)
  <2>1. CASE job[w].text = None
    <3>1. /\ pc[w] = "editSave" /\ pc'[w] = "editMark" /\ manifest' = Mem(w)
          /\ UNCHANGED <<caption, job>> /\ BodyWritten(w) /\ overtaken' = Overtaken(w)
      BY <1>0, <1>3, <2>1 DEF EditSave, SaveManifest, OldBody, Step, At, Goto
    <3> QED
      BY <1>f, <2>1, <3>1, TextSave DEF Halfway
  <2>2. CASE job[w].text # None
    <3>1. /\ pc[w] = "editSave" /\ pc'[w] = "editCaption" /\ manifest' = Mem(w)
          /\ UNCHANGED <<caption, job>> /\ NewBody(w)
      BY <1>0, <1>3, <2>2 DEF EditSave, SaveManifest, Step, At, Goto
    <3>2. Mem(w).body = job[w].text
      BY <2>2, <3>1 DEF TextInv
    <3> QED
      BY <1>f, <3>1, <3>2, TextHalfway
  <2> QED
    BY <2>1, <2>2
<1>4. CASE EditCaption(w)
  <2>1. /\ pc[w] = "editCaption" /\ pc'[w] = "editMark" /\ caption' = job[w].text
        /\ CaptionWritten(w) /\ UNCHANGED <<manifest, job, overtaken>>
    BY <1>0, <1>4 DEF EditCaption, Step, At, Goto
  <2>2. job[w].text # None
    BY <2>1 DEF TypeOK
  <2> QED
    BY <1>f, <2>1, <2>2, TextCaption
<1>5. CASE EditCaptionFails(w)
  <2>1. /\ pc[w] = "editCaption" /\ pc'[w] = "editUndo"
        /\ UNCHANGED <<manifest, caption, overtaken, texts>>
    BY <1>0, <1>5 DEF EditCaptionFails, Step, At, Goto
  <2> QED
    BY <1>f, <2>1, TextFails
<1>6. CASE EditUndo(w)
  <2>1. /\ pc[w] = "editUndo" /\ pc'[w] = "idle" /\ texts' = "parted" /\ caption' = caption
        /\ overtaken' = Overtaken(w) \ {w}
    BY <1>0, <1>6 DEF EditUndo, SaveAndFinish, Step, At, Goto
  <2> QED
    BY <1>f, <2>1, TextEnds DEF Overtaken, Halfway
<1>7. CASE EditMark(w)
  BY <1>0, <1>f, <1>7, TextGoesOn DEF EditMark, Finish, Step, At, Goto, Halfway
<1>8. CASE GenerateSave(w)
  <2>1. /\ pc[w] = "genSave" /\ pc'[w] = "genCaption" /\ UNCHANGED <<caption, job>> /\ NewBody(w)
        /\ manifest' = [Mem(w) EXCEPT !.body = job[w].text]
    BY <1>0, <1>8 DEF GenerateSave, Step, At, Goto
  <2>2. manifest'.body = job[w].text
    BY <2>1 DEF TypeOK, Manifest, Mem
  <2> QED
    BY <1>f, <2>1, <2>2, TextHalfway
<1>9. CASE GenerateCaption(w)
  <2>1. /\ pc[w] = "genCaption" /\ pc'[w] = "idle" /\ caption' = job[w].text
        /\ CaptionWritten(w) /\ manifest' = manifest /\ overtaken' = overtaken \ {w}
    BY <1>0, <1>9 DEF GenerateCaption, Finish, Step, At, Goto
  <2> QED
    BY <1>f, <2>1, TextCaption
<1>10. CASE GenerateCaptionFails(w)
  <2>1. /\ pc[w] = "genCaption" /\ pc'[w] = "genUndo"
        /\ UNCHANGED <<manifest, caption, overtaken, texts, job>>
    BY <1>0, <1>10 DEF GenerateCaptionFails, Step, At, Goto
  <2> QED
    BY <1>f, <2>1, TextFails
<1>11. CASE GenerateUndo(w)
  <2>1. /\ pc[w] = "genUndo" /\ pc'[w] = "idle" /\ manifest' = Mem(w) /\ caption' = caption
        /\ BodyWritten(w) /\ overtaken' = Overtaken(w) \ {w}
    BY <1>0, <1>11 DEF GenerateUndo, SaveAndFinish, Step, At, Goto
  <2> QED
    BY <1>f, <2>1, TextEnds DEF Overtaken, Halfway
<1> QED
  BY <1>1, <1>2, <1>3, <1>4, <1>5, <1>6, <1>7, <1>8, <1>9, <1>10, <1>11 DEF PageStep

\* The jobs' steps never change the body that they hold.
LEMMA TextBackend ==
  ASSUME TypeOK, TextInv, NEW w \in Workers, BackendStep(w)
  PROVE  TextInv'
<1>0. pc \in [Workers -> Labels] /\ job \in [Workers -> Job] /\ manifest \in Manifest
      /\ overtaken \subseteq Workers
  BY DEF TypeOK
<1>f. Frame(w)
  BY TextOthers
<1>1. ASSUME pc[w] # "idle", NEW m, Hold(w, m)
      PROVE  job'[w].mem = m
  BY <1>0, <1>1 DEF Hold, Job
<1>2. pc[w] # "idle" => Mem(w) \in Manifest
  BY DEF TypeOK, Mem
<1>3. CASE CreateDraft(w) \/ FindDraft(w) \/ PublishForward(w) \/ PublishClick(w)
  <2>a. \A m \in Manifest : \A st : [m EXCEPT !.status = st].body = m.body
    BY DEF Manifest
  <2>b. pc[w] # "idle"
    BY <1>3 DEF CreateDraft, FindDraft, PublishForward, PublishClick, Step, At
  <2>1. \E m : Hold(w, m) /\ m.body = Mem(w).body
    <3>1. CASE CreateDraft(w)
      <4> DEFINE m == [Mem(w) EXCEPT !.status = "drafted", !.draft = Cid(Mem(w))]
      <4>1. Hold(w, m)
        BY <3>1 DEF CreateDraft
      <4>2. m.body = Mem(w).body
        BY <1>2, <2>b DEF Manifest
      <4> QED
        BY <4>1, <4>2
    <3>2. CASE FindDraft(w)
      BY <1>2, <2>a, <2>b, <3>2 DEF FindDraft
    <3>3. CASE PublishForward(w) \/ PublishClick(w)
      BY <1>2, <2>a, <2>b, <3>3 DEF PublishForward, PublishClick
    <3> QED
      BY <1>3, <3>1, <3>2, <3>3
  <2>2. /\ pc[w] \in {"draftDrive", "verifyDrive", "pubCheck", "pubClick"}
        /\ pc'[w] \in {"draftSave", "verifySave", "pubSave"}
        /\ UNCHANGED <<manifest, caption, overtaken, texts>>
    BY <1>0, <1>3 DEF CreateDraft, FindDraft, PublishForward, PublishClick, Step, At, Goto
  <2> QED
    BY <1>1, <1>f, <2>1, <2>2, TextGoesOn DEF Halfway
<1>4. CASE PublishLoad(w)
  <2>1. /\ pc[w] = "pubLoad" /\ pc'[w] \in {"pubMark", "pubCheck"} /\ Hold(w, manifest)
        /\ UNCHANGED <<manifest, caption, texts>>
        /\ overtaken \ {w} \subseteq overtaken' /\ overtaken' \subseteq overtaken \cup {w}
        /\ (\E v \in Workers : pc[v] \in Halfway) => w \in overtaken'
    BY <1>0, <1>4 DEF PublishLoad, Loads, At, Goto
  <2>2. job'[w].mem.body = manifest.body
    BY <1>1, <2>1
  <2> QED
    BY <1>f, <2>1, <2>2, TextFrame DEF Halfway
<1>5. CASE GatesPass(w) \/ AutoMark(w) \/ PublishReserve(w)
  <2>1. /\ pc[w] \in {"pubGates", "autoMark", "pubCheck"}
        /\ pc'[w] \in {"pubLoad", "pubClick"} /\ job'[w].mem = Mem(w)
        /\ UNCHANGED <<manifest, caption, overtaken, texts>>
    BY <1>0, <1>5 DEF GatesPass, AutoMark, PublishReserve, Step, At, Goto, Mem, Job
  <2> QED
    BY <1>f, <2>1, TextGoesOn DEF Halfway
<1>6. CASE MissDraft(w) \/ GateRefuses(w) \/ PublishRefuses(w) \/ PublishMark(w) \/ RollbackRow(w)
  <2>1. /\ pc[w] \in {"verifyDrive", "pubGates", "pubCheck", "pubMark", "rbRow"}
        /\ pc'[w] = "idle" /\ overtaken' = overtaken \ {w}
        /\ UNCHANGED <<manifest, caption, texts>>
    BY <1>0, <1>6 DEF MissDraft, GateRefuses, PublishRefuses, PublishMark, RollbackRow, Finish,
                      Step, At, Goto
  <2> QED
    BY <1>f, <2>1, TextGoesOn DEF Halfway
<1>7. CASE DraftSave(w) \/ VerifySave(w)
  <2>1. /\ pc[w] \in {"draftSave", "verifySave"} /\ pc'[w] = "idle"
        /\ manifest' = Mem(w) /\ caption' = caption /\ BodyWritten(w)
        /\ overtaken' = Overtaken(w) \ {w}
    BY <1>0, <1>7 DEF DraftSave, VerifySave, SaveAndFinish, Step, At, Goto
  <2> QED
    BY <1>f, <2>1, TextSave DEF Halfway
<1>8. CASE PublishSave(w) \/ RollbackSave(w)
  <2>1. /\ pc[w] \in {"pubSave", "rbSave"} /\ pc'[w] \in {"pubMark", "rbRow"}
        /\ manifest' = Mem(w) /\ UNCHANGED <<caption, job>> /\ BodyWritten(w)
        /\ overtaken' = Overtaken(w)
    BY <1>0, <1>8 DEF PublishSave, RollbackSave, SaveManifest, OldBody, Step, At, Goto
  <2> QED
    BY <1>f, <2>1, TextSave DEF Halfway
<1> QED
  BY <1>3, <1>4, <1>5, <1>6, <1>7, <1>8 DEF BackendStep

\* A run that stops halfway parts the texts; stopping elsewhere does not.
LEMMA TextStop ==
  ASSUME TypeOK, TextInv, NEW w \in Workers, Stop(w)
  PROVE  TextInv'
<1>1. /\ pc[w] # "idle" /\ pc'[w] = "idle" /\ overtaken' = overtaken \ {w}
      /\ UNCHANGED <<manifest, caption>>
      /\ texts' = IF pc[w] \in Halfway THEN "parted" ELSE texts
  BY ReviewAssumption DEF Stop, Finish, Step, At, Goto, TypeOK
<1>2. Frame(w)
  BY TextOthers
<1>3. CASE pc[w] \in Halfway
  BY <1>1, <1>2, <1>3, TextEnds
<1>4. CASE pc[w] \notin Halfway
  BY <1>1, <1>2, <1>4, TextGoesOn
<1> QED
  BY <1>3, <1>4

LEMMA TextHolds == Spec => []TextInv
<1>1. Init => TextInv
  BY DEF Init, TextInv, CaptionIsBody, Halfway
<1>2. TypeOK /\ TextInv /\ [Next]_vars => TextInv'
  <2>1. TypeOK /\ TextInv /\ Next => TextInv'
    BY TextRequest, TextPage, TextBackend, TextStop DEF Next
  <2>2. TextInv /\ UNCHANGED vars => TextInv'
    BY DEF TextInv, CaptionIsBody, Mem, vars
  <2> QED
    BY <2>1, <2>2
<1> QED
  BY <1>1, <1>2, GateTyped, PTL DEF Spec

\* Any number of views, edits, generations, jobs and rollbacks at once, failing and
\* ending anywhere: the shown text and the publishable body part only by an edit's undo,
\* by an end between the two writes of a text, or by a manifest written back over a body
\* changed since it was loaded; and the next text nobody overtakes joins them again.
THEOREM TextsPartOnlyThere == Spec => []CaptionIsBody
<1>1. TextInv => CaptionIsBody
  BY DEF TextInv
<1> QED
  BY <1>1, TextHolds, PTL

\* While they are joined, a review page shows the text its marker was bound to, whatever
\* runs beside it, but for a view between whose reads another handler changed the body
\* or was about to write its caption.
THEOREM ReviewShowsItsText == Spec => ReviewIsWhatWasShown
<1> DEFINE Shown == \A w \in Workers \ overtaken :
              At(w, "viewShow") /\ At(w, "idle")' /\ texts = "joined" => caption = Mem(w).body
<1>1. TextInv => Shown
  <2> SUFFICES ASSUME TextInv, NEW w \in Workers \ overtaken, pc[w] = "viewShow", texts = "joined"
               PROVE  caption = Mem(w).body
    BY DEF At
  <2>1. \A v \in Workers : pc[v] \notin Halfway
    BY DEF TextInv, Halfway
  <2>2. Mem(w).body = manifest.body
    BY DEF TextInv, Halfway
  <2> QED
    BY <2>1, <2>2 DEF TextInv, CaptionIsBody
<1>2. TextInv /\ [Next]_vars => [Shown]_vars
  BY <1>1
<1> QED
  BY <1>2, TextHolds, PTL DEF Spec, ReviewIsWhatWasShown
=============================================================================

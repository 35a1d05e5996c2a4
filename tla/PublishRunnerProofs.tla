------------------------ MODULE PublishRunnerProofs ------------------------
(* Theorems about PublishRunner, for every number of packages, URLs and     *)
(* workers, every retry count and every budget of failures.                 *)
EXTENDS PublishRunner, TLAPS

(***************************************************************************)
(* Typing.  ControlOK is the part of TypeOK about the workers; the lemmas  *)
(* say that each way a worker moves on keeps it.                           *)
(***************************************************************************)
ControlOK ==
  /\ pc \in [Workers -> Labels]
  /\ job \in [Workers -> Job]
  /\ \A w \in Workers : pc[w] # "idle" => Pkg(w) \in Packages

\* The memory of an idle worker is a job.
LEMMA FreeIsJob == Free \in Job
  BY DEF Free, Job, PostUrl, Manifest

\* Starting a run keeps the workers well typed.
LEMMA BeginControl ==
  ASSUME ControlOK, NEW w \in Workers, NEW p \in Packages, NEW l \in Labels,
         NEW k \in {"cli", "web", "auto"}, NEW s \in BOOLEAN, NEW m \in Manifest,
         NEW n \in Nat, Begin(w, p, l, k, s, m, n)
  PROVE  ControlOK'
<1> DEFINE j == [pkg |-> p, kind |-> k, state |-> s, tries |-> 0, mem |-> m, left |-> n]
<1>1. j \in Job
  BY DEF Job, PostUrl
<1>2. pc' = [pc EXCEPT ![w] = l] /\ job' = [job EXCEPT ![w] = j]
  BY DEF Begin, Goto
<1> QED
  BY <1>1, <1>2 DEF ControlOK, Pkg

\* Ending a run keeps the workers well typed.
LEMMA FinishControl ==
  ASSUME ControlOK, NEW w \in Workers, Finish(w)
  PROVE  ControlOK'
  BY FreeIsJob DEF ControlOK, Finish, Goto, Pkg, Labels

\* So does an invocation that raises, retried or not.
LEMMA RaiseControl ==
  ASSUME ControlOK, NEW w \in Workers, pc[w] # "idle", Raise(w)
  PROVE  ControlOK'
<1>1. CASE Finish(w)
  BY <1>1, FinishControl
<1>2. CASE /\ job[w].left > 1
           /\ Goto(w, "load")
           /\ job' = [job EXCEPT ![w].left = @ - 1]
  <2>1. job[w] \in Job
    BY DEF ControlOK
  <2>2. [job[w] EXCEPT !.left = @ - 1] \in Job
    BY <1>2, <2>1 DEF Job
  <2> QED
    BY <1>2, <2>2 DEF ControlOK, Goto, Pkg, Labels
<1> QED
  BY <1>1, <1>2 DEF Raise

\* A worker that goes on to its next step with its job unchanged.
LEMMA StepControl ==
  ASSUME ControlOK, NEW w \in Workers, pc[w] # "idle", NEW l \in Labels,
         Goto(w, l), UNCHANGED job
  PROVE  ControlOK'
  BY DEF ControlOK, Goto, Pkg

\* A worker that goes on with another manifest in memory, or another count.
LEMMA MemControl ==
  ASSUME ControlOK, NEW w \in Workers, pc[w] # "idle", NEW l \in Labels, Goto(w, l),
         NEW m \in Manifest, job' = [job EXCEPT ![w].mem = m]
  PROVE  ControlOK'
<1>1. [job[w] EXCEPT !.mem = m] \in Job
  BY DEF ControlOK, Job
<1> QED
  BY <1>1 DEF ControlOK, Goto, Pkg

LEMMA TriesControl ==
  ASSUME ControlOK, NEW w \in Workers, pc[w] # "idle", NEW l \in Labels, Goto(w, l),
         NEW n \in Nat, job' = [job EXCEPT ![w].tries = n]
  PROVE  ControlOK'
<1>1. [job[w] EXCEPT !.tries = n] \in Job
  BY DEF ControlOK, Job
<1> QED
  BY <1>1 DEF ControlOK, Goto, Pkg

\* The other part of TypeOK: the stores, the backend and the counters.
StoresOK ==
  /\ manifest \in [Packages -> Manifest]
  /\ row \in [Urls -> Row]
  /\ receipt \in [Packages -> PostUrl \cup {Torn}]
  /\ okRuns \in [Packages -> Nat]
  /\ audited \subseteq Packages
  /\ posted \subseteq Packages
  /\ clicks \in [Urls -> Nat]
  /\ refused \subseteq Urls
  /\ faults \in Nat /\ crashes \in Nat

LEMMA TypeSplit == TypeOK <=> StoresOK /\ ControlOK
  BY DEF TypeOK, StoresOK, ControlOK

\* What a worker holds is typed, and so is the URL of its package.
LEMMA Holding ==
  ASSUME ControlOK, NEW w \in Workers, pc[w] # "idle"
  PROVE  /\ job[w] \in Job /\ Pkg(w) \in Packages /\ Url(w) \in Urls
         /\ job[w].mem \in Manifest /\ job[w].mem.url \in PostUrl
         /\ job[w].tries \in Nat /\ job[w].left \in Nat
  BY PublishAssumption DEF ControlOK, Job, Manifest, Pkg, Url

LEMMA UpsertRow ==
  ASSUME row \in [Urls -> Row], NEW u \in Urls, NEW x \in PostUrl,
         NEW st \in {"absent", "draft_verified", "publishing", "published"},
         Upsert(u, st, x)
  PROVE  row' \in [Urls -> Row]
<1>1. [status |-> st, url |-> IF x = None THEN row[u].url ELSE x] \in Row
  BY DEF Row
<1> QED
  BY <1>1 DEF Upsert

\* A request starts a typed run.
LEMMA RequestType ==
  ASSUME TypeOK, NEW w \in Workers, Request(w)
  PROVE  TypeOK'
<1>1. PICK p \in Packages : StartCli(w, p) \/ StartWeb(w, p) \/ StartAuto(w, p)
                            \/ StartRollback(w, p)
  BY DEF Request
<1>2. Free.mem \in Manifest /\ [status |-> "draft_verified", url |-> None] \in Manifest
  BY DEF Free, Manifest, PostUrl
<1>3. "load" \in Labels /\ "rbSave" \in Labels /\ 1 \in Nat /\ AutoTimes \in Nat
  BY PublishAssumption DEF Labels
<1>4. PICK l \in Labels, k \in {"cli", "web", "auto"}, s \in BOOLEAN, m \in Manifest, n \in Nat :
        Begin(w, p, l, k, s, m, n)
  <2>1. CASE StartCli(w, p)
    BY <2>1, <1>2, <1>3, PublishAssumption DEF StartCli
  <2>2. CASE StartWeb(w, p)
    BY <2>2, <1>2, <1>3 DEF StartWeb
  <2>3. CASE StartAuto(w, p)
    BY <2>3, <1>2, <1>3 DEF StartAuto
  <2>4. CASE StartRollback(w, p)
    BY <2>4, <1>2, <1>3 DEF StartRollback
  <2> QED
    BY <1>1, <2>1, <2>2, <2>3, <2>4
<1>5. ControlOK'
  BY <1>4, BeginControl, TypeSplit
<1>6. StoresOK'
  <2>1. refused' \subseteq Urls
    BY <1>1, TypeSplit DEF StoresOK, StartCli, StartWeb, StartAuto, StartRollback
  <2> QED
    BY <1>4, <2>1, TypeSplit DEF Begin, StoresOK, stores, backend, budget
<1> QED
  BY <1>5, <1>6, TypeSplit DEF TypeOK, StoresOK, ControlOK

\* A step of a run keeps every store and every worker well typed.
LEMMA CodeStepType ==
  ASSUME TypeOK, NEW w \in Workers, CodeStep(w)
  PROVE  TypeOK'
<1>0. StoresOK /\ ControlOK
  BY TypeSplit
<1>1. CASE Load(w)
  <2>1. pc[w] # "idle"
    BY <1>1 DEF Load, Step, At
  <2>2. ControlOK'
    <3>1. manifest[Pkg(w)] \in Manifest
      BY <1>1, <2>1, <1>0, Holding DEF Load, Manifest, PostUrl, StoresOK
    <3> QED
      BY <1>1, <2>1, <3>1, <1>0, MemControl DEF Load, Labels
  <2>3. StoresOK'
    BY <1>1, <2>1, <1>0, Holding DEF Load, StoresOK, stores, backend, budget
  <2> QED
    BY <2>2, <2>3, TypeSplit DEF TypeOK, StoresOK, ControlOK
<1>2. CASE ForwardComplete(w)
  <2>1. pc[w] # "idle"
    BY <1>2 DEF ForwardComplete, Step, At
  <2>2. ControlOK'
    <3>1. [status |-> "published", url |-> row[Url(w)].url] \in Manifest
      BY <1>2, <2>1, <1>0, Holding DEF ForwardComplete, Manifest, PostUrl, StoresOK, Row
    <3> QED
      BY <1>2, <2>1, <3>1, <1>0, MemControl DEF ForwardComplete, Step, Labels
  <2>3. StoresOK'
    BY <1>2, <2>1, <1>0, Holding DEF ForwardComplete, StoresOK, stores, backend, budget
  <2> QED
    BY <2>2, <2>3, TypeSplit DEF TypeOK, StoresOK, ControlOK
<1>3. CASE NotYetPublished(w)
  <2>1. pc[w] # "idle"
    BY <1>3 DEF NotYetPublished, Step, At
  <2>2. ControlOK'
    BY <1>3, <2>1, <1>0, StepControl DEF NotYetPublished, Step, Labels
  <2>3. StoresOK'
    BY <1>3, <2>1, <1>0, Holding DEF NotYetPublished, StoresOK, stores, backend, budget
  <2> QED
    BY <2>2, <2>3, TypeSplit DEF TypeOK, StoresOK, ControlOK
<1>4. CASE RefusePublishing(w)
  <2>1. pc[w] # "idle"
    BY <1>4 DEF RefusePublishing, Step, At
  <2>2. ControlOK'
    BY <1>4, <2>1, <1>0, RaiseControl DEF RefusePublishing
  <2>3. StoresOK'
    BY <1>4, <2>1, <1>0, Holding DEF RefusePublishing, StoresOK, stores, backend, budget
  <2> QED
    BY <2>2, <2>3, TypeSplit DEF TypeOK, StoresOK, ControlOK
<1>5. CASE GateRefuses(w)
  <2>1. pc[w] # "idle"
    BY <1>5 DEF GateRefuses, Step, At
  <2>2. ControlOK'
    BY <1>5, <2>1, <1>0, RaiseControl DEF GateRefuses
  <2>3. StoresOK'
    BY <1>5, <2>1, <1>0, Holding DEF GateRefuses, StoresOK, stores, backend, budget
  <2> QED
    BY <2>2, <2>3, TypeSplit DEF TypeOK, StoresOK, ControlOK
<1>6. CASE GatesPass(w)
  <2>1. pc[w] # "idle"
    BY <1>6 DEF GatesPass, Step, At
  <2>2. ControlOK'
    BY <1>6, <2>1, <1>0, StepControl DEF GatesPass, Step, Labels
  <2>3. StoresOK'
    BY <1>6, <2>1, <1>0, Holding DEF GatesPass, StoresOK, stores, backend, budget
  <2> QED
    BY <2>2, <2>3, TypeSplit DEF TypeOK, StoresOK, ControlOK
<1>7. CASE Reserve(w)
  <2>1. pc[w] # "idle"
    BY <1>7 DEF Reserve, Step, At
  <2>2. ControlOK'
    BY <1>7, <2>1, <1>0, TriesControl DEF Reserve, Step, Labels
  <2>3. StoresOK'
    <3>1. row' \in [Urls -> Row]
      BY <1>7, <2>1, <1>0, Holding, UpsertRow DEF Reserve, StoresOK, PostUrl
    <3> QED
      BY <1>7, <3>1, <1>0 DEF Reserve, StoresOK, backend, budget
  <2> QED
    BY <2>2, <2>3, TypeSplit DEF TypeOK, StoresOK, ControlOK
<1>8. CASE Click(w)
  <2>1. pc[w] # "idle"
    BY <1>8 DEF Click, Step, At
  <2>2. ControlOK'
    BY <1>8, <2>1, <1>0, StepControl DEF Click, Step, Labels
  <2>3. StoresOK'
    BY <1>8, <2>1, <1>0, Holding DEF Click, StoresOK, stores, backend, budget
  <2> QED
    BY <2>2, <2>3, TypeSplit DEF TypeOK, StoresOK, ControlOK
<1>9. CASE Confirm(w)
  <2>1. pc[w] # "idle"
    BY <1>9 DEF Confirm, Step, At
  <2>2. ControlOK'
    <3>1. [status |-> "published", url |-> Pkg(w)] \in Manifest
      BY <1>9, <2>1, <1>0, Holding DEF Confirm, Manifest, PostUrl, StoresOK
    <3> QED
      BY <1>9, <2>1, <3>1, <1>0, MemControl DEF Confirm, Step, Labels
  <2>3. StoresOK'
    BY <1>9, <2>1, <1>0, Holding DEF Confirm, StoresOK, stores, backend, budget
  <2> QED
    BY <2>2, <2>3, TypeSplit DEF TypeOK, StoresOK, ControlOK
<1>10. CASE TryAgain(w)
  <2>1. pc[w] # "idle"
    BY <1>10 DEF TryAgain, Step, At
  <2>2. ControlOK'
    <3>1. job[w].tries + 1 \in Nat
      BY <2>1, <1>0, Holding
    <3> QED
      BY <1>10, <2>1, <3>1, <1>0, TriesControl DEF TryAgain, Labels
  <2>3. StoresOK'
    BY <1>10, <2>1, <1>0, Holding DEF TryAgain, StoresOK, stores, backend, budget
  <2> QED
    BY <2>2, <2>3, TypeSplit DEF TypeOK, StoresOK, ControlOK
<1>11. CASE GiveUp(w)
  <2>1. pc[w] # "idle"
    BY <1>11 DEF GiveUp, Step, At
  <2>2. ControlOK'
    BY <1>11, <2>1, <1>0, RaiseControl DEF GiveUp
  <2>3. StoresOK'
    BY <1>11, <2>1, <1>0, Holding DEF GiveUp, StoresOK, stores, backend, budget
  <2> QED
    BY <2>2, <2>3, TypeSplit DEF TypeOK, StoresOK, ControlOK
<1>12. CASE Save(w)
  <2>1. pc[w] # "idle"
    BY <1>12 DEF Save, Step, At
  <2>2. ControlOK'
    BY <1>12, <2>1, <1>0, StepControl DEF Save, Step, Labels
  <2>3. StoresOK'
    BY <1>12, <2>1, <1>0, Holding DEF Save, StoresOK, stores, backend, budget
  <2> QED
    BY <2>2, <2>3, TypeSplit DEF TypeOK, StoresOK, ControlOK
<1>13. CASE Mark(w)
  <2>1. pc[w] # "idle"
    BY <1>13 DEF Mark, Step, At
  <2>2. ControlOK'
    BY <1>13, <2>1, <1>0, StepControl DEF Mark, Step, Labels
  <2>3. StoresOK'
    <3>1. row' \in [Urls -> Row]
      BY <1>13, <2>1, <1>0, Holding, UpsertRow DEF Mark, StoresOK
    <3> QED
      BY <1>13, <3>1, <1>0 DEF Mark, StoresOK, backend, budget
  <2> QED
    BY <2>2, <2>3, TypeSplit DEF TypeOK, StoresOK, ControlOK
<1>14. CASE CheckReceipt(w)
  <2>1. pc[w] # "idle"
    BY <1>14 DEF CheckReceipt, Step, At
  <2>2. ControlOK'
    BY <1>14, <2>1, <1>0, StepControl DEF CheckReceipt, Step, Labels
  <2>3. StoresOK'
    BY <1>14, <2>1, <1>0, Holding DEF CheckReceipt, StoresOK, stores, backend, budget
  <2> QED
    BY <2>2, <2>3, TypeSplit DEF TypeOK, StoresOK, ControlOK
<1>15. CASE OpenReceipt(w)
  <2>1. pc[w] # "idle"
    BY <1>15 DEF OpenReceipt, Step, At
  <2>2. ControlOK'
    BY <1>15, <2>1, <1>0, StepControl DEF OpenReceipt, Step, Labels
  <2>3. StoresOK'
    BY <1>15, <2>1, <1>0, Holding DEF OpenReceipt, StoresOK, stores, backend, budget
  <2> QED
    BY <2>2, <2>3, TypeSplit DEF TypeOK, StoresOK, ControlOK
<1>16. CASE FillReceipt(w)
  <2>1. pc[w] # "idle"
    BY <1>16 DEF FillReceipt, Step, At
  <2>2. ControlOK'
    BY <1>16, <2>1, <1>0, StepControl DEF FillReceipt, Step, Labels
  <2>3. StoresOK'
    BY <1>16, <2>1, <1>0, Holding DEF FillReceipt, StoresOK, stores, backend, budget
  <2> QED
    BY <2>2, <2>3, TypeSplit DEF TypeOK, StoresOK, ControlOK
<1>17. CASE CheckRun(w)
  <2>1. pc[w] # "idle"
    BY <1>17 DEF CheckRun, Step, At
  <2>2. ControlOK'
    BY <1>17, <2>1, <1>0, StepControl DEF CheckRun, Step, Labels
  <2>3. StoresOK'
    BY <1>17, <2>1, <1>0, Holding DEF CheckRun, StoresOK, stores, backend, budget
  <2> QED
    BY <2>2, <2>3, TypeSplit DEF TypeOK, StoresOK, ControlOK
<1>18. CASE InsertRun(w)
  <2>1. pc[w] # "idle"
    BY <1>18 DEF InsertRun, Step, At
  <2>2. ControlOK'
    BY <1>18, <2>1, <1>0, StepControl DEF InsertRun, Step, Labels
  <2>3. StoresOK'
    BY <1>18, <2>1, <1>0, Holding DEF InsertRun, StoresOK, stores, backend, budget
  <2> QED
    BY <2>2, <2>3, TypeSplit DEF TypeOK, StoresOK, ControlOK
<1>19. CASE Audit(w)
  <2>1. pc[w] # "idle"
    BY <1>19 DEF Audit, Step, At
  <2>2. ControlOK'
    BY <1>19, <1>0, FinishControl DEF Audit
  <2>3. StoresOK'
    BY <1>19, <2>1, <1>0, Holding DEF Audit, StoresOK, stores, backend, budget
  <2> QED
    BY <2>2, <2>3, TypeSplit DEF TypeOK, StoresOK, ControlOK
<1>20. CASE RollbackSave(w)
  <2>1. pc[w] # "idle"
    BY <1>20 DEF RollbackSave, Step, At
  <2>2. ControlOK'
    BY <1>20, <2>1, <1>0, StepControl DEF RollbackSave, Step, Labels
  <2>3. StoresOK'
    BY <1>20, <2>1, <1>0, Holding DEF RollbackSave, StoresOK, stores, backend, budget
  <2> QED
    BY <2>2, <2>3, TypeSplit DEF TypeOK, StoresOK, ControlOK
<1>21. CASE RollbackReceipt(w)
  <2>1. pc[w] # "idle"
    BY <1>21 DEF RollbackReceipt, Step, At
  <2>2. ControlOK'
    BY <1>21, <2>1, <1>0, StepControl DEF RollbackReceipt, Step, Labels
  <2>3. StoresOK'
    BY <1>21, <2>1, <1>0, Holding DEF RollbackReceipt, StoresOK, PostUrl, backend, budget
  <2> QED
    BY <2>2, <2>3, TypeSplit DEF TypeOK, StoresOK, ControlOK
<1>22. CASE RollbackRow(w)
  <2>1. pc[w] # "idle"
    BY <1>22 DEF RollbackRow, Step, At
  <2>2. ControlOK'
    BY <1>22, <1>0, FinishControl DEF RollbackRow
  <2>3. StoresOK'
    BY <1>22, <2>1, <1>0, Holding DEF RollbackRow, StoresOK, Absent, Row, PostUrl, budget
  <2> QED
    BY <2>2, <2>3, TypeSplit DEF TypeOK, StoresOK, ControlOK
<1> QED
  BY <1>1, <1>2, <1>3, <1>4, <1>5, <1>6, <1>7, <1>8, <1>9, <1>10, <1>11, <1>12, <1>13, <1>14, <1>15, <1>16, <1>17, <1>18, <1>19, <1>20, <1>21, <1>22 DEF CodeStep, BrowserStep

\* Failures and the operator do too.
LEMMA OtherType ==
  ASSUME TypeOK, (\E w \in Workers : Fail(w) \/ Crash(w)) \/ Operator
  PROVE  TypeOK'
<1>0. StoresOK /\ ControlOK
  BY TypeSplit
<1>1. CASE \E w \in Workers : Fail(w)
  <2>1. ControlOK'
    BY <1>0, <1>1, RaiseControl DEF Fail
  <2>2. StoresOK'
    BY <1>0, <1>1 DEF Fail, StoresOK, stores, backend
  <2> QED
    BY <2>1, <2>2 DEF TypeOK, StoresOK, ControlOK
<1>2. CASE \E w \in Workers : Crash(w)
  <2>1. ControlOK'
    BY <1>0, <1>2, FinishControl DEF Crash
  <2>2. StoresOK'
    BY <1>0, <1>2 DEF Crash, StoresOK, stores, backend
  <2> QED
    BY <2>1, <2>2 DEF TypeOK, StoresOK, ControlOK
<1>3. CASE Operator
  <2>1. CASE \E p \in Packages : OperatorConfirmsLive(p)
    BY <2>1 DEF TypeOK, OperatorConfirmsLive, Manifest, PostUrl, backend, control, budget, Pkg
  <2>2. CASE \E u \in Urls : OperatorReleases(u)
    <3>1. PICK u \in Urls : OperatorReleases(u)
      BY <2>2
    <3>2. [row[u] EXCEPT !.status = IF @ = "absent" THEN @ ELSE "draft_verified"] \in Row
      BY <1>0 DEF StoresOK, Row
    <3>3. row' \in [Urls -> Row]
      BY <3>1, <3>2, <1>0 DEF OperatorReleases, StoresOK
    <3> QED
      BY <3>1, <3>3 DEF TypeOK, OperatorReleases, backend, control, budget, Pkg
  <2> QED
    BY <1>3, <2>1, <2>2 DEF Operator
<1> QED
  BY <1>1, <1>2, <1>3

\* Every store, every worker and every counter keeps its type in every
\* interleaving of runs, failures, rollbacks and recoveries.
THEOREM TypeCorrect == Spec => []TypeOK
<1>1. Init => TypeOK
  BY FreeIsJob DEF Init, TypeOK, Manifest, PostUrl, Row, Absent, Labels
<1>2. TypeOK /\ [Next]_vars => TypeOK'
  <2>1. TypeOK /\ Next => TypeOK'
    BY RequestType, CodeStepType, OtherType DEF Next
  <2>2. TypeOK /\ UNCHANGED vars => TypeOK'
    BY DEF TypeOK, vars, Pkg
  <2> QED
    BY <2>1, <2>2
<1> QED
  BY <1>1, <1>2, PTL DEF Spec

(***************************************************************************)
(* No phantom publications.                                                *)
(***************************************************************************)
\* A store or a worker may come to name a post only when a click has made it:
\* every code step keeps the invariant.
LEMMA PhantomCode ==
  ASSUME TypeOK, PhantomInv, NEW w \in Workers, CodeStep(w)
  PROVE  PhantomInv'
<1>0. StoresOK /\ ControlOK
  BY TypeSplit
<1>1. CASE Load(w)
  BY <1>1, <1>0, Holding, PublishAssumption
  DEF Load, Step, At, Goto, PhantomInv, NoPhantom, PostOf, Pkg, Url,
      StoresOK, ControlOK, Job, stores, backend
<1>2. CASE ForwardComplete(w)
  BY <1>2, <1>0, Holding
  DEF ForwardComplete, Step, At, RowSaysPublished, Goto, PhantomInv, NoPhantom, PostOf, Pkg, Url,
      ControlOK, Job, stores, backend
<1>3. CASE NotYetPublished(w)
  BY <1>3, <1>0, Holding
  DEF NotYetPublished, Step, At, Goto, PhantomInv, NoPhantom, PostOf, Pkg, Url,
      ControlOK, stores, backend
<1>4. CASE RefusePublishing(w)
  BY <1>4, <1>0, Holding
  DEF RefusePublishing, Raise, Finish, Goto, PhantomInv, NoPhantom, PostOf, Pkg, Url,
      ControlOK, Job, stores, backend
<1>5. CASE GateRefuses(w)
  BY <1>5, <1>0, Holding
  DEF GateRefuses, Raise, Finish, Goto, PhantomInv, NoPhantom, PostOf, Pkg, Url,
      ControlOK, Job, stores, backend
<1>6. CASE GatesPass(w)
  BY <1>6, <1>0, Holding
  DEF GatesPass, Step, At, Goto, PhantomInv, NoPhantom, PostOf, Pkg, Url,
      ControlOK, stores, backend
<1>7. CASE Reserve(w)
  <2>1. pc[w] = "reserve" /\ pc' = [pc EXCEPT ![w] = "drive"] /\ Url(w) \in Urls
    BY <1>7, <1>0, Holding DEF Reserve, Step, At, Goto
  <2>2. \A u \in Urls : /\ row'[u].status = "published" => PostOf(row'[u].url, u)
                        /\ row'[u].url # None => PostOf(row'[u].url, u)
    <3>1. CASE job[w].state
      <4>1. row' = [row EXCEPT ![Url(w)] = [status |-> "publishing",
                 url |-> IF None = None THEN row[Url(w)].url ELSE None]]
        BY <1>7, <3>1 DEF Reserve, Upsert
      <4> QED
        BY <4>1, <2>1, <1>0, PublishAssumption DEF PhantomInv, NoPhantom, PostOf, StoresOK
    <3>2. CASE ~ job[w].state
      BY <1>7, <3>2 DEF Reserve, PhantomInv, NoPhantom
    <3> QED
      BY <3>1, <3>2
  <2>3. /\ manifest' = manifest /\ receipt' = receipt /\ posted' = posted
        /\ \A v \in Workers : job'[v].pkg = job[v].pkg /\ job'[v].mem = job[v].mem
    BY <1>7, <1>0 DEF Reserve, ControlOK, Job, backend
  <2>4. NoPhantom'
    BY <2>2, <2>3 DEF PhantomInv, NoPhantom, PostOf
  <2> QED
    BY <2>1, <2>2, <2>3, <2>4, <1>0 DEF PhantomInv, PostOf, Pkg, Url, ControlOK
<1>8. CASE Click(w)
  BY <1>8, <1>0, Holding
  DEF Click, Step, At, Goto, PhantomInv, NoPhantom, PostOf, Pkg, Url,
      ControlOK, stores, backend
<1>9. CASE Confirm(w)
  BY <1>9, <1>0, Holding, PublishAssumption
  DEF Confirm, Step, At, Goto, PhantomInv, NoPhantom, PostOf, Pkg, Url,
      ControlOK, Job, stores, backend
<1>10. CASE TryAgain(w)
  BY <1>10, <1>0, Holding
  DEF TryAgain, Step, At, Goto, PhantomInv, NoPhantom, PostOf, Pkg, Url,
      ControlOK, Job, stores, backend
<1>11. CASE GiveUp(w)
  BY <1>11, <1>0, Holding
  DEF GiveUp, Raise, Finish, Goto, PhantomInv, NoPhantom, PostOf, Pkg, Url,
      ControlOK, Job, stores, backend
<1>12. CASE Save(w)
  BY <1>12, <1>0, Holding
  DEF Save, Step, At, Goto, PhantomInv, NoPhantom, PostOf, Pkg, Url,
      StoresOK, ControlOK, stores, backend
<1>13. CASE Mark(w)
  <2>1. pc[w] = "mark" /\ pc' = [pc EXCEPT ![w] = "receipt"] /\ Url(w) \in Urls
    BY <1>13, <1>0, Holding DEF Mark, Step, At, Goto
  <2>2. \A u \in Urls : /\ row'[u].status = "published" => PostOf(row'[u].url, u)
                        /\ row'[u].url # None => PostOf(row'[u].url, u)
    <3>1. CASE job[w].state
      <4>1. row' = [row EXCEPT ![Url(w)] = [status |-> "published",
                 url |-> IF job[w].mem.url = None THEN row[Url(w)].url ELSE job[w].mem.url]]
        BY <1>13, <3>1 DEF Mark, Upsert
      <4> QED
        BY <4>1, <2>1, <1>0, PublishAssumption DEF PhantomInv, NoPhantom, PostOf, StoresOK
    <3>2. CASE ~ job[w].state
      BY <1>13, <3>2 DEF Mark, PhantomInv, NoPhantom
    <3> QED
      BY <3>1, <3>2
  <2>3. /\ manifest' = manifest /\ receipt' = receipt /\ posted' = posted
        /\ \A v \in Workers : job'[v].pkg = job[v].pkg /\ job'[v].mem = job[v].mem
    BY <1>13, <1>0 DEF Mark, ControlOK, Job, backend
  <2>4. NoPhantom'
    BY <2>2, <2>3 DEF PhantomInv, NoPhantom, PostOf
  <2> QED
    BY <2>1, <2>2, <2>3, <2>4, <1>0 DEF PhantomInv, PostOf, Pkg, Url, ControlOK
<1>14. CASE CheckReceipt(w)
  BY <1>14, <1>0, Holding
  DEF CheckReceipt, Step, At, Goto, PhantomInv, NoPhantom, PostOf, Pkg, Url,
      ControlOK, stores, backend
<1>15. CASE OpenReceipt(w)
  BY <1>15, <1>0, Holding
  DEF OpenReceipt, Step, At, Goto, PhantomInv, NoPhantom, PostOf, Pkg, Url,
      StoresOK, ControlOK, stores, backend
<1>16. CASE FillReceipt(w)
  BY <1>16, <1>0, Holding
  DEF FillReceipt, Step, At, Goto, PhantomInv, NoPhantom, PostOf, Pkg, Url,
      StoresOK, ControlOK, stores, backend
<1>17. CASE CheckRun(w)
  BY <1>17, <1>0, Holding
  DEF CheckRun, Step, At, Goto, PhantomInv, NoPhantom, PostOf, Pkg, Url,
      ControlOK, stores, backend
<1>18. CASE InsertRun(w)
  BY <1>18, <1>0, Holding
  DEF InsertRun, Step, At, Goto, PhantomInv, NoPhantom, PostOf, Pkg, Url,
      ControlOK, stores, backend
<1>19. CASE Audit(w)
  BY <1>19, <1>0, Holding
  DEF Audit, Step, At, Finish, Goto, PhantomInv, NoPhantom, PostOf, Pkg, Url,
      ControlOK, stores, backend
<1>20. CASE RollbackSave(w)
  BY <1>20, <1>0, Holding
  DEF RollbackSave, Step, At, Goto, PhantomInv, NoPhantom, PostOf, Pkg, Url,
      StoresOK, ControlOK, stores, backend
<1>21. CASE RollbackReceipt(w)
  BY <1>21, <1>0, Holding
  DEF RollbackReceipt, Step, At, Goto, PhantomInv, NoPhantom, PostOf, Pkg, Url,
      StoresOK, ControlOK, stores, backend
<1>22. CASE RollbackRow(w)
  BY <1>22, <1>0, Holding
  DEF RollbackRow, At, Finish, Absent, Goto, PhantomInv, NoPhantom, PostOf, Pkg, Url,
      StoresOK, ControlOK, stores, backend
<1> QED
  BY <1>1, <1>2, <1>3, <1>4, <1>5, <1>6, <1>7, <1>8, <1>9, <1>10, <1>11, <1>12, <1>13, <1>14, <1>15, <1>16, <1>17, <1>18, <1>19, <1>20, <1>21, <1>22 DEF CodeStep, BrowserStep

\* So do requests, failures and the operator: a request takes at most an
\* unpublished manifest along, and the operator only confirms a real post.
LEMMA PhantomOther ==
  ASSUME TypeOK, PhantomInv,
         (\E w \in Workers : Request(w) \/ Fail(w) \/ Crash(w)) \/ Operator
  PROVE  PhantomInv'
<1>0. StoresOK /\ ControlOK
  BY TypeSplit
<1>1. CASE \E w \in Workers : Request(w)
  <2>1. PICK w \in Workers : Request(w)
    BY <1>1
  <2>2. PICK p \in Packages : StartCli(w, p) \/ StartWeb(w, p) \/ StartAuto(w, p)
                              \/ StartRollback(w, p)
    BY <2>1 DEF Request
  <2>3. /\ UNCHANGED <<stores, backend>>
        /\ \A v \in Workers : v # w => pc'[v] = pc[v] /\ job'[v] = job[v]
        /\ \/ pc'[w] = "load"
           \/ pc'[w] = "rbSave" /\ job'[w].mem.status = "draft_verified"
    BY <2>2, <1>0 DEF StartCli, StartWeb, StartAuto, StartRollback, Begin, Goto, ControlOK
  <2> QED
    BY <2>3 DEF PhantomInv, NoPhantom, PostOf, Pkg, Url, stores, backend
<1>2. CASE \E w \in Workers : Fail(w) \/ Crash(w)
  <2>1. PICK w \in Workers : Fail(w) \/ Crash(w)
    BY <1>2
  <2>2. /\ UNCHANGED <<stores, backend>>
        /\ pc'[w] \in {"load", "idle"}
        /\ \A v \in Workers : v # w => pc'[v] = pc[v] /\ job'[v] = job[v]
    BY <2>1, <1>0 DEF Fail, Crash, Raise, Finish, Goto, ControlOK
  <2> QED
    BY <2>2 DEF PhantomInv, NoPhantom, PostOf, Pkg, Url, stores, backend
<1>3. CASE \E p \in Packages : OperatorConfirmsLive(p)
  BY <1>3, <1>0 DEF OperatorConfirmsLive, PhantomInv, NoPhantom, PostOf, Pkg, Url, StoresOK,
                    backend, control
<1>4. CASE \E u \in Urls : OperatorReleases(u)
  <2>1. PICK u \in Urls : OperatorReleases(u)
    BY <1>4
  <2>2. /\ UNCHANGED <<manifest, receipt, posted, pc, job>>
        /\ \A v \in Urls : /\ row'[v].url = row[v].url
                           /\ row'[v].status = "published" => row[v].status = "published"
    BY <2>1, <1>0 DEF OperatorReleases, StoresOK, Row, backend, control
  <2> QED
    BY <2>2 DEF PhantomInv, NoPhantom, PostOf, Pkg, Url
<1> QED
  BY <1>1, <1>2, <1>3, <1>4 DEF Operator

LEMMA PhantomHolds == Spec => []PhantomInv
<1>1. Init => PhantomInv
  BY DEF Init, PhantomInv, NoPhantom, Absent
<1>2. TypeOK /\ PhantomInv /\ [Next]_vars => PhantomInv'
  <2>1. TypeOK /\ PhantomInv /\ Next => PhantomInv'
    BY PhantomCode, PhantomOther DEF Next
  <2>2. PhantomInv /\ UNCHANGED vars => PhantomInv'
    BY DEF PhantomInv, NoPhantom, PostOf, Pkg, Url, vars
  <2> QED
    BY <2>1, <2>2
<1> QED
  BY <1>1, <1>2, TypeCorrect, PTL DEF Spec

\* In every interleaving of any number of concurrent runs, whatever the retry
\* count, a manifest, state row or receipt that claims a publication names a post
\* of that URL that the backend really published.
THEOREM PublicationsAreReal == Spec => []NoPhantom
<1>1. PhantomInv => NoPhantom
  BY DEF PhantomInv
<1> QED
  BY <1>1, PhantomHolds, PTL


(***************************************************************************)
(* One run at a time: at most one live post per release of a URL.          *)
(***************************************************************************)
LEMMA SerialCode ==
  ASSUME Serial, TypeOK, PhantomInv, SerialInv, NEW w \in Workers, CodeStep(w)
  PROVE  SerialInv'
<1>0. StoresOK /\ ControlOK
  BY TypeSplit
<1>a. \A v \in Workers : v = w
  BY DEF Serial, OneWorker
<1>1. CASE Load(w)
  BY <1>1, <1>0, <1>a, Holding
  DEF Load, Step, At, Goto, SerialInv, AtMostOnePost, PostLeavesTrace, Pkg, Url,
      StoresOK, ControlOK, Job, Row, stores, backend
<1>2. CASE ForwardComplete(w)
  BY <1>2, <1>0, <1>a, Holding
  DEF ForwardComplete, Step, At, RowSaysPublished, Goto, SerialInv, AtMostOnePost, PostLeavesTrace, Pkg, Url,
      StoresOK, ControlOK, Job, Row, stores, backend
<1>3. CASE NotYetPublished(w)
  BY <1>3, <1>0, <1>a, Holding, PublishAssumption
  DEF NotYetPublished, Step, At, RowSaysPublished, Goto, SerialInv, AtMostOnePost, PostLeavesTrace, Pkg, Url,
      StoresOK, ControlOK, Job, Row, stores, backend, PhantomInv, NoPhantom, PostOf, PostUrl
<1>4. CASE RefusePublishing(w)
  BY <1>4, <1>0, <1>a, Holding
  DEF RefusePublishing, RowSaysPublishing, Raise, Finish, Goto, SerialInv, AtMostOnePost, PostLeavesTrace, Pkg, Url,
      StoresOK, ControlOK, Job, Row, stores, backend
<1>5. CASE GateRefuses(w)
  <2>1. pc[w] # "idle" /\ job[w] \in Job
    BY <1>5, <1>0, Holding DEF GateRefuses, At
  <2>2. \/ pc'[w] = "load" /\ job'[w].state = job[w].state
        \/ pc'[w] = "idle"
    BY <1>5, <1>0, <2>1 DEF GateRefuses, Raise, Finish, Goto, ControlOK, Job
  <2>3. UNCHANGED <<row, clicks, refused>>
    BY <1>5 DEF GateRefuses, stores, backend
  <2> QED
    BY <1>a, <2>1, <2>2, <2>3 DEF SerialInv, AtMostOnePost, PostLeavesTrace, Pkg, Url
<1>6. CASE GatesPass(w)
  BY <1>6, <1>0, <1>a, Holding
  DEF GatesPass, Step, At, RowSaysPublishing, Goto, SerialInv, AtMostOnePost, PostLeavesTrace, Pkg, Url,
      StoresOK, ControlOK, Job, Row, stores, backend
<1>7. CASE Reserve(w)
  BY <1>7, <1>0, <1>a, Holding
  DEF Reserve, Step, At, Upsert, Goto, SerialInv, AtMostOnePost, PostLeavesTrace, Pkg, Url,
      StoresOK, ControlOK, Job, Row, stores, backend
<1>8. CASE Click(w)
  BY <1>8, <1>0, <1>a, Holding
  DEF Click, Step, At, Goto, SerialInv, AtMostOnePost, PostLeavesTrace, Pkg, Url,
      StoresOK, ControlOK, Job, Row, stores, backend
<1>9. CASE Confirm(w)
  BY <1>9, <1>0, <1>a, Holding
  DEF Confirm, Step, At, Goto, SerialInv, AtMostOnePost, PostLeavesTrace, Pkg, Url,
      StoresOK, ControlOK, Job, Row, stores, backend
<1>10. CASE TryAgain(w)
  BY <1>10, <1>0, <1>a, Holding
  DEF TryAgain, Step, At, Goto, SerialInv, AtMostOnePost, PostLeavesTrace, Pkg, Url,
      StoresOK, ControlOK, Job, Row, stores, backend, Serial
<1>11. CASE GiveUp(w)
  BY <1>11, <1>0, <1>a, Holding
  DEF GiveUp, Raise, Finish, Goto, SerialInv, AtMostOnePost, PostLeavesTrace, Pkg, Url,
      StoresOK, ControlOK, Job, Row, stores, backend
<1>12. CASE Save(w)
  BY <1>12, <1>0, <1>a, Holding
  DEF Save, Step, At, Goto, SerialInv, AtMostOnePost, PostLeavesTrace, Pkg, Url,
      StoresOK, ControlOK, Job, Row, stores, backend
<1>13. CASE Mark(w)
  BY <1>13, <1>0, <1>a, Holding
  DEF Mark, Step, At, Upsert, Goto, SerialInv, AtMostOnePost, PostLeavesTrace, Pkg, Url,
      StoresOK, ControlOK, Job, Row, stores, backend
<1>14. CASE CheckReceipt(w)
  BY <1>14, <1>0, <1>a, Holding
  DEF CheckReceipt, Step, At, Goto, SerialInv, AtMostOnePost, PostLeavesTrace, Pkg, Url,
      StoresOK, ControlOK, Job, Row, stores, backend
<1>15. CASE OpenReceipt(w)
  BY <1>15, <1>0, <1>a, Holding
  DEF OpenReceipt, Step, At, Goto, SerialInv, AtMostOnePost, PostLeavesTrace, Pkg, Url,
      StoresOK, ControlOK, Job, Row, stores, backend
<1>16. CASE FillReceipt(w)
  BY <1>16, <1>0, <1>a, Holding
  DEF FillReceipt, Step, At, Goto, SerialInv, AtMostOnePost, PostLeavesTrace, Pkg, Url,
      StoresOK, ControlOK, Job, Row, stores, backend
<1>17. CASE CheckRun(w)
  BY <1>17, <1>0, <1>a, Holding
  DEF CheckRun, Step, At, Goto, SerialInv, AtMostOnePost, PostLeavesTrace, Pkg, Url,
      StoresOK, ControlOK, Job, Row, stores, backend
<1>18. CASE InsertRun(w)
  BY <1>18, <1>0, <1>a, Holding
  DEF InsertRun, Step, At, Goto, SerialInv, AtMostOnePost, PostLeavesTrace, Pkg, Url,
      StoresOK, ControlOK, Job, Row, stores, backend
<1>19. CASE Audit(w)
  BY <1>19, <1>0, <1>a, Holding
  DEF Audit, Step, At, Finish, Goto, SerialInv, AtMostOnePost, PostLeavesTrace, Pkg, Url,
      StoresOK, ControlOK, Job, Row, stores, backend
<1>20. CASE RollbackSave(w)
  BY <1>20, <1>0, <1>a, Holding
  DEF RollbackSave, Step, At, Goto, SerialInv, AtMostOnePost, PostLeavesTrace, Pkg, Url,
      StoresOK, ControlOK, Job, Row, stores, backend
<1>21. CASE RollbackReceipt(w)
  BY <1>21, <1>0, <1>a, Holding
  DEF RollbackReceipt, Step, At, Goto, SerialInv, AtMostOnePost, PostLeavesTrace, Pkg, Url,
      StoresOK, ControlOK, Job, Row, stores, backend
<1>22. CASE RollbackRow(w)
  BY <1>22, <1>0, <1>a, Holding
  DEF RollbackRow, At, Finish, Absent, Goto, SerialInv, AtMostOnePost, PostLeavesTrace, Pkg, Url,
      StoresOK, ControlOK, Job, Row, stores, backend
<1> QED
  BY <1>1, <1>2, <1>3, <1>4, <1>5, <1>6, <1>7, <1>8, <1>9, <1>10, <1>11, <1>12, <1>13, <1>14, <1>15, <1>16, <1>17, <1>18, <1>19, <1>20, <1>21, <1>22 DEF CodeStep, BrowserStep

\* Requests, failures and the operator: a release needs an unanswered refusal of
\* an unposted URL, and no reservation in use is in that state.
LEMMA SerialOther ==
  ASSUME Serial, TypeOK, SerialInv,
         (\E w \in Workers : Request(w) \/ Fail(w) \/ Crash(w)) \/ Operator
  PROVE  SerialInv'
<1>0. StoresOK /\ ControlOK
  BY TypeSplit
<1>a. \A v, w \in Workers : v = w
  BY DEF Serial, OneWorker
<1>1. CASE \E w \in Workers : Request(w)
  <2>1. PICK w \in Workers : Request(w)
    BY <1>1
  <2>2. PICK p \in Packages : StartCli(w, p) \/ StartWeb(w, p) \/ StartAuto(w, p)
                              \/ StartRollback(w, p)
    BY <2>1 DEF Request
  <2>3. /\ UNCHANGED <<row, clicks>>
        /\ job'[w].state
        /\ \/ pc'[w] = "load" /\ refused' = refused
           \/ pc'[w] = "rbSave" /\ refused' = refused \ {UrlOf[job'[w].pkg]}
    BY <2>2, <1>0 DEF StartCli, StartWeb, StartAuto, StartRollback, Begin, Goto, ControlOK,
                      Serial, stores, backend
  <2> QED
    BY <1>a, <2>3 DEF SerialInv, AtMostOnePost, PostLeavesTrace, Pkg, Url
<1>2. CASE \E w \in Workers : Fail(w) \/ Crash(w)
  <2>1. PICK w \in Workers : Fail(w) \/ Crash(w)
    BY <1>2
  <2>2. pc[w] # "idle" /\ job[w] \in Job
    BY <2>1, <1>0, Holding DEF Fail, Crash
  <2>3. /\ UNCHANGED <<row, clicks, refused>>
        /\ \/ pc'[w] = "load" /\ job'[w].state = job[w].state
           \/ pc'[w] = "idle"
    BY <2>1, <2>2, <1>0 DEF Fail, Crash, Raise, Finish, Goto, ControlOK, Job, stores, backend
  <2> QED
    BY <1>a, <2>2, <2>3 DEF SerialInv, AtMostOnePost, PostLeavesTrace, Pkg, Url
<1>3. CASE \E p \in Packages : OperatorConfirmsLive(p)
  BY <1>3, <1>0 DEF OperatorConfirmsLive, SerialInv, AtMostOnePost, PostLeavesTrace, Pkg, Url,
                    backend, control
<1>4. CASE \E u \in Urls : OperatorReleases(u)
  BY <1>4, <1>0 DEF OperatorReleases, SerialInv, AtMostOnePost, PostLeavesTrace, Pkg, Url,
                    StoresOK, Row, backend, control
<1> QED
  BY <1>1, <1>2, <1>3, <1>4 DEF Operator

LEMMA SerialInductive == ASSUME Serial PROVE Spec => [](TypeOK /\ SerialInv)
<1>1. Init => PhantomInv /\ SerialInv
  BY DEF Init, PhantomInv, NoPhantom, SerialInv, AtMostOnePost, PostLeavesTrace, Absent
<1>2. TypeOK /\ PhantomInv /\ SerialInv /\ [Next]_vars => SerialInv'
  <2>1. TypeOK /\ PhantomInv /\ SerialInv /\ Next => SerialInv'
    BY SerialCode, SerialOther DEF Next
  <2>2. SerialInv /\ UNCHANGED vars => SerialInv'
    BY DEF SerialInv, AtMostOnePost, PostLeavesTrace, Pkg, Url, vars
  <2> QED
    BY <2>1, <2>2
<1>3. Spec => []PhantomInv
  BY PhantomHolds
<1> QED
  BY <1>1, <1>2, <1>3, TypeCorrect, PTL DEF Spec

\* With one run at a time, one browser attempt per run and a state file, no URL
\* gets a second live post before a rollback or the operator releases it: for
\* every number of packages and mirrors, wherever runs raise, crash, are retried
\* or recovered.
THEOREM OnePostPerRelease ==
  ASSUME Serial PROVE Spec => []AtMostOnePost
<1>1. SerialInv => AtMostOnePost
  BY DEF SerialInv
<1> QED
  BY <1>1, SerialInductive, PTL

\* Under the same assumptions a live post always has its row reserved or
\* published, so that whatever step a run died at, the next one finds it.
THEOREM LivePostsLeaveTrace ==
  ASSUME Serial PROVE Spec => []PostLeavesTrace
<1>1. SerialInv => PostLeavesTrace
  BY DEF SerialInv
<1> QED
  BY <1>1, SerialInductive, PTL

\* Under the same assumptions nothing comes between the reservation of a URL and
\* the click it protects.
THEOREM ClicksAreReserved ==
  ASSUME Serial PROVE Spec => ClickIsReserved
<1> DEFINE Reserved == \A u \in Urls : clicks'[u] > clicks[u] => row[u].status = "publishing"
<1>1. TypeOK /\ SerialInv /\ [Next]_vars => [Reserved]_vars
  <2> SUFFICES ASSUME TypeOK, SerialInv, Next, NEW u \in Urls, clicks'[u] > clicks[u]
               PROVE  row[u].status = "publishing"
    BY DEF vars
  <2>0. clicks \in [Urls -> Nat] /\ ControlOK
    BY TypeSplit DEF StoresOK
  <2>1. CASE \E w \in Workers : Click(w)
    BY <2>0, <2>1, Holding DEF Click, Step, At, SerialInv
  <2>2. CASE \E w \in Workers : RollbackRow(w)
    BY <2>0, <2>2 DEF RollbackRow
  <2>3. CASE clicks' = clicks
    BY <2>0, <2>3
  <2> QED
    BY <2>1, <2>2, <2>3
    DEF Next, Request, StartCli, StartWeb, StartAuto, StartRollback, Begin, CodeStep,
        BrowserStep, Load, ForwardComplete, NotYetPublished, RefusePublishing, GateRefuses,
        GatesPass, Reserve, Confirm, TryAgain, GiveUp, Save, Mark, CheckReceipt, OpenReceipt,
        FillReceipt, CheckRun, InsertRun, Audit, RollbackSave, RollbackReceipt, Fail, Crash,
        Operator, OperatorConfirmsLive, OperatorReleases, backend
<1> QED
  BY <1>1, SerialInductive, PTL DEF Spec, ClickIsReserved

(***************************************************************************)
(* Serial runs of unshared URLs implement PublishPromise.                  *)
(***************************************************************************)
LEMMA PromiseCode ==
  ASSUME Serial, Unshared, TypeOK, PhantomInv, SerialInv, PromiseInv,
         NEW w \in Workers, CodeStep(w)
  PROVE  PromiseInv'
<1>0. StoresOK /\ ControlOK
  BY TypeSplit
<1>a. \A v \in Workers : v = w
  BY DEF Serial, OneWorker
<1>1. CASE Load(w)
  BY <1>1, <1>0, <1>a, Holding, PublishAssumption
  DEF Load, Step, At, Goto, PromiseInv, Pkg, Url, StoresOK, ControlOK, Job, Row,
      stores, backend
<1>2. CASE ForwardComplete(w)
  BY <1>2, <1>0, <1>a, Holding
  DEF ForwardComplete, Step, At, RowSaysPublished, Goto, PromiseInv, Pkg, Url, StoresOK, ControlOK, Job, Row,
      stores, backend
<1>3. CASE NotYetPublished(w)
  BY <1>3, <1>0, <1>a, Holding
  DEF NotYetPublished, Step, At, Goto, PromiseInv, Pkg, Url, StoresOK, ControlOK, Job, Row,
      stores, backend
<1>4. CASE RefusePublishing(w)
  BY <1>4, <1>0, <1>a, Holding
  DEF RefusePublishing, Raise, Finish, Goto, PromiseInv, Pkg, Url, StoresOK, ControlOK, Job, Row,
      stores, backend
<1>5. CASE GateRefuses(w)
  BY <1>5, <1>0, <1>a, Holding
  DEF GateRefuses, Raise, Finish, Goto, PromiseInv, Pkg, Url, StoresOK, ControlOK, Job, Row,
      stores, backend
<1>6. CASE GatesPass(w)
  BY <1>6, <1>0, <1>a, Holding
  DEF GatesPass, Step, At, Goto, PromiseInv, Pkg, Url, StoresOK, ControlOK, Job, Row,
      stores, backend
<1>7. CASE Reserve(w)
  BY <1>7, <1>0, <1>a, Holding
  DEF Reserve, Step, At, Upsert, Goto, PromiseInv, Pkg, Url, StoresOK, ControlOK, Job, Row,
      stores, backend
<1>8. CASE Click(w)
  BY <1>8, <1>0, <1>a, Holding, PublishAssumption
  DEF Click, Step, At, Goto, PromiseInv, Pkg, Url, StoresOK, ControlOK, Job, Row,
      stores, backend
<1>9. CASE Confirm(w)
  BY <1>9, <1>0, <1>a, Holding
  DEF Confirm, Step, At, Goto, PromiseInv, Pkg, Url, StoresOK, ControlOK, Job, Row,
      stores, backend
<1>10. CASE TryAgain(w)
  BY <1>10, <1>0, <1>a, Holding
  DEF TryAgain, Step, At, Goto, PromiseInv, Pkg, Url, StoresOK, ControlOK, Job, Row,
      stores, backend
<1>11. CASE GiveUp(w)
  BY <1>11, <1>0, <1>a, Holding
  DEF GiveUp, Raise, Finish, Goto, PromiseInv, Pkg, Url, StoresOK, ControlOK, Job, Row,
      stores, backend
<1>12. CASE Save(w)
  BY <1>12, <1>0, <1>a, Holding, PublishAssumption
  DEF Save, Step, At, Goto, PromiseInv, Pkg, Url, StoresOK, ControlOK, Job, Row,
      stores, backend
<1>13. CASE Mark(w)
  BY <1>13, <1>0, <1>a, Holding
  DEF Mark, Step, At, Upsert, Goto, PromiseInv, Pkg, Url, StoresOK, ControlOK, Job, Row,
      stores, backend
<1>14. CASE CheckReceipt(w)
  BY <1>14, <1>0, <1>a, Holding
  DEF CheckReceipt, Step, At, Goto, PromiseInv, Pkg, Url, StoresOK, ControlOK, Job, Row,
      stores, backend
<1>15. CASE OpenReceipt(w)
  BY <1>15, <1>0, <1>a, Holding
  DEF OpenReceipt, Step, At, Goto, PromiseInv, Pkg, Url, StoresOK, ControlOK, Job, Row,
      stores, backend
<1>16. CASE FillReceipt(w)
  BY <1>16, <1>0, <1>a, Holding
  DEF FillReceipt, Step, At, Goto, PromiseInv, Pkg, Url, StoresOK, ControlOK, Job, Row,
      stores, backend
<1>17. CASE CheckRun(w)
  BY <1>17, <1>0, <1>a, Holding
  DEF CheckRun, Step, At, Goto, PromiseInv, Pkg, Url, StoresOK, ControlOK, Job, Row,
      stores, backend
<1>18. CASE InsertRun(w)
  BY <1>18, <1>0, <1>a, Holding
  DEF InsertRun, Step, At, Goto, PromiseInv, Pkg, Url, StoresOK, ControlOK, Job, Row,
      stores, backend
<1>19. CASE Audit(w)
  BY <1>19, <1>0, <1>a, Holding
  DEF Audit, Step, At, Finish, Goto, PromiseInv, Pkg, Url, StoresOK, ControlOK, Job, Row,
      stores, backend
<1>20. CASE RollbackSave(w)
  BY <1>20, <1>0, <1>a, Holding
  DEF RollbackSave, Step, At, Goto, PromiseInv, Pkg, Url, StoresOK, ControlOK, Job, Row,
      stores, backend, PhantomInv
<1>21. CASE RollbackReceipt(w)
  BY <1>21, <1>0, <1>a, Holding
  DEF RollbackReceipt, Step, At, Goto, PromiseInv, Pkg, Url, StoresOK, ControlOK, Job, Row,
      stores, backend
<1>22. CASE RollbackRow(w)
  BY <1>22, <1>0, <1>a, Holding, PublishAssumption
  DEF RollbackRow, At, Finish, Absent, Goto, PromiseInv, Pkg, Url, StoresOK, ControlOK, Job, Row,
      stores, backend, Unshared
<1> QED
  BY <1>1, <1>2, <1>3, <1>4, <1>5, <1>6, <1>7, <1>8, <1>9, <1>10, <1>11, <1>12, <1>13, <1>14, <1>15, <1>16, <1>17, <1>18, <1>19, <1>20, <1>21, <1>22 DEF CodeStep, BrowserStep

LEMMA PromiseOther ==
  ASSUME Serial, Unshared, TypeOK, SerialInv, PromiseInv,
         (\E w \in Workers : Request(w) \/ Fail(w) \/ Crash(w)) \/ Operator
  PROVE  PromiseInv'
<1>0. StoresOK /\ ControlOK
  BY TypeSplit
<1>a. \A v, w \in Workers : v = w
  BY DEF Serial, OneWorker
<1>1. CASE \E w \in Workers : Request(w)
  <2>1. PICK w \in Workers : Request(w)
    BY <1>1
  <2>2. PICK p \in Packages : StartCli(w, p) \/ StartWeb(w, p) \/ StartAuto(w, p)
                              \/ StartRollback(w, p)
    BY <2>1 DEF Request
  <2>3. UNCHANGED <<row, manifest, clicks>> /\ pc'[w] \in {"load", "rbSave"}
    BY <2>2, <1>0 DEF StartCli, StartWeb, StartAuto, StartRollback, Begin, Goto, ControlOK,
                      stores, backend
  <2> QED
    BY <1>a, <2>3 DEF PromiseInv
<1>2. CASE \E w \in Workers : Fail(w) \/ Crash(w)
  <2>1. PICK w \in Workers : Fail(w) \/ Crash(w)
    BY <1>2
  <2>2. UNCHANGED <<row, manifest, clicks>> /\ pc'[w] \in {"load", "idle"}
    BY <2>1, <1>0 DEF Fail, Crash, Raise, Finish, Goto, ControlOK, stores, backend
  <2> QED
    BY <1>a, <2>2 DEF PromiseInv
<1>3. CASE \E p \in Packages : OperatorConfirmsLive(p)
  <2>1. PICK p \in Packages : OperatorConfirmsLive(p)
    BY <1>3
  <2>2. \A w \in Workers : pc[w] \in {"rbReceipt", "rbRow"} => Pkg(w) # p
    BY <2>1, <1>0, Holding DEF OperatorConfirmsLive, SerialInv, Url
  <2> QED
    BY <2>1, <2>2, <1>0, Holding
    DEF OperatorConfirmsLive, PromiseInv, Pkg, Url, StoresOK, backend, control
<1>4. CASE \E u \in Urls : OperatorReleases(u)
  BY <1>4, <1>0 DEF OperatorReleases, PromiseInv, Pkg, Url, StoresOK, Row, backend, control
<1> QED
  BY <1>1, <1>2, <1>3, <1>4 DEF Operator

LEMMA PromiseHolds ==
  ASSUME Serial, Unshared
  PROVE  Spec => [](TypeOK /\ PhantomInv /\ SerialInv /\ PromiseInv)
<1>1. Init => PromiseInv
  BY DEF Init, PromiseInv, Absent
<1>2. TypeOK /\ PhantomInv /\ SerialInv /\ PromiseInv /\ [Next]_vars => PromiseInv'
  <2>1. TypeOK /\ PhantomInv /\ SerialInv /\ PromiseInv /\ Next => PromiseInv'
    BY PromiseCode, PromiseOther DEF Next
  <2>2. PromiseInv /\ UNCHANGED vars => PromiseInv'
    BY DEF PromiseInv, Pkg, Url, vars
  <2> QED
    BY <2>1, <2>2
<1> QED
  BY <1>1, <1>2, PhantomHolds, SerialInductive, PTL DEF Spec

\* A step that touches the row or the clicks of one URL moves that URL alone.
LEMMA PhaseMove ==
  ASSUME NEW u \in Urls, NEW from, NEW to, PhaseOf(u) \in from, PhaseOf(u)' = to,
         \A v \in Urls : v # u => row'[v] = row[v] /\ clicks'[v] = clicks[v]
  PROVE  Promise!Move(u, from, to)
<1>1. \A v \in Urls : v # u => PhaseOf(v)' = PhaseOf(v)
  BY DEF PhaseOf
<1>2. Phase' = [Phase EXCEPT ![u] = to]
  BY <1>1 DEF Phase
<1> QED
  BY <1>2 DEF Phase, Promise!Move

LEMMA PhaseStays ==
  ASSUME UNCHANGED <<row, clicks>>
  PROVE  UNCHANGED Phase
  BY DEF Phase, PhaseOf

\* Every step of a serial run is a step of the promise or leaves it alone.
LEMMA PromiseStep ==
  ASSUME Serial, Unshared, TypeOK, PhantomInv, SerialInv, PromiseInv, Next
  PROVE  Promise!Next \/ UNCHANGED Phase
<1>0. StoresOK /\ ControlOK
  BY TypeSplit
<1>1. ASSUME NEW w \in Workers, Reserve(w)
      PROVE  Promise!Next
  <2>1. PICK u \in Urls : u = Url(w)
    BY <1>1, <1>0, Holding DEF Reserve, Step, At
  <2>2. job[w].state /\ pc[w] = "reserve"
    BY <1>1 DEF Reserve, Step, At, SerialInv
  <2>3. row' = [row EXCEPT ![u] = [status |-> "publishing", url |-> row[u].url]]
    BY <1>1, <2>1, <2>2 DEF Reserve, Upsert
  <2>4. clicks' = clicks /\ clicks[u] = 0
    BY <1>1, <1>0, <2>1, <2>2 DEF Reserve, backend, SerialInv, PostLeavesTrace, StoresOK
  <2>5. PhaseOf(u) = "free"
    BY <2>1, <2>2, <2>4 DEF PhaseOf, SerialInv
  <2>6. /\ \A v \in Urls : v # u => row'[v] = row[v] /\ clicks'[v] = clicks[v]
        /\ row'[u].status = "publishing" /\ clicks'[u] = 0
    BY <2>3, <2>4, <1>0 DEF StoresOK
  <2>7. PhaseOf(u)' = "reserved"
    BY <2>6 DEF PhaseOf
  <2>8. Promise!Move(u, {"free"}, "reserved")
    BY <2>5, <2>6, <2>7, PhaseMove
  <2> QED
    BY <2>8 DEF Promise!Next, Promise!Reserve
<1>2. ASSUME NEW w \in Workers, Click(w)
      PROVE  Promise!Next
  <2>1. PICK u \in Urls : u = Url(w)
    BY <1>2, <1>0, Holding DEF Click, Step, At
  <2>2. pc[w] = "drive" /\ clicks[u] = 0 /\ row[u].status = "publishing"
    BY <1>2, <2>1 DEF Click, Step, At, SerialInv
  <2>3. row' = row /\ clicks' = [clicks EXCEPT ![u] = 1]
    BY <1>2, <2>1, <2>2 DEF Click, stores
  <2>4. PhaseOf(u) = "reserved"
    BY <2>2 DEF PhaseOf
  <2>5. /\ \A v \in Urls : v # u => row'[v] = row[v] /\ clicks'[v] = clicks[v]
        /\ row'[u].status = "publishing" /\ clicks'[u] = 1
    BY <2>2, <2>3, <1>0 DEF StoresOK
  <2>6. PhaseOf(u)' = "posted"
    BY <2>5 DEF PhaseOf
  <2>7. Promise!Move(u, {"reserved"}, "posted")
    BY <2>4, <2>5, <2>6, PhaseMove
  <2> QED
    BY <2>7 DEF Promise!Next, Promise!Post
<1>3. ASSUME NEW w \in Workers, Mark(w)
      PROVE  Promise!Next \/ UNCHANGED Phase
  <2>1. PICK u \in Urls : u = Url(w)
    BY <1>3, <1>0, Holding DEF Mark, Step, At
  <2>2. job[w].state /\ pc[w] = "mark" /\ clicks[u] > 0
    BY <1>3, <2>1 DEF Mark, Step, At, SerialInv, PromiseInv
  <2>3. /\ \A v \in Urls : v # u => row'[v] = row[v] /\ clicks'[v] = clicks[v]
        /\ row'[u].status = "published" /\ clicks' = clicks
    BY <1>3, <2>1, <2>2, <1>0 DEF Mark, Upsert, StoresOK, backend
  <2>4. PhaseOf(u)' = "recorded" /\ PhaseOf(u) \in {"posted", "recorded"}
    BY <2>2, <2>3 DEF PhaseOf
  <2>5. CASE PhaseOf(u) = "posted"
    <3>1. Promise!Move(u, {"posted"}, "recorded")
      BY <2>3, <2>4, <2>5, PhaseMove
    <3> QED
      BY <3>1 DEF Promise!Next, Promise!Record
  <2>6. CASE PhaseOf(u) = "recorded"
    <3>1. \A v \in Urls : PhaseOf(v)' = PhaseOf(v)
      BY <2>3, <2>4, <2>6 DEF PhaseOf
    <3> QED
      BY <3>1 DEF Phase
  <2> QED
    BY <2>4, <2>5, <2>6
<1>4. ASSUME NEW u \in Urls, \A v \in Urls : v # u => row'[v] = row[v] /\ clicks'[v] = clicks[v],
             row'[u].status \in {"absent", "draft_verified"}, clicks'[u] = 0
      PROVE  Promise!Release(u) \/ UNCHANGED Phase
  <2>1. PhaseOf(u)' = "free" /\ PhaseOf(u) \in {"free", "reserved", "posted", "recorded"}
    BY <1>4 DEF PhaseOf
  <2>2. CASE PhaseOf(u) = "free"
    <3>1. \A v \in Urls : PhaseOf(v)' = PhaseOf(v)
      BY <1>4, <2>1, <2>2 DEF PhaseOf
    <3> QED
      BY <3>1 DEF Phase
  <2>3. CASE PhaseOf(u) \in {"reserved", "posted", "recorded"}
    BY <1>4, <2>1, <2>3, PhaseMove DEF Promise!Release
  <2> QED
    BY <2>1, <2>2, <2>3
<1>5. ASSUME NEW w \in Workers, RollbackRow(w)
      PROVE  Promise!Next \/ UNCHANGED Phase
  <2>1. PICK u \in Urls : u = Url(w)
    BY <1>5, <1>0, Holding DEF RollbackRow, At
  <2>2. /\ \A v \in Urls : v # u => row'[v] = row[v] /\ clicks'[v] = clicks[v]
        /\ row'[u].status = "absent" /\ clicks'[u] = 0
    BY <1>5, <2>1, <1>0 DEF RollbackRow, Absent, StoresOK
  <2>3. Promise!Release(u) \/ UNCHANGED Phase
    BY <1>4, <2>2
  <2> QED
    BY <2>3 DEF Promise!Next
<1>6. ASSUME NEW u \in Urls, OperatorReleases(u)
      PROVE  Promise!Release(u) \/ UNCHANGED Phase
  <2>1. row[u].status # "published" /\ row[u] \in Row
    BY <1>6, <1>0 DEF OperatorReleases, PromiseInv, StoresOK
  <2>2. /\ \A v \in Urls : v # u => row'[v] = row[v]
        /\ row'[u].status \in {"absent", "draft_verified"}
        /\ clicks' = clicks /\ clicks[u] = 0
    BY <1>6, <2>1, <1>0 DEF OperatorReleases, StoresOK, Row, backend
  <2> QED
    BY <1>4, <2>2
<1>7. CASE UNCHANGED <<row, clicks>>
  BY <1>7, PhaseStays
<1>8. \/ UNCHANGED <<row, clicks>>
      \/ \E w \in Workers : Reserve(w) \/ Click(w) \/ Mark(w) \/ RollbackRow(w)
      \/ \E u \in Urls : OperatorReleases(u)
  BY DEF Next, Request, StartCli, StartWeb, StartAuto, StartRollback, Begin, CodeStep,
         BrowserStep, Load, ForwardComplete, NotYetPublished, RefusePublishing, GateRefuses,
         GatesPass, Confirm, TryAgain, GiveUp, Save, CheckReceipt, OpenReceipt, FillReceipt,
         CheckRun, InsertRun, Audit, RollbackSave, RollbackReceipt, Fail, Crash, Operator,
         OperatorConfirmsLive, stores, backend
<1> QED
  BY <1>1, <1>2, <1>3, <1>5, <1>6, <1>7, <1>8 DEF Promise!Next

\* Serial runs of packages with a URL of their own implement PublishPromise:
\* reserve, post once, record, and start over only after a release.
THEOREM ImplementsPromise ==
  ASSUME Serial, Unshared PROVE Spec => KeepsPromise
<1>1. Init => Promise!Init
  BY DEF Init, Promise!Init, Phase, PhaseOf, Absent
<1>2. TypeOK /\ PhantomInv /\ SerialInv /\ PromiseInv /\ [Next]_vars => [Promise!Next]_Phase
  BY PromiseStep, PhaseStays DEF vars
<1> QED
  BY <1>1, <1>2, PromiseHolds, PTL DEF Spec, KeepsPromise, Promise!Spec

(***************************************************************************)
(* The bookkeeping tail.                                                   *)
(***************************************************************************)
\* With one run at a time only InsertRun writes the run table, and only after
\* CheckRun of the same run has found it empty.
LEMMA RunsStep ==
  ASSUME OneWorker, TypeOK, RunsInv, Next
  PROVE  RunsInv'
<1>0. StoresOK /\ ControlOK
  BY TypeSplit
<1>1. CASE \E w \in Workers : InsertRun(w)
  BY <1>0, <1>1, Holding
  DEF OneWorker, InsertRun, Step, At, Goto, RunsInv, OneOkRun, Pkg, StoresOK, ControlOK
<1>2. CASE \E w \in Workers : CheckRun(w)
  BY <1>0, <1>2, Holding
  DEF OneWorker, CheckRun, At, Goto, RunsInv, OneOkRun, Pkg, StoresOK, ControlOK, stores
<1>3. CASE /\ okRuns' = okRuns
           /\ \A w \in Workers : pc'[w] = "insertRun" => pc[w] = "insertRun" /\ job'[w] = job[w]
  BY <1>3 DEF RunsInv, OneOkRun, Pkg
<1>4. \/ \E w \in Workers : InsertRun(w) \/ CheckRun(w)
      \/ /\ okRuns' = okRuns
         /\ \/ UNCHANGED <<pc, job>>
            \/ \E w \in Workers : /\ pc'[w] # "insertRun"
                                 /\ \A v \in Workers \ {w} : pc'[v] = pc[v] /\ job'[v] = job[v]
  BY <1>0
  DEF Next, Request, StartCli, StartWeb, StartAuto, StartRollback, Begin, CodeStep,
      BrowserStep, Load, ForwardComplete, NotYetPublished, RefusePublishing, GateRefuses,
      GatesPass, Reserve, Click, Confirm, TryAgain, GiveUp, Save, Mark, CheckReceipt,
      OpenReceipt, FillReceipt, Audit, RollbackSave, RollbackReceipt, RollbackRow, Fail, Crash,
      Raise, Finish, Step, Goto, ControlOK,
      Operator, OperatorConfirmsLive, OperatorReleases, control, stores
<1> QED
  BY <1>1, <1>2, <1>3, <1>4

\* With one run at a time no package gets a second ok record, however often its
\* run is retried, re-entered after a crash or rolled back, with any number of
\* browser attempts and with or without a state file.
THEOREM RunsAreRecordedOnce ==
  ASSUME OneWorker PROVE Spec => []OneOkRun
<1>1. Init => RunsInv
  BY DEF Init, RunsInv, OneOkRun
<1>2. TypeOK /\ RunsInv /\ [Next]_vars => RunsInv'
  <2>1. RunsInv /\ UNCHANGED vars => RunsInv'
    BY DEF RunsInv, OneOkRun, Pkg, vars
  <2> QED
    BY <2>1, RunsStep
<1>3. RunsInv => OneOkRun
  BY DEF RunsInv
<1> QED
  BY <1>1, <1>2, <1>3, TypeCorrect, PTL DEF Spec

\* One step per action that touches what BookInv relates, one for all others.
LEMMA BookStep ==
  ASSUME Serial, Unshared, TypeOK, SerialInv, PromiseInv, BookInv, Next
  PROVE  BookInv'
<1>0. StoresOK /\ ControlOK
  BY TypeSplit
<1>a. \A v, w \in Workers : v = w
  BY DEF Serial, OneWorker
<1>1. CASE \E w \in Workers : Reserve(w)
  <2>1. PICK w \in Workers : Reserve(w)
    BY <1>1
  <2>2. pc[w] = "reserve" /\ Url(w) \in Urls /\ row[Url(w)].status # "published"
    BY <1>0, <2>1, Holding DEF Reserve, Step, At, SerialInv
  <2>3. \A u \in Urls \ {Url(w)} : row'[u] = row[u]
    BY <1>0, <2>1 DEF Reserve, Upsert, StoresOK
  <2>4. \A p \in Packages : receipt[p] # None => UrlOf[p] # Url(w)
    BY <2>2 DEF BookInv, BookedInOrder
  <2>5. pc'[w] = "drive"
    BY <1>0, <2>1 DEF Reserve, Step, Goto, ControlOK
  <2> QED
    BY <1>a, <2>1, <2>3, <2>4, <2>5, PublishAssumption DEF Reserve, BookInv, BookedInOrder
<1>2. CASE \E w \in Workers : Mark(w)
  <2>1. PICK w \in Workers : Mark(w)
    BY <1>2
  <2>2. pc[w] = "mark" /\ Url(w) \in Urls /\ job[w].state
    BY <1>0, <2>1, Holding DEF Mark, Step, At, SerialInv
  <2>3. \A u \in Urls : row'[u] = row[u] \/ row'[u].status = "published"
    BY <1>0, <2>1 DEF Mark, Upsert, StoresOK
  <2>4. row'[Url(w)].status = "published"
    BY <1>0, <2>1, <2>2 DEF Mark, Upsert, StoresOK
  <2>5. pc'[w] = "receipt" /\ Url(w)' = Url(w)
    BY <1>0, <2>1 DEF Mark, Step, Goto, ControlOK, Url, Pkg
  <2> QED
    BY <1>a, <2>1, <2>3, <2>4, <2>5, PublishAssumption DEF Mark, BookInv, BookedInOrder
<1>3. CASE \E w \in Workers : CheckReceipt(w)
  BY <1>0, <1>3, <1>a, Holding
  DEF CheckReceipt, At, Goto, BookInv, BookedInOrder, Pkg, Url, StoresOK, ControlOK, stores
<1>4. CASE \E w \in Workers : OpenReceipt(w) \/ FillReceipt(w)
  BY <1>0, <1>4, <1>a, Holding
  DEF OpenReceipt, FillReceipt, Step, At, Goto, BookInv, BookedInOrder, Pkg, Url, StoresOK,
      ControlOK
<1>5. CASE \E w \in Workers : CheckRun(w) \/ InsertRun(w)
  BY <1>0, <1>5, <1>a, Holding
  DEF CheckRun, InsertRun, Step, At, Goto, BookInv, BookedInOrder, SerialInv, Pkg, Url,
      StoresOK, ControlOK, stores
<1>6. CASE \E w \in Workers : Audit(w)
  BY <1>0, <1>6, <1>a, Holding
  DEF Audit, Finish, At, Goto, BookInv, BookedInOrder, Pkg, Url, StoresOK, ControlOK
<1>7. CASE \E w \in Workers : RollbackReceipt(w)
  BY <1>0, <1>7, <1>a, Holding
  DEF RollbackReceipt, Step, At, Goto, BookInv, BookedInOrder, Pkg, Url, StoresOK, ControlOK
<1>8. CASE \E w \in Workers : RollbackRow(w)
  BY <1>0, <1>8, <1>a, Holding, PublishAssumption
  DEF RollbackRow, Finish, At, Goto, BookInv, BookedInOrder, Unshared, Pkg, Url, StoresOK,
      ControlOK
<1>9. CASE \E u \in Urls : OperatorReleases(u)
  <2>1. PICK u \in Urls : OperatorReleases(u)
    BY <1>9
  <2>2. row[u].status # "published"
    BY <1>0, <2>1 DEF OperatorReleases, PromiseInv, StoresOK
  <2>3. \A v \in Urls : row[v].status = "published" => row'[v].status = "published"
    BY <1>0, <2>1, <2>2 DEF OperatorReleases, StoresOK
  <2> QED
    BY <1>0, <2>1, <2>3, Holding, PublishAssumption
    DEF OperatorReleases, BookInv, BookedInOrder, Pkg, Url, control
<1>10. CASE /\ UNCHANGED <<row, receipt, okRuns, audited>>
            /\ \/ UNCHANGED <<pc, job>>
               \/ \E w \in Workers : pc'[w] \notin {"receipt", "openReceipt", "fillReceipt",
                                                   "audit", "rbRow"}
  BY <1>10, <1>a DEF BookInv, BookedInOrder, Pkg, Url
<1> QED
  BY <1>0, <1>1, <1>2, <1>3, <1>4, <1>5, <1>6, <1>7, <1>8, <1>9, <1>10
  DEF Next, Request, StartCli, StartWeb, StartAuto, StartRollback, Begin, CodeStep,
      BrowserStep, Load, ForwardComplete, NotYetPublished, RefusePublishing, GateRefuses,
      GatesPass, Click, Confirm, TryAgain, GiveUp, Save, RollbackSave, Fail, Crash,
      Raise, Finish, Step, Goto, ControlOK, Operator, OperatorConfirmsLive, control, stores

\* The bookkeeping tail is ordered: with one run at a time, one browser attempt,
\* a state file and unshared URLs, a receipt is only there while its row says
\* published and an audit line only after the run record, wherever a run dies and
\* however often it is re-entered or rolled back.
THEOREM BookkeepingIsOrdered ==
  ASSUME Serial, Unshared PROVE Spec => []BookedInOrder
<1>1. Init => BookInv
  BY DEF Init, BookInv, BookedInOrder
<1>2. TypeOK /\ SerialInv /\ PromiseInv /\ BookInv /\ [Next]_vars => BookInv'
  <2>1. BookInv /\ UNCHANGED vars => BookInv'
    BY DEF BookInv, BookedInOrder, Pkg, Url, vars
  <2> QED
    BY <2>1, BookStep
<1>3. BookInv => BookedInOrder
  BY DEF BookInv
<1> QED
  BY <1>1, <1>2, <1>3, PromiseHolds, PTL DEF Spec
=============================================================================

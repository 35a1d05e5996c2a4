---------------------------- MODULE MCReviewGate ----------------------------
\* Small instances of ReviewGate for TLC: one worker that runs every handler,
\* or a request thread beside a job thread.
EXTENDS ReviewGate, TLC

CONSTANTS t1, t2, b1, b2, w1, w2

Page    == {"view", "edit", "generate"}
Backend == {"draft", "verify", "publish", "auto", "rollback"}

OneWorker  == w1 :> Kinds
PageAndJob == w1 :> Page @@ w2 :> Backend \cup {"view", "generate"}

\* Where the browser or the model fails, or a process ends between its two writes; a
\* search that fails is MissDraft.
SomeFaults == {"draftDrive", "pubClick", "genSave", "genCaption"}
Nowhere    == {}

BodySymmetry == Permutations({b1, b2})
=============================================================================

--------------------------- MODULE MCAutoPipeline ---------------------------
\* Small instances of AutoPipeline for TLC: two packages of one URL (a page without
\* a date, crawled on two days) and one of another, two texts, short batches.
EXTENDS AutoPipeline, TLC

CONSTANTS p1, p2, p3, u1, u2, a, b, j1

SharedUrl == [p \in Packages |-> IF p = p3 THEN u2 ELSE u1]
PipelineSymmetry == Permutations({p1, p2}) \cup Permutations({a, b})
=============================================================================

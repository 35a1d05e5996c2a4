--------------------------- MODULE PublishPromise ---------------------------
(* What publishing promises for one canonical URL: it is reserved before it  *)
(* is posted, posted at most once, recorded as published only once posted,   *)
(* and free for a new publication only after a release (a rollback, or the   *)
(* operator's decision that nothing was posted).                             *)
CONSTANT Urls
VARIABLE phase

Move(u, from, to) ==
  /\ phase[u] \in from
  /\ phase' = [phase EXCEPT ![u] = to]

Init == phase = [u \in Urls |-> "free"]

Reserve(u) == Move(u, {"free"}, "reserved")
Post(u)    == Move(u, {"reserved"}, "posted")
Record(u)  == Move(u, {"posted"}, "recorded")
Release(u) == Move(u, {"reserved", "posted", "recorded"}, "free")

Next == \E u \in Urls : Reserve(u) \/ Post(u) \/ Record(u) \/ Release(u)

Spec == Init /\ [][Next]_phase
=============================================================================

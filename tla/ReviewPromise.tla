---------------------------- MODULE ReviewPromise ----------------------------
(* What the review gate promises for one canonical URL.  A publication is     *)
(* granted for the content the reviewed marker names at that moment, and for  *)
(* no other; the grant becomes a licence for one click only while the gate is *)
(* open, which closes it; a click uses its licence up; and the gate opens     *)
(* again, with the posts counted anew, only by a release (a rollback), never  *)
(* under a licence.                                                           *)
EXTENDS Naturals

CONSTANTS Content, None

VARIABLES
  marker,   \* the content that was reviewed last, or None
  granted,  \* the content that a job may publish
  pending,  \* the content that a click is about to publish
  gate,     \* "open" or "closed"
  posts     \* posts since the last release

promiseVars == <<marker, granted, pending, gate, posts>>

Init ==
  /\ marker = None
  /\ granted = {} /\ pending = {}
  /\ gate = "open" /\ posts = 0

Review(c) ==
  /\ marker' = c
  /\ UNCHANGED <<granted, pending, gate, posts>>

Grant ==
  /\ marker # None
  /\ granted = {} /\ pending = {}
  /\ granted' = {marker}
  /\ UNCHANGED <<marker, pending, gate, posts>>

\* The auto pipeline reviews and is granted its content at once.
ReviewAndGrant(c) ==
  /\ granted = {} /\ pending = {}
  /\ marker' = c /\ granted' = {c}
  /\ UNCHANGED <<pending, gate, posts>>

Withdraw ==
  /\ granted # {}
  /\ granted' = {}
  /\ UNCHANGED <<marker, pending, gate, posts>>

License ==
  /\ granted # {} /\ pending = {} /\ gate = "open"
  /\ pending' = granted /\ granted' = {}
  /\ gate' = "closed"
  /\ UNCHANGED <<marker, posts>>

Post ==
  /\ pending # {}
  /\ pending' = {} /\ posts' = posts + 1
  /\ UNCHANGED <<marker, granted, gate>>

Lapse ==
  /\ pending # {}
  /\ pending' = {}
  /\ UNCHANGED <<marker, granted, gate, posts>>

Close ==
  /\ granted = {} /\ pending = {}
  /\ gate' = "closed"
  /\ UNCHANGED <<marker, granted, pending, posts>>

Release ==
  /\ granted = {} /\ pending = {}
  /\ gate' = "open" /\ posts' = 0
  /\ UNCHANGED <<marker, granted, pending>>

Next ==
  \/ \E c \in Content : Review(c) \/ ReviewAndGrant(c)
  \/ Grant \/ Withdraw \/ License \/ Post \/ Lapse \/ Close \/ Release

Spec == Init /\ [][Next]_promiseVars
=============================================================================

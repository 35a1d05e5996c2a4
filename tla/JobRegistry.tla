---------------------------- MODULE JobRegistry ----------------------------
(***************************************************************************)
(* The WebUI's in-memory job registry (cpost/core/jobs.py): submit adds a  *)
(* job and starts its thread, the thread reports that it runs and that it  *)
(* has ended, pages poll get.  Every one of these holds the lock, and all  *)
(* but the first of a thread's steps prune the registry: finished jobs     *)
(* older than a day go, and then, of the finished ones, the oldest, while  *)
(* there are more jobs than the limit.                                     *)
(***************************************************************************)
EXTENDS Naturals, FiniteSets

CONSTANTS
  Jobs,        \* job ids: uuid4, never used twice
  None,        \* Python's None for a finished_at
  MAX_JOBS,    \* 100
  JOB_TTL,     \* 24 hours
  MaxTime      \* bound: the clock

ASSUME RegistryAssumption ==
  /\ IsFiniteSet(Jobs)
  /\ None \notin Nat
  /\ MAX_JOBS \in Nat /\ JOB_TTL \in Nat /\ MaxTime \in Nat

VARIABLES
  registry,    \* the keys of _JOBS
  status,      \* of each job; "new" before it is submitted
  finished_at, \* of each job that ended, None of the others
  now          \* the clock

vars == <<registry, status, finished_at, now>>

Active   == {"pending", "running"}
Finished == {"done", "failed"}

\* The snapshot a page polls is consistent: a job that ended has its time.
TypeOK ==
  /\ registry \subseteq Jobs
  /\ status \in [Jobs -> {"new"} \cup Active \cup Finished]
  /\ finished_at \in [Jobs -> Nat \cup {None}]
  /\ \A j \in Jobs : status[j] \in Finished <=> finished_at[j] # None
  /\ now \in Nat

Init ==
  /\ registry = {}
  /\ status = [j \in Jobs |-> "new"]
  /\ finished_at = [j \in Jobs |-> None]
  /\ now = 0

-----------------------------------------------------------------------------
(* _prune_locked of the jobs R, whose finish times are at.                  *)

Done(R, at) == {j \in R : at[j] # None}

Expired(R, at) == {j \in Done(R, at) : now - at[j] > JOB_TTL}

\* Mutant of Overflow: finished or not, any job may go.
OverflowAny(R, at) ==
  {D \in SUBSET R : D = {} \/ Cardinality(R \ D) = MAX_JOBS}

\* The overflow is taken from the finished jobs, oldest first, as far as they go.
Overflow(R, at) ==
  {D \in SUBSET Done(R, at) :
     /\ \/ Cardinality(R) <= MAX_JOBS /\ D = {}
        \/ Cardinality(R \ D) = MAX_JOBS
        \/ Cardinality(R \ D) > MAX_JOBS /\ D = Done(R, at)
     /\ \A d \in D, k \in Done(R, at) \ D : at[d] <= at[k]}

\* Mutant of Prune: the limit is not applied.
PruneExpired(R, at) == {R \ Expired(R, at)}

Prune(R, at) ==
  LET Kept == R \ Expired(R, at)
  IN  {Kept \ D : D \in Overflow(Kept, at)}

-----------------------------------------------------------------------------

\* submit prunes first and then adds the job.
Submit(j) ==
  /\ status[j] = "new"
  /\ status' = [status EXCEPT ![j] = "pending"]
  /\ \E R \in Prune(registry, finished_at) : registry' = R \cup {j}
  /\ UNCHANGED <<finished_at, now>>

\* _runner.
Run(j) ==
  /\ status[j] = "pending"
  /\ status' = [status EXCEPT ![j] = "running"]
  /\ UNCHANGED <<registry, finished_at, now>>

End(j) ==
  /\ status[j] = "running"
  /\ \E s \in Finished : status' = [status EXCEPT ![j] = s]
  /\ finished_at' = [finished_at EXCEPT ![j] = now]
  /\ registry' \in Prune(registry, finished_at')
  /\ UNCHANGED now

\* A page polls some job; the poll prunes.
Get ==
  /\ registry' \in Prune(registry, finished_at)
  /\ UNCHANGED <<status, finished_at, now>>

Tick ==
  /\ now < MaxTime
  /\ now' = now + 1
  /\ UNCHANGED <<registry, status, finished_at>>

Next == (\E j \in Jobs : Submit(j) \/ Run(j) \/ End(j)) \/ Get \/ Tick

Spec == Init /\ [][Next]_vars

-----------------------------------------------------------------------------
(* Properties.                                                              *)

\* "Drop old finished jobs while preserving active ones" (jobs.py:53): a job that
\* was submitted and has not ended can be polled, however full the registry is.
ActiveIsKept == \A j \in Jobs : status[j] \in Active => j \in registry

\* The registry outgrows its limit by the job just added, or by jobs that run:
\* finished jobs never pile up (jobs.py:61-69).
Bounded == Cardinality(registry) > MAX_JOBS + 1 => Done(registry, finished_at) = {}

=============================================================================

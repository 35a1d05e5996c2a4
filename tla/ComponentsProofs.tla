-------------------------- MODULE ComponentsProofs --------------------------
(***************************************************************************)
(* What the WebUI keeps in memory and in its settings file: its jobs, the  *)
(* light that tells an expired login, and the settings, for any number of  *)
(* jobs, pages, requests and logins.  At the end the ten components side   *)
(* by side: what is proved of each holds of them together.                 *)
(***************************************************************************)
EXTENDS MCComponents, CrawlProofs, RosterProofs, LibraryProofs, FiniteSetTheorems,
        WellFoundedInduction, TLAPS

-----------------------------------------------------------------------------
(* The job registry: the jobs that have not ended are never dropped, and   *)
(* finished ones never pile up.                                            *)

\* Type correctness of the registry, with the invariant that a job has its finish
\* time exactly when it has ended (jobs.py:90-103).
THEOREM RegistryTyped == Spec => []TypeOK
<1>1. Init => TypeOK
  BY DEF Init, TypeOK, Active, Finished
<1>2. TypeOK /\ [Next]_vars => TypeOK'
  <2> SUFFICES ASSUME TypeOK, [Next]_vars PROVE TypeOK'
    OBVIOUS
  <2> USE RegistryAssumption DEF TypeOK
  <2>1. ASSUME NEW R \in SUBSET Jobs, NEW ends, NEW K \in Prune(R, ends) PROVE K \subseteq R
    BY <2>1 DEF Prune, Overflow
  <2>2. ASSUME NEW j \in Jobs, Submit(j) PROVE TypeOK'
    <3>1. PICK R \in Prune(registry, finished_at) : registry' = R \cup {j}
      BY <2>2 DEF Submit
    <3>2. R \subseteq registry
      BY <2>1
    <3> QED BY <2>2, <3>1, <3>2 DEF Submit, Active, Finished
  <2>3. ASSUME NEW j \in Jobs, Run(j) PROVE TypeOK'
    BY <2>3 DEF Run, Active, Finished
  <2>4. ASSUME NEW j \in Jobs, End(j) PROVE TypeOK'
    <3>1. registry' \subseteq registry
      BY <2>1, <2>4 DEF End
    <3> QED BY <2>4, <3>1 DEF End, Active, Finished
  <2>5. CASE Get
    <3>1. registry' \subseteq registry
      BY <2>1, <2>5 DEF Get
    <3> QED BY <2>5, <3>1 DEF Get
  <2>6. CASE Tick
    BY <2>6 DEF Tick
  <2>7. CASE UNCHANGED vars
    BY <2>7 DEF vars
  <2> QED BY <2>2, <2>3, <2>4, <2>5, <2>6, <2>7 DEF Next
<1> QED BY <1>1, <1>2, PTL DEF Spec

\* Pruning keeps every job without a finish time, whatever the limits are.
LEMMA PruneKeepsUnfinished ==
  ASSUME NEW R, NEW ends, NEW K \in Prune(R, ends), NEW j \in R, ends[j] = None
  PROVE  j \in K
BY DEF Prune, Overflow, Expired, Done

\* Pruning adds nothing.
LEMMA PruneShrinks ==
  ASSUME NEW R, NEW ends, NEW K \in Prune(R, ends)
  PROVE  K \subseteq R
BY DEF Prune, Overflow

\* After a prune the registry is within its limit, or holds no finished job.
LEMMA PruneBounds ==
  ASSUME NEW R, IsFiniteSet(R), NEW ends, NEW K \in Prune(R, ends)
  PROVE  /\ IsFiniteSet(K)
         /\ Cardinality(K) > MAX_JOBS => Done(K, ends) = {}
<1> DEFINE Young == R \ Expired(R, ends)
<1>1. PICK D \in Overflow(Young, ends) : K = Young \ D
  BY DEF Prune
<1>2. IsFiniteSet(K)
  BY <1>1, FS_Subset
<1>3. Cardinality(K) \in Nat
  BY <1>2, FS_CardinalityType
<1>4. CASE Cardinality(Young) <= MAX_JOBS /\ D = {}
  <2>1. K = Young
    BY <1>1, <1>4
  <2>2. Cardinality(K) <= MAX_JOBS
    BY <1>4, <2>1
  <2> QED BY <1>2, <1>3, <2>2, RegistryAssumption
<1>5. CASE Cardinality(Young \ D) = MAX_JOBS
  BY <1>1, <1>2, <1>5, RegistryAssumption
<1>6. CASE D = Done(Young, ends)
  <2>1. Done(K, ends) = {}
    BY <1>1, <1>6 DEF Done
  <2> QED BY <1>2, <2>1
<1> QED BY <1>1, <1>4, <1>5, <1>6 DEF Overflow

\* "preserving active ones" (jobs.py:53): for any set of jobs, limit and lifetime,
\* a job that was submitted and has not ended stays in the registry.
THEOREM ActiveJobsAreKept == Spec => []ActiveIsKept
<1>1. Init => ActiveIsKept
  BY DEF Init, ActiveIsKept, Active
<1>2. TypeOK /\ ActiveIsKept /\ [Next]_vars => ActiveIsKept'
  <2> SUFFICES ASSUME TypeOK, ActiveIsKept, [Next]_vars, NEW i \in Jobs, status'[i] \in Active
               PROVE  i \in registry'
    BY DEF ActiveIsKept
  <2> USE DEF Active, Finished
  <2>1. ASSUME NEW j \in Jobs, Submit(j) PROVE i \in registry'
    <3>1. PICK R \in Prune(registry, finished_at) : registry' = R \cup {j}
      BY <2>1 DEF Submit
    <3>2. CASE i = j
      BY <3>1, <3>2
    <3>3. CASE i # j
      <4>1. i \in registry /\ finished_at[i] = None
        BY <2>1, <3>3 DEF Submit, ActiveIsKept, TypeOK
      <4> QED BY <3>1, <4>1, PruneKeepsUnfinished
    <3> QED BY <3>2, <3>3
  <2>2. ASSUME NEW j \in Jobs, Run(j) PROVE i \in registry'
    BY <2>2 DEF Run, ActiveIsKept, TypeOK
  <2>3. ASSUME NEW j \in Jobs, End(j) PROVE i \in registry'
    <3>1. i # j
      BY <2>3 DEF End, TypeOK
    <3>2. i \in registry /\ finished_at'[i] = None
      BY <2>3, <3>1 DEF End, ActiveIsKept, TypeOK
    <3> QED BY <2>3, <3>2, PruneKeepsUnfinished DEF End
  <2>4. CASE Get
    <3>1. i \in registry /\ finished_at[i] = None
      BY <2>4 DEF Get, ActiveIsKept, TypeOK
    <3> QED BY <2>4, <3>1, PruneKeepsUnfinished DEF Get
  <2>5. CASE Tick
    BY <2>5 DEF Tick, ActiveIsKept
  <2>6. CASE UNCHANGED vars
    BY <2>6 DEF vars, ActiveIsKept
  <2> QED BY <2>1, <2>2, <2>3, <2>4, <2>5, <2>6 DEF Next
<1> QED BY <1>1, <1>2, RegistryTyped, PTL DEF Spec

\* Memory stays bounded (jobs.py:61-69): for any limit, once the registry exceeds
\* it by more than the job just added, every job in it is still active.
THEOREM RegistryIsBounded == Spec => []Bounded
<1>1. Init => Bounded
  BY FS_EmptySet, RegistryAssumption DEF Init, Bounded
<1>2. TypeOK /\ Bounded /\ [Next]_vars => Bounded'
  <2> SUFFICES ASSUME TypeOK, Bounded, [Next]_vars PROVE Bounded'
    OBVIOUS
  <2>1. IsFiniteSet(registry)
    BY RegistryAssumption, FS_Subset DEF TypeOK
  <2>2. ASSUME NEW ends, NEW K \in Prune(registry, ends), registry' = K, finished_at' = ends
        PROVE  Bounded'
    <3>1. IsFiniteSet(K) /\ (Cardinality(K) > MAX_JOBS => Done(K, ends) = {})
      BY <2>1, <2>2, PruneBounds
    <3>2. Cardinality(K) \in Nat
      BY <3>1, FS_CardinalityType
    <3> QED BY <2>2, <3>1, <3>2, RegistryAssumption DEF Bounded, Done
  <2>3. ASSUME NEW j \in Jobs, Submit(j) PROVE Bounded'
    <3>1. PICK R \in Prune(registry, finished_at) : registry' = R \cup {j}
      BY <2>3 DEF Submit
    <3>2. finished_at' = finished_at /\ finished_at[j] = None
      BY <2>3 DEF Submit, TypeOK, Finished
    <3>3. IsFiniteSet(R) /\ (Cardinality(R) > MAX_JOBS => Done(R, finished_at) = {})
      BY <2>1, PruneBounds
    <3>4. Cardinality(R) \in Nat
      BY <3>3, FS_CardinalityType
    <3>5. /\ Cardinality(registry') \in Nat
          /\ Cardinality(registry') <= Cardinality(R) + 1
      <4>1. Cardinality(R \cup {j}) = IF j \in R THEN Cardinality(R) ELSE Cardinality(R) + 1
        BY <3>3, FS_AddElement
      <4>2. CASE j \in R
        BY <3>1, <3>4, <4>1, <4>2
      <4>3. CASE j \notin R
        BY <3>1, <3>4, <4>1, <4>3
      <4> QED BY <4>2, <4>3
    <3>6. Done(registry', finished_at') = Done(R, finished_at)
      BY <3>1, <3>2 DEF Done
    <3> QED BY <3>3, <3>4, <3>5, <3>6, RegistryAssumption DEF Bounded, Done
  <2>4. ASSUME NEW j \in Jobs, Run(j) PROVE Bounded'
    BY <2>4 DEF Run, Bounded, Done
  <2>5. ASSUME NEW j \in Jobs, End(j) PROVE Bounded'
    BY <2>2, <2>5 DEF End
  <2>6. CASE Get
    BY <2>2, <2>6 DEF Get
  <2>7. CASE Tick
    BY <2>7 DEF Tick, Bounded, Done
  <2>8. CASE UNCHANGED vars
    BY <2>8 DEF vars, Bounded, Done
  <2> QED BY <2>3, <2>4, <2>5, <2>6, <2>7, <2>8 DEF Next
<1> QED BY <1>1, <1>2, RegistryTyped, PTL DEF Spec

-----------------------------------------------------------------------------
(* The login light.  Time stamps only grow, so that a note or a refusal is *)
(* never of a login to come; and as long as nothing is muddled the note is *)
(* the time stamp of the file exactly if that login was refused.           *)

LightInv ==
  /\ storage \in Nat
  /\ noted = NoNote \/ noted \in 0..storage
  /\ refused \subseteq 0..storage
  /\ muddled \in BOOLEAN
  /\ session \in [LoginJobs -> [pc : {"idle", "work", "note"}, login : 0..storage]]
  /\ light \in [LightPages -> [pc : {"idle", "compare"}, noted : {NoNote} \cup 0..storage]]
  /\ LightIsTruthful

LEMMA LightStarts == LightInit => LightInv
<1>1. LightInit => NoSession \in [pc : {"idle", "work", "note"}, login : 0..storage]
  BY DEF LightInit, NoSession
<1>2. LightInit => NoLight \in [pc : {"idle", "compare"}, noted : {NoNote} \cup 0..storage]
  BY DEF LightInit, NoLight
<1>3. LightInit => session \in [LoginJobs -> [pc : {"idle", "work", "note"}, login : 0..storage]]
  BY <1>1 DEF LightInit
<1>4. LightInit => light \in [LightPages -> [pc : {"idle", "compare"}, noted : {NoNote} \cup 0..storage]]
  BY <1>2 DEF LightInit
<1>5. LightInit => LightIsTruthful
  BY DEF LightInit, LightIsTruthful
<1>6. LightInit => storage \in Nat /\ noted = NoNote /\ refused \subseteq 0..storage
  BY SMT DEF LightInit
<1>7. LightInit => muddled \in BOOLEAN
  BY Zenon DEF LightInit
<1> QED BY <1>3, <1>4, <1>5, <1>6, <1>7 DEF LightInv

LEMMA LightStep == LightInv /\ [LightNext]_lightVars => LightInv'
<1> SUFFICES ASSUME LightInv, [LightNext]_lightVars PROVE LightInv'
  OBVIOUS
<1> USE LightAssumption DEF LightInv
<1> DEFINE Session(n) == [pc : {"idle", "work", "note"}, login : 0..n]
           Light(n)   == [pc : {"idle", "compare"}, noted : {NoNote} \cup 0..n]
<1>1. NoSession \in Session(storage) /\ NoLight \in Light(storage)
  BY DEF NoSession, NoLight
<1>2. CASE CaptureLogin
  <2>1. storage' = storage + 1 /\ UNCHANGED <<noted, session, light, refused, muddled>>
    BY <1>2 DEF CaptureLogin
  <2>2. 0..storage \subseteq 0..storage' /\ storage' \notin 0..storage
    BY <2>1
  <2>3. session \in [LoginJobs -> Session(storage')] /\ light \in [LightPages -> Light(storage')]
    BY <2>2
  <2>4. LightIsTruthful'
    BY <2>1, <2>2 DEF LightIsTruthful, Outdated
  <2> QED BY <2>1, <2>2, <2>3, <2>4
<1>3. CASE BackendForgets
  BY <1>3 DEF BackendForgets, LightIsTruthful, Outdated
<1>4. ASSUME NEW j \in LoginJobs, OpenSession(j) \/ CheckSession(j) PROVE LightInv'
  <2>1. UNCHANGED <<storage, noted, light, refused, muddled>>
    BY <1>4 DEF OpenSession, CheckSession
  <2> DEFINE busy  == [pc |-> "work", login |-> storage]
             noting == [session[j] EXCEPT !.pc = "note"]
  <2>2. busy \in Session(storage) /\ noting \in Session(storage)
    OBVIOUS
  <2>3. session' \in [LoginJobs -> Session(storage)]
    <3>1. \/ session' = [session EXCEPT ![j] = busy] \/ session' = [session EXCEPT ![j] = noting]
          \/ session' = [session EXCEPT ![j] = NoSession]
      BY <1>4 DEF OpenSession, CheckSession
    <3>2. session \in [LoginJobs -> Session(storage)]
      OBVIOUS
    <3> HIDE DEF busy, noting, Session
    <3> QED BY <1>1, <2>2, <3>1, <3>2
  <2> QED BY <2>1, <2>3 DEF LightIsTruthful, Outdated
<1>5. ASSUME NEW j \in LoginJobs, NoteSessionExpiry(j) PROVE LightInv'
  <2>1. /\ noted' = storage /\ refused' = refused \cup {session[j].login}
        /\ muddled' = (muddled \/ session[j].login # storage)
        /\ session' = [session EXCEPT ![j] = NoSession] /\ UNCHANGED <<storage, light>>
    BY <1>5 DEF NoteSessionExpiry
  <2>2. session[j].login \in 0..storage
    OBVIOUS
  <2>3. session' \in [LoginJobs -> Session(storage)]
    BY <1>1, <2>1
  <2>4. muddled' \in BOOLEAN /\ (~ muddled' => session[j].login = storage)
    BY <1>5 DEF NoteSessionExpiry
  <2>5. LightIsTruthful'
    <3>1. noted' = storage /\ storage' = storage /\ storage \in Nat
      BY <2>1
    <3>2. noted' # NoNote /\ storage' <= noted'
      BY <3>1
    <3>3. ~ muddled' => storage' \in refused'
      BY <2>1, <2>4, <3>1
    <3> QED BY <3>2, <3>3 DEF LightIsTruthful, Outdated
  <2>6. noted' \in 0..storage' /\ storage' \in Nat
    BY <2>1
  <2>7. refused' \subseteq 0..storage'
    BY <2>1, <2>2
  <2>8. light' \in [LightPages -> Light(storage')] /\ session' \in [LoginJobs -> Session(storage')]
    BY <2>1, <2>3
  <2> QED BY <2>4, <2>5, <2>6, <2>7, <2>8
<1>6. ASSUME NEW p \in LightPages, ReadNote(p) PROVE LightInv'
  <2>1. /\ light' = [light EXCEPT ![p] = [pc |-> "compare", noted |-> noted]]
        /\ UNCHANGED <<storage, noted, session, refused, muddled>>
    BY <1>6 DEF ReadNote
  <2>2. [pc |-> "compare", noted |-> noted] \in Light(storage)
    OBVIOUS
  <2>3. light' \in [LightPages -> Light(storage)]
    BY <2>1, <2>2
  <2> QED BY <2>1, <2>3 DEF LightIsTruthful, Outdated
<1>7. ASSUME NEW p \in LightPages, Compare(p) PROVE LightInv'
  <2>1. light' = [light EXCEPT ![p] = NoLight] /\ UNCHANGED <<storage, session, refused>>
    BY <1>7 DEF Compare
  <2>2. light' \in [LightPages -> Light(storage)]
    BY <1>1, <2>1
  <2>3. CASE Outdated(light[p].noted)
    BY <1>7, <2>1, <2>2, <2>3 DEF Compare, LightIsTruthful, Outdated
  <2>4. CASE ~ Outdated(light[p].noted)
    <3>1. noted' = NoNote /\ muddled' = (muddled \/ noted # light[p].noted)
      BY <1>7, <2>4 DEF Compare
    <3>2. LightIsTruthful'
      BY <2>1, <2>4, <3>1 DEF LightIsTruthful, Outdated
    <3> QED BY <2>1, <2>2, <3>1, <3>2
  <2> QED BY <2>3, <2>4
<1>8. CASE UNCHANGED lightVars
  BY <1>8 DEF lightVars, LightIsTruthful, Outdated
<1> QED BY <1>2, <1>3, <1>4, <1>5, <1>6, <1>7, <1>8 DEF LightNext

\* The WebUI takes the login for expired exactly if a job was refused with the login
\* that the file holds, after any number of logins, refusals and pages; unless a login
\* met a job under way, or a note a page between its two reads (_ctx.py).
THEOREM LightTellsTheTruth == LightSpec => []LightIsTruthful
<1>1. LightInv => LightIsTruthful
  BY DEF LightInv
<1> QED BY <1>1, LightStarts, LightStep, PTL DEF LightSpec

-----------------------------------------------------------------------------
(* The settings file.  Whatever a request holds when it comes to save is a *)
(* file with the path fields as they were written: both of its reads leave *)
(* them alone; and save refuses what is not valid.                         *)

AsWritten(f) == f = Config(f.form, f.sources)

SettingsInv ==
  /\ AsWritten(yaml)
  /\ SettingsStaySound
  /\ DOMAIN requests = Requests
  /\ \A r \in Requests :
        /\ DOMAIN requests[r] = DOMAIN NoRequest
        /\ requests[r].pc = "save" => AsWritten(requests[r].raw)

LEMMA BeginsKeeps ==
  ASSUME NEW r \in Requests, NEW req, SettingsInv, Begins(r, req), DOMAIN req = DOMAIN NoRequest,
         req.pc = "save" => AsWritten(req.raw)
  PROVE  SettingsInv'
BY DEF Begins, SettingsInv, SettingsStaySound, AsWritten, Valid, ValidSources

LEMMA SettingsStep == SettingsInv /\ [SettingsNext]_settingsVars => SettingsInv'
<1> SUFFICES ASSUME SettingsInv, [SettingsNext]_settingsVars PROVE SettingsInv'
  OBVIOUS
<1> DEFINE Panel(op, ids, updated) ==
             [NoRequest EXCEPT !.pc = "raw", !.op = op, !.ids = ids, !.next = updated]
<1>1. ASSUME NEW r \in Requests, SaveSettings(r) PROVE SettingsInv'
  <2>1. PICK f \in Forms \cup {BadForm} :
          Begins(r, [NoRequest EXCEPT !.pc = "save", !.op = "form", !.raw = FormOver(f)])
    BY <1>1 DEF SaveSettings
  <2>2. AsWritten(FormOver(f))
    BY DEF SettingsInv, AsWritten, FormOver, Config
  <2> QED BY <2>1, <2>2, BeginsKeeps DEF NoRequest
<1>2. ASSUME NEW r \in Requests, NEW op, NEW ids, NEW updated, SourceOp(r, op, ids, updated)
      PROVE  SettingsInv'
  <2>1. Begins(r, Panel(op, ids, updated))
    BY <1>2 DEF SourceOp
  <2>2. DOMAIN Panel(op, ids, updated) = DOMAIN NoRequest /\ Panel(op, ids, updated).pc = "raw"
    BY DEF NoRequest
  <2> QED BY <2>1, <2>2, BeginsKeeps
<1>3. ASSUME NEW r \in Requests, \/ SourcesAdd(r) \/ SourcesEdit(r) \/ SourcesDelete(r)
                                \/ SourcesToggle(r) \/ SourcesBatchAdd(r)
      PROVE  SettingsInv'
  <2>1. \E op, ids, updated : SourceOp(r, op, ids, updated)
    BY <1>3 DEF SourcesAdd, SourcesEdit, SourcesDelete, SourcesToggle, SourcesBatchAdd
  <2> QED BY <2>1, <1>2
<1>4. ASSUME NEW r \in Requests, LoadRaw(r) PROVE SettingsInv'
  <2>1. /\ requests' = [requests EXCEPT ![r].pc = "save",
                             ![r].raw = [yaml EXCEPT !.sources = requests[r].next]]
        /\ yaml' = yaml
    BY <1>4 DEF LoadRaw
  <2>2. AsWritten([yaml EXCEPT !.sources = requests[r].next])
    BY DEF SettingsInv, AsWritten, Config
  <2>3. DOMAIN requests[r] = DOMAIN NoRequest /\ "pc" \in DOMAIN NoRequest /\ "raw" \in DOMAIN NoRequest
    BY DEF SettingsInv, NoRequest
  <2>4. /\ DOMAIN requests'[r] = DOMAIN NoRequest
        /\ requests'[r].raw = [yaml EXCEPT !.sources = requests[r].next]
    BY <2>1, <2>3 DEF SettingsInv
  <2>5. \A q \in Requests \ {r} : requests'[q] = requests[q]
    BY <2>1 DEF SettingsInv
  <2>6. DOMAIN requests' = Requests
    BY <2>1 DEF SettingsInv
  <2>7. AsWritten(yaml)' /\ SettingsStaySound'
    BY <2>1 DEF SettingsInv, SettingsStaySound, AsWritten, Valid, ValidSources
  <2>8. AsWritten(requests'[r].raw)
    BY <2>2, <2>4
  <2> QED BY <2>4, <2>5, <2>6, <2>7, <2>8 DEF SettingsInv, AsWritten
<1>5. ASSUME NEW r \in Requests, Save(r) \/ RequestDies(r) PROVE SettingsInv'
  <2>1. requests' = [requests EXCEPT ![r] = NoRequest] /\ NoRequest.pc # "save"
    BY <1>5 DEF Save, RequestDies, NoRequest
  <2>2. \/ yaml' = yaml
        \/ /\ requests[r].pc = "save" /\ yaml' = requests[r].raw /\ Valid(requests[r].raw)
    BY <1>5 DEF Save, RequestDies
  <2>3. AsWritten(yaml)'
    BY <2>2 DEF SettingsInv, AsWritten
  <2>4. CASE yaml' = yaml
    <3>1. SettingsStaySound'
      BY <2>4 DEF SettingsInv, SettingsStaySound, Valid, ValidSources
    <3> QED BY <2>1, <2>3, <3>1 DEF SettingsInv, AsWritten
  <2>5. CASE /\ requests[r].pc = "save" /\ yaml' = requests[r].raw /\ Valid(requests[r].raw)
    <3>1. yaml'.paths = "relative"
      BY <2>3 DEF AsWritten, Config
    <3>2. Valid(yaml')
      BY <2>5
    <3>3. SettingsStaySound'
      BY <3>1, <3>2 DEF SettingsStaySound, Valid, ValidSources
    <3> QED BY <2>1, <2>3, <3>3 DEF SettingsInv, AsWritten
  <2> QED BY <2>2, <2>4, <2>5
<1>6. CASE HandEdit
  BY <1>6, HandAssumption DEF HandEdit, SettingsInv, SettingsStaySound, AsWritten
<1>7. CASE UNCHANGED settingsVars
  BY <1>7 DEF settingsVars, SettingsInv, SettingsStaySound, AsWritten, Valid, ValidSources
<1> QED BY <1>1, <1>3, <1>4, <1>5, <1>6, <1>7 DEF SettingsNext

\* The settings file is at any time what the operator wrote by hand or a valid file
\* with relative paths, for any number of requests that overlap (save_settings).
THEOREM SettingsAreKeptSound == SettingsSpec => []SettingsStaySound
<1>1. SettingsInit => SettingsInv
  BY HandAssumption DEF SettingsInit, SettingsInv, SettingsStaySound, AsWritten, NoRequest
<1>2. SettingsInv => SettingsStaySound
  BY DEF SettingsInv
<1> QED BY <1>1, <1>2, SettingsStep, PTL DEF SettingsSpec

-----------------------------------------------------------------------------
(* What is kept of a list of sources, by induction over its entries.       *)

\* The step of the fold WithoutIds, and the function that folds it over a list's places.
Grown(kept, e, ids) == IF IsOther(e, ids) THEN Append(kept, e) ELSE kept

IsFilter(it, s, ids, n) ==
  it = [p \in SUBSET (1..n) |-> IF p = {} THEN <<>> ELSE Grown(it[p \ {Max(p)}], s[Max(p)], ids)]

\* That function exists: CHOOSE of it is one (MapThenFoldSet).
LEMMA FilterExists ==
  ASSUME NEW s, NEW ids
  PROVE  \A n \in Nat : \E it : IsFilter(it, s, ids, n)
<1> DEFINE S == {n \in Nat : \E it : IsFilter(it, s, ids, n)}
           Up(kept, x) == Grown(kept, s[x], ids)
<1>1. 0 \in S
  <2> DEFINE it == [p \in SUBSET (1..0) |-> <<>>]
  <2>1. \A p \in SUBSET (1..0) : p = {}
    OBVIOUS
  <2>2. IsFilter(it, s, ids, 0)
    BY <2>1 DEF IsFilter
  <2> QED BY <2>2
<1>2. ASSUME NEW n \in Nat, n \in S PROVE n + 1 \in S
  <2>1. PICK it : IsFilter(it, s, ids, n)
    BY <1>2
  <2> DEFINE all == SUBSET (1..(n + 1))
             jt == [p \in all |-> IF n + 1 \in p THEN Up(it[p \ {n + 1}], n + 1) ELSE it[p]]
             Refold(p) == IF p = {} THEN <<>> ELSE Up(jt[p \ {Max(p)}], Max(p))
  <2>2. it = [q \in SUBSET (1..n) |-> IF q = {} THEN <<>> ELSE Up(it[q \ {Max(q)}], Max(q))]
    BY <2>1 DEF IsFilter
  <2> HIDE DEF Up
  <2>3. ASSUME NEW p \in all, n + 1 \in p PROVE jt[p] = Refold(p)
    <3>1. Max(p) = n + 1 /\ p # {} /\ p \ {n + 1} \in all /\ n + 1 \notin p \ {n + 1}
      BY <2>3, LastIsMax
    <3>2. jt[p \ {n + 1}] = it[p \ {n + 1}]
      BY <3>1
    <3> QED BY <2>3, <3>1, <3>2
  <2>4. ASSUME NEW p \in all, n + 1 \notin p PROVE jt[p] = Refold(p)
    <3>1. p \in SUBSET (1..n) /\ jt[p] = it[p]
      BY <2>4
    <3>2. p \ {Max(p)} \in all /\ n + 1 \notin p \ {Max(p)}
      BY <2>4
    <3>3. jt[p \ {Max(p)}] = it[p \ {Max(p)}]
      BY <3>2
    <3>4. it[p] = IF p = {} THEN <<>> ELSE Up(it[p \ {Max(p)}], Max(p))
      BY <2>2, <3>1
    <3> QED BY <3>1, <3>3, <3>4
  <2>5. jt = [p \in all |-> jt[p]]
    OBVIOUS
  <2>6. \A p \in all : jt[p] = Refold(p)
    BY <2>3, <2>4
  <2>7. jt = [p \in all |-> Refold(p)]
    <3> HIDE DEF jt, Refold
    <3> QED BY <2>5, <2>6
  <2>8. IsFilter(jt, s, ids, n + 1)
    <3> HIDE DEF jt
    <3> QED BY <2>7 DEF IsFilter, Up
  <2> QED BY <2>8
<1> HIDE DEF S
<1>3. \A n \in Nat : n \in S
  BY <1>1, <1>2, NatSets
<1> QED BY <1>3 DEF S

\* What is kept of the first n entries, for each n.
Unfolds(k, s, ids) ==
  /\ k[0] = <<>>
  /\ \A n \in Nat : n + 1 <= Len(s) => k[n + 1] = Grown(k[n], s[n + 1], ids)

\* What is kept of a list is found entry by entry.
LEMMA FilterUnfolds ==
  ASSUME NEW A, NEW s \in Seq(A), NEW ids
  PROVE  \E k : Unfolds(k, s, ids) /\ WithoutIds(s, ids) = k[Len(s)]
<1> DEFINE N == Len(s)
           it == CHOOSE f : IsFilter(f, s, ids, N)
           k == [n \in Nat |-> it[1..n]]
<1>1. N \in Nat /\ DOMAIN s = 1..N
  OBVIOUS
<1>2. WithoutIds(s, ids) = it[1..N]
  BY <1>1 DEF WithoutIds, FoldLeft, MapThenFoldSet, IsFilter, Grown
<1>3. IsFilter(it, s, ids, N)
  BY <1>1, FilterExists
<1> HIDE DEF it, N
<1>4. k[0] = <<>>
  <2>1. 1..0 = {} /\ {} \in SUBSET (1..N)
    OBVIOUS
  <2> QED BY <1>3, <2>1 DEF IsFilter
<1>5. ASSUME NEW n \in Nat, n + 1 <= N PROVE k[n + 1] = Grown(k[n], s[n + 1], ids)
  <2>1. /\ 1..(n + 1) \in SUBSET (1..N) /\ 1..(n + 1) # {} /\ (1..(n + 1)) \ {n + 1} = 1..n
    <3>1. n + 1 \in 1..N /\ n + 1 \in 1..(n + 1) /\ 1..(n + 1) \in SUBSET (1..N)
      BY <1>1, <1>5
    <3>2. (1..(n + 1)) \ {n + 1} = 1..n
      OBVIOUS
    <3> QED BY <3>1, <3>2
  <2>2. Max(1..(n + 1)) = n + 1
    BY <2>1, LastIsMax
  <2>3. k[n + 1] = it[1..(n + 1)] /\ k[n] = it[1..n]
    OBVIOUS
  <2> HIDE DEF k
  <2> QED BY <1>3, <2>1, <2>2, <2>3 DEF IsFilter
<1>6. Unfolds(k, s, ids)
  BY <1>4, <1>5 DEF Unfolds, N
<1>7. WithoutIds(s, ids) = k[Len(s)]
  BY <1>1, <1>2 DEF N
<1> HIDE DEF k
<1> QED BY <1>6, <1>7

\* An entry more at the end.
LEMMA FilterAppends ==
  ASSUME NEW A, NEW s \in Seq(A), NEW e \in A, NEW ids
  PROVE  WithoutIds(Append(s, e), ids) = Grown(WithoutIds(s, ids), e, ids)
<1> DEFINE u == Append(s, e)
<1>1. u \in Seq(A) /\ Len(s) \in Nat /\ Len(u) = Len(s) + 1 /\ u[Len(s) + 1] = e
      /\ \A n \in 1..Len(s) : u[n] = s[n]
  OBVIOUS
<1>2. PICK k : Unfolds(k, s, ids) /\ WithoutIds(s, ids) = k[Len(s)]
  BY FilterUnfolds
<1> HIDE DEF u
<1>3. PICK j : Unfolds(j, u, ids) /\ WithoutIds(u, ids) = j[Len(u)]
  BY <1>1, FilterUnfolds
<1> DEFINE S == {n \in Nat : n <= Len(s) => j[n] = k[n]}
<1>4. 0 \in S
  BY <1>2, <1>3 DEF Unfolds
<1>5. ASSUME NEW n \in Nat, n \in S PROVE n + 1 \in S
  <2> SUFFICES ASSUME n + 1 <= Len(s) PROVE j[n + 1] = k[n + 1]
    OBVIOUS
  <2>1. n + 1 \in 1..Len(s) /\ n + 1 <= Len(u) /\ j[n] = k[n]
    BY <1>1, <1>5
  <2> QED BY <1>1, <1>2, <1>3, <2>1 DEF Unfolds
<1> HIDE DEF S
<1>6. \A n \in Nat : n \in S
  BY <1>4, <1>5, NatSets
<1>7. j[Len(s)] = k[Len(s)]
  BY <1>1, <1>6 DEF S
<1>8. j[Len(s) + 1] = Grown(j[Len(s)], e, ids)
  BY <1>1, <1>3 DEF Unfolds
<1> QED BY <1>1, <1>2, <1>3, <1>7, <1>8 DEF u

\* The same list but for entries that are not kept in either.
LEMMA FilterAlike ==
  ASSUME NEW A, NEW s \in Seq(A), NEW u \in Seq(A), NEW ids, Len(u) = Len(s),
         \A n \in 1..Len(s) : u[n] = s[n] \/ (~ IsOther(u[n], ids) /\ ~ IsOther(s[n], ids))
  PROVE  WithoutIds(u, ids) = WithoutIds(s, ids)
<1>1. PICK k : Unfolds(k, s, ids) /\ WithoutIds(s, ids) = k[Len(s)]
  BY FilterUnfolds
<1>2. PICK j : Unfolds(j, u, ids) /\ WithoutIds(u, ids) = j[Len(u)]
  BY FilterUnfolds
<1> DEFINE S == {n \in Nat : n <= Len(s) => j[n] = k[n]}
<1>3. 0 \in S
  BY <1>1, <1>2 DEF Unfolds
<1>4. ASSUME NEW n \in Nat, n \in S PROVE n + 1 \in S
  <2> SUFFICES ASSUME n + 1 <= Len(s) PROVE j[n + 1] = k[n + 1]
    OBVIOUS
  <2>1. n + 1 \in 1..Len(s) /\ j[n] = k[n]
    BY <1>4
  <2> QED BY <1>1, <1>2, <2>1 DEF Unfolds, Grown
<1> HIDE DEF S
<1>5. \A n \in Nat : n \in S
  BY <1>3, <1>4, NatSets
<1> QED BY <1>1, <1>2, <1>5 DEF S

\* What a filter for few leaves of a list of A, and a filter for more ids of that.
Refilters(A, s, few, ids) ==
  /\ WithoutIds(s, few) \in Seq(A \ {Scalar})
  /\ WithoutIds(WithoutIds(s, few), ids) = WithoutIds(s, ids)

\* What is kept is of the list, and is no scalar; and filtering it for more ids is the same
\* as filtering the list for them.
LEMMA FilterTwice ==
  ASSUME NEW A, NEW s \in Seq(A), NEW few, NEW ids, few \subseteq ids
  PROVE  Refilters(A, s, few, ids)
<1>1. PICK k : Unfolds(k, s, few) /\ WithoutIds(s, few) = k[Len(s)]
  BY FilterUnfolds
<1>2. PICK j : Unfolds(j, s, ids) /\ WithoutIds(s, ids) = j[Len(s)]
  BY FilterUnfolds
<1> DEFINE B == A \ {Scalar}
           Fine(n) == k[n] \in Seq(B) /\ WithoutIds(k[n], ids) = j[n]
           S == {n \in Nat : n <= Len(s) => Fine(n)}
<1>3. 0 \in S
  <2>1. <<>> \in Seq(B)
    OBVIOUS
  <2>2. Len(<<>>) = 0
    OBVIOUS
  <2>3. \E i : Unfolds(i, <<>>, ids) /\ WithoutIds(<<>>, ids) = i[Len(<<>>)]
    BY <2>1, FilterUnfolds
  <2>4. WithoutIds(<<>>, ids) = <<>>
    BY <2>2, <2>3 DEF Unfolds
  <2> QED BY <1>1, <1>2, <2>1, <2>4 DEF Unfolds
<1>4. ASSUME NEW n \in Nat, n \in S PROVE n + 1 \in S
  <2> SUFFICES ASSUME n + 1 <= Len(s) PROVE Fine(n + 1)
    OBVIOUS
  <2> DEFINE e == s[n + 1]
  <2>1. e \in A /\ Fine(n)
    BY <1>4
  <2>2. k[n + 1] = Grown(k[n], e, few) /\ j[n + 1] = Grown(j[n], e, ids)
    BY <1>1, <1>2 DEF Unfolds
  <2> HIDE DEF e
  <2>3. CASE ~ IsOther(e, few)
    <3>1. ~ IsOther(e, ids)
      BY <2>3 DEF IsOther
    <3> QED BY <2>1, <2>2, <2>3, <3>1 DEF Grown
  <2>4. CASE IsOther(e, few)
    <3>1. e \in B /\ k[n + 1] = Append(k[n], e)
      BY <2>1, <2>2, <2>4 DEF IsOther, Grown
    <3>2. WithoutIds(k[n + 1], ids) = Grown(j[n], e, ids)
      BY <2>1, <3>1, FilterAppends
    <3>3. k[n + 1] \in Seq(B)
      BY <2>1, <3>1
    <3> QED BY <2>2, <3>2, <3>3
  <2> QED BY <2>3, <2>4
<1> HIDE DEF S
<1>5. \A n \in Nat : n \in S
  BY <1>3, <1>4, NatSets
<1>6. Len(s) \in Nat
  OBVIOUS
<1> QED BY <1>1, <1>2, <1>5, <1>6 DEF S, Refilters

\* The view keeps what a filter keeps.
LEMMA FilterView ==
  ASSUME NEW A, NEW s \in Seq(A), NEW ids
  PROVE  WithoutIds(WithoutIds(s, {}), ids) = WithoutIds(s, ids)
<1>1. Refilters(A, s, {}, ids)
  BY FilterTwice
<1> QED BY <1>1 DEF Refilters

-----------------------------------------------------------------------------
(* What a request is about to write, as long as nothing changed the file   *)
(* since it read it first.                                                 *)

Listed == Entries \cup {Scalar}

AreSources(sources) == sources = NotAList \/ sources \in Seq(Listed)

RequestKnows(m) ==
  /\ m.pc = "raw" => m.op # "form" /\ m.next \in Seq(Listed)
  /\ m.pc = "save" => /\ AreSources(m.raw.sources)
                      /\ m.op # "form" => m.raw.sources \in Seq(Listed)

KeepsOthers(next, sources, ids) == WithoutIds(next, ids) = WithoutIds(SourcesView(sources), ids)

ChangesItsOwn(m, file) ==
  /\ m.pc = "raw" => KeepsOthers(m.next, file.sources, m.ids)
  /\ m.pc = "save" => IF m.op = "form" THEN m.raw.sources = file.sources
                      ELSE /\ m.raw.form = file.form
                           /\ KeepsOthers(m.raw.sources, file.sources, m.ids)

OwnInv ==
  /\ AreSources(yaml.sources)
  /\ \A r \in Requests : /\ RequestKnows(requests[r])
                         /\ r \notin overtaken => ChangesItsOwn(requests[r], yaml)

\* The view of a list: a list of entries.
LEMMA ViewIsListed ==
  ASSUME NEW sources, AreSources(sources)
  PROVE  SourcesView(sources) \in Seq(Entries)
<1>1. <<>> \in Seq(Entries)
  OBVIOUS
<1>2. sources \in Seq(Listed) => WithoutIds(sources, {}) \in Seq(Listed \ {Scalar})
  <2> SUFFICES ASSUME sources \in Seq(Listed) PROVE WithoutIds(sources, {}) \in Seq(Listed \ {Scalar})
    OBVIOUS
  <2>1. Refilters(Listed, sources, {}, {})
    BY FilterTwice
  <2> QED BY <2>1 DEF Refilters
<1>3. \A x \in Seq(Listed \ {Scalar}) : x \in Seq(Entries)
  <2> SUFFICES ASSUME NEW x \in Seq(Listed \ {Scalar}) PROVE x \in Seq(Entries)
    OBVIOUS
  <2>1. x \in [1..Len(x) -> Entries] /\ Len(x) \in Nat
    BY DEF Listed
  <2> QED BY <2>1
<1> QED BY <1>1, <1>2, <1>3 DEF SourcesView, AreSources

\* The list a handler of the panel computes from its first read.
LEMMA PanelKeeps ==
  ASSUME SettingsInv, OwnInv, NEW r \in Requests,
         \/ SourcesAdd(r) \/ SourcesEdit(r) \/ SourcesDelete(r) \/ SourcesToggle(r) \/ SourcesBatchAdd(r)
  PROVE  \E op, ids, updated :
           /\ SourceOp(r, op, ids, updated) /\ op # "form"
           /\ updated \in Seq(Listed) /\ KeepsOthers(updated, yaml.sources, ids)
<1>1. View \in Seq(Entries) /\ View = SourcesView(yaml.sources)
  BY ViewIsListed DEF OwnInv, View
<1>2. /\ Len(View) \in Nat /\ DOMAIN View = 1..Len(View)
      /\ \A i \in 1..Len(View) : View[i] \in Entries
  BY <1>1
<1>3. \A x \in Seq(Entries) : x \in Seq(Listed)
  <2> SUFFICES ASSUME NEW x \in Seq(Entries) PROVE x \in Seq(Listed)
    OBVIOUS
  <2>1. x \in [1..Len(x) -> Listed] /\ Len(x) \in Nat
    BY DEF Listed
  <2> QED BY <2>1
<1>4. IdsOf(yaml.sources) \subseteq SourceIds
  BY <1>1, <1>2 DEF IdsOf, Entries
<1>5. ASSUME NEW e \in Entries, NEW ids, e.id \in ids, NEW s \in Seq(Entries)
      PROVE  Append(s, e) \in Seq(Entries) /\ WithoutIds(Append(s, e), ids) = WithoutIds(s, ids)
  BY <1>5, FilterAppends DEF Grown, IsOther
<1>6. \A id \in SourceIds, url \in StartUrlInputs, on \in BOOLEAN :
        Entry(id, url, on) \in Entries /\ Entry(id, url, on).id = id
  BY DEF Entry, Entries
<1>7. ASSUME NEW updated, NEW id,
             updated = [i \in 1..Len(View) |-> updated[i]],
             \A i \in 1..Len(View) :
                /\ updated[i] \in Entries
                /\ updated[i] = View[i] \/ (updated[i].id = id /\ View[i].id = id)
      PROVE  updated \in Seq(Listed) /\ KeepsOthers(updated, yaml.sources, {id})
  <2>1. updated \in Seq(Entries) /\ Len(updated) = Len(View)
    <3>1. updated \in [1..Len(View) -> Entries]
      BY <1>7
    <3> QED BY <1>2, <3>1
  <2>2. WithoutIds(updated, {id}) = WithoutIds(View, {id})
    BY <1>1, <1>7, <2>1, FilterAlike DEF IsOther
  <2> QED BY <1>1, <1>3, <2>1, <2>2 DEF KeepsOthers
<1>8. CASE SourcesAdd(r)
  <2>1. PICK id \in SourceIds, url \in StartUrlInputs, on \in BOOLEAN :
          SourceOp(r, "add", {id}, Append(View, Entry(id, url, on)))
    BY <1>8 DEF SourcesAdd
  <2>2. /\ Append(View, Entry(id, url, on)) \in Seq(Entries)
        /\ WithoutIds(Append(View, Entry(id, url, on)), {id}) = WithoutIds(View, {id})
    BY <1>1, <1>5, <1>6
  <2> QED BY <1>1, <1>3, <2>1, <2>2 DEF KeepsOthers
<1>9. CASE SourcesEdit(r)
  <2>1. PICK id \in IdsOf(yaml.sources), url \in StartUrlInputs, on \in BOOLEAN :
          SourceOp(r, "edit", {id},
                 [i \in 1..Len(View) |->
                    IF i \in Named(id)
                    THEN Entry(id, IF url = "" THEN View[i].url ELSE url, on) ELSE View[i]])
    BY <1>9 DEF SourcesEdit
  <2> DEFINE updated == [i \in 1..Len(View) |->
                    IF i \in Named(id)
                    THEN Entry(id, IF url = "" THEN View[i].url ELSE url, on) ELSE View[i]]
  <2>2. ASSUME NEW i \in 1..Len(View)
        PROVE  /\ updated[i] \in Entries
               /\ updated[i] = View[i] \/ (updated[i].id = id /\ View[i].id = id)
    <3>1. CASE i \in Named(id)
      <4>1. (IF url = "" THEN View[i].url ELSE url) \in StartUrlInputs
        BY <1>2 DEF Entries
      <4>2. View[i].id = id
        BY <3>1 DEF Named
      <4> QED BY <1>4, <1>6, <3>1, <4>1, <4>2
    <3>2. CASE i \notin Named(id)
      BY <1>2, <3>2
    <3> QED BY <3>1, <3>2
  <2>3. updated = [i \in 1..Len(View) |-> updated[i]]
    OBVIOUS
  <2>4. updated \in Seq(Listed) /\ KeepsOthers(updated, yaml.sources, {id})
    <3> HIDE DEF updated
    <3> QED BY <1>7, <2>2, <2>3
  <2> QED BY <2>1, <2>4
<1>10. CASE SourcesDelete(r)
  <2>1. PICK id \in IdsOf(yaml.sources) : SourceOp(r, "delete", {id}, WithoutIds(View, {id}))
    BY <1>10 DEF SourcesDelete
  <2>2. /\ WithoutIds(View, {id}) \in Seq(Listed \ {Scalar})
        /\ WithoutIds(WithoutIds(View, {id}), {id}) = WithoutIds(View, {id})
    <3>1. View \in Seq(Listed)
      BY <1>1, <1>3
    <3>2. Refilters(Listed, View, {id}, {id})
      BY <3>1, FilterTwice
    <3> QED BY <3>2 DEF Refilters
  <2>3. WithoutIds(View, {id}) \in Seq(Listed)
    BY <2>2
  <2> QED BY <1>1, <2>1, <2>2, <2>3 DEF KeepsOthers
<1>11. CASE SourcesToggle(r)
  <2>1. PICK id \in IdsOf(yaml.sources) :
          SourceOp(r, "toggle", {id},
                 [i \in 1..Len(View) |->
                    IF i \in Named(id) THEN [View[i] EXCEPT !.on = ~@] ELSE View[i]])
    BY <1>11 DEF SourcesToggle
  <2> DEFINE updated == [i \in 1..Len(View) |->
                    IF i \in Named(id) THEN [View[i] EXCEPT !.on = ~@] ELSE View[i]]
  <2>2. ASSUME NEW i \in 1..Len(View)
        PROVE  /\ updated[i] \in Entries
               /\ updated[i] = View[i] \/ (updated[i].id = id /\ View[i].id = id)
    <3>1. CASE i \in Named(id)
      <4>1. View[i] \in Entries /\ View[i].id = id /\ updated[i] = [View[i] EXCEPT !.on = ~View[i].on]
        BY <1>2, <3>1 DEF Named
      <4> HIDE DEF updated
      <4> QED BY <4>1 DEF Entries
    <3>2. CASE i \notin Named(id)
      BY <1>2, <3>2
    <3> QED BY <3>1, <3>2
  <2>3. updated = [i \in 1..Len(View) |-> updated[i]]
    OBVIOUS
  <2>4. updated \in Seq(Listed) /\ KeepsOthers(updated, yaml.sources, {id})
    <3> HIDE DEF updated
    <3> QED BY <1>7, <2>2, <2>3
  <2> QED BY <2>1, <2>4
<1>12. CASE SourcesBatchAdd(r)
  <2>1. PICK a \in SourceIds, b \in SourceIds :
          SourceOp(r, "batch", {a, b},
                 View \o (IF a = b THEN <<Entry(a, "u", TRUE)>>
                          ELSE <<Entry(a, "u", TRUE), Entry(b, "u", TRUE)>>))
    BY <1>12 DEF SourcesBatchAdd
  <2> DEFINE ea == Entry(a, "u", TRUE)
             eb == Entry(b, "u", TRUE)
             one == Append(View, ea)
             two == Append(one, eb)
  <2>2. ea \in Entries /\ ea.id = a /\ eb \in Entries /\ eb.id = b
    BY <1>6 DEF StartUrlInputs
  <2> HIDE DEF ea, eb
  <2>3. View \o <<ea>> = one /\ View \o <<ea, eb>> = two
    BY <1>1, <2>2
  <2>4. one \in Seq(Entries) /\ WithoutIds(one, {a, b}) = WithoutIds(View, {a, b})
    BY <1>1, <1>5, <2>2
  <2> HIDE DEF one
  <2>5. two \in Seq(Entries) /\ WithoutIds(two, {a, b}) = WithoutIds(one, {a, b})
    BY <1>5, <2>2, <2>4
  <2> HIDE DEF two
  <2>6. SourceOp(r, "batch", {a, b}, one) \/ SourceOp(r, "batch", {a, b}, two)
    BY <2>1, <2>3 DEF ea, eb
  <2> QED BY <1>1, <1>3, <2>4, <2>5, <2>6 DEF KeepsOthers
<1> QED BY <1>8, <1>9, <1>10, <1>11, <1>12

\* A step of one request that leaves the file alone.
LEMMA OneRequest ==
  ASSUME OwnInv, DOMAIN requests = Requests, NEW r \in Requests, NEW n,
         requests' = [requests EXCEPT ![r] = n], yaml' = yaml, overtaken \ {r} \subseteq overtaken',
         RequestKnows(n), r \notin overtaken' => ChangesItsOwn(n, yaml)
  PROVE  OwnInv'
<1>1. requests'[r] = n /\ \A q \in Requests \ {r} : requests'[q] = requests[q]
  OBVIOUS
<1>2. ASSUME NEW q \in Requests
      PROVE  /\ RequestKnows(requests'[q])
             /\ q \notin overtaken' => ChangesItsOwn(requests'[q], yaml)
  <2>1. CASE q = r
    BY <1>1, <2>1
  <2>2. CASE q # r
    BY <1>1, <2>2 DEF OwnInv
  <2> QED BY <2>1, <2>2
<1> QED BY <1>2 DEF OwnInv

\* A change of the file overtakes every request under way.
LEMMA FileChanges ==
  ASSUME OwnInv, AreSources(yaml'.sources), yaml' # yaml,
         \A q \in Requests : \/ requests'[q].pc = "idle"
                            \/ (requests'[q] = requests[q] /\ (requests[q].pc # "idle" => q \in overtaken'))
  PROVE  OwnInv'
<1>1. ASSUME NEW q \in Requests
      PROVE  /\ RequestKnows(requests'[q])
             /\ q \notin overtaken' => ChangesItsOwn(requests'[q], yaml')
  <2>1. CASE requests'[q].pc = "idle"
    BY <2>1 DEF RequestKnows, ChangesItsOwn
  <2>2. CASE requests'[q] = requests[q] /\ q \in overtaken'
    BY <2>2 DEF OwnInv
  <2> QED BY <2>1, <2>2
<1> QED BY <1>1 DEF OwnInv

\* Every step keeps what the requests know.
LEMMA OwnStep == SettingsInv /\ OwnInv /\ [SettingsNext]_settingsVars => OwnInv'
<1> SUFFICES ASSUME SettingsInv, OwnInv, [SettingsNext]_settingsVars PROVE OwnInv'
  OBVIOUS
<1>0. DOMAIN requests = Requests /\ \A r \in Requests : DOMAIN requests[r] = DOMAIN NoRequest
  BY DEF SettingsInv
<1>1. ASSUME NEW r \in Requests, SaveSettings(r) PROVE OwnInv'
  <2>1. PICK f \in Forms \cup {BadForm} :
          Begins(r, [NoRequest EXCEPT !.pc = "save", !.op = "form", !.raw = FormOver(f)])
    BY <1>1 DEF SaveSettings
  <2> DEFINE n == [NoRequest EXCEPT !.pc = "save", !.op = "form", !.raw = FormOver(f)]
  <2>2. n.pc = "save" /\ n.op = "form" /\ n.raw = FormOver(f)
    BY DEF NoRequest
  <2>3. FormOver(f).sources = yaml.sources
    BY DEF FormOver, SettingsInv, AsWritten, Config
  <2>4. requests' = [requests EXCEPT ![r] = n] /\ yaml' = yaml /\ overtaken' = overtaken
    BY <2>1 DEF Begins
  <2> HIDE DEF n
  <2>5. RequestKnows(n) /\ ChangesItsOwn(n, yaml)
    BY <2>2, <2>3 DEF RequestKnows, ChangesItsOwn, OwnInv
  <2> QED BY <1>0, <2>4, <2>5, OneRequest
<1>2. ASSUME NEW r \in Requests, \/ SourcesAdd(r) \/ SourcesEdit(r) \/ SourcesDelete(r)
                                \/ SourcesToggle(r) \/ SourcesBatchAdd(r)
      PROVE  OwnInv'
  <2>1. PICK op, ids, updated :
           /\ SourceOp(r, op, ids, updated) /\ op # "form"
           /\ updated \in Seq(Listed) /\ KeepsOthers(updated, yaml.sources, ids)
    BY <1>2, PanelKeeps
  <2> DEFINE n == [NoRequest EXCEPT !.pc = "raw", !.op = op, !.ids = ids, !.next = updated]
  <2>2. n.pc = "raw" /\ n.op = op /\ n.ids = ids /\ n.next = updated
    BY DEF NoRequest
  <2>3. requests' = [requests EXCEPT ![r] = n] /\ yaml' = yaml /\ overtaken' = overtaken
    BY <2>1 DEF SourceOp, Begins
  <2> HIDE DEF n
  <2>4. RequestKnows(n) /\ ChangesItsOwn(n, yaml)
    BY <2>1, <2>2 DEF RequestKnows, ChangesItsOwn
  <2> QED BY <1>0, <2>3, <2>4, OneRequest
<1>3. ASSUME NEW r \in Requests, LoadRaw(r) PROVE OwnInv'
  <2> DEFINE m == requests[r]
             raw == [yaml EXCEPT !.sources = m.next]
             n == [m EXCEPT !.pc = "save", !.raw = raw]
  <2>1. requests' = [requests EXCEPT ![r] = n] /\ yaml' = yaml /\ overtaken' = overtaken
    BY <1>0, <1>3 DEF LoadRaw
  <2>2. /\ n.pc = "save" /\ n.op = m.op /\ n.ids = m.ids /\ n.raw = raw
    BY <1>0 DEF NoRequest
  <2>3. raw.sources = m.next /\ raw.form = yaml.form
    BY DEF SettingsInv, AsWritten, Config
  <2>4. m.pc = "raw" /\ m.op # "form" /\ m.next \in Seq(Listed)
    BY <1>3 DEF LoadRaw, OwnInv, RequestKnows
  <2>5. r \notin overtaken => KeepsOthers(m.next, yaml.sources, m.ids)
    BY <2>4 DEF OwnInv, ChangesItsOwn
  <2> HIDE DEF n, m, raw
  <2>6. RequestKnows(n)
    BY <2>2, <2>3, <2>4 DEF RequestKnows, AreSources
  <2>7. r \notin overtaken => ChangesItsOwn(n, yaml)
    BY <2>2, <2>3, <2>4, <2>5 DEF ChangesItsOwn
  <2> QED BY <1>0, <2>1, <2>6, <2>7, OneRequest
<1>4. ASSUME NEW r \in Requests, Save(r) \/ RequestDies(r) PROVE OwnInv'
  <2>1. requests' = [requests EXCEPT ![r] = NoRequest] /\ NoRequest.pc = "idle"
    BY <1>4 DEF Save, RequestDies, NoRequest
  <2>2. RequestKnows(NoRequest) /\ ChangesItsOwn(NoRequest, yaml)
    BY DEF NoRequest, RequestKnows, ChangesItsOwn
  <2>3. CASE yaml' = yaml
    <3>1. overtaken \ {r} \subseteq overtaken'
      BY <1>4, <2>3 DEF Save, RequestDies, Overtakes
    <3> QED BY <1>0, <2>1, <2>2, <2>3, <3>1, OneRequest
  <2>4. CASE yaml' # yaml
    <3>1. Save(r) /\ requests[r].pc = "save" /\ yaml' = requests[r].raw
      BY <1>4, <2>4 DEF Save, RequestDies
    <3>2. AreSources(yaml'.sources)
      BY <3>1 DEF OwnInv, RequestKnows
    <3>3. overtaken' = (overtaken \cup {q \in Requests : requests[q].pc # "idle"}) \ {r}
      BY <2>4, <3>1 DEF Save, Overtakes
    <3>4. ASSUME NEW q \in Requests
          PROVE  \/ requests'[q].pc = "idle"
                 \/ (requests'[q] = requests[q] /\ (requests[q].pc # "idle" => q \in overtaken'))
      BY <1>0, <2>1, <3>3
    <3> QED BY <2>4, <3>2, <3>4, FileChanges
  <2> QED BY <2>3, <2>4
<1>5. CASE HandEdit
  <2>1. yaml' \in HandFiles /\ requests' = requests /\ overtaken' = Overtakes
    BY <1>5 DEF HandEdit
  <2>2. CASE yaml' = yaml
    BY <2>1, <2>2 DEF Overtakes, OwnInv
  <2>3. CASE yaml' # yaml
    <3>1. AreSources(yaml'.sources)
      BY <2>1, HandAssumption DEF AreSources, Listed
    <3>2. ASSUME NEW q \in Requests
          PROVE  \/ requests'[q].pc = "idle"
                 \/ (requests'[q] = requests[q] /\ (requests[q].pc # "idle" => q \in overtaken'))
      BY <2>1, <2>3 DEF Overtakes
    <3> QED BY <2>3, <3>1, <3>2, FileChanges
  <2> QED BY <2>2, <2>3
<1>6. CASE UNCHANGED settingsVars
  BY <1>6 DEF settingsVars, OwnInv
<1> QED BY <1>1, <1>2, <1>3, <1>4, <1>5, <1>6 DEF SettingsNext

\* A save of a request that nothing overtook.
LEMMA SavesItsOwn ==
  ASSUME SettingsInv, OwnInv, [SettingsNext]_settingsVars, NEW r \in Requests,
         requests[r].pc = "save", requests'[r].pc = "idle", r \notin overtaken
  PROVE  /\ requests[r].op = "form" => yaml'.sources = yaml.sources
         /\ requests[r].op # "form" =>
              /\ yaml'.form = yaml.form
              /\ OtherSources(yaml'.sources, requests[r].ids)
                      = OtherSources(yaml.sources, requests[r].ids)
<1> DEFINE m == requests[r]
<1>1. DOMAIN requests = Requests
  BY DEF SettingsInv
<1>2. yaml' = yaml \/ (yaml' = m.raw /\ Valid(m.raw))
  <2>1. ASSUME NEW q \in Requests, NEW n, requests' = [requests EXCEPT ![q] = n] PROVE q = r
    BY <1>1, <2>1
  <2>2. CASE UNCHANGED settingsVars \/ HandEdit
    BY <2>2 DEF settingsVars, HandEdit
  <2>3. ASSUME NEW q \in Requests, Save(q) \/ RequestDies(q)
        PROVE  yaml' = yaml \/ (yaml' = m.raw /\ Valid(m.raw))
    <3>1. q = r
      BY <2>1, <2>3 DEF Save, RequestDies
    <3> QED BY <2>3, <3>1 DEF Save, RequestDies
  <2>4. ASSUME NEW q \in Requests, LoadRaw(q) PROVE yaml' = yaml
    BY <2>4 DEF LoadRaw
  <2>5. ASSUME NEW q \in Requests, \/ SaveSettings(q) \/ SourcesAdd(q) \/ SourcesEdit(q)
                                  \/ SourcesDelete(q) \/ SourcesToggle(q) \/ SourcesBatchAdd(q)
        PROVE  yaml' = yaml
    BY <2>5 DEF SaveSettings, SourcesAdd, SourcesEdit, SourcesDelete, SourcesToggle, SourcesBatchAdd,
                SourceOp, Begins
  <2> QED BY <2>2, <2>3, <2>4, <2>5 DEF SettingsNext
<1>3. CASE yaml' = yaml
  BY <1>3
<1>4. CASE yaml' = m.raw /\ Valid(m.raw)
  <2>1. CASE m.op = "form"
    BY <1>4, <2>1 DEF OwnInv, ChangesItsOwn
  <2>2. CASE m.op # "form"
    <3>1. /\ m.raw.form = yaml.form /\ KeepsOthers(m.raw.sources, yaml.sources, m.ids)
          /\ m.raw.sources \in Seq(Listed)
      BY <2>2 DEF OwnInv, ChangesItsOwn, RequestKnows
    <3>2. m.raw.sources # NotAList
      BY <1>4 DEF Valid, ValidSources
    <3>3. OtherSources(m.raw.sources, m.ids) = WithoutIds(m.raw.sources, m.ids)
      BY <3>1, <3>2, FilterView DEF OtherSources, SourcesView
    <3> QED BY <1>4, <2>2, <3>1, <3>3 DEF KeepsOthers, OtherSources
  <2> QED BY <2>1, <2>2
<1> QED BY <1>2, <1>3, <1>4

\* A request that met no other change of the file since it first read it changes what it
\* was asked to and nothing else: no field of the form is lost to the sources panel, no
\* source to the form, and no entry of another id to either (settings_auth.py:99-230).
THEOREM RequestsChangeTheirOwn == SettingsSpec => OwnChangeOnly
<1>1. SettingsInit => SettingsInv
  BY HandAssumption DEF SettingsInit, SettingsInv, SettingsStaySound, AsWritten, NoRequest
<1>2. SettingsInit => OwnInv
  BY HandAssumption DEF SettingsInit, OwnInv, AreSources, Listed, NoRequest, RequestKnows, ChangesItsOwn
<1>3. SettingsInv /\ OwnInv /\ [SettingsNext]_settingsVars =>
        [\A r \in Requests :
            requests[r].pc = "save" /\ requests'[r].pc = "idle" /\ r \notin overtaken =>
                /\ requests[r].op = "form" => yaml'.sources = yaml.sources
                /\ requests[r].op # "form" =>
                    /\ yaml'.form = yaml.form
                    /\ OtherSources(yaml'.sources, requests[r].ids)
                            = OtherSources(yaml.sources, requests[r].ids)]_settingsVars
  BY SavesItsOwn
<1> QED BY <1>1, <1>2, <1>3, SettingsStep, OwnStep, PTL DEF SettingsSpec, OwnChangeOnly

-----------------------------------------------------------------------------
(* The ten components side by side (MCComponents).                         *)

(* A behaviour of the components side by side is one of each of them: the  *)
(* steps of the others leave a component as it is.                         *)
LEMMA PartsStep ==
  ASSUME [PartsNext]_allVars
  PROVE  /\ [Next]_vars /\ [BatchNext]_batchAllVars /\ [RosterNext]_rosterVars
         /\ [LibraryNext]_libraryVars /\ [ClusterNext]_clusterVars /\ [ScoreNext]_scoreVars
         /\ [StoreNext]_storeVars /\ [SchemaNext]_schemaVars /\ [SettingsNext]_settingsVars
         /\ [LightNext]_lightVars
BY DEF PartsNext, OfCrawl, allVars

\* Each component of the composition behaves as its own specification says, so
\* that every theorem about it holds beside the other nine.
THEOREM PartsAreComponents ==
  PartsSpec => /\ Spec /\ BatchSpec /\ RosterSpec /\ LibrarySpec /\ ClusterSpec /\ ScoreSpec
               /\ StoreSpec /\ SchemaSpec /\ SettingsSpec /\ LightSpec
<1>1. PartsInit => /\ Init /\ BatchInit /\ RosterInit /\ LibraryInit /\ ClusterInit /\ ScoreInit
                   /\ StoreInit /\ SchemaInit /\ SettingsInit /\ LightInit
  BY DEF PartsInit
<1> QED BY <1>1, PartsStep, PTL DEF PartsSpec, Spec, BatchSpec, RosterSpec, LibrarySpec, ClusterSpec,
     ScoreSpec, StoreSpec, SchemaSpec, SettingsSpec, LightSpec

\* For a site of finitely many pages, every component's state stays well formed
\* whatever the others do (see the theorems of each part).
THEOREM PartsStayWellFormed ==
  ASSUME IsFiniteSet(Pages) PROVE PartsSpec => []WellFormed
<1>1. BatchSpec => []CrawlTypeOK
  BY BatchTyped
<1> QED BY <1>1, PartsAreComponents, RegistryTyped, RosterTyped, ForestHolds, ScoresStayInRange,
     SettingsAreKeptSound, PTL DEF WellFormed
=============================================================================

----------------------------- MODULE LoginLight -----------------------------
(***************************************************************************)
(* The login light of the WebUI (webui/routers/_ctx.py) against auth-login *)
(* and the backend jobs.  A job that is sent to the login page notes the   *)
(* time stamp of the storage state; a page compares the note with the time *)
(* stamp it finds, and forgets the note when the file is newer.  Logins,   *)
(* jobs and pages are threads or processes of their own.                   *)
(***************************************************************************)
EXTENDS Naturals

CONSTANTS
    LoginJobs,   \* draft, verify and publish jobs
    LightPages,  \* pages that show the light
    MaxLogins,   \* (bound) logins
    NoNote       \* None

ASSUME LightAssumption == MaxLogins \in Nat /\ NoNote \notin Nat

VARIABLES
    storage,   \* time stamp of the storage state: the nth login; 0 for none
    accepted,  \* does the backend still accept that login?
    noted,     \* app.state.session_expired_mtime
    session,   \* memory of each job
    light,     \* memory of each page
    refused,   \* (history) the logins a job was refused with and noted
    muddled    \* (history) a login met a job, or a note met a page

lightVars == <<storage, accepted, noted, session, light, refused, muddled>>

NoSession == [pc |-> "idle", login |-> 0]
NoLight   == [pc |-> "idle", noted |-> NoNote]

LightInit ==
    /\ storage = 0 /\ accepted = FALSE
    /\ noted = NoNote
    /\ session = [j \in LoginJobs |-> NoSession]
    /\ light = [p \in LightPages |-> NoLight]
    /\ refused = {} /\ muddled = FALSE

(* capture_login: the file is replaced as a whole; a login that is not     *)
(* detected, or fails on the way, leaves it as it was.                     *)
CaptureLogin ==
    /\ storage < MaxLogins
    /\ storage' = storage + 1
    /\ accepted' = TRUE
    /\ UNCHANGED <<noted, session, light, refused, muddled>>

(* The backend ends the session.                                           *)
BackendForgets ==
    /\ accepted
    /\ accepted' = FALSE
    /\ UNCHANGED <<storage, noted, session, light, refused, muddled>>

(* session: the browser starts with the storage state as it is now.        *)
OpenSession(j) ==
    /\ session[j].pc = "idle"
    /\ session' = [session EXCEPT ![j] = [pc |-> "work", login |-> storage]]
    /\ UNCHANGED <<storage, accepted, noted, light, refused, muddled>>

(* _check_session: sent to the login page, or not, or something else fails.*)
CheckSession(j) ==
    /\ session[j].pc = "work"
    /\ \/ /\ session[j].login # storage \/ ~accepted
          /\ session' = [session EXCEPT ![j].pc = "note"]
       \/ session' = [session EXCEPT ![j] = NoSession]
    /\ UNCHANGED <<storage, accepted, noted, light, refused, muddled>>

(* note_session_expiry: the time stamp of the file as it is now.           *)
NoteSessionExpiry(j) ==
    /\ session[j].pc = "note"
    /\ noted' = storage
    /\ refused' = refused \cup {session[j].login}
    /\ muddled' = (muddled \/ session[j].login # storage)
    /\ session' = [session EXCEPT ![j] = NoSession]
    /\ UNCHANGED <<storage, accepted, light>>

(* Mutant of Outdated: a file as old as the note counts as newer.          *)
OutdatedBefore(note) == note # NoNote /\ storage < note

Outdated(note) == note # NoNote /\ storage <= note

(* auth_light reads the note first,                                        *)
ReadNote(p) ==
    /\ light[p].pc = "idle" /\ storage # 0
    /\ light' = [light EXCEPT ![p] = [pc |-> "compare", noted |-> noted]]
    /\ UNCHANGED <<storage, accepted, noted, session, refused, muddled>>

(* and forgets whatever is noted by then if the file is newer.             *)
Compare(p) ==
    /\ light[p].pc = "compare"
    /\ IF Outdated(light[p].noted) THEN UNCHANGED <<noted, muddled>>
       ELSE /\ noted' = NoNote
            /\ muddled' = (muddled \/ noted # light[p].noted)
    /\ light' = [light EXCEPT ![p] = NoLight]
    /\ UNCHANGED <<storage, accepted, session, refused>>

LightNext ==
    \/ CaptureLogin \/ BackendForgets
    \/ \E j \in LoginJobs : OpenSession(j) \/ CheckSession(j) \/ NoteSessionExpiry(j)
    \/ \E p \in LightPages : ReadNote(p) \/ Compare(p)

LightSpec == LightInit /\ [][LightNext]_lightVars

-----------------------------------------------------------------------------
(* The note says the login of the file is expired exactly when a job was   *)
(* refused with that login, however often pages looked and logins were     *)
(* renewed since; unless a login was renewed under a job, or a job's note  *)
(* came between the two reads of a page.                                   *)
LightIsTruthful == ~muddled /\ storage # 0 => (Outdated(noted) <=> storage \in refused)
=============================================================================

---------------------------- MODULE SettingsFile ----------------------------
(***************************************************************************)
(* The settings file configs/webui.yaml (core/webui_config.py) and the     *)
(* handlers of the settings page (webui/routers/settings_auth.py), each in *)
(* a thread of its own and without a lock.  A handler of the sources panel *)
(* reads the file, computes the whole new list, reads the file once more   *)
(* for the other fields and replaces it; the settings form reads it once.  *)
(* The operator may edit the file by hand at any time.                     *)
(***************************************************************************)
EXTENDS Naturals, Sequences, FiniteSets, SequencesExt

CONSTANTS
    SourceIds,   \* source_id values
    HandFiles,   \* what the operator may write by hand
    Forms,       \* what the form's fields may hold
    BadForm,     \* fields that are refused
    Requests,    \* request threads
    MaxEdits,    \* (bound) requests and edits by hand
    Scalar,      \* an entry of sources that is no mapping
    NotAList,    \* a sources value that is no list
    Unread       \* a request that has not read the file

(* A start_url is valid, another valid one, or none.                       *)
StartUrlInputs == {"u", "v", "bad", ""}

Entry(id, url, on) == [id |-> id, url |-> url, on |-> on]

(* The path fields of the file are relative to it; load() makes them       *)
(* absolute, load_raw() does not.                                          *)
Config(form, sources) == [form |-> form, paths |-> "relative", sources |-> sources]

(* An entry of sources that is a mapping.                                  *)
Entries == [id : SourceIds, url : StartUrlInputs, on : BOOLEAN]

ASSUME HandAssumption ==
    \A f \in HandFiles :
        /\ f = Config(f.form, f.sources)
        /\ f.sources = NotAList \/ f.sources \in Seq(Entries \cup {Scalar})

VARIABLES
    yaml,      \* the file
    requests,  \* memory of each request
    overtaken, \* (history) requests that met another change of the file
    edits      \* (bound) requests and edits so far

settingsVars == <<yaml, requests, overtaken, edits>>

NoRequest == [pc |-> "idle", op |-> "none", ids |-> {}, next |-> <<>>, raw |-> Unread]

SettingsInit ==
    /\ yaml \in HandFiles
    /\ requests = [r \in Requests |-> NoRequest]
    /\ overtaken = {} /\ edits = 0

(* A mapping, of none of these ids.                                        *)
IsOther(e, ids) == e # Scalar /\ e.id \notin ids

(* The entries that are mappings, of another id than these.                *)
WithoutIds(sources, ids) ==
    FoldLeft(LAMBDA kept, e : IF IsOther(e, ids) THEN Append(kept, e) ELSE kept, <<>>, sources)

(* _sources_view: the entries that are mappings.                           *)
SourcesView(sources) == IF sources = NotAList THEN <<>> ELSE WithoutIds(sources, {})

IdsOf(sources) == {SourcesView(sources)[i].id : i \in 1..Len(SourcesView(sources))}

(* _validate_sources                                                       *)
ValidSources(sources) ==
    /\ sources # NotAList
    /\ \A i \in 1..Len(sources) :
        /\ sources[i] # Scalar
        /\ sources[i].url \in {"u", "v"}
        /\ \A k \in 1..(i - 1) : sources[k].id # sources[i].id

(* save validates the whole merged file.                                   *)
Valid(cfg) == cfg.form # BadForm /\ ValidSources(cfg.sources)

Begins(r, req) ==
    /\ requests[r].pc = "idle" /\ edits < MaxEdits
    /\ edits' = edits + 1
    /\ requests' = [requests EXCEPT ![r] = req]
    /\ UNCHANGED <<yaml, overtaken>>

(* Mutant of FormOver: the form is merged over the defaults.               *)
FormOverDefaults(f) == [yaml EXCEPT !.form = f, !.sources = <<>>]

(* load_raw(path) with the fields of the form over it.                     *)
FormOver(f) == [yaml EXCEPT !.form = f]

SaveSettings(r) ==
    \E f \in Forms \cup {BadForm} :
        Begins(r, [NoRequest EXCEPT !.pc = "save", !.op = "form", !.raw = FormOver(f)])

(* A handler of the sources panel computes the list from its first read.   *)
SourceOp(r, op, ids, updated) ==
    Begins(r, [NoRequest EXCEPT !.pc = "raw", !.op = op, !.ids = ids,
                                !.next = updated])

View == SourcesView(yaml.sources)

SourcesAdd(r) ==
    \E id \in SourceIds, url \in StartUrlInputs, on \in BOOLEAN :
        SourceOp(r, "add", {id}, Append(View, Entry(id, url, on)))

(* The entries of that id, all of them; none found ends the request.       *)
Named(id) == {i \in 1..Len(View) : View[i].id = id}

SourcesEdit(r) ==
    \E id \in IdsOf(yaml.sources), url \in StartUrlInputs, on \in BOOLEAN :
        SourceOp(r, "edit", {id},
                 [i \in 1..Len(View) |->
                    IF i \in Named(id)
                    THEN Entry(id, IF url = "" THEN View[i].url ELSE url, on) ELSE View[i]])

SourcesDelete(r) ==
    \E id \in IdsOf(yaml.sources) :
        SourceOp(r, "delete", {id}, WithoutIds(View, {id}))

SourcesToggle(r) ==
    \E id \in IdsOf(yaml.sources) :
        SourceOp(r, "toggle", {id},
                 [i \in 1..Len(View) |->
                    IF i \in Named(id) THEN [View[i] EXCEPT !.on = ~@] ELSE View[i]])

(* sources_batch_add: the pasted hosts that make an id that is new; one or *)
(* two of them here.                                                       *)
SourcesBatchAdd(r) ==
    \E a, b \in SourceIds \ IdsOf(yaml.sources) :
        SourceOp(r, "batch", {a, b},
                 View \o (IF a = b THEN <<Entry(a, "u", TRUE)>>
                          ELSE <<Entry(a, "u", TRUE), Entry(b, "u", TRUE)>>))

(* Mutant of LoadRaw: the file is loaded with its paths resolved.          *)
LoadRawResolved(r) ==
    /\ requests[r].pc = "raw"
    /\ requests' = [requests EXCEPT ![r].pc = "save",
            ![r].raw = [yaml EXCEPT !.sources = requests[r].next, !.paths = "absolute"]]
    /\ UNCHANGED <<yaml, overtaken, edits>>

(* _save_sources: the second read.                                         *)
LoadRaw(r) ==
    /\ requests[r].pc = "raw"
    /\ requests' = [requests EXCEPT ![r].pc = "save",
            ![r].raw = [yaml EXCEPT !.sources = requests[r].next]]
    /\ UNCHANGED <<yaml, overtaken, edits>>

(* The requests under way that a change of the file overtakes.             *)
Overtakes ==
    IF yaml' = yaml THEN overtaken ELSE overtaken \cup {q \in Requests : requests[q].pc # "idle"}

(* save: validate, then replace the file; a refused one leaves it.         *)
Save(r) ==
    /\ requests[r].pc = "save"
    /\ yaml' = IF Valid(requests[r].raw) THEN requests[r].raw ELSE yaml
    /\ requests' = [requests EXCEPT ![r] = NoRequest]
    /\ overtaken' = Overtakes \ {r}
    /\ UNCHANGED edits

(* The write fails or the server stops.                                    *)
RequestDies(r) ==
    /\ requests[r].pc # "idle"
    /\ requests' = [requests EXCEPT ![r] = NoRequest]
    /\ overtaken' = overtaken \ {r}
    /\ UNCHANGED <<yaml, edits>>

HandEdit ==
    /\ edits < MaxEdits
    /\ edits' = edits + 1
    /\ yaml' \in HandFiles
    /\ overtaken' = Overtakes
    /\ UNCHANGED requests

SettingsNext ==
    \/ \E r \in Requests :
        \/ SaveSettings(r) \/ SourcesAdd(r) \/ SourcesEdit(r) \/ SourcesDelete(r)
        \/ SourcesToggle(r) \/ SourcesBatchAdd(r) \/ LoadRaw(r) \/ Save(r) \/ RequestDies(r)
    \/ HandEdit

SettingsSpec == SettingsInit /\ [][SettingsNext]_settingsVars

-----------------------------------------------------------------------------
(* Whatever requests overlap, the file is what the operator wrote or a     *)
(* valid one: no id twice, nothing but mappings, and its paths relative as *)
(* they were written (_validate_sources: duplicates "would silently        *)
(* overwrite each other"; save_settings: never rewritten to                *)
(* "machine-absolute paths").                                              *)
SettingsStaySound == yaml \in HandFiles \/ (Valid(yaml) /\ yaml.paths = "relative")

OtherSources(sources, ids) == WithoutIds(SourcesView(sources), ids)

(* A request that met no other change since it first read the file changes *)
(* what it was asked to and nothing else: the form leaves the sources, the *)
(* panel the form's fields and every entry of another id, in its order.    *)
(* (Two that overlap lose one of the two changes.)                         *)
OwnChangeOnly ==
    [][\A r \in Requests :
        requests[r].pc = "save" /\ requests'[r].pc = "idle" /\ r \notin overtaken =>
            /\ requests[r].op = "form" => yaml'.sources = yaml.sources
            /\ requests[r].op # "form" =>
                /\ yaml'.form = yaml.form
                /\ OtherSources(yaml'.sources, requests[r].ids)
                        = OtherSources(yaml.sources, requests[r].ids)]_settingsVars
=============================================================================

----------------------------- MODULE PackageStore -----------------------------
(***************************************************************************)
(* The directory of a package and its way to the trash and back            *)
(* (webui/_helpers.py, webui/routers/trash.py, the two delete handlers),   *)
(* against builds and jobs that hold its path.  No handler locks a package;*)
(* every write makes the directory anew when it is not there, and a move   *)
(* into a directory that exists moves inside of it.                        *)
(***************************************************************************)
EXTENDS FiniteSets

CONSTANTS
    Posts,     \* post_ids
    Bodies,    \* what a page may say
    Hands,     \* request and job threads
    Tolerated, \* (bound) mishaps after which threads still take on something
    Gone       \* no such file or directory

Manifest == [status : {"package_built", "drafted"}, body : Bodies]
Dir == [manifest : Manifest \cup {Gone}, caption : Bodies \cup {Gone}, temps : SUBSET Hands,
        inner : BOOLEAN]

ASSUME StoreAssumption == Gone \notin Bodies /\ Gone \notin Manifest /\ Gone \notin Dir

VARIABLES
    store,     \* out_dir/<post_id>
    trash,     \* out_dir/.trash/<post_id>
    hands,     \* what each thread is at
    mishaps    \* (history) a build that stopped halfway, an overlap that does harm

storeVars == <<store, trash, hands, mishaps>>

NewDir == [manifest |-> Gone, caption |-> Gone, temps |-> {}, inner |-> FALSE]
Idle  == [pc |-> "idle", post |-> Gone, body |-> Gone]

StoreInit ==
    /\ store = [p \in Posts |-> Gone] /\ trash = [p \in Posts |-> Gone]
    /\ hands = [h \in Hands |-> Idle]
    /\ mishaps = {}

EnsureDir(p) == IF store[p] = Gone THEN NewDir ELSE store[p]

At(h, p, pcs) == hands[h].post = p /\ hands[h].pc \in pcs
Others(h, p, pcs) == \E g \in Hands \ {h} : At(g, p, pcs)

Building == {"guard", "caption", "manifest"}
Staging  == {"work", "replace"}
Deleting == {"room", "move"}

(* A thread takes on something that another one is in the way of.          *)
Meets(h, p, pcs, what) == mishaps' = IF Others(h, p, pcs) THEN mishaps \cup {what} ELSE mishaps

Rests(h) == hands' = [hands EXCEPT ![h] = Idle]
Goes(h, pc) == hands' = [hands EXCEPT ![h].pc = pc]
Takes(h, p, pc, b) ==
    /\ hands[h].pc = "idle" /\ mishaps \in Tolerated
    /\ hands' = [hands EXCEPT ![h] = [pc |-> pc, post |-> p, body |-> b]]

(* ------------------------------- a build ------------------------------- *)

StartBuild(h, p) ==
    /\ \E b \in Bodies : Takes(h, p, "guard", b)
    /\ store' = [store EXCEPT ![p] = EnsureDir(p)]
    /\ Meets(h, p, Building \cup Deleting \cup {"restore"}, "raced")
    /\ UNCHANGED trash

(* _guard_no_silent_overwrite, when there is a manifest.                   *)
GuardBuild(h, p) ==
    /\ At(h, p, {"guard"})
    /\ IF EnsureDir(p).manifest # Gone /\ EnsureDir(p).manifest.body # hands[h].body
       THEN Rests(h) ELSE Goes(h, "caption")
    /\ UNCHANGED <<store, trash, mishaps>>

(* write_text_no_overwrite, twice.                                         *)
BuildCaption(h, p) ==
    /\ At(h, p, {"caption"})
    /\ store' = [store EXCEPT ![p] =
                    [EnsureDir(p) EXCEPT !.caption = IF @ = Gone THEN hands[h].body ELSE @]]
    /\ Goes(h, "manifest")
    /\ UNCHANGED <<trash, mishaps>>

BuildManifest(h, p) ==
    /\ At(h, p, {"manifest"})
    /\ store' = [store EXCEPT ![p] =
                    [EnsureDir(p) EXCEPT !.manifest =
                        IF @ = Gone THEN [status |-> "package_built", body |-> hands[h].body]
                        ELSE @]]
    /\ Rests(h)
    /\ UNCHANGED <<trash, mishaps>>

BuildStops(h) ==
    /\ hands[h].pc \in Building
    /\ Rests(h)
    /\ mishaps' = mishaps \cup {"stopped"}
    /\ UNCHANGED <<store, trash>>

(* ----------------------------- a stage job ----------------------------- *)

StartStage(h, p) ==
    /\ store[p] # Gone /\ store[p].manifest # Gone
    /\ Takes(h, p, "work", store[p].manifest.body)
    /\ Meets(h, p, Deleting, "raced")
    /\ UNCHANGED <<store, trash>>

(* atomic_write_text: a temporary file in the directory, then a replace;   *)
(* when the directory was moved in between there is nothing to replace.    *)
OpenTemp(h, p) ==
    /\ At(h, p, {"work"})
    /\ store' = [store EXCEPT ![p] = [EnsureDir(p) EXCEPT !.temps = @ \cup {h}]]
    /\ Goes(h, "replace")
    /\ UNCHANGED <<trash, mishaps>>

ReplaceManifest(h, p) ==
    /\ At(h, p, {"replace"})
    /\ store' = IF store[p] # Gone /\ h \in store[p].temps
                THEN [store EXCEPT ![p].temps = @ \ {h},
                                   ![p].manifest = [status |-> "drafted", body |-> hands[h].body]]
                ELSE store
    /\ Rests(h)
    /\ UNCHANGED <<trash, mishaps>>

(* The browser step or the write fails; the temporary file goes, unless it *)
(* was moved.                                                              *)
StageFails(h, p) ==
    /\ At(h, p, Staging)
    /\ store' = IF store[p] = Gone THEN store ELSE [store EXCEPT ![p].temps = @ \ {h}]
    /\ Rests(h)
    /\ UNCHANGED <<trash, mishaps>>

(* ------------------------------ the trash ------------------------------ *)

(* delete_package, batch_delete                                            *)
StartDelete(h, p) ==
    /\ store[p] # Gone
    /\ Takes(h, p, "room", Gone)
    /\ IF Others(h, p, Building \cup Staging)
       THEN Meets(h, p, Building \cup Staging, "raced") ELSE Meets(h, p, Deleting, "twice")
    /\ UNCHANGED <<store, trash>>

(* _move_to_trash: an older package of the same id goes for good.          *)
MakeRoom(h, p) ==
    /\ At(h, p, {"room"})
    /\ trash' = [trash EXCEPT ![p] = Gone]
    /\ Goes(h, "move")
    /\ UNCHANGED <<store, mishaps>>

Moved(dir, dest) == IF dest = Gone THEN dir ELSE [dest EXCEPT !.inner = TRUE]

MoveToTrash(h, p) ==
    /\ At(h, p, {"move"})
    /\ IF store[p] = Gone THEN UNCHANGED <<store, trash>>
       ELSE /\ trash' = [trash EXCEPT ![p] = Moved(store[p], @)]
            /\ store' = [store EXCEPT ![p] = Gone]
    /\ Rests(h)
    /\ UNCHANGED mishaps

(* Mutant of StartRestore: no check for a package of that name.            *)
StartRestoreOver(h, p) ==
    /\ trash[p] # Gone
    /\ Takes(h, p, "restore", Gone)
    /\ UNCHANGED <<store, trash, mishaps>>

(* _restore_from_trash: refused when there is a package of that name.      *)
StartRestore(h, p) ==
    /\ trash[p] # Gone /\ store[p] = Gone
    /\ Takes(h, p, "restore", Gone)
    /\ UNCHANGED <<store, trash, mishaps>>

Restore(h, p) ==
    /\ At(h, p, {"restore"})
    /\ IF trash[p] = Gone THEN UNCHANGED <<store, trash>>
       ELSE /\ store' = [store EXCEPT ![p] = Moved(trash[p], @)]
            /\ trash' = [trash EXCEPT ![p] = Gone]
    /\ Rests(h)
    /\ UNCHANGED mishaps

(* empty_trash: one directory after another; it may fail on the way.       *)
StartEmpty(h) ==
    /\ Takes(h, Gone, "empty", Gone)
    /\ UNCHANGED <<store, trash, mishaps>>

EmptyOne(h, p) ==
    /\ hands[h].pc = "empty"
    /\ trash[p] # Gone
    /\ trash' = [trash EXCEPT ![p] = Gone]
    /\ UNCHANGED <<store, hands, mishaps>>

EmptyEnds(h) ==
    /\ hands[h].pc = "empty"
    /\ Rests(h)
    /\ UNCHANGED <<store, trash, mishaps>>

StoreNext ==
    \E h \in Hands :
        \/ \E p \in Posts :
            \/ StartBuild(h, p) \/ GuardBuild(h, p) \/ BuildCaption(h, p) \/ BuildManifest(h, p)
            \/ StartStage(h, p) \/ OpenTemp(h, p) \/ ReplaceManifest(h, p)
            \/ StageFails(h, p)
            \/ StartDelete(h, p) \/ MakeRoom(h, p) \/ MoveToTrash(h, p)
            \/ StartRestore(h, p) \/ Restore(h, p) \/ EmptyOne(h, p)
        \/ BuildStops(h) \/ StartEmpty(h) \/ EmptyEnds(h)

StoreSpec == StoreInit /\ [][StoreNext]_storeVars

-----------------------------------------------------------------------------
(* A package is whole when its manifest and its caption are of one page    *)
(* and no other directory was moved inside of it.                          *)
Sound(dir) ==
    dir # Gone => ~dir.inner /\ (dir.manifest # Gone => dir.caption = dir.manifest.body)

Whole(dir) == dir # Gone /\ dir.manifest # Gone /\ Sound(dir)

(* In the store and in the trash alike, a manifest comes with the caption  *)
(* it was built with.  Only a build that stopped, and three overlaps, can  *)
(* leave anything else: a package deleted under a build or a job, and a    *)
(* build begun beside another one, a delete or a restore of its id.  Two   *)
(* jobs, two deletes, a delete against a restore and the emptying of the   *)
(* trash mix nothing up in any order.                                      *)
PackagesAreSound ==
    mishaps \subseteq {"twice"} => \A p \in Posts : Sound(store[p]) /\ Sound(trash[p])

(* A delete can be undone: a whole package stays whole in one of the two   *)
(* places until the trash is emptied or another whole package of the same  *)
(* id takes its place there; the mishaps above and a second delete at the  *)
(* same time apart.                                                        *)
WholeIsKept ==
    mishaps' = {} =>
        \A p \in Posts :
            /\ Whole(store[p]) => Whole(store'[p]) \/ trash'[p] = store[p]
            /\ Whole(trash[p]) =>
                  \/ Whole(trash'[p]) \/ store'[p] = trash[p]
                  \/ \E h \in Hands : hands[h].pc = "empty"
                  \/ Whole(store[p])

(* Both, of every step of builds, jobs, deletes, restores and empties.     *)
StoreIsSound == [][PackagesAreSound' /\ WholeIsKept]_storeVars

(* "Reversible delete (never hard-remove)" (_helpers.py:145): no step but  *)
(* the emptying of the trash makes a whole package vanish from both places.*)
DeleteIsReversible ==
    [][\A p \in Posts :
        Whole(store[p]) \/ Whole(trash[p]) =>
            \/ Whole(store'[p]) \/ Whole(trash'[p])
            \/ \E h \in Hands : hands[h].pc = "empty"]_storeVars
=============================================================================

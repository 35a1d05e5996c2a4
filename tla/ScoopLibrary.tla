----------------------------- MODULE ScoopLibrary -----------------------------
(***************************************************************************)
(* The scoop library: the tables library_items, clusters, generations and  *)
(* gossip_urls (cpost/core/library.py) and the programs that write them.   *)
(* The prep job ingests a crawl, clusters and scores in one transaction;   *)
(* the command line does each of the three in one of its own; a generation *)
(* job writes an article per scoop; a gossip job crawls a submitted URL.   *)
(*                                                                         *)
(* SQLite lets one transaction write at a time.  A statement outside of a  *)
(* transaction reads what was committed last.  A generation job keeps one  *)
(* transaction open from its first article to its end, over every call of  *)
(* the model in between; whoever wants to write meanwhile waits five       *)
(* seconds and fails.                                                      *)
(***************************************************************************)
EXTENDS Naturals, Sequences, FiniteSets, SequencesExt

CONSTANTS
    Urls,        \* canonical URLs: numbers, in their order
    Versions,    \* what a crawl may find at a URL
    AlikeTitles, \* the pairs of titles over the similarity threshold
    Window,      \* time_window_hours
    Materials,   \* URLs a user submits
    Tasks,       \* job threads and command line processes
    MaxBatch,    \* (bound) items of a crawl
    MaxTasks,    \* (bound) tasks started
    Nothing      \* NULL

Titles == {v.title : v \in Versions}
Texts  == {v.text : v \in Versions} \cup {Nothing}
Descs  == {v.desc : v \in Versions} \cup {Nothing}
Dates  == {v.date : v \in Versions} \cup {Nothing}

(* What a crawl knows of a page; a row of library_items, a row of          *)
(* gossip_urls.                                                            *)
Sighting  == [url : Urls, title : Titles, text : Texts, desc : Descs, date : Dates]
ItemRow   == [title : Titles, text : Texts, desc : Descs, date : Dates,
              source : {"site", "user"}, first : Nat, scoop : (SUBSET Urls) \cup {Nothing}]
GossipRow == [status : {"pending", "done", "failed"}, got : SUBSET Urls]

(* NULL is no row, no material and no scoop's id.                          *)
ASSUME LibraryAssumption ==
    /\ IsFiniteSet(Urls) /\ MaxBatch \in Nat
    /\ Versions \subseteq Sighting
    /\ Nothing \notin ItemRow /\ Nothing \notin GossipRow /\ Nothing \notin Materials
    /\ \A C \in SUBSET Urls : C # Nothing

VARIABLES
    db,        \* what is committed
    writer,    \* the task that holds the write lock between two steps
    task,      \* memory of each task
    packages,  \* the package folders of the generation track
    chats,     \* articles the model wrote
    started,   \* (bound) tasks started
    events     \* (history) what went wrong or was undone

libraryVars == <<db, writer, task, packages, chats, started, events>>

NoTask == [pc |-> "idle", kind |-> "none", batch |-> <<>>, items |-> <<>>, ids |-> {},
           scoop |-> Nothing, material |-> <<>>, body |-> Nothing, put |-> {},
           url |-> Nothing]

LibraryInit ==
    /\ db = [items |-> [u \in Urls |-> Nothing], scoops |-> {}, articles |-> {},
             gossip |-> [m \in Materials |-> Nothing]]
    /\ writer = Nothing
    /\ task = [t \in Tasks |-> NoTask]
    /\ packages = {}
    /\ chats = 0 /\ started = 0 /\ events = {}

(* ----------------------------- the tables ------------------------------ *)

Coalesce(new, old) == IF new = Nothing THEN old ELSE new

(* Mutant of Upserted: every column is overwritten.                        *)
UpsertedWhole(items, v, from, now) ==
    [items EXCEPT ![v.url] =
        [title |-> v.title, text |-> v.text, desc |-> v.desc, date |-> v.date, source |-> from,
         first |-> IF @ = Nothing THEN now ELSE @.first,
         scoop |-> IF @ = Nothing THEN Nothing ELSE @.scoop]]

(* upsert: the first sight and the scoop of a row stay, what the new       *)
(* record lacks is kept.                                                   *)
Upserted(items, v, from, now) ==
    LET old   == items[v.url]
        fresh == [title |-> v.title, text |-> v.text, desc |-> v.desc, date |-> v.date,
                  source |-> from, first |-> now, scoop |-> Nothing]
        known == [old EXCEPT !.title = v.title, !.text = Coalesce(v.text, old.text),
                             !.desc = Coalesce(v.desc, old.desc),
                             !.date = Coalesce(v.date, old.date), !.source = from]
    IN  [items EXCEPT ![v.url] = IF old = Nothing THEN fresh ELSE known]

Ingested(items, batch, from, now) ==
    FoldLeft(LAMBDA acc, v : Upserted(acc, v, from, now), items, batch)

Stored(items) == {u \in Urls : items[u] # Nothing}

Within(d, e) == d = Nothing \/ e = Nothing \/ (d <= e + Window /\ e <= d + Window)

Alike(r, s) == (r.title = s.title \/ {r.title, s.title} \in AlikeTitles) /\ Within(r.date, s.date)

(* cluster_items: the connected components (see ScoopClusters).            *)
Grouped(items) ==
    LET closed(C) == \A u \in C, v \in Stored(items) \ C : ~Alike(items[u], items[v])
    IN  {C \in (SUBSET Stored(items)) \ {{}} :
            closed(C) /\ \A D \in (SUBSET C) \ {{}} : closed(D) => D = C}

(* A scoop's id is the hash of its members' URLs.                          *)
ScoopId(C) == C

Length(r) == IF r.text = Nothing THEN 0 ELSE r.text

Summary(items, C) ==
    LET dates == {items[u].date : u \in C} \ {Nothing}
    IN  [id |-> ScoopId(C), sources |-> Cardinality({items[u].source : u \in C}),
         rep |-> CHOOSE u \in C : \A v \in C :
                    Length(items[v]) < Length(items[u])
                    \/ (Length(items[v]) = Length(items[u]) /\ v <= u),
         latest |-> IF dates = {} THEN Nothing ELSE CHOOSE d \in dates : \A e \in dates : e <= d,
         scored |-> FALSE]

(* Mutant of Assigned: an item that has a scoop keeps it.                  *)
AssignedOnce(d, listed) ==
    LET groups == Grouped(listed)
        Of(u) == {C \in groups : u \in C}
    IN  [d EXCEPT
            !.items = [u \in Urls |->
                IF d.items[u] = Nothing \/ d.items[u].scoop # Nothing \/ Of(u) = {} THEN d.items[u]
                ELSE [d.items[u] EXCEPT !.scoop = ScoopId(CHOOSE C \in Of(u) : TRUE)]],
            !.scoops = {Summary(listed, C) : C \in groups}]

(* assign_clusters: the groups of the items that were listed, stamped on   *)
(* those that are there now.                                               *)
Assigned(d, listed) ==
    LET groups == Grouped(listed)
    IN  [d EXCEPT
            !.items = [u \in Urls |->
                IF d.items[u] = Nothing THEN Nothing
                ELSE [d.items[u] EXCEPT !.scoop =
                        IF \E C \in groups : u \in C
                        THEN ScoopId(CHOOSE C \in groups : u \in C) ELSE Nothing]],
            !.scoops = {Summary(listed, C) : C \in groups}]

(* score_all: every scoop that was listed and is still there.              *)
Scored(d, ids) ==
    [d EXCEPT !.scoops = {[s EXCEPT !.scored = @ \/ s.id \in ids] : s \in d.scoops}]

Ids(d) == {s.id : s \in d.scoops}

Members(items, id) == {u \in Stored(items) : items[u].scoop = id}

(* build_material: what the model is given, without the URLs.              *)
Material(items, us) ==
    LET order == SetToSortSeq(us, LAMBDA u, v : u < v)
    IN  [i \in 1..Cardinality(us) |->
            LET r == items[order[i]] IN <<r.source, r.title, Coalesce(r.text, r.desc)>>]

(* Mutant of CacheKey: the texts are left out of the hash.                 *)
CacheKeyOfTitles(material) == [i \in DOMAIN material |-> <<material[i][1], material[i][2]>>]

(* cache_key: a hash of exactly the material.                              *)
CacheKey(material) == material

(* ---------------------------- all the tasks ---------------------------- *)

Crawled == UNION {[1..n -> Versions] : n \in 0..MaxBatch}

Begin(t, mem) ==
    /\ task[t].pc = "idle" /\ started < MaxTasks
    /\ started' = started + 1
    /\ task' = [task EXCEPT ![t] = mem]

MayWrite(t) == writer \in {Nothing, t}

Ends(t) == task' = [task EXCEPT ![t] = NoTask]

(* "database is locked": the write fails, the task with it.                *)
LockedOut(t) ==
    /\ ~MayWrite(t)
    /\ task[t].pc \in {"ingest", "assign", "score", "gossip-done", "gossip-failed"}
    /\ Ends(t)
    /\ events' = events \cup {"locked"}
    /\ UNCHANGED <<db, writer, packages, chats, started>>

(* The process dies; what it had not committed is gone.                    *)
Dies(t) ==
    /\ task[t].pc # "idle"
    /\ Ends(t)
    /\ writer' = IF writer = t THEN Nothing ELSE writer
    /\ events' = events \cup {"died"}
    /\ UNCHANGED <<db, packages, chats, started>>

(* -------------------- ingest, cluster, score; prep --------------------- *)

(* run_prep_pipeline after its crawl; or one of the three commands.        *)
StartIngest(t) ==
    /\ \E b \in Crawled, k \in {"prep", "ingest"} :
        Begin(t, [NoTask EXCEPT !.kind = k, !.batch = b,
                                !.pc = IF k = "prep" /\ b = <<>> THEN "list" ELSE "ingest"])
    /\ UNCHANGED <<db, writer, packages, chats, events>>

StartCluster(t) ==
    /\ Begin(t, [NoTask EXCEPT !.kind = "cluster", !.pc = "list"])
    /\ UNCHANGED <<db, writer, packages, chats, events>>

StartScore(t) ==
    /\ Begin(t, [NoTask EXCEPT !.kind = "score", !.pc = "score", !.ids = Ids(db)])
    /\ UNCHANGED <<db, writer, packages, chats, events>>

(* The command commits the ingest alone, or nothing when a record is bad;  *)
(* the job clusters and scores in the same transaction.                    *)
Ingest(t) ==
    /\ task[t].pc = "ingest" /\ writer = Nothing
    /\ LET items  == Ingested(db.items, task[t].batch, "site", started)
           fresh  == Assigned([db EXCEPT !.items = items], items)
       IN  IF task[t].kind = "prep"
           THEN db' = Scored(fresh, Ids(fresh))
           ELSE db' \in {db, [db EXCEPT !.items = items]}
    /\ Ends(t)
    /\ UNCHANGED <<writer, packages, chats, started, events>>

(* list_items runs before the transaction begins.                          *)
ListItems(t) ==
    /\ task[t].pc = "list"
    /\ task' = [task EXCEPT ![t].pc = "assign", ![t].items = db.items]
    /\ UNCHANGED <<db, writer, packages, chats, started, events>>

Assign(t) ==
    /\ task[t].pc = "assign" /\ writer = Nothing
    /\ LET fresh == Assigned(db, task[t].items)
       IN  IF task[t].kind = "prep"
           THEN db' = Scored(fresh, Ids(fresh)) /\ UNCHANGED events
           ELSE db' = fresh /\ events' = events \cup {"unscored"}
    /\ Ends(t)
    /\ UNCHANGED <<writer, packages, chats, started>>

WriteScores(t) ==
    /\ task[t].pc = "score" /\ writer = Nothing
    /\ db' = Scored(db, task[t].ids)
    /\ Ends(t)
    /\ UNCHANGED <<writer, packages, chats, started, events>>

(* ----------------------------- generation ------------------------------ *)

Generating == {t \in Tasks : task[t].kind = "generate"}

(* The operator ticked scoops on a page, which may be an old one.          *)
StartGenerate(t) ==
    /\ \E ids \in (SUBSET Ids(db)) \ {{}} :
        Begin(t, [NoTask EXCEPT !.kind = "generate", !.pc = "next", !.ids = ids])
    /\ events' = IF Generating = {} THEN events ELSE events \cup {"overlap"}
    /\ UNCHANGED <<db, writer, packages, chats>>

(* get_cluster: the next scoop, if it is still there.                      *)
GetScoop(t) ==
    /\ task[t].pc = "next"
    /\ \E id \in task[t].ids :
        task' = [task EXCEPT ![t].ids = @ \ {id},
                    ![t].pc = IF id \in Ids(db) THEN "members" ELSE "next",
                    ![t].scoop = id]
    /\ UNCHANGED <<db, writer, packages, chats, started, events>>

(* get_cluster_members, a read of its own.                                 *)
GetMembers(t) ==
    /\ task[t].pc = "members"
    /\ LET us == Members(db.items, task[t].scoop)
       IN  task' = [task EXCEPT ![t].pc = IF us = {} THEN "next" ELSE "cache",
                                ![t].material = Material(db.items, us)]
    /\ UNCHANGED <<db, writer, packages, chats, started, events>>

Articles(t) ==
    task[t].put \cup {a \in db.articles : \A b \in task[t].put : b.key # a.key}

GetArticle(t) ==
    /\ task[t].pc = "cache"
    /\ LET hits == {a \in Articles(t) : a.key = CacheKey(task[t].material)}
       IN  IF hits = {} THEN task' = [task EXCEPT ![t].pc = "chat"]
           ELSE task' = [task EXCEPT ![t].pc = "build", ![t].body = (CHOOSE a \in hits : TRUE).body]
    /\ UNCHANGED <<db, writer, packages, chats, started, events>>

(* The model answers, or fails, or writes nothing but a title.             *)
Chat(t) ==
    /\ task[t].pc = "chat"
    /\ \/ /\ chats' = chats + 1
          /\ task' = [task EXCEPT ![t].pc = "put",
                                  ![t].body = [of |-> task[t].material, nr |-> chats]]
       \/ /\ task' = [task EXCEPT ![t].pc = "next"]
          /\ UNCHANGED chats
    /\ UNCHANGED <<db, writer, packages, started, events>>

(* put_generation: from here on the job holds the write lock.  If it       *)
(* cannot get it the scoop has failed and the next one follows.            *)
PutArticle(t) ==
    /\ task[t].pc = "put"
    /\ IF MayWrite(t)
       THEN /\ writer' = t
            /\ task' = [task EXCEPT ![t].pc = "build",
                    ![t].put = {a \in @ : a.key # CacheKey(task[t].material)} \cup
                               {[key |-> CacheKey(task[t].material), body |-> task[t].body]}]
       ELSE /\ task' = [task EXCEPT ![t].pc = "next"]
            /\ UNCHANGED writer
    /\ UNCHANGED <<db, packages, chats, started, events>>

(* build_manifest.build: no folder is made over a package of other content.*)
BuildScoop(t) ==
    /\ task[t].pc = "build"
    /\ packages' =
        IF \E p \in packages : p.id = task[t].scoop THEN packages
        ELSE packages \cup {[id |-> task[t].scoop, body |-> task[t].body,
                             wanted |-> task[t].material]}
    /\ task' = [task EXCEPT ![t].pc = "next"]
    /\ UNCHANGED <<db, writer, chats, started, events>>

(* The end of the job commits its articles.                                *)
CommitArticles(t) ==
    /\ task[t].pc = "next" /\ task[t].ids = {} /\ task[t].kind = "generate"
    /\ db' = [db EXCEPT !.articles = Articles(t)]
    /\ writer' = IF writer = t THEN Nothing ELSE writer
    /\ Ends(t)
    /\ UNCHANGED <<packages, chats, started, events>>

(* ------------------------------- gossip -------------------------------- *)

(* start_gossip_crawl: INSERT OR IGNORE, then a job.                       *)
SubmitUrl(t, m) ==
    /\ writer = Nothing
    /\ db' = [db EXCEPT !.gossip[m] =
                IF @ = Nothing THEN [status |-> "pending", got |-> {}] ELSE @]
    /\ Begin(t, [NoTask EXCEPT !.kind = "gossip", !.pc = "crawl", !.url = m])
    /\ UNCHANGED <<writer, packages, chats, events>>

DeleteUrl(m) ==
    /\ writer = Nothing
    /\ db.gossip[m] # Nothing
    /\ db' = [db EXCEPT !.gossip[m] = Nothing]
    /\ UNCHANGED <<writer, task, packages, chats, started, events>>

CrawlUrl(t) ==
    /\ task[t].pc = "crawl"
    /\ \/ task' = [task EXCEPT ![t].pc = "gossip-failed"]
       \/ \E b \in Crawled : task' = [task EXCEPT ![t].pc = "gossip-done", ![t].batch = b]
    /\ UNCHANGED <<db, writer, packages, chats, started, events>>

(* update_gossip_crawl_status: an UPDATE, of a row that may be gone.       *)
WithStatus(d, m, status, got) ==
    IF d.gossip[m] = Nothing THEN d.gossip
    ELSE [d.gossip EXCEPT ![m] = [status |-> status, got |-> got]]

CrawlFailed(t) ==
    /\ task[t].pc = "gossip-failed" /\ writer = Nothing
    /\ db' = [db EXCEPT !.gossip = WithStatus(db, task[t].url, "failed", {})]
    /\ Ends(t)
    /\ UNCHANGED <<writer, packages, chats, started, events>>

(* Mutant of CrawlDone: the status is written without the items.           *)
CrawlDoneUnstored(t) ==
    /\ task[t].pc = "gossip-done" /\ writer = Nothing
    /\ db' = [db EXCEPT !.gossip = WithStatus(db, task[t].url, "done",
                  {task[t].batch[i].url : i \in 1..Len(task[t].batch)})]
    /\ Ends(t)
    /\ UNCHANGED <<writer, packages, chats, started, events>>

(* The items (without a body: crawl_url looks for it under a name that     *)
(* normalized items do not have) and the status, in one transaction.       *)
CrawlDone(t) ==
    /\ task[t].pc = "gossip-done" /\ writer = Nothing
    /\ LET bare == [i \in 1..Len(task[t].batch) |-> [task[t].batch[i] EXCEPT !.text = Nothing]]
           got  == {bare[i].url : i \in 1..Len(bare)}
       IN  db' = [db EXCEPT !.items = Ingested(@, bare, "user", started),
                            !.gossip = WithStatus(db, task[t].url, "done", got)]
    /\ Ends(t)
    /\ UNCHANGED <<writer, packages, chats, started, events>>

LibraryTask(t) ==
    \/ StartIngest(t) \/ StartCluster(t) \/ StartScore(t) \/ StartGenerate(t)
    \/ \E m \in Materials : SubmitUrl(t, m)
    \/ Ingest(t) \/ ListItems(t) \/ Assign(t) \/ WriteScores(t)
    \/ GetScoop(t) \/ GetMembers(t) \/ GetArticle(t) \/ Chat(t) \/ PutArticle(t)
    \/ BuildScoop(t) \/ CommitArticles(t)
    \/ CrawlUrl(t) \/ CrawlFailed(t) \/ CrawlDone(t)
    \/ LockedOut(t) \/ Dies(t)

LibraryNext == (\E t \in Tasks : LibraryTask(t)) \/ (\E m \in Materials : DeleteUrl(m))

LibrarySpec == LibraryInit /\ [][LibraryNext]_libraryVars

-----------------------------------------------------------------------------
(* The committed scoops and the stamps on the items agree at every moment: *)
(* a scoop's members are the items that carry its id, and no item carries  *)
(* the id of a scoop that is gone, whoever ingests meanwhile.              *)
MembersAgree ==
    /\ \A s \in db.scoops : Members(db.items, s.id) = s.id
    /\ \A u \in Stored(db.items) : db.items[u].scoop \in Ids(db) \cup {Nothing}
    /\ Cardinality(Ids(db)) = Cardinality(db.scoops)

(* Only the cluster command leaves scoops without a score; no other task   *)
(* shows the /today page a scoop before it is scored.                      *)
NothingUnscored == "unscored" \notin events => \A s \in db.scoops : s.scored

(* A page that lists the library finds a consistent one at every moment:   *)
(* both of the above.                                                      *)
ScoopsAndItemsAgree == MembersAgree /\ NothingUnscored

(* The article in a package was written from what the job read of the      *)
(* scoop just before, and that was the whole scoop, though the cluster,    *)
(* its members and the cache are read one after another while other tasks  *)
(* commit.                                                                 *)
ArticleIsOfItsScoop ==
    \A p \in packages : p.body.of = p.wanted /\ Len(p.wanted) = Cardinality(p.id)

(* "A re-run over an unchanged scoop reuses the same article" (library.py: *)
(* 268): the article of every package is the cached one, unless a job died *)
(* before its commit or two jobs generated at once.                        *)
RerunIsStable ==
    Generating = {} /\ events \cap {"died", "overlap"} = {} =>
        \A p \in packages : [key |-> CacheKey(p.body.of), body |-> p.body] \in db.articles

(* A cached article is of the scoop it is used for, and used again as long *)
(* as that does not change: both of the above.                             *)
CacheIsSound == ArticleIsOfItsScoop /\ RerunIsStable

(* A material that is done has its pages in the library; one that stays    *)
(* pending without a job lost it to a crash or to the lock.                *)
GossipIsTruthful ==
    \A m \in Materials : db.gossip[m] # Nothing =>
        /\ db.gossip[m].got \subseteq Stored(db.items)
        /\ db.gossip[m].status = "pending" /\ events \cap {"died", "locked"} = {}
               => \E t \in Tasks : task[t].url = m

(* "Never drops data" (library.py:7): no task takes a row, its first sight *)
(* or a text it once had, not even the gossip crawl that has none.         *)
NothingIsDropped ==
    [][\A u \in Stored(db.items) :
        /\ u \in Stored(db'.items)
        /\ db'.items[u].first = db.items[u].first
        /\ db.items[u].text # Nothing => db'.items[u].text # Nothing
        /\ db.items[u].scoop # Nothing /\ db'.items[u].scoop = Nothing
              => db'.scoops # db.scoops]_libraryVars
=============================================================================

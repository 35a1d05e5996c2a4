----------------------------- MODULE MCComponents -----------------------------
\* Small instances of ten components for TLC, side by side in one run.  They
\* have no variable in common, so that a behaviour is one of a single component:
\* `part` says of which, and the others stay as they were initialised.
EXTENDS JobRegistry, CrawlBatch, SiteRoster, ScoopLibrary, ScoopClusters, ScoopScore,
        PackageStore, SchemaVersions, SettingsFile, LoginLight, TLC

CONSTANTS j1, j2, j3, j4, d1, y

VARIABLE part

Parts == {"jobs", "crawl", "roster", "library", "clusters", "score", "store", "schema",
          "settings", "login"}

-----------------------------------------------------------------------------
(* Crawls: a site of links, one of pages of every kind and one of a single  *)
(* page; a batch of sources and a roster, and the fallback.                 *)

Page == [start |-> FALSE, item |-> FALSE, denied |-> FALSE, foreign |-> FALSE,
         allowed |-> FALSE, html |-> TRUE, title |-> TRUE, text |-> 2, custom |-> 0, links |-> {}]

SiteA == 1 :> [Page EXCEPT !.start = TRUE, !.links = {2, 3}]
      @@ 2 :> [Page EXCEPT !.item = TRUE, !.links = {1}]
      @@ 3 :> [Page EXCEPT !.item = TRUE, !.custom = 1]

SiteC == 1 :> [Page EXCEPT !.start = TRUE, !.item = TRUE] @@ 2 :> Page @@ 3 :> Page

SiteB == 1 :> [Page EXCEPT !.start = TRUE, !.item = TRUE, !.links = {2, 3}]
      @@ 2 :> [Page EXCEPT !.denied = TRUE, !.item = TRUE]
      @@ 3 :> [Page EXCEPT !.html = FALSE]

Base == [item_regex |-> TRUE, allow_regex |-> FALSE, limit |-> 2, max_pages |-> 2, depth |-> 1,
         min_text |-> 1, max_text |-> 1, body |-> "none"]

Source(n, h, e, s, over) == [name |-> n, host |-> h, enabled |-> e, site |-> s, over |-> over]
NoOverride == [k \in {} |-> 0]

Sources ==
    [sources |-> <<Source("s1", "h1", TRUE, SiteA, [limit |-> 1]),
                   Source("s2", "h2", FALSE, SiteB, NoOverride),
                   Source("s3", "h3", TRUE, SiteC, NoOverride)>>,
     roster  |-> <<Source("d1", "h1", TRUE, SiteA, NoOverride),
                   Source("d2", "h2", TRUE, SiteB, [body |-> "invalid"])>>,
     base |-> Base, site |-> SiteA, host |-> "h0", budget |-> 2]

StartUrlOnly == [Sources EXCEPT !.sources = <<>>, !.roster = <<>>, !.budget = Nil]

TwoBatches == {Sources, StartUrlOnly}

(* The roster: a source y of the settings republishes the pages of d1.      *)
Republished == d1 :> d1 @@ y :> d1

(* The library: two URLs; a page whose text changes, and one that tells the *)
(* same story at the same time or the like much later.                      *)
Version(u, text, date) == [url |-> u, title |-> "s", text |-> text, desc |-> 1, date |-> date]

FewVersions == {Version(1, 1, 0), Version(1, 2, 0), Version(2, 2, 0), Version(2, 2, 9)}

(* The clusters: any four alike pairs of six items.                         *)
FourPairs == UNION {kSubset(k, Pairs) : k \in 0..4}

(* The scores: the shipped settings in small, and everything at its edge.   *)
Shipped ==
    [window |-> 3, burst |-> 1, material_cap |-> 3, full_text |-> 1, diversity_cap |-> 3,
     cross_cap |-> 1, w_recency |-> 3, w_velocity |-> 2, w_completeness |-> 5,
     w_material |-> 3, w_diversity |-> 2, w_volume |-> 4, w_sources |-> 3, w_coverage |-> 3,
     weight_freshness |-> 1, weight_importance |-> 1, weight_traffic |-> 1, weight_cross |-> 1]

Degenerate ==
    [Shipped EXCEPT !.window = 0, !.material_cap = 0, !.full_text = 0, !.cross_cap = 0,
                    !.w_volume = 0, !.w_sources = 0, !.w_coverage = 0, !.w_velocity = -1]

TwoConfigs == {Shipped, Degenerate}

AfterTwoDeletes == {{}, {"twice"}}

(* The schemas of runs.py and library.py, and files of earlier releases.    *)
TwoOwners == {"runs", "library"}

SchemaColumns ==
    "runs"    :> {"id", "run_id", "severity"} @@
    "library" :> {"item", "cluster", "freshness", "importance", "generation", "tags", "gossip"}

SchemaCreated ==
    "runs"    :> {{"id", "run_id", "severity"}} @@
    "library" :> {{"item"}, {"cluster"}, {"generation", "tags"}, {"gossip"}}

SchemaMigrations ==
    "runs"    :> << <<1, {"run_id"}>>, <<2, {"severity"}>> >> @@
    "library" :> << <<101, {"tags"}>>, <<102, {"freshness", "importance"}>>, <<103, {"gossip"}>> >>

SchemaIndexes == "runs" :> {"id", "run_id"} @@ "library" :> {"item", "cluster"}

OldFile(r, l, v) == [tables |-> "runs" :> r @@ "library" :> l, versions |-> v]

SixFiles ==
    {OldFile({}, {}, {}), OldFile({"id"}, {}, {}),
     OldFile({"id"}, {"item", "cluster", "generation", "freshness"}, {}),
     OldFile({"id", "run_id"}, {"item", "cluster", "generation"}, {1}),
     OldFile({"id", "run_id", "severity"}, {"item", "cluster"}, {1, 2}),
     OldFile({"id", "run_id", "severity"}, {"item", "cluster", "generation", "tags"}, {1, 2, 101})}

(* The settings file: with two sources, and with entries no one validated.  *)
TwoSources == Config("f1", <<Entry("a", "u", TRUE), Entry("b", "v", FALSE)>>)
Unchecked  == Config("f1", <<Entry("a", "u", TRUE), Scalar, Entry("a", "v", TRUE)>>)

ThreeFiles == {TwoSources, Unchecked, Config("f1", NotAList)}

-----------------------------------------------------------------------------
allVars == <<part, vars, batchAllVars, rosterVars, libraryVars, clusterVars, scoreVars,
             storeVars, schemaVars, settingsVars, lightVars>>

PartsInit ==
    /\ part \in Parts
    /\ Init /\ RosterInit /\ LibraryInit /\ StoreInit /\ LightInit
    /\ BatchInit   /\ (part = "crawl" \/ (batch = Sources /\ watched))
    /\ ScoreInit   /\ (part = "score" \/ cfg = Shipped)
    /\ SchemaInit  /\ (part = "schema" \/ versions = {1})
    /\ SettingsInit /\ (part = "settings" \/ yaml = TwoSources)
    /\ ClusterInit /\ (part = "clusters" \/ alike = {})

OfCrawl(A) ==
    /\ part = "crawl" /\ A
    /\ UNCHANGED <<part, vars, rosterVars, libraryVars, clusterVars, scoreVars, storeVars,
                   schemaVars, settingsVars, lightVars>>

PartsNext ==
    \/ OfCrawl(BatchNext)
    \/ /\ part = "jobs" /\ Next
       /\ UNCHANGED <<part, batchAllVars, rosterVars, libraryVars, clusterVars, scoreVars,
                      storeVars, schemaVars, settingsVars, lightVars>>
    \/ /\ part = "roster" /\ RosterNext
       /\ UNCHANGED <<part, vars, batchAllVars, libraryVars, clusterVars, scoreVars,
                      storeVars, schemaVars, settingsVars, lightVars>>
    \/ /\ part = "library" /\ LibraryNext
       /\ UNCHANGED <<part, vars, batchAllVars, rosterVars, clusterVars, scoreVars,
                      storeVars, schemaVars, settingsVars, lightVars>>
    \/ /\ part = "clusters" /\ ClusterNext
       /\ UNCHANGED <<part, vars, batchAllVars, rosterVars, libraryVars, scoreVars,
                      storeVars, schemaVars, settingsVars, lightVars>>
    \/ /\ part = "score" /\ ScoreNext
       /\ UNCHANGED <<part, vars, batchAllVars, rosterVars, libraryVars, clusterVars,
                      storeVars, schemaVars, settingsVars, lightVars>>
    \/ /\ part = "store" /\ StoreNext
       /\ UNCHANGED <<part, vars, batchAllVars, rosterVars, libraryVars, clusterVars,
                      scoreVars, schemaVars, settingsVars, lightVars>>
    \/ /\ part = "schema" /\ SchemaNext
       /\ UNCHANGED <<part, vars, batchAllVars, rosterVars, libraryVars, clusterVars,
                      scoreVars, storeVars, settingsVars, lightVars>>
    \/ /\ part = "settings" /\ SettingsNext
       /\ UNCHANGED <<part, vars, batchAllVars, rosterVars, libraryVars, clusterVars,
                      scoreVars, storeVars, schemaVars, lightVars>>
    \/ /\ part = "login" /\ LightNext
       /\ UNCHANGED <<part, vars, batchAllVars, rosterVars, libraryVars, clusterVars,
                      scoreVars, storeVars, schemaVars, settingsVars>>

\* BatchFairness, of the behaviours that are of the crawl.
PartsSpec ==
    /\ PartsInit /\ [][PartsNext]_allVars
    /\ WF_allVars(OfCrawl(CallerRuns)) /\ WF_allVars(OfCrawl(TimePasses))

\* A crawl batch comes to its end even if every child hangs for ever (EveryBatchEnds).
BatchesEnd == part = "crawl" => EveryBatchEnds

\* Every part's state is well formed: typed; the forest one without cycles; every
\* score a fraction between 0 and 1; the settings file what was written or a valid one.
WellFormed ==
    /\ TypeOK /\ CrawlTypeOK /\ RosterTypeOK
    /\ ForestOK /\ ScoresInRange /\ SettingsStaySound
=============================================================================

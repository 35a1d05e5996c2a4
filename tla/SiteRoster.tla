----------------------------- MODULE SiteRoster -----------------------------
(***************************************************************************)
(* The site roster (cpost/core/site_roster.py): one row per domain, and    *)
(* the three programs that share it without a lock.  discover-sources adds *)
(* candidates, health-check-sources moves sites between the tiers, and the *)
(* crawl reads the active ones and stamps them.  Each call of site_roster  *)
(* is a transaction of its own; what a program read before is kept in its  *)
(* own memory.  A program may stop between any two of them.                *)
(***************************************************************************)
EXTENDS Integers, Sequences, FiniteSets

CONSTANTS
    Domains,        \* the hosts there are
    YamlDomains,    \* those of the settings file
    Checks,         \* health-check-sources processes
    Finders,        \* discover-sources processes
    OriginOf,       \* the site whose pages a domain's pages name as canonical
    SampleSizes,    \* how many items a sample may hold (_SAMPLE_LIMIT is 10)
    MaxPerSeed, MaxTotal,   \* limits of one discovery
    MaxAssessed,    \* (bound) assessments of one domain
    MaxRuns,        \* (bound) health checks and discoveries
    Absent

CANDIDATE == "candidate"
MONITORED == "monitored"
ACTIVE    == "active"
MIRROR    == "mirror"
FAILED    == "failed"
INACTIVE  == "inactive"

Tiers == {CANDIDATE, MONITORED, ACTIVE, MIRROR, FAILED, INACTIVE}
FAIL_THRESHOLD == 3

Row == [tier: Tiers, is_mirror: BOOLEAN, fail_count: Nat, ok_count: Nat, crawled: BOOLEAN]

ASSUME RosterAssumption ==
    /\ Absent \notin Row
    /\ YamlDomains \subseteq Domains
    /\ OriginOf \in [Domains -> Domains]
    /\ SampleSizes \subseteq Nat

(* An article is the page with that number on its site.                    *)
Addresses == Domains \X Nat

VARIABLES
    roster,    \* the table sites
    library,   \* the canonical URLs of library_items
    check,     \* memory of each health check
    finder,    \* memory of each discovery
    crawler,   \* memory of the crawl
    failures,  \* (history) failed assessments of each domain
    passes,    \* (history) passed ones
    runs       \* (bound) programs started

rosterVars == <<roster, library, check, finder, crawler, failures, passes, runs>>

ListByTier(t) == {d \in Domains : roster[d] # Absent /\ roster[d].tier = t}

NewRow == [tier |-> CANDIDATE, is_mirror |-> FALSE, fail_count |-> 0, ok_count |-> 0,
           crawled |-> FALSE]

NoCheck   == [pc |-> "idle", tiers |-> <<>>, sites |-> {}, library |-> {},
              domain |-> Absent, row |-> Absent, writes |-> <<>>]
NoFinder  == [pc |-> "idle", dry |-> FALSE, tiers |-> <<>>, known |-> {}, seeds |-> {},
              seed |-> Absent, perSeed |-> 0, total |-> 0]
NoCrawler == [pc |-> "idle", sites |-> {}, got |-> {}]

RosterInit ==
    /\ roster = [d \in Domains |-> Absent]
    /\ library = {}
    /\ check = [c \in Checks |-> NoCheck]
    /\ finder = [f \in Finders |-> NoFinder]
    /\ crawler = NoCrawler
    /\ failures = [d \in Domains |-> 0] /\ passes = [d \in Domains |-> 0]
    /\ runs = 0

(* ----------------------------- discovery ------------------------------- *)

(* Mutant of FinderOrder: the tiers are listed against the direction of    *)
(* their moves.                                                            *)
FinderOrderBack == <<INACTIVE, FAILED, MIRROR, ACTIVE, MONITORED, CANDIDATE>>

FinderOrder == <<CANDIDATE, MONITORED, ACTIVE, MIRROR, FAILED, INACTIVE>>

StartFinder(f) ==
    /\ finder[f].pc = "idle" /\ runs < MaxRuns
    /\ runs' = runs + 1
    /\ \E dry \in BOOLEAN :
        finder' = [finder EXCEPT ![f] = [NoFinder EXCEPT
                    !.pc = "list", !.dry = dry, !.tiers = FinderOrder,
                    !.known = YamlDomains, !.seeds = YamlDomains]]
    /\ UNCHANGED <<roster, library, check, crawler, failures, passes>>

(* _roster_domains: one query for each tier.                               *)
ListKnown(f) ==
    /\ finder[f].pc = "list" /\ finder[f].tiers # <<>>
    /\ finder' = [finder EXCEPT
                    ![f].known = @ \cup ListByTier(Head(finder[f].tiers)),
                    ![f].tiers = Tail(@)]
    /\ UNCHANGED <<roster, library, check, crawler, failures, passes, runs>>

(* The next seed, as long as the total allows one more.                    *)
NextSeed(f) ==
    /\ finder[f].pc \in {"list", "seed"} /\ finder[f].tiers = <<>>
    /\ \E s \in finder[f].seeds :
        finder' = [finder EXCEPT ![f].pc = "seed", ![f].seed = s,
                                 ![f].seeds = @ \ {s}, ![f].perSeed = 0]
    /\ UNCHANGED <<roster, library, check, crawler, failures, passes, runs>>

(* A link to an unknown host that is private or does not answer.           *)
SkipHost(f) ==
    /\ finder[f].pc = "seed"
    /\ finder[f].perSeed < MaxPerSeed /\ finder[f].total < MaxTotal
    /\ \E d \in Domains \ (finder[f].known \cup {finder[f].seed}) :
        finder' = [finder EXCEPT ![f].known = @ \cup {d}]
    /\ UNCHANGED <<roster, library, check, crawler, failures, passes, runs>>

(* upsert_site: INSERT OR REPLACE, every column anew; but not in a dry run.*)
AddCandidate(f) ==
    /\ finder[f].pc = "seed"
    /\ finder[f].perSeed < MaxPerSeed /\ finder[f].total < MaxTotal
    /\ \E d \in Domains \ (finder[f].known \cup {finder[f].seed}) :
        /\ roster' = IF finder[f].dry THEN roster ELSE [roster EXCEPT ![d] = NewRow]
        /\ finder' = [finder EXCEPT ![f].known = @ \cup {d},
                                    ![f].perSeed = @ + 1, ![f].total = @ + 1]
    /\ UNCHANGED <<library, check, crawler, failures, passes, runs>>

(* The last seed is done, a write failed or the program was stopped.       *)
FinderEnds(f) ==
    /\ finder[f].pc # "idle"
    /\ finder' = [finder EXCEPT ![f] = NoFinder]
    /\ UNCHANGED <<roster, library, check, crawler, failures, passes, runs>>

Finder(f) == StartFinder(f) \/ ListKnown(f) \/ NextSeed(f) \/ SkipHost(f)
             \/ AddCandidate(f) \/ FinderEnds(f)

(* ---------------------------- health check ----------------------------- *)

CheckedTiers == {<<CANDIDATE, MONITORED>>, <<ACTIVE>>}

(* run: the library's URLs first, or none when it cannot be read.          *)
StartCheck(c) ==
    /\ check[c].pc = "idle" /\ runs < MaxRuns
    /\ runs' = runs + 1
    /\ \E ts \in CheckedTiers, lib \in {{}, library} :
        check' = [check EXCEPT ![c] = [NoCheck EXCEPT
                    !.pc = "list", !.tiers = ts, !.library = lib]]
    /\ UNCHANGED <<roster, library, finder, crawler, failures, passes>>

(* list_by_tier: the rows as they are now, tier by tier.                   *)
ListTier(c) ==
    /\ check[c].pc = "list" /\ check[c].tiers # <<>>
    /\ check' = [check EXCEPT
                    ![c].sites = @ \cup {[domain |-> d, row |-> roster[d]] :
                                           d \in ListByTier(Head(check[c].tiers))},
                    ![c].tiers = Tail(@)]
    /\ UNCHANGED <<roster, library, finder, crawler, failures, passes, runs>>

(* A sample of n pages of domain d: where they are, what they call         *)
(* canonical.                                                              *)
PageUrls(d, n)   == {<<d, i>> : i \in 1..n}
Canonicals(d, n) == {<<OriginOf[d], i>> : i \in 1..n}

(* _compute_mirror_overlap compares item["url"], the page's own address,   *)
(* and looks at canonical_url only where there is no url.                  *)
Overlap(urls, lib) == Cardinality(urls \cap lib)
IsMirror(d, n, lib) == 10 * Overlap(PageUrls(d, n), lib) > 6 * n

(* _is_fresh: by the dates, or by number where no item has one.            *)
FreshOf(n, dated) == IF dated THEN BOOLEAN ELSE {n >= 3}

(* _assess_site: a sample that failed, or one of n items.                  *)
Assessments(d, lib) ==
    {[count |-> 0, fresh |-> FALSE, mirror |-> FALSE]} \cup
    UNION {{[count |-> n, fresh |-> b, mirror |-> lib # {} /\ IsMirror(d, n, lib)] :
               b \in FreshOf(n, dated)} : n \in SampleSizes, dated \in BOOLEAN}

Passed(a) == a.count >= 2 /\ a.fresh /\ ~a.mirror

(* The writes of _apply_tier_transition, in their order; each is one       *)
(* transaction, computed from the row as it was listed.                    *)
Mark        == [kind |-> "mirror"]
SetTier(t)  == [kind |-> "tier", tier |-> t]
Health(f, o) == [kind |-> "health", fail_count |-> f, ok_count |-> o]

Failing(row, t) ==
    LET f == row.fail_count + 1
    IN  (IF f >= FAIL_THRESHOLD THEN <<SetTier(t)>> ELSE <<>>) \o <<Health(f, row.ok_count)>>

(* Mutant of Transition: a candidate that passes is crawled at once.       *)
TransitionSkips(row, a) ==
    CASE row.tier = CANDIDATE /\ a.mirror -> <<Mark, SetTier(MIRROR), Health(0, 0)>>
      [] row.tier \in {CANDIDATE, MONITORED} /\ Passed(a) -> <<SetTier(ACTIVE), Health(0, 1)>>
      [] row.tier = ACTIVE /\ Passed(a) -> <<Health(row.fail_count, row.ok_count)>>
      [] row.tier = ACTIVE /\ ~Passed(a) -> Failing(row, INACTIVE)
      [] OTHER -> Failing(row, FAILED)

Transition(row, a) ==
    CASE row.tier = CANDIDATE /\ a.mirror -> <<Mark, SetTier(MIRROR), Health(0, 0)>>
      [] row.tier = CANDIDATE /\ Passed(a) -> <<SetTier(MONITORED), Health(0, 0)>>
      [] row.tier = MONITORED /\ Passed(a) -> <<SetTier(ACTIVE), Health(0, row.ok_count + 1)>>
      [] row.tier = ACTIVE /\ Passed(a) -> <<Health(row.fail_count, row.ok_count)>>
      [] row.tier = ACTIVE /\ ~Passed(a) -> Failing(row, INACTIVE)
      [] OTHER -> Failing(row, FAILED)

(* One site is sampled; up to a minute passes between its row and this.    *)
Assess(c) ==
    /\ check[c].pc \in {"list", "next"} /\ check[c].tiers = <<>>
    /\ \E s \in check[c].sites :
        /\ failures[s.domain] + passes[s.domain] < MaxAssessed
        /\ \E a \in Assessments(s.domain, check[c].library) :
            /\ check' = [check EXCEPT
                 ![c].pc = "write", ![c].sites = @ \ {s}, ![c].domain = s.domain,
                 ![c].row = s.row, ![c].writes = Transition(s.row, a)]
            /\ failures' = [failures EXCEPT ![s.domain] = @ + IF Passed(a) THEN 0 ELSE 1]
            /\ passes' = [passes EXCEPT ![s.domain] = @ + IF Passed(a) THEN 1 ELSE 0]
    /\ UNCHANGED <<roster, library, finder, crawler, runs>>

Applied(row, w) ==
    CASE w.kind = "mirror" -> [row EXCEPT !.is_mirror = TRUE]
      [] w.kind = "tier"   -> [row EXCEPT !.tier = w.tier]
      [] w.kind = "health" -> [row EXCEPT !.fail_count = w.fail_count, !.ok_count = w.ok_count]

WriteRow(c) ==
    /\ check[c].pc = "write" /\ check[c].writes # <<>>
    /\ roster' = [roster EXCEPT ![check[c].domain] = Applied(@, Head(check[c].writes))]
    /\ check' = [check EXCEPT ![c].writes = Tail(@)]
    /\ UNCHANGED <<library, finder, crawler, failures, passes, runs>>

(* The next site: all is written, or a write failed and is logged; or it   *)
(* is a dry run, which writes nothing.                                     *)
NextSite(c) ==
    /\ check[c].pc = "write"
    /\ check' = [check EXCEPT ![c].pc = "next", ![c].writes = <<>>, ![c].domain = Absent,
                              ![c].row = Absent]
    /\ UNCHANGED <<roster, library, finder, crawler, failures, passes, runs>>

CheckEnds(c) ==
    /\ check[c].pc # "idle"
    /\ check' = [check EXCEPT ![c] = NoCheck]
    /\ UNCHANGED <<roster, library, finder, crawler, failures, passes, runs>>

Check(c) == StartCheck(c) \/ ListTier(c) \/ Assess(c) \/ WriteRow(c) \/ NextSite(c)
            \/ CheckEnds(c)

(* ------------------------------ the crawl ------------------------------ *)

(* crawl_all_sources: the sources of the settings and list_active.         *)
StartCrawl ==
    /\ crawler.pc = "idle"
    /\ crawler' = [pc |-> "crawl", sites |-> YamlDomains \cup ListByTier(ACTIVE), got |-> {}]
    /\ UNCHANGED <<roster, library, check, finder, failures, passes, runs>>

(* One site after another; update_crawled_at of those of the roster.  A    *)
(* stamp that fails is logged.                                             *)
Stamped(d) == IF roster[d] = Absent THEN roster ELSE [roster EXCEPT ![d].crawled = TRUE]

CrawlSite ==
    /\ crawler.pc = "crawl"
    /\ \E d \in crawler.sites, n \in SampleSizes \cup {0} :
        /\ crawler' = [crawler EXCEPT !.sites = @ \ {d}, !.got = @ \cup Canonicals(d, n)]
        /\ roster' \in IF n = 0 THEN {roster} ELSE {roster, Stamped(d)}
    /\ UNCHANGED <<library, check, finder, failures, passes, runs>>

(* The items reach the library (run_prep_pipeline); or the crawl stops.    *)
CrawlEnds ==
    /\ crawler.pc = "crawl"
    /\ library' = IF crawler.sites = {} THEN library \cup crawler.got ELSE library
    /\ crawler' = NoCrawler
    /\ UNCHANGED <<roster, check, finder, failures, passes, runs>>

RosterNext ==
    \/ \E f \in Finders : Finder(f)
    \/ \E c \in Checks : Check(c)
    \/ StartCrawl \/ CrawlSite \/ CrawlEnds

RosterSpec == RosterInit /\ [][RosterNext]_rosterVars

-----------------------------------------------------------------------------
Site == [domain: Domains, row: Row]
Write == [kind: {"mirror"}] \cup [kind: {"tier"}, tier: Tiers]
         \cup [kind: {"health"}, fail_count: Nat, ok_count: Nat]

(* Every row and every program's memory has its type.                      *)
RosterTypeOK ==
    /\ roster \in [Domains -> Row \cup {Absent}]
    /\ library \subseteq Addresses
    /\ \A c \in Checks :
        /\ check[c].pc \in {"idle", "list", "next", "write"}
        /\ check[c].sites \subseteq Site
        /\ check[c].pc = "write" => [domain |-> check[c].domain, row |-> check[c].row] \in Site
        /\ check[c].writes \in Seq(Write)
    /\ \A f \in Finders : finder[f].known \subseteq Domains
    /\ crawler.sites \subseteq Domains /\ crawler.got \subseteq Addresses
    /\ failures \in [Domains -> Nat] /\ passes \in [Domains -> Nat]

(* No site is retired before three of its checks failed, whatever checks   *)
(* overlap or stop halfway: a failure is never counted twice.              *)
RetiredHadFailures ==
    \A d \in Domains : roster[d] # Absent /\ roster[d].tier \in {FAILED, INACTIVE}
        => failures[d] >= FAIL_THRESHOLD

(* A site that is crawled passed a check as a candidate and another one    *)
(* after it: no stale row and no two checks at once promote it twice.      *)
ActiveWasProved ==
    \A d \in Domains : roster[d] # Absent =>
        /\ roster[d].tier = MONITORED => passes[d] >= 1
        /\ roster[d].tier = ACTIVE => passes[d] >= 2

(* A site of tier mirror carries the flag, also when the check stopped     *)
(* between its writes.                                                     *)
MirrorIsFlagged ==
    \A d \in Domains : roster[d] # Absent /\ roster[d].tier = MIRROR => roster[d].is_mirror

(* Every tier is earned: the three above.                                  *)
TiersAreEarned == RetiredHadFailures /\ ActiveWasProved /\ MirrorIsFlagged

(* Tiers move along the edges of the machine of health_check_sources.py    *)
(* and a row is never set back to a new one: a discovery that runs beside  *)
(* a check misses no site that moves between its six queries.  (With one   *)
(* check and one discovery at a time.)                                     *)
Edges ==
    {<<CANDIDATE, MONITORED>>, <<CANDIDATE, MIRROR>>, <<CANDIDATE, FAILED>>,
     <<MONITORED, ACTIVE>>, <<MONITORED, FAILED>>, <<ACTIVE, INACTIVE>>}

TiersFollowMachine ==
    [][\A d \in Domains : roster[d] # Absent =>
        /\ roster'[d] # Absent
        /\ roster'[d].tier = roster[d].tier \/ <<roster[d].tier, roster'[d].tier>> \in Edges
        /\ roster[d].crawled => roster'[d].crawled]_rosterVars
=============================================================================

--------------------------- MODULE LibraryProofs ---------------------------
(***************************************************************************)
(* What the union-find of the clustering keeps, for any number of items    *)
(* and any pairs of them that are alike; and what the programs that write  *)
(* the scoop library keep of its tables, for any number of tasks, records  *)
(* and submitted URLs; and the scores, for any articles and settings.      *)
(***************************************************************************)
EXTENDS ScoopClusters, ScoopLibrary, ScoopScore, FiniteSetTheorems, FunctionTheorems,
        WellFoundedInduction, TLAPS

\* The forest hangs from smaller items, whatever the order of unions and halvings,
\* so that every find ends at a root (cluster.py:87-96).
THEOREM ForestHolds == ClusterSpec => []ForestOK
<1>1. ClusterInit => ForestOK
  BY ClusterAssumption DEF ClusterInit, ForestOK, Items
<1>2. ForestOK /\ [ClusterNext]_clusterVars => ForestOK'
  <2> SUFFICES ASSUME ForestOK, [ClusterNext]_clusterVars PROVE ForestOK'
    OBVIOUS
  <2> USE ClusterAssumption DEF ForestOK
  <2>1. CASE NextPair
    <3>1. PICK p \in pending : pending' = pending \ {p} /\ pair' = p
                 /\ (IF p \in alike THEN step' = "find" /\ at' = p ELSE UNCHANGED <<step, at>>)
      BY <2>1 DEF NextPair
    <3>2. p \in Pairs /\ p \in Items \X Items
      BY <3>1 DEF Pairs
    <3>3. step = "next" /\ parent' = parent
      BY <2>1 DEF NextPair
    <3> QED BY <3>1, <3>2, <3>3
  <2>2. ASSUME NEW k \in {1, 2}, Halve(k) PROVE ForestOK'
    <3>1. at \in Items \X Items /\ step = "find"
      BY <2>2 DEF Halve
    <3>2. at[k] \in Items
      BY <3>1
    <3>3. parent[at[k]] \in Items /\ parent[parent[at[k]]] \in Items
      BY <3>2
    <3>4. parent[parent[at[k]]] <= at[k]
      BY <3>2, <3>3 DEF Items
    <3>5. parent' = [parent EXCEPT ![at[k]] = parent[parent[at[k]]]]
      BY <2>2 DEF Halve
    <3>6. parent' \in [Items -> Items]
      BY <3>3, <3>5
    <3>7. \A x \in Items : parent'[x] <= x
      BY <3>2, <3>4, <3>5
    <3>8. at' \in Items \X Items
      <4>1. at' = [at EXCEPT ![k] = parent'[at[k]]] /\ parent'[at[k]] \in Items
        BY <2>2, <3>2, <3>6 DEF Halve
      <4> QED BY <3>1, <4>1
    <3> QED BY <2>2, <3>6, <3>7, <3>8 DEF Halve
  <2>3. CASE Union
    <3>1. at \in Items \X Items
      BY <2>3 DEF Union
    <3>2. Lower \in Items /\ Higher \in Items /\ Lower <= Higher
      BY <3>1 DEF Lower, Higher, Items
    <3>3. parent' = [parent EXCEPT ![Higher] = Lower]
      BY <2>3 DEF Union
    <3>4. parent' \in [Items -> Items] /\ \A x \in Items : parent'[x] <= x
      BY <3>2, <3>3
    <3> QED BY <2>3, <3>4 DEF Union
  <2>4. CASE Group
    BY <2>4 DEF Group
  <2>5. CASE UNCHANGED clusterVars
    BY <2>5 DEF clusterVars
  <2> QED BY <2>1, <2>2, <2>3, <2>4, <2>5 DEF ClusterNext
<1> QED BY <1>1, <1>2, PTL DEF ClusterSpec

-----------------------------------------------------------------------------
(* The trees of the forest are the components of the pairs united so far.  *)
(* Both are told by the sets that no tree, or no pair, crosses: a set is   *)
(* closed under the united pairs exactly if it is closed under parent.     *)

TreeClosed(D) == \A x \in Items : x \in D <=> parent[x] \in D

SameSets == \A D \in SUBSET Items : Closed(D, United) <=> TreeClosed(D)

ForestInv ==
  /\ SameSets
  /\ alike \subseteq Pairs
  /\ step = "find" => /\ pair \in alike /\ pair \notin pending
                      /\ \A D \in SUBSET Items : TreeClosed(D) =>
                            (at[1] \in D <=> pair[1] \in D) /\ (at[2] \in D <=> pair[2] \in D)

LEMMA HalvingKeepsTrees ==
  ASSUME ForestOK, NEW k \in {1, 2}, Halve(k)
  PROVE  /\ \A D \in SUBSET Items : TreeClosed(D)' <=> TreeClosed(D)
         /\ at[k] \in Items /\ parent[at[k]] \in Items
         /\ at' = [at EXCEPT ![k] = parent[parent[at[k]]]]
<1> DEFINE a == at[k]
<1>1. a \in Items /\ parent[a] \in Items /\ parent[a] # a
  BY DEF ForestOK, Halve
<1>2. parent' = [parent EXCEPT ![a] = parent[parent[a]]] /\ parent'[a] = parent[parent[a]]
  BY <1>1 DEF ForestOK, Halve
<1>3. parent'[parent[a]] = parent[parent[a]]
  BY <1>1, <1>2 DEF ForestOK
<1>4. at' = [at EXCEPT ![k] = parent[parent[a]]]
  BY <1>2 DEF Halve
<1>5. ASSUME NEW D \in SUBSET Items PROVE TreeClosed(D)' <=> TreeClosed(D)
  <2>1. ASSUME NEW x \in Items, x # a PROVE parent'[x] = parent[x]
    BY <1>2, <2>1 DEF ForestOK
  <2>2. TreeClosed(D) => TreeClosed(D)'
    BY <1>1, <1>2, <2>1 DEF TreeClosed
  <2>3. TreeClosed(D)' => TreeClosed(D)
    BY <1>1, <1>2, <1>3, <2>1 DEF TreeClosed
  <2> QED BY <2>2, <2>3
<1> QED BY <1>1, <1>4, <1>5

\* Two trees are joined and no other.
LEMMA UnionJoinsTrees ==
  ASSUME ForestOK, Union
  PROVE  /\ at[1] \in Items /\ at[2] \in Items
         /\ \A D \in SUBSET Items :
               TreeClosed(D)' <=> TreeClosed(D) /\ (at[1] \in D <=> at[2] \in D)
<1>1. at[1] \in Items /\ at[2] \in Items /\ parent[at[1]] = at[1] /\ parent[at[2]] = at[2]
  BY DEF ForestOK, Union
<1>2. \/ Lower = at[1] /\ Higher = at[2]
      \/ Lower = at[2] /\ Higher = at[1]
  BY DEF Lower, Higher
<1>3. /\ parent' = [parent EXCEPT ![Higher] = Lower]
      /\ Higher \in Items /\ parent[Higher] = Higher
  BY <1>1, <1>2 DEF Union
<1>4. parent'[Higher] = Lower /\ \A x \in Items : x # Higher => parent'[x] = parent[x]
  BY <1>3 DEF ForestOK
<1>5. ASSUME NEW D \in SUBSET Items
      PROVE  TreeClosed(D)' <=> TreeClosed(D) /\ (Higher \in D <=> Lower \in D)
  BY <1>3, <1>4 DEF TreeClosed
<1> QED BY <1>1, <1>2, <1>5

LEMMA ForestStep == ForestOK /\ ForestInv /\ [ClusterNext]_clusterVars => ForestInv'
<1> SUFFICES ASSUME ForestOK, ForestInv, [ClusterNext]_clusterVars PROVE ForestInv'
  OBVIOUS
<1>1. CASE NextPair
  <2>1. PICK p \in pending :
          /\ pending' = pending \ {p} /\ pair' = p
          /\ IF p \in alike THEN step' = "find" /\ at' = p ELSE UNCHANGED <<step, at>>
    BY <1>1 DEF NextPair
  <2>2. step = "next" /\ UNCHANGED <<alike, parent>>
    BY <1>1 DEF NextPair
  <2>3. United' = United
    BY <2>1, <2>2 DEF United
  <2>4. SameSets'
    BY <2>2, <2>3 DEF ForestInv, SameSets, TreeClosed
  <2> QED BY <2>1, <2>2, <2>4 DEF ForestInv
<1>2. ASSUME NEW k \in {1, 2}, Halve(k) PROVE ForestInv'
  <2>1. /\ \A D \in SUBSET Items : TreeClosed(D)' <=> TreeClosed(D)
        /\ at[k] \in Items /\ parent[at[k]] \in Items
        /\ at' = [at EXCEPT ![k] = parent[parent[at[k]]]]
    BY <1>2, HalvingKeepsTrees
  <2>2. UNCHANGED <<alike, pending, pair, step>> /\ step = "find" /\ at \in Items \X Items
    BY <1>2 DEF Halve, ForestOK
  <2>3. United' = United
    BY <2>2 DEF United
  <2>4. SameSets'
    BY <2>1, <2>3 DEF ForestInv, SameSets
  <2>5. ASSUME NEW D \in SUBSET Items, TreeClosed(D)'
        PROVE  (at'[1] \in D <=> pair'[1] \in D) /\ (at'[2] \in D <=> pair'[2] \in D)
    <3>1. TreeClosed(D)
      BY <2>1, <2>5
    <3>2. at[k] \in D <=> parent[parent[at[k]]] \in D
      BY <2>1, <3>1 DEF TreeClosed
    <3>3. \A j \in {1, 2} : at'[j] \in D <=> at[j] \in D
      BY <2>1, <2>2, <3>2
    <3> QED BY <2>2, <3>1, <3>3 DEF ForestInv
  <2> QED BY <2>2, <2>4, <2>5 DEF ForestInv
<1>3. CASE Union
  <2>1. /\ UNCHANGED <<alike, pending, pair, at>> /\ step = "find" /\ step' = "next"
        /\ pair \in alike /\ pair \notin pending
    BY <1>3 DEF Union, ForestInv
  <2>2. United' = United \cup {pair}
    BY <2>1 DEF United
  <2>3. ASSUME NEW D \in SUBSET Items PROVE Closed(D, United') <=> TreeClosed(D)'
    <3>1. Closed(D, United') <=> Closed(D, United) /\ (pair[1] \in D <=> pair[2] \in D)
      BY <2>2 DEF Closed
    <3>2. Closed(D, United) <=> TreeClosed(D)
      BY DEF ForestInv, SameSets
    <3>3. TreeClosed(D) => (at[1] \in D <=> pair[1] \in D) /\ (at[2] \in D <=> pair[2] \in D)
      BY <2>1 DEF ForestInv
    <3>4. TreeClosed(D)' <=> TreeClosed(D) /\ (at[1] \in D <=> at[2] \in D)
      BY <1>3, UnionJoinsTrees
    <3> QED BY <3>1, <3>2, <3>3, <3>4
  <2> QED BY <2>1, <2>3 DEF ForestInv, SameSets
<1>4. CASE Group
  <2>1. UNCHANGED <<alike, parent, pending, pair, at>> /\ step = "next" /\ step' = "done"
    BY <1>4 DEF Group
  <2>2. United' = United
    BY <2>1 DEF United
  <2> QED BY <2>1, <2>2 DEF ForestInv, SameSets, TreeClosed
<1>5. CASE UNCHANGED clusterVars
  <2>1. United' = United
    BY <1>5 DEF clusterVars, United
  <2> QED BY <1>5, <2>1 DEF clusterVars, ForestInv, SameSets, TreeClosed
<1> QED BY <1>1, <1>2, <1>3, <1>4, <1>5 DEF ClusterNext

LEMMA ForestInit == ClusterInit => ForestInv
<1> SUFFICES ASSUME ClusterInit PROVE ForestInv
  OBVIOUS
<1>1. alike \subseteq Pairs
  BY ClusterAssumption DEF ClusterInit
<1>2. United = {}
  BY <1>1 DEF ClusterInit, United
<1>3. \A D : Closed(D, {}) /\ TreeClosed(D)
  BY DEF Closed, TreeClosed, ClusterInit
<1> QED BY <1>1, <1>2, <1>3 DEF ForestInv, SameSets, ClusterInit

\* The numbers have their least element in every set of items.
LEMMA LeastItem ==
  ASSUME NEW C \in SUBSET Items, C # {}
  PROVE  \E r \in C : \A x \in C : r <= x
<1>1. C \subseteq Nat
  BY ClusterAssumption DEF Items
<1>2. PICK r \in C : \A x \in C : ~ (<<x, r>> \in OpToRel(<, Nat))
  BY <1>1, NatLessThanWellFounded, WFMin
<1>3. \A x \in C : ~ (x < r)
  BY <1>1, <1>2 DEF OpToRel
<1> QED BY <1>1, <1>3

\* What hangs under a root is a tree that holds no other root.
LEMMA OneTreeOfRoot ==
  ASSUME ForestOK, NEW r \in Roots
  PROVE  \E T \in SUBSET Items : r \in T /\ TreeClosed(T) /\ T \cap Roots = {r}
<1> DEFINE Down(D) == r \in D /\ \A y \in Items : parent[y] \in D => y \in D
<1> DEFINE T == {x \in Items : \A D \in SUBSET Items : Down(D) => x \in D}
<1>1. r \in Items /\ parent[r] = r /\ parent \in [Items -> Items]
  BY DEF Roots, ForestOK
<1>2. Down(T)
  BY <1>1
<1>3. ASSUME NEW y \in T, Down(T \ {y}) PROVE FALSE
  BY <1>3
<1>4. ASSUME NEW y \in T PROVE parent[y] \in T
  <2> SUFFICES ASSUME parent[y] \notin T, y # r PROVE Down(T \ {y})
    BY <1>1, <1>2, <1>3
  <2> HIDE DEF T
  <2> QED BY <1>2
<1>5. ASSUME NEW s \in T, s \in Roots, s # r PROVE FALSE
  <2>1. parent[s] = s
    BY <1>5 DEF Roots
  <2>2. Down(T \ {s})
    <3> HIDE DEF T
    <3> QED BY <1>2, <1>5, <2>1
  <2> QED BY <1>3, <2>2
<1>6. T \in SUBSET Items
  OBVIOUS
<1> HIDE DEF T
<1>7. TreeClosed(T)
  BY <1>2, <1>4 DEF TreeClosed
<1>8. T \cap Roots = {r}
  BY <1>2, <1>5
<1> QED BY <1>2, <1>6, <1>7, <1>8

\* At every point of the double loop, between two halvings as well, the trees are the
\* connected components of the pairs united so far, each under its smallest item, for
\* any number of items and any pairs of them that are alike.
THEOREM GroupsHold == ClusterSpec => []GroupsAreComponents
<1>1. ForestOK /\ ForestInv => GroupsAreComponents
  <2> SUFFICES ASSUME ForestOK, ForestInv, NEW C \in Components(United)
               PROVE  /\ \A x \in C : parent[x] \in C
                      /\ \E r \in C : C \cap Roots = {r} /\ \A x \in C : r <= x
    BY DEF GroupsAreComponents
  <2>1. /\ C \in SUBSET Items /\ C # {} /\ TreeClosed(C)
        /\ \A D \in SUBSET Items : D # {} /\ D \subseteq C /\ TreeClosed(D) => D = C
    BY DEF Components, ForestInv, SameSets
  <2>2. \A x \in C : parent[x] \in C
    BY <2>1 DEF TreeClosed
  <2>3. PICK r \in C : \A x \in C : r <= x
    BY <2>1, LeastItem
  <2>4. r \in Roots
    <3>1. r \in Items /\ parent[r] \in Items /\ parent[r] <= r /\ r <= parent[r]
      BY <2>1, <2>2, <2>3 DEF ForestOK
    <3> QED BY <3>1, ClusterAssumption DEF Roots, Items
  <2>5. PICK T \in SUBSET Items : r \in T /\ TreeClosed(T) /\ T \cap Roots = {r}
    BY <2>4, OneTreeOfRoot
  <2>6. T \cap C = C
    <3>1. TreeClosed(T \cap C)
      BY <2>1, <2>5 DEF TreeClosed
    <3> QED BY <2>1, <2>5, <3>1
  <2> QED BY <2>2, <2>3, <2>4, <2>5, <2>6
<1> QED BY <1>1, ForestHolds, ForestInit, ForestStep, PTL DEF ClusterSpec
-----------------------------------------------------------------------------
(* The library: three invariants, of the tables, of the gossip rows and of *)
(* the articles, the last two on the first.                                *)

Table == [Urls -> ItemRow \cup {Nothing}]

Tables  == {"items", "scoops", "articles", "gossip"}
SummaryFields == {"id", "sources", "rep", "latest", "scored"}
Writing == {"next", "members", "cache", "chat", "put", "build"}

ScoopsOf(scoops) == {s.id : s \in scoops}

(* Scoops and the stamps on the items agree.                               *)
Agree(items, scoops) ==
  /\ \A s \in scoops : /\ DOMAIN s = SummaryFields /\ s.id \in SUBSET Urls
                       /\ Members(items, s.id) = s.id
  /\ \A u \in Stored(items) : items[u].scoop \in ScoopsOf(scoops) \cup {Nothing}
  /\ \A r, s \in scoops : r.id = s.id => r = s

MemoryIsKnown(m, items) ==
  /\ DOMAIN m = DOMAIN NoTask
  /\ m.pc = "idle" => m = NoTask
  /\ m.batch \in Seq(Versions)
  /\ m.ids \subseteq SUBSET Urls
  /\ m.scoop \in (SUBSET Urls) \cup {Nothing}
  /\ m.pc = "assign" => m.items \in Table /\ Stored(m.items) \subseteq Stored(items)

TablesInv ==
  /\ DOMAIN db = Tables
  /\ db.items \in Table
  /\ Agree(db.items, db.scoops)
  /\ NothingUnscored
  /\ started \in Nat
  /\ DOMAIN task = Tasks
  /\ \A t \in Tasks : MemoryIsKnown(task[t], db.items)

CacheEntry(body) == [key |-> body.of, body |-> body]

Undisturbed == events \cap {"died", "overlap"} = {}

(* What a generation job knows of the scoop it is at.                      *)
WriterKnows(m) ==
  /\ m.kind = "generate" <=> m.pc \in Writing
  /\ m.kind # "generate" => m.put = {}
  /\ m.pc \in Writing \ {"next"} => m.scoop # Nothing
  /\ m.pc \in {"cache", "chat", "put", "build"} => Len(m.material) = Cardinality(m.scoop)
  /\ m.pc \in {"put", "build"} => m.body.of = m.material
  /\ \A a \in m.put : a = CacheEntry(a.body)

(* What it put replaces nothing that is committed, and it asks the model   *)
(* only for what is neither.                                               *)
PutIsNew(m, articles) ==
  /\ \A a \in articles, b \in m.put : a.key # b.key
  /\ m.pc \in {"chat", "put"} => \A a \in articles \cup m.put : a.key # m.material
  /\ m.pc = "build" => CacheEntry(m.body) \in articles \cup m.put

PackagesAreCached ==
  \A p \in packages : \/ CacheEntry(p.body) \in db.articles
                      \/ \E t \in Generating : CacheEntry(p.body) \in task[t].put

CacheInv ==
  /\ \A t \in Tasks : WriterKnows(task[t])
  /\ \A a \in db.articles : a = CacheEntry(a.body)
  /\ ArticleIsOfItsScoop
  /\ Undisturbed => /\ \A t, r \in Generating : t = r
                    /\ PackagesAreCached
                    /\ \A t \in Generating : PutIsNew(task[t], db.articles)

Crawling == {"crawl", "gossip-done", "gossip-failed"}

UrlIsKnown(m) ==
  /\ m.url \in Materials \cup {Nothing}
  /\ m.url # Nothing <=> m.pc \in Crawling

GossipInv ==
  /\ db.gossip \in [Materials -> GossipRow \cup {Nothing}]
  /\ GossipIsTruthful
  /\ \A t \in Tasks : UrlIsKnown(task[t])

-----------------------------------------------------------------------------
(* What an ingest does to the table of items: induction over the batch.    *)

\* A set of numbers with 0 and every successor has them all.
LEMMA NatSubsets ==
  ASSUME NEW S, 0 \in S, \A n \in Nat : n \in S => n + 1 \in S
  PROVE  \A n \in Nat : n \in S
<1> SUFFICES ASSUME NEW m \in Nat, m \notin S PROVE FALSE
  OBVIOUS
<1> DEFINE T == {n \in Nat : n \notin S}
<1>1. PICK n \in T : \A x \in T : ~ (<<x, n>> \in OpToRel(<, Nat))
  <2>1. T \subseteq Nat /\ T # {}
    OBVIOUS
  <2> HIDE DEF T
  <2> QED BY <2>1, NatLessThanWellFounded, WFMin
<1>2. n \in Nat /\ n # 0 /\ n - 1 \in Nat /\ (n - 1) + 1 = n /\ n - 1 < n
  OBVIOUS
<1>3. n - 1 \in T
  BY <1>2
<1> QED BY <1>1, <1>2, <1>3 DEF OpToRel

(* Rows are added, their first sight, scoop and text are kept.             *)
Extends(new, old) ==
  /\ \A u \in Urls : old[u] # Nothing =>
        /\ new[u] # Nothing /\ new[u].first = old[u].first /\ new[u].scoop = old[u].scoop
        /\ old[u].text # Nothing => new[u].text # Nothing
  /\ \A u \in Urls : old[u] = Nothing /\ new[u] # Nothing => new[u].scoop = Nothing

\* Of two ingests after one another.
LEMMA ExtendsOften ==
  ASSUME NEW a, NEW b, NEW c, Extends(b, a), Extends(c, b) PROVE Extends(c, a)
<1>1. \A u \in Urls : a[u] # Nothing =>
        /\ c[u] # Nothing /\ c[u].first = a[u].first /\ c[u].scoop = a[u].scoop
        /\ a[u].text # Nothing => c[u].text # Nothing
  BY DEF Extends
<1>2. ASSUME NEW u \in Urls, a[u] = Nothing, c[u] # Nothing PROVE c[u].scoop = Nothing
  BY <1>2 DEF Extends
<1> QED BY <1>1, <1>2 DEF Extends

\* upsert keeps a row's first sight, scoop and text (library.py:109-136).
LEMMA UpsertExtends ==
  ASSUME NEW items \in Table, NEW v \in Sighting, NEW from \in {"site", "user"}, NEW now \in Nat
  PROVE  LET new == Upserted(items, v, from, now)
         IN  new \in Table /\ Extends(new, items) /\ new[v.url] # Nothing
<1> DEFINE old == items[v.url]
           fresh == [title |-> v.title, text |-> v.text, desc |-> v.desc, date |-> v.date,
                     source |-> from, first |-> now, scoop |-> Nothing]
           kept == [old EXCEPT !.title = v.title, !.text = Coalesce(v.text, old.text),
                               !.desc = Coalesce(v.desc, old.desc),
                               !.date = Coalesce(v.date, old.date), !.source = from]
           row == IF old = Nothing THEN fresh ELSE kept
           new == Upserted(items, v, from, now)
<1>1. /\ v.url \in Urls /\ v.title \in Titles /\ v.text \in Texts /\ v.desc \in Descs
      /\ v.date \in Dates /\ DOMAIN items = Urls
  BY DEF Sighting, Table
<1>2. new = [items EXCEPT ![v.url] = row]
  BY DEF Upserted
<1>3. fresh \in ItemRow
  BY <1>1 DEF ItemRow
<1>4. ASSUME old # Nothing
      PROVE  /\ kept \in ItemRow /\ kept.first = old.first /\ kept.scoop = old.scoop
             /\ old.text # Nothing => kept.text # Nothing
  <2>1. old \in ItemRow
    BY <1>1, <1>4 DEF Table
  <2>2. /\ Coalesce(v.text, old.text) \in Texts /\ Coalesce(v.desc, old.desc) \in Descs
        /\ Coalesce(v.date, old.date) \in Dates
        /\ old.text # Nothing => Coalesce(v.text, old.text) # Nothing
    BY <1>1, <2>1 DEF ItemRow, Coalesce
  <2> QED BY <1>1, <2>1, <2>2 DEF ItemRow
<1>5. row \in ItemRow /\ row # Nothing
  BY <1>3, <1>4, LibraryAssumption
<1>6. /\ old # Nothing => /\ row.first = old.first /\ row.scoop = old.scoop
                          /\ old.text # Nothing => row.text # Nothing
      /\ old = Nothing => row.scoop = Nothing
  <2> HIDE DEF kept
  <2> QED BY <1>4
<1> HIDE DEF row
<1>7. new \in Table /\ new[v.url] = row /\ \A u \in Urls \ {v.url} : new[u] = items[u]
  BY <1>1, <1>2, <1>5 DEF Table
<1>8. Extends(new, items)
  <2> HIDE DEF new
  <2> QED BY <1>5, <1>6, <1>7 DEF Extends
<1> QED BY <1>5, <1>7, <1>8

IsIngesting(it, items, s, from, now, n) ==
  it = [p \in SUBSET (1..n) |->
          IF p = {} THEN items ELSE Upserted(it[p \ {Max(p)}], s[Max(p)], from, now)]

\* The fold of an ingest takes the last record of the batch last.
LEMMA NextIsMax ==
  ASSUME NEW n \in Nat, NEW p \in SUBSET (1..(n + 1)), n + 1 \in p PROVE Max(p) = n + 1
<1>1. \A x \in p : x \in Nat /\ n + 1 >= x
  OBVIOUS
<1>2. \A x \in p : (\A y \in p : x >= y) => x = n + 1
  BY <1>1
<1> QED BY <1>1, <1>2 DEF Max

\* The fold over a batch exists, however long that is.
LEMMA IngestingExists ==
  ASSUME NEW items, NEW s, NEW from, NEW now
  PROVE  \A n \in Nat : \E it : IsIngesting(it, items, s, from, now, n)
<1> DEFINE S == {n \in Nat : \E it : IsIngesting(it, items, s, from, now, n)}
           Up(acc, x) == Upserted(acc, s[x], from, now)
<1>1. 0 \in S
  <2> DEFINE it == [p \in SUBSET (1..0) |-> items]
  <2>1. \A p \in SUBSET (1..0) : p = {}
    OBVIOUS
  <2>2. IsIngesting(it, items, s, from, now, 0)
    BY <2>1 DEF IsIngesting
  <2> QED BY <2>2
<1>2. ASSUME NEW n \in Nat, n \in S PROVE n + 1 \in S
  <2>1. PICK it : IsIngesting(it, items, s, from, now, n)
    BY <1>2
  <2> DEFINE all == SUBSET (1..(n + 1))
             jt == [p \in all |-> IF n + 1 \in p THEN Up(it[p \ {n + 1}], n + 1) ELSE it[p]]
             Follows(p) == IF p = {} THEN items ELSE Up(jt[p \ {Max(p)}], Max(p))
  <2>a. \A p : IsIngesting(it, items, s, from, now, n) => 
            it = [q \in SUBSET (1..n) |-> IF q = {} THEN items ELSE Up(it[q \ {Max(q)}], Max(q))]
    BY DEF IsIngesting
  <2> HIDE DEF Up
  <2>2. ASSUME NEW p \in all, n + 1 \in p PROVE jt[p] = Follows(p)
    <3>1. Max(p) = n + 1 /\ p # {} /\ p \ {n + 1} \in all /\ n + 1 \notin p \ {n + 1}
      BY <2>2, NextIsMax
    <3>2. jt[p \ {n + 1}] = it[p \ {n + 1}]
      BY <3>1
    <3> QED BY <2>2, <3>1, <3>2
  <2>3. ASSUME NEW p \in all, n + 1 \notin p PROVE jt[p] = Follows(p)
    <3>1. p \in SUBSET (1..n) /\ jt[p] = it[p]
      BY <2>3
    <3>2. p \ {Max(p)} \in all /\ n + 1 \notin p \ {Max(p)}
      BY <2>3
    <3>3. jt[p \ {Max(p)}] = it[p \ {Max(p)}]
      BY <3>2
    <3>4. it[p] = IF p = {} THEN items ELSE Up(it[p \ {Max(p)}], Max(p))
      BY <2>1, <2>a, <3>1
    <3> QED BY <3>1, <3>3, <3>4
  <2>4. jt = [p \in all |-> jt[p]]
    OBVIOUS
  <2>5. \A p \in all : jt[p] = Follows(p)
    BY <2>2, <2>3
  <2>6. jt = [p \in all |-> Follows(p)]
    <3> HIDE DEF jt, Follows
    <3> QED BY <2>4, <2>5
  <2>7. IsIngesting(jt, items, s, from, now, n + 1)
    <3> HIDE DEF jt
    <3> QED BY <2>6 DEF IsIngesting, Up
  <2> QED BY <2>7
<1> HIDE DEF S
<1>3. \A n \in Nat : n \in S
  BY <1>1, <1>2, NatSubsets
<1> QED BY <1>3 DEF S

\* ingest_to_library: every record of the batch has a row, and no row is lost
\* (library_ingest.py:56-65).
LEMMA IngestExtends ==
  ASSUME NEW items \in Table, NEW s \in Seq(Sighting), NEW from \in {"site", "user"}, NEW now \in Nat
  PROVE  LET new == Ingested(items, s, from, now)
         IN  /\ new \in Table /\ Extends(new, items)
             /\ \A i \in DOMAIN s : new[s[i].url] # Nothing
<1> DEFINE N == Len(s)
           it == CHOOSE f : IsIngesting(f, items, s, from, now, N)
<1>1. N \in Nat /\ DOMAIN s = 1..N /\ \A i \in 1..N : s[i] \in Sighting
  OBVIOUS
<1>2. Ingested(items, s, from, now) = it[1..N]
  BY <1>1 DEF Ingested, FoldLeft, MapThenFoldSet, IsIngesting
<1>3. IsIngesting(it, items, s, from, now, N)
  BY <1>1, IngestingExists
<1> HIDE DEF it, N
<1> DEFINE Fine(k) == /\ it[1..k] \in Table /\ Extends(it[1..k], items)
                      /\ \A i \in 1..k : it[1..k][s[i].url] # Nothing
           K == {k \in Nat : k <= N => Fine(k)}
<1>4. 0 \in K
  <2>1. 1..0 = {} /\ {} \in SUBSET (1..N)
    OBVIOUS
  <2>2. it[1..0] = items
    BY <1>3, <2>1 DEF IsIngesting
  <2>3. Fine(0)
    BY <2>1, <2>2 DEF Extends
  <2> HIDE DEF Fine
  <2> QED BY <2>3
<1>5. ASSUME NEW k \in Nat, k \in K PROVE k + 1 \in K
  <2> SUFFICES ASSUME k + 1 <= N PROVE Fine(k + 1)
    OBVIOUS
  <2> DEFINE t == it[1..k]
             v == s[k + 1]
             r == it[1..(k + 1)]
  <2>1. t \in Table /\ Extends(t, items) /\ \A i \in 1..k : t[s[i].url] # Nothing
    BY <1>1, <1>5
  <2>2. /\ 1..(k + 1) \in SUBSET (1..N) /\ 1..(k + 1) # {} /\ k + 1 \in 1..(k + 1)
        /\ (1..(k + 1)) \ {k + 1} = 1..k /\ v \in Sighting
    <3>1. k + 1 \in 1..N /\ k + 1 \in 1..(k + 1) /\ 1..(k + 1) \in SUBSET (1..N)
      BY <1>1
    <3>2. (1..(k + 1)) \ {k + 1} = 1..k
      OBVIOUS
    <3> QED BY <1>1, <3>1, <3>2
  <2>3. Max(1..(k + 1)) = k + 1
    BY <2>2, NextIsMax
  <2>4. r = Upserted(t, v, from, now)
    BY <1>3, <2>2, <2>3 DEF IsIngesting
  <2> HIDE DEF t, v, r
  <2>5. r \in Table /\ Extends(r, t) /\ r[v.url] # Nothing
    BY <2>1, <2>2, <2>4, UpsertExtends
  <2>6. Extends(r, items)
    BY <2>1, <2>5, ExtendsOften
  <2>7. ASSUME NEW i \in 1..(k + 1) PROVE r[s[i].url] # Nothing
    <3>1. CASE i = k + 1
      BY <2>5, <3>1 DEF v
    <3>2. CASE i # k + 1
      <4>1. i \in 1..k /\ i \in 1..N
        BY <1>1, <2>2, <3>2
      <4>2. s[i].url \in Urls
        BY <1>1, <4>1 DEF Sighting
      <4> QED BY <2>1, <2>5, <4>1, <4>2 DEF Extends
    <3> QED BY <3>1, <3>2
  <2> QED BY <2>5, <2>6, <2>7 DEF r
<1> HIDE DEF Fine
<1>6. \A k \in Nat : k \in K
  <2> HIDE DEF K
  <2> QED BY <1>4, <1>5, NatSubsets
<1>7. Fine(N)
  BY <1>1, <1>6
<1> QED BY <1>1, <1>2, <1>7 DEF Fine

-----------------------------------------------------------------------------
(* The scoops and the stamps on the items: groups are disjoint, so that an *)
(* item is stamped with the one it is in.                                  *)

\* Two groups of the clustering that share an item are the same.
LEMMA GroupsAreDisjoint ==
  ASSUME NEW items, NEW C \in Grouped(items), NEW D \in Grouped(items), NEW u \in C, u \in D
  PROVE  C = D
<1> DEFINE closed(A) == \A x \in A, y \in Stored(items) \ A : ~Alike(items[x], items[y])
<1>1. /\ C \subseteq Stored(items) /\ closed(C)
      /\ \A A \in (SUBSET C) \ {{}} : closed(A) => A = C
  BY DEF Grouped
<1>2. /\ D \subseteq Stored(items) /\ closed(D)
      /\ \A A \in (SUBSET D) \ {{}} : closed(A) => A = D
  BY DEF Grouped
<1>3. closed(C \cap D)
  BY <1>1, <1>2
<1>4. C \cap D \in (SUBSET C) \ {{}} /\ C \cap D \in (SUBSET D) \ {{}}
  OBVIOUS
<1> HIDE DEF closed
<1> QED BY <1>1, <1>2, <1>3, <1>4

\* assign_clusters makes scoops and stamps agree whatever list of the items it was
\* given (library.py:167-199).
LEMMA AssignedAgrees ==
  ASSUME NEW d, DOMAIN d = Tables, d.items \in Table,
         NEW listed \in Table, Stored(listed) \subseteq Stored(d.items)
  PROVE  LET new == Assigned(d, listed)
         IN  /\ DOMAIN new = Tables /\ new.articles = d.articles /\ new.gossip = d.gossip
             /\ new.items \in Table /\ Agree(new.items, new.scoops)
             /\ \A u \in Urls : d.items[u] # Nothing =>
                   /\ new.items[u] # Nothing /\ new.items[u].first = d.items[u].first
                   /\ new.items[u].text = d.items[u].text
             /\ \A s \in new.scoops : s.id \in SUBSET Urls
             /\ \A s \in new.scoops : \A u \in s.id : new.items[u].scoop # Nothing
<1> DEFINE groups == Grouped(listed)
           Of(u) == CHOOSE C \in groups : u \in C
           stamp(u) == IF \E C \in groups : u \in C THEN Of(u) ELSE Nothing
           items == [u \in Urls |-> IF d.items[u] = Nothing THEN Nothing
                                    ELSE [d.items[u] EXCEPT !.scoop = stamp(u)]]
           scoops == {Summary(listed, C) : C \in groups}
           new == Assigned(d, listed)
<1>1. new = [d EXCEPT !.items = items, !.scoops = scoops]
  BY DEF Assigned, ScoopId
<1>2. /\ DOMAIN new = Tables /\ new.articles = d.articles /\ new.gossip = d.gossip
      /\ new.items = items /\ new.scoops = scoops
  <2> HIDE DEF items, scoops, new
  <2> QED BY <1>1 DEF Tables
<1>3. ASSUME NEW C \in groups
      PROVE  C \in SUBSET Urls /\ C \subseteq Stored(d.items) /\ C # Nothing
  BY <1>3, LibraryAssumption DEF Grouped, Stored
<1>4. ASSUME NEW C \in groups, NEW u \in C PROVE stamp(u) = C
  <2>1. Of(u) \in groups /\ u \in Of(u)
    BY <1>4
  <2> QED BY <1>4, <2>1, GroupsAreDisjoint
<1>5. \A u \in Urls : stamp(u) \in (SUBSET Urls) \cup {Nothing}
  <2> SUFFICES ASSUME NEW u \in Urls, NEW C \in groups, u \in C PROVE stamp(u) \in SUBSET Urls
    OBVIOUS
  <2>1. stamp(u) = C
    BY <1>4
  <2> HIDE DEF stamp, groups
  <2> QED BY <1>3, <2>1
<1> HIDE DEF stamp
<1>6. ASSUME NEW u \in Urls, d.items[u] # Nothing
      PROVE  /\ items[u] \in ItemRow /\ items[u] # Nothing /\ items[u].scoop = stamp(u)
             /\ items[u].first = d.items[u].first /\ items[u].text = d.items[u].text
  <2>1. d.items[u] \in ItemRow
    BY <1>6 DEF Table
  <2>2. items[u] = [d.items[u] EXCEPT !.scoop = stamp(u)]
    BY <1>6
  <2> HIDE DEF items
  <2>3. items[u] \in ItemRow /\ items[u].scoop = stamp(u) /\ items[u].first = d.items[u].first
        /\ items[u].text = d.items[u].text
    BY <1>5, <2>1, <2>2 DEF ItemRow
  <2> QED BY <2>3, LibraryAssumption
<1>7. \A u \in Urls : d.items[u] = Nothing => items[u] = Nothing
  OBVIOUS
<1>8. items \in Table
  <2>1. \A u \in Urls : items[u] \in ItemRow \cup {Nothing}
    <3> HIDE DEF items
    <3> QED BY <1>6, <1>7
  <2> QED BY <2>1 DEF Table
<1>9. \A C : Summary(listed, C).id = C /\ DOMAIN Summary(listed, C) = SummaryFields
  BY DEF Summary, ScoopId, SummaryFields
<1>10. /\ \A s \in scoops : s.id \in groups /\ s = Summary(listed, s.id) /\ DOMAIN s = SummaryFields
       /\ \A C \in groups : C \in ScoopsOf(scoops)
  <2>1. \A s \in scoops : s.id \in groups /\ s = Summary(listed, s.id) /\ DOMAIN s = SummaryFields
    BY <1>9
  <2>2. ASSUME NEW C \in groups PROVE C \in ScoopsOf(scoops)
    <3>1. Summary(listed, C) \in scoops /\ Summary(listed, C).id = C
      BY <1>9
    <3> QED BY <3>1 DEF ScoopsOf
  <2> QED BY <2>1, <2>2
<1> HIDE DEF items, scoops, groups
<1>11. Stored(items) = Stored(d.items)
  BY <1>6, <1>7 DEF Stored
<1>12. \A u \in Urls : stamp(u) # Nothing => stamp(u) \in groups /\ u \in stamp(u)
  BY DEF stamp
<1>13. ASSUME NEW s \in scoops PROVE Members(items, s.id) = s.id
  <2>1. s.id \in groups /\ s.id # Nothing /\ s.id \subseteq Stored(d.items)
    BY <1>3, <1>10
  <2>2. ASSUME NEW u \in Stored(items) PROVE items[u].scoop = s.id <=> u \in s.id
    <3>1. u \in Urls /\ d.items[u] # Nothing /\ items[u].scoop = stamp(u)
      BY <1>6, <1>11 DEF Stored
    <3> QED BY <1>4, <1>12, <2>1, <3>1
  <2> QED BY <1>11, <2>1, <2>2 DEF Members
<1>14. \A u \in Stored(items) : items[u].scoop \in ScoopsOf(scoops) \cup {Nothing}
  BY <1>6, <1>10, <1>11, <1>12 DEF Stored
<1>15. \A r, s \in scoops : r.id = s.id => r = s
  BY <1>10
<1>16. Agree(items, scoops) /\ \A s \in scoops : s.id \in SUBSET Urls
  BY <1>3, <1>10, <1>13, <1>14, <1>15 DEF Agree
<1>17. \A s \in scoops : \A u \in s.id : items[u].scoop # Nothing
  <2> SUFFICES ASSUME NEW s \in scoops, NEW u \in s.id PROVE items[u].scoop # Nothing
    OBVIOUS
  <2>1. s.id \in groups /\ s.id \subseteq Stored(d.items) /\ s.id # Nothing
    BY <1>3, <1>10
  <2> QED BY <1>4, <1>6, <2>1 DEF Stored
<1> QED BY <1>2, <1>6, <1>8, <1>16, <1>17

\* score_all changes no scoop but for its score.
LEMMA ScoredAgrees ==
  ASSUME NEW d, DOMAIN d = Tables, Agree(d.items, d.scoops), NEW ids
  PROVE  LET new == Scored(d, ids)
         IN  /\ DOMAIN new = Tables /\ new.articles = d.articles /\ new.gossip = d.gossip
             /\ new.items = d.items /\ Agree(new.items, new.scoops)
             /\ ScoopsOf(new.scoops) = ScoopsOf(d.scoops)
             /\ \A s \in new.scoops :
                  (s.id \in ids \/ (\A r \in d.scoops : r.scored)) => s.scored
<1> DEFINE Mark(s) == [s EXCEPT !.scored = @ \/ s.id \in ids]
           scoops == {Mark(s) : s \in d.scoops}
           new == Scored(d, ids)
<1>1. new = [d EXCEPT !.scoops = scoops]
  BY DEF Scored
<1>2. /\ DOMAIN new = Tables /\ new.articles = d.articles /\ new.gossip = d.gossip
      /\ new.items = d.items /\ new.scoops = scoops
  <2> HIDE DEF scoops, new
  <2> QED BY <1>1 DEF Tables
<1>3. ASSUME NEW s \in d.scoops
      PROVE  /\ DOMAIN Mark(s) = SummaryFields /\ Mark(s).id = s.id
             /\ (s.id \in ids \/ s.scored) => Mark(s).scored
  BY DEF Agree, SummaryFields
<1> HIDE DEF Mark
<1>4. \A r \in scoops : \E s \in d.scoops : r = Mark(s)
  OBVIOUS
<1>5. \A s \in d.scoops : Mark(s) \in scoops
  OBVIOUS
<1> HIDE DEF scoops
<1>6. ScoopsOf(scoops) = ScoopsOf(d.scoops)
  BY <1>3, <1>4, <1>5 DEF ScoopsOf
<1>7. Agree(d.items, scoops)
  BY <1>3, <1>4, <1>6 DEF Agree
<1>8. \A s \in scoops : (s.id \in ids \/ (\A r \in d.scoops : r.scored)) => s.scored
  BY <1>3, <1>4
<1> QED BY <1>2, <1>6, <1>7, <1>8

\* An ingest between a listing and an assignment disturbs no scoop: a new row has none.
LEMMA ExtendsAgrees ==
  ASSUME NEW old, NEW new, NEW scoops, Agree(old, scoops), Extends(new, old)
  PROVE  Agree(new, scoops) /\ Stored(old) \subseteq Stored(new)
<1>1. /\ \A u \in Stored(old) : u \in Stored(new) /\ new[u].scoop = old[u].scoop
      /\ \A u \in Stored(new) \ Stored(old) : new[u].scoop = Nothing
  BY DEF Extends, Stored
<1>2. ASSUME NEW s \in scoops PROVE Members(new, s.id) = s.id
  <2>1. s.id # Nothing /\ Members(old, s.id) = s.id
    BY LibraryAssumption DEF Agree
  <2> QED BY <1>1, <2>1 DEF Members
<1> QED BY <1>1, <1>2 DEF Agree
-----------------------------------------------------------------------------
(* The steps: what each does to the tables, and to the memory of its task. *)

NothingLost ==
  \A u \in Stored(db.items) :
    /\ u \in Stored(db'.items)
    /\ db'.items[u].first = db.items[u].first
    /\ db.items[u].text # Nothing => db'.items[u].text # Nothing
    /\ db.items[u].scoop # Nothing /\ db'.items[u].scoop = Nothing => db'.scoops # db.scoops

TablesMove ==
  /\ DOMAIN db' = Tables /\ db'.items \in Table /\ Agree(db'.items, db'.scoops)
  /\ NothingUnscored' /\ NothingLost

TaskMoves(t) ==
  \E m : task' = [task EXCEPT ![t] = m] /\ MemoryIsKnown(m, db'.items)

\* A step that writes neither table.
LEMMA TablesStay ==
  ASSUME TablesInv, DOMAIN db' = Tables, db'.items = db.items, db'.scoops = db.scoops,
         events \subseteq events'
  PROVE  TablesMove
BY DEF TablesInv, TablesMove, NothingUnscored, NothingLost

\* A step that only ingests.
LEMMA TablesGrow ==
  ASSUME TablesInv, DOMAIN db' = Tables, db'.items \in Table, Extends(db'.items, db.items),
         db'.scoops = db.scoops, events \subseteq events'
  PROVE  TablesMove
<1>1. Agree(db'.items, db'.scoops)
  BY ExtendsAgrees DEF TablesInv
<1>2. NothingLost
  BY DEF NothingLost, Extends, Stored
<1>3. NothingUnscored'
  BY DEF TablesInv, NothingUnscored
<1> QED BY <1>1, <1>2, <1>3 DEF TablesMove

(* Assigned anew from an older list of the items.                          *)
LEMMA TablesAssigned ==
  ASSUME TablesInv, NEW d, DOMAIN d = Tables, d.items \in Table, d.scoops = db.scoops,
         Extends(d.items, db.items),
         NEW listed \in Table, Stored(listed) \subseteq Stored(d.items),
         db'.items = Assigned(d, listed).items, DOMAIN db' = Tables,
         Agree(db'.items, db'.scoops), ScoopsOf(db'.scoops) = ScoopsOf(Assigned(d, listed).scoops),
         "unscored" \notin events' => \A s \in db'.scoops : s.scored
  PROVE  TablesMove
<1> DEFINE new == Assigned(d, listed)
<1>1. /\ new.items \in Table
      /\ \A u \in Urls : d.items[u] # Nothing =>
            /\ new.items[u] # Nothing /\ new.items[u].first = d.items[u].first
            /\ new.items[u].text = d.items[u].text
      /\ \A s \in new.scoops : \A u \in s.id : new.items[u].scoop # Nothing
  BY AssignedAgrees
<1> HIDE DEF new
<1>2. ASSUME NEW u \in Stored(db.items)
      PROVE  /\ u \in Stored(db'.items) /\ db'.items[u].first = db.items[u].first
             /\ db.items[u].text # Nothing => db'.items[u].text # Nothing
  <2>1. /\ u \in Urls /\ d.items[u] # Nothing /\ d.items[u].first = db.items[u].first
        /\ db.items[u].text # Nothing => d.items[u].text # Nothing
    BY DEF Stored, Extends
  <2>2. db'.items = new.items
    BY DEF new
  <2> QED BY <1>1, <2>1, <2>2 DEF Stored
<1>3. ASSUME NEW u \in Stored(db.items), db.items[u].scoop # Nothing, db'.items[u].scoop = Nothing,
             db'.scoops = db.scoops
      PROVE  FALSE
  <2>1. PICK s \in db.scoops : s.id = db.items[u].scoop
    BY <1>3 DEF TablesInv, Agree, ScoopsOf
  <2>2. u \in s.id
    BY <2>1 DEF TablesInv, Agree, Members
  <2>3. PICK r \in new.scoops : r.id = s.id
    BY <1>3, <2>1 DEF ScoopsOf, new
  <2>4. new.items[u].scoop # Nothing
    BY <1>1, <2>2, <2>3
  <2> QED BY <1>3, <2>4 DEF new
<1>4. NothingLost
  BY <1>2, <1>3 DEF NothingLost
<1>5. db'.items \in Table /\ NothingUnscored'
  BY <1>1 DEF NothingUnscored, new
<1> QED BY <1>4, <1>5 DEF TablesMove

\* The memory of the tasks stays true of the tables after a step.
LEMMA TasksFollow ==
  ASSUME TablesInv, TablesMove, started' \in Nat,
         UNCHANGED task \/ \E t \in Tasks : TaskMoves(t)
  PROVE  TablesInv'
<1>1. Stored(db.items) \subseteq Stored(db'.items)
  BY DEF TablesMove, NothingLost
<1>2. \A m : MemoryIsKnown(m, db.items) => MemoryIsKnown(m, db'.items)
  BY <1>1 DEF MemoryIsKnown
<1>3. DOMAIN task' = Tasks /\ \A t \in Tasks : MemoryIsKnown(task'[t], db'.items)
  <2>1. CASE UNCHANGED task
    BY <1>2, <2>1 DEF TablesInv
  <2>2. CASE \E t \in Tasks : TaskMoves(t)
    <3>1. PICK t \in Tasks : TaskMoves(t)
      BY <2>2
    <3>2. PICK m : task' = [task EXCEPT ![t] = m] /\ MemoryIsKnown(m, db'.items)
      BY <3>1 DEF TaskMoves
    <3> QED BY <1>2, <3>2 DEF TablesInv
  <2> QED BY <2>1, <2>2
<1> QED BY <1>3 DEF TablesInv, TablesMove

\* The memory of a task that has not begun.
LEMMA NoTaskIsKnown == \A items : MemoryIsKnown(NoTask, items)
<1>1. <<>> \in Seq(Versions)
  OBVIOUS
<1> QED BY <1>1 DEF MemoryIsKnown, NoTask

\* A task that ends.
LEMMA EndsMoves == ASSUME NEW t \in Tasks, Ends(t) PROVE TaskMoves(t)
BY NoTaskIsKnown DEF Ends, TaskMoves

\* What a crawl brings is a sequence of records.
LEMMA CrawledIsSeq == \A b \in Crawled : b \in Seq(Versions)
<1> SUFFICES ASSUME NEW b \in Crawled PROVE b \in Seq(Versions)
  OBVIOUS
<1>1. PICK n \in 0..MaxBatch : b \in [1..n -> Versions]
  BY DEF Crawled
<1>2. n \in Nat
  BY <1>1, LibraryAssumption
<1> QED BY <1>1, <1>2

\* The id of a scoop is the set of its items.
LEMMA IdsAreScoops == ASSUME TablesInv PROVE Ids(db) \subseteq SUBSET Urls
BY DEF TablesInv, Agree, Ids

\* A task that begins.
LEMMA BeginMoves ==
  ASSUME TablesInv, NEW t \in Tasks, NEW m, MemoryIsKnown(m, db'.items), Begin(t, m)
  PROVE  TaskMoves(t) /\ started' \in Nat
<1>1. task' = [task EXCEPT ![t] = m] /\ started' = started + 1
  BY DEF Begin
<1>2. TaskMoves(t)
  BY <1>1 DEF TaskMoves
<1> QED BY <1>1, <1>2 DEF TablesInv

\* The ingest, with the clustering and the scores of the prep job.
LEMMA IngestingMoves ==
  ASSUME TablesInv, NEW t \in Tasks, Ingest(t)
  PROVE  TablesMove /\ TaskMoves(t) /\ started' \in Nat
<1> DEFINE items == Ingested(db.items, task[t].batch, "site", started)
           d     == [db EXCEPT !.items = items]
           fresh == Assigned(d, items)
<1>1. /\ items \in Table /\ Extends(items, db.items)
  <2>1. task[t].batch \in Seq(Versions) /\ Versions \subseteq Sighting
    BY LibraryAssumption DEF TablesInv, MemoryIsKnown
  <2>2. task[t].batch \in Seq(Sighting)
    BY <2>1
  <2> QED BY <2>2, IngestExtends DEF TablesInv
<1>2. DOMAIN d = Tables /\ d.items = items /\ d.scoops = db.scoops
  BY DEF TablesInv, Tables
<1>3. TaskMoves(t) /\ started' \in Nat /\ events' = events
  BY EndsMoves DEF Ingest, TablesInv
<1>4. CASE task[t].kind = "prep"
  <2>1. db' = Scored(fresh, Ids(fresh))
    BY <1>4 DEF Ingest
  <2> HIDE DEF items
  <2>2. /\ DOMAIN fresh = Tables /\ fresh.items \in Table /\ Agree(fresh.items, fresh.scoops)
    BY <1>1, <1>2, AssignedAgrees
  <2> HIDE DEF d, fresh
  <2>3. /\ DOMAIN db' = Tables /\ db'.items = fresh.items /\ Agree(db'.items, db'.scoops)
        /\ ScoopsOf(db'.scoops) = ScoopsOf(fresh.scoops)
        /\ \A s \in db'.scoops : s.id \in Ids(fresh) => s.scored
    BY <2>1, <2>2, ScoredAgrees
  <2>4. \A s \in db'.scoops : s.scored
    BY <2>3 DEF ScoopsOf, Ids
  <2> QED BY <1>1, <1>2, <1>3, <2>3, <2>4, TablesAssigned DEF fresh
<1>5. CASE task[t].kind # "prep"
  <2>1. db' = db \/ db' = d
    BY <1>5 DEF Ingest
  <2> HIDE DEF items, d
  <2>2. CASE db' = db
    BY <1>3, <2>2, TablesStay DEF TablesInv
  <2>3. CASE db' = d
    BY <1>1, <1>2, <1>3, <2>3, TablesGrow
  <2> QED BY <1>3, <2>1, <2>2, <2>3
<1> QED BY <1>4, <1>5

\* The clustering of a list that was read before the transaction.
LEMMA AssigningMoves ==
  ASSUME TablesInv, NEW t \in Tasks, Assign(t)
  PROVE  TablesMove /\ TaskMoves(t) /\ started' \in Nat
<1> DEFINE listed == task[t].items
           fresh == Assigned(db, listed)
<1>1. DOMAIN db = Tables /\ db.items \in Table /\ Extends(db.items, db.items)
  BY DEF TablesInv, Extends
<1>2. listed \in Table /\ Stored(listed) \subseteq Stored(db.items)
  BY DEF TablesInv, MemoryIsKnown, Assign
<1>3. TaskMoves(t) /\ started' \in Nat
  BY EndsMoves DEF Assign, TablesInv
<1>4. /\ DOMAIN fresh = Tables /\ fresh.items \in Table /\ Agree(fresh.items, fresh.scoops)
  BY <1>1, <1>2, AssignedAgrees
<1>5. \/ db' = Scored(fresh, Ids(fresh)) /\ events' = events
      \/ db' = fresh /\ events' = events \cup {"unscored"}
  BY DEF Assign
<1> HIDE DEF listed, fresh
<1>6. CASE db' = Scored(fresh, Ids(fresh)) /\ events' = events
  <2>1. /\ DOMAIN db' = Tables /\ db'.items = fresh.items /\ Agree(db'.items, db'.scoops)
        /\ ScoopsOf(db'.scoops) = ScoopsOf(fresh.scoops)
        /\ \A s \in db'.scoops : s.id \in Ids(fresh) => s.scored
    BY <1>4, <1>6, ScoredAgrees
  <2>2. \A s \in db'.scoops : s.scored
    BY <2>1 DEF ScoopsOf, Ids
  <2> QED BY <1>1, <1>2, <1>3, <2>1, <2>2, TablesAssigned DEF fresh
<1>7. CASE db' = fresh /\ events' = events \cup {"unscored"}
  BY <1>1, <1>2, <1>3, <1>4, <1>7, TablesAssigned DEF fresh
<1> QED BY <1>5, <1>6, <1>7

\* score_all of the scoops that were listed.
LEMMA ScoringMoves ==
  ASSUME TablesInv, NEW t \in Tasks, WriteScores(t)
  PROVE  TablesMove /\ TaskMoves(t) /\ started' \in Nat
<1>1. db' = Scored(db, task[t].ids) /\ events' = events /\ started' = started
  BY DEF WriteScores
<1>2. /\ DOMAIN db' = Tables /\ db'.items = db.items /\ Agree(db'.items, db'.scoops)
      /\ (\A s \in db.scoops : s.scored) => \A s \in db'.scoops : s.scored
  BY <1>1, ScoredAgrees DEF TablesInv
<1>3. NothingUnscored'
  BY <1>1, <1>2 DEF TablesInv, NothingUnscored
<1>4. NothingLost
  BY <1>2 DEF NothingLost
<1>5. TablesMove
  BY <1>2, <1>3, <1>4 DEF TablesInv, TablesMove
<1> QED BY <1>1, <1>5, EndsMoves DEF WriteScores, TablesInv

\* The end of a gossip crawl stores every page it found.
LEMMA GossipMoves ==
  ASSUME TablesInv, NEW t \in Tasks, CrawlDone(t)
  PROVE  /\ TablesMove /\ TaskMoves(t) /\ started' \in Nat
         /\ \A i \in DOMAIN task[t].batch : task[t].batch[i].url \in Stored(db'.items)
<1> DEFINE batch == task[t].batch
           bare == [i \in 1..Len(batch) |-> [batch[i] EXCEPT !.text = Nothing]]
           got  == {bare[i].url : i \in 1..Len(bare)}
           items == Ingested(db.items, bare, "user", started)
<1>1. batch \in Seq(Versions) /\ Versions \subseteq Sighting
  BY LibraryAssumption DEF TablesInv, MemoryIsKnown
<1>2. /\ Len(batch) \in Nat /\ DOMAIN batch = 1..Len(batch)
      /\ \A i \in 1..Len(batch) : batch[i] \in Sighting
  BY <1>1
<1>3. \A i \in 1..Len(batch) : bare[i] \in Sighting /\ bare[i].url = batch[i].url
  BY <1>2 DEF Sighting, Texts
<1>4. bare \in Seq(Sighting) /\ DOMAIN bare = 1..Len(batch)
  <2>1. bare \in [1..Len(batch) -> Sighting]
    BY <1>3
  <2> HIDE DEF bare, batch
  <2> QED BY <1>2, <2>1
<1>5. db' = [db EXCEPT !.items = items, !.gossip = WithStatus(db, task[t].url, "done", got)]
  BY DEF CrawlDone
<1> HIDE DEF batch, bare, got
<1>6. /\ items \in Table /\ Extends(items, db.items)
      /\ \A i \in DOMAIN bare : items[bare[i].url] # Nothing
  BY <1>4, IngestExtends DEF TablesInv
<1> HIDE DEF items
<1>7. DOMAIN db' = Tables /\ db'.items = items /\ db'.scoops = db.scoops
  BY <1>5 DEF TablesInv, Tables
<1>8. TablesMove
  BY <1>6, <1>7, TablesGrow DEF CrawlDone
<1>9. \A i \in DOMAIN batch : batch[i].url \in Stored(db'.items)
  BY <1>2, <1>3, <1>4, <1>6, <1>7 DEF Stored, Sighting
<1> QED BY <1>8, <1>9, EndsMoves DEF CrawlDone, TablesInv, batch

\* A task begins on what it finds.
LEMMA StartsMove ==
  ASSUME TablesInv, NEW t \in Tasks,
         \/ StartIngest(t) \/ StartCluster(t) \/ StartScore(t) \/ StartGenerate(t)
         \/ \E m \in Materials : SubmitUrl(t, m)
  PROVE  TablesMove /\ TaskMoves(t) /\ started' \in Nat
<1>1. TablesMove
  <2>1. /\ DOMAIN db' = Tables /\ db'.items = db.items /\ db'.scoops = db.scoops
        /\ events \subseteq events'
    <3>1. CASE \E m \in Materials : SubmitUrl(t, m)
      BY <3>1 DEF SubmitUrl, TablesInv, Tables
    <3>2. CASE ~ \E m \in Materials : SubmitUrl(t, m)
      BY <3>2 DEF StartIngest, StartCluster, StartScore, StartGenerate, TablesInv
    <3> QED BY <3>1, <3>2
  <2> QED BY <2>1, TablesStay
<1>2. \E m : MemoryIsKnown(m, db'.items) /\ Begin(t, m)
  <2>0. <<>> \in Seq(Versions) /\ Ids(db) \subseteq SUBSET Urls
    BY IdsAreScoops
  <2>1. CASE StartIngest(t)
    <3>1. PICK b \in Crawled, k \in {"prep", "ingest"} :
            Begin(t, [NoTask EXCEPT !.kind = k, !.batch = b,
                                    !.pc = IF k = "prep" /\ b = <<>> THEN "list" ELSE "ingest"])
      BY <2>1 DEF StartIngest
    <3> DEFINE m == [NoTask EXCEPT !.kind = k, !.batch = b,
                                   !.pc = IF k = "prep" /\ b = <<>> THEN "list" ELSE "ingest"]
    <3>2. MemoryIsKnown(m, db'.items)
      BY CrawledIsSeq DEF MemoryIsKnown, NoTask
    <3> QED BY <3>1, <3>2
  <2>2. CASE StartCluster(t)
    <3> DEFINE m == [NoTask EXCEPT !.kind = "cluster", !.pc = "list"]
    <3>1. MemoryIsKnown(m, db'.items)
      BY <2>0 DEF MemoryIsKnown, NoTask
    <3> QED BY <2>2, <3>1 DEF StartCluster
  <2>3. CASE StartScore(t)
    <3> DEFINE m == [NoTask EXCEPT !.kind = "score", !.pc = "score", !.ids = Ids(db)]
    <3>1. MemoryIsKnown(m, db'.items)
      BY <2>0 DEF MemoryIsKnown, NoTask
    <3> QED BY <2>3, <3>1 DEF StartScore
  <2>4. CASE StartGenerate(t)
    <3>1. PICK ids \in SUBSET Ids(db) :
            Begin(t, [NoTask EXCEPT !.kind = "generate", !.pc = "next", !.ids = ids])
      BY <2>4 DEF StartGenerate
    <3> DEFINE m == [NoTask EXCEPT !.kind = "generate", !.pc = "next", !.ids = ids]
    <3>2. MemoryIsKnown(m, db'.items)
      BY <2>0 DEF MemoryIsKnown, NoTask
    <3> QED BY <3>1, <3>2
  <2>5. CASE \E u \in Materials : SubmitUrl(t, u)
    <3>1. PICK u \in Materials :
            Begin(t, [NoTask EXCEPT !.kind = "gossip", !.pc = "crawl", !.url = u])
      BY <2>5 DEF SubmitUrl
    <3> DEFINE m == [NoTask EXCEPT !.kind = "gossip", !.pc = "crawl", !.url = u]
    <3>2. MemoryIsKnown(m, db'.items)
      BY <2>0 DEF MemoryIsKnown, NoTask
    <3> QED BY <3>1, <3>2
  <2> QED BY <2>1, <2>2, <2>3, <2>4, <2>5
<1> QED BY <1>1, <1>2, BeginMoves

(* A step that reads, or that writes to other tables.                      *)
LEMMA OthersMove ==
  ASSUME TablesInv, NEW t \in Tasks,
         \/ ListItems(t) \/ GetScoop(t) \/ GetMembers(t) \/ GetArticle(t) \/ Chat(t)
         \/ PutArticle(t) \/ BuildScoop(t) \/ CrawlUrl(t)
         \/ CommitArticles(t) \/ CrawlFailed(t) \/ LockedOut(t) \/ Dies(t)
  PROVE  TablesMove /\ TaskMoves(t) /\ started' \in Nat
<1>1. TablesMove /\ db'.items = db.items
  <2>1. /\ DOMAIN db' = Tables /\ db'.items = db.items /\ db'.scoops = db.scoops
        /\ events \subseteq events'
    <3>1. CASE CommitArticles(t) \/ CrawlFailed(t)
      BY <3>1 DEF CommitArticles, CrawlFailed, TablesInv, Tables
    <3>2. CASE ~ (CommitArticles(t) \/ CrawlFailed(t))
      BY <3>2 DEF ListItems, GetScoop, GetMembers, GetArticle, Chat, PutArticle, BuildScoop,
                  CrawlUrl, LockedOut, Dies, TablesInv
    <3> QED BY <3>1, <3>2
  <2> QED BY <2>1, TablesStay
<1>2. started' \in Nat
  BY DEF ListItems, GetScoop, GetMembers, GetArticle, Chat, PutArticle, BuildScoop,
         CrawlUrl, CommitArticles, CrawlFailed, LockedOut, Dies, TablesInv
<1>3. CASE CommitArticles(t) \/ CrawlFailed(t) \/ LockedOut(t) \/ Dies(t)
  BY <1>1, <1>2, <1>3, EndsMoves DEF CommitArticles, CrawlFailed, LockedOut, Dies
<1> DEFINE m == task[t]
<1>4. DOMAIN task = Tasks /\ MemoryIsKnown(m, db.items)
  BY DEF TablesInv
<1>5. ASSUME NEW n, task' = [task EXCEPT ![t] = n], MemoryIsKnown(n, db.items) PROVE TaskMoves(t)
  BY <1>1, <1>5 DEF TaskMoves
<1>6. CASE ListItems(t)
  <2> DEFINE n == [m EXCEPT !.pc = "assign", !.items = db.items]
  <2>1. task' = [task EXCEPT ![t] = n]
    BY <1>4, <1>6 DEF ListItems
  <2>2. MemoryIsKnown(n, db.items)
    BY <1>4 DEF MemoryIsKnown, NoTask, TablesInv
  <2> HIDE DEF n
  <2> QED BY <1>1, <1>2, <1>5, <2>1, <2>2
<1>7. CASE GetScoop(t)
  <2>1. PICK id \in m.ids :
          task' = [task EXCEPT ![t].ids = @ \ {id},
                    ![t].pc = IF id \in Ids(db) THEN "members" ELSE "next", ![t].scoop = id]
    BY <1>7 DEF GetScoop
  <2> DEFINE n == [m EXCEPT !.ids = @ \ {id},
                            !.pc = IF id \in Ids(db) THEN "members" ELSE "next", !.scoop = id]
  <2>2. task' = [task EXCEPT ![t] = n]
    BY <1>4, <2>1
  <2>3. MemoryIsKnown(n, db.items)
    BY <1>4, <2>1 DEF MemoryIsKnown, NoTask
  <2> HIDE DEF n
  <2> QED BY <1>1, <1>2, <1>5, <2>2, <2>3
<1>8. CASE GetMembers(t)
  <2> DEFINE us == Members(db.items, m.scoop)
             n == [m EXCEPT !.pc = IF us = {} THEN "next" ELSE "cache",
                            !.material = Material(db.items, us)]
  <2>1. task' = [task EXCEPT ![t] = n]
    BY <1>4, <1>8 DEF GetMembers
  <2>2. MemoryIsKnown(n, db.items)
    BY <1>4 DEF MemoryIsKnown, NoTask
  <2> HIDE DEF n
  <2> QED BY <1>1, <1>2, <1>5, <2>1, <2>2
<1>9. ASSUME NEW n, task' = [task EXCEPT ![t] = n], DOMAIN n = DOMAIN m,
             n.pc \notin {"idle", "assign"}, n.batch \in Seq(Versions), n.ids = m.ids, n.scoop = m.scoop
      PROVE  TaskMoves(t)
  <2>1. MemoryIsKnown(n, db.items)
    BY <1>4, <1>9 DEF MemoryIsKnown
  <2> QED BY <1>5, <1>9, <2>1
<1>10. m.batch \in Seq(Versions)
  BY <1>4 DEF MemoryIsKnown
<1>11. CASE GetArticle(t)
  <2> DEFINE hits == {a \in Articles(t) : a.key = CacheKey(m.material)}
             n == IF hits = {} THEN [m EXCEPT !.pc = "chat"]
                  ELSE [m EXCEPT !.pc = "build", !.body = (CHOOSE a \in hits : TRUE).body]
  <2>1. task' = [task EXCEPT ![t] = n]
    BY <1>4, <1>11 DEF GetArticle
  <2>2. /\ DOMAIN n = DOMAIN m /\ n.pc \in {"chat", "build"} /\ n.batch = m.batch /\ n.ids = m.ids
        /\ n.scoop = m.scoop
    BY <1>4 DEF MemoryIsKnown, NoTask
  <2> HIDE DEF n
  <2> QED BY <1>1, <1>2, <1>10, <1>9, <2>1, <2>2
<1>12. CASE Chat(t)
  <2> DEFINE n == [m EXCEPT !.pc = "put", !.body = [of |-> m.material, nr |-> chats]]
             k == [m EXCEPT !.pc = "next"]
  <2>1. task' = [task EXCEPT ![t] = n] \/ task' = [task EXCEPT ![t] = k]
    BY <1>4, <1>12 DEF Chat
  <2>2. /\ DOMAIN n = DOMAIN m /\ n.pc = "put" /\ n.batch = m.batch /\ n.ids = m.ids /\ n.scoop = m.scoop
        /\ DOMAIN k = DOMAIN m /\ k.pc = "next" /\ k.batch = m.batch /\ k.ids = m.ids /\ k.scoop = m.scoop
    BY <1>4 DEF MemoryIsKnown, NoTask
  <2> HIDE DEF n, k
  <2> QED BY <1>1, <1>2, <1>10, <1>9, <2>1, <2>2
<1>13. CASE PutArticle(t)
  <2> DEFINE put == {a \in m.put : a.key # CacheKey(m.material)} \cup
                    {[key |-> CacheKey(m.material), body |-> m.body]}
             n == [m EXCEPT !.pc = "build", !.put = put]
             k == [m EXCEPT !.pc = "next"]
  <2>1. task' = [task EXCEPT ![t] = n] \/ task' = [task EXCEPT ![t] = k]
    BY <1>4, <1>13 DEF PutArticle
  <2>2. /\ DOMAIN n = DOMAIN m /\ n.pc = "build" /\ n.batch = m.batch /\ n.ids = m.ids /\ n.scoop = m.scoop
        /\ DOMAIN k = DOMAIN m /\ k.pc = "next" /\ k.batch = m.batch /\ k.ids = m.ids /\ k.scoop = m.scoop
    BY <1>4 DEF MemoryIsKnown, NoTask
  <2> HIDE DEF n, k
  <2> QED BY <1>1, <1>2, <1>10, <1>9, <2>1, <2>2
<1>14. CASE BuildScoop(t)
  <2> DEFINE n == [m EXCEPT !.pc = "next"]
  <2>1. task' = [task EXCEPT ![t] = n]
    BY <1>4, <1>14 DEF BuildScoop
  <2>2. DOMAIN n = DOMAIN m /\ n.pc = "next" /\ n.batch = m.batch /\ n.ids = m.ids /\ n.scoop = m.scoop
    BY <1>4 DEF MemoryIsKnown, NoTask
  <2> HIDE DEF n
  <2> QED BY <1>1, <1>2, <1>10, <1>9, <2>1, <2>2
<1>15. CASE CrawlUrl(t)
  <2>1. ASSUME NEW b \in Crawled, task' = [task EXCEPT ![t].pc = "gossip-done", ![t].batch = b]
        PROVE  TaskMoves(t)
    <3> DEFINE n == [m EXCEPT !.pc = "gossip-done", !.batch = b]
    <3>1. task' = [task EXCEPT ![t] = n]
      BY <1>4, <2>1
    <3>2. DOMAIN n = DOMAIN m /\ n.pc = "gossip-done" /\ n.batch = b /\ n.ids = m.ids /\ n.scoop = m.scoop
      BY <1>4 DEF MemoryIsKnown, NoTask
    <3> HIDE DEF n
    <3> QED BY <1>9, <3>1, <3>2, CrawledIsSeq
  <2>2. ASSUME task' = [task EXCEPT ![t].pc = "gossip-failed"] PROVE TaskMoves(t)
    <3> DEFINE n == [m EXCEPT !.pc = "gossip-failed"]
    <3>1. task' = [task EXCEPT ![t] = n]
      BY <1>4, <2>2
    <3>2. /\ DOMAIN n = DOMAIN m /\ n.pc = "gossip-failed" /\ n.batch = m.batch /\ n.ids = m.ids
          /\ n.scoop = m.scoop
      BY <1>4 DEF MemoryIsKnown, NoTask
    <3> HIDE DEF n
    <3> QED BY <1>10, <1>9, <3>1, <3>2
  <2> QED BY <1>1, <1>2, <1>15, <2>1, <2>2 DEF CrawlUrl
<1> QED BY <1>3, <1>6, <1>7, <1>8, <1>11, <1>12, <1>13, <1>14, <1>15

\* Every step keeps the tables.
LEMMA TablesStep ==
  ASSUME TablesInv, [LibraryNext]_libraryVars
  PROVE  TablesInv' /\ TablesMove
<1>1. CASE UNCHANGED libraryVars
  <2>1. TablesMove
    BY <1>1, TablesStay DEF libraryVars, TablesInv
  <2> QED BY <1>1, <2>1, TasksFollow DEF libraryVars, TablesInv
<1>2. ASSUME NEW m \in Materials, DeleteUrl(m) PROVE TablesInv' /\ TablesMove
  <2>1. DOMAIN db' = Tables /\ db'.items = db.items /\ db'.scoops = db.scoops
        /\ UNCHANGED <<task, started, events>>
    BY <1>2 DEF DeleteUrl, TablesInv, Tables
  <2>2. TablesMove
    BY <2>1, TablesStay
  <2> QED BY <2>1, <2>2, TasksFollow DEF TablesInv
<1>3. ASSUME NEW t \in Tasks, LibraryTask(t) PROVE TablesInv' /\ TablesMove
  <2>1. TablesMove /\ TaskMoves(t) /\ started' \in Nat
    BY <1>3, StartsMove, OthersMove, IngestingMoves, AssigningMoves, ScoringMoves, GossipMoves
       DEF LibraryTask
  <2> QED BY <2>1, TasksFollow
<1> QED BY <1>1, <1>2, <1>3 DEF LibraryNext

\* The tables are empty at first.
LEMMA TablesStart == LibraryInit => TablesInv
<1> SUFFICES ASSUME LibraryInit PROVE TablesInv
  OBVIOUS
<1>1. db.items \in Table /\ DOMAIN db = Tables /\ db.scoops = {} /\ Stored(db.items) = {}
  BY DEF LibraryInit, Table, Tables, Stored
<1>2. Agree(db.items, db.scoops) /\ NothingUnscored
  BY <1>1 DEF Agree, NothingUnscored
<1> QED BY <1>1, <1>2, NoTaskIsKnown DEF LibraryInit, TablesInv

\* The tables agree at every moment.
LEMMA TablesHold == LibrarySpec => []TablesInv
BY TablesStart, TablesStep, PTL DEF LibrarySpec

\* No step of any task takes a row, its first sight or a text it had, "never drops
\* data" (library.py:7), however ingests, clusterings and gossip crawls interleave.
THEOREM LibraryDropsNothing == LibrarySpec => NothingIsDropped
<1>1. TablesInv /\ [LibraryNext]_libraryVars =>
        [\A u \in Stored(db.items) :
            /\ u \in Stored(db'.items)
            /\ db'.items[u].first = db.items[u].first
            /\ db.items[u].text # Nothing => db'.items[u].text # Nothing
            /\ db.items[u].scoop # Nothing /\ db'.items[u].scoop = Nothing
                  => db'.scoops # db.scoops]_libraryVars
  BY TablesStep DEF TablesMove, NothingLost
<1> QED BY <1>1, TablesHold, PTL DEF LibrarySpec, NothingIsDropped

\* A page that lists the library at any moment finds scoops whose members are the items
\* stamped with them, and none that is not scored but for the cluster command's
\* (library.py:167-199, scoop_pipeline.py:40).
THEOREM ScoopsStayAgreed == LibrarySpec => []ScoopsAndItemsAgree
<1>1. TablesInv => ScoopsAndItemsAgree
  <2> SUFFICES ASSUME TablesInv PROVE MembersAgree
    BY DEF ScoopsAndItemsAgree, TablesInv
  <2>1. \A s \in db.scoops : Members(db.items, s.id) = s.id
    BY DEF TablesInv, Agree
  <2>2. \A u \in Stored(db.items) : db.items[u].scoop \in Ids(db) \cup {Nothing}
    BY DEF TablesInv, Agree, Ids, ScoopsOf
  <2> DEFINE f == [s \in db.scoops |-> s.id]
             I == Ids(db)
  <2>3. IsFiniteSet(I)
    <3>1. IsFiniteSet(SUBSET Urls)
      BY FS_SUBSET, LibraryAssumption
    <3> QED BY <3>1, FS_Subset, IdsAreScoops
  <2>4. f \in Injection(db.scoops, I) /\ f \in Surjection(db.scoops, I)
    BY DEF TablesInv, Agree, Ids, Injection, Surjection, IsInjective
  <2>5. Cardinality(db.scoops) = Cardinality(I)
    BY <2>3, <2>4, FS_Injection
  <2> QED BY <2>1, <2>2, <2>5 DEF MembersAgree
<1> QED BY <1>1, TablesHold, PTL

-----------------------------------------------------------------------------
(* The submitted URLs: while nothing died or was locked out, a pending one *)
(* has the task that its submission started.                               *)

Disturbed == events' \cap {"died", "locked"} # {}

(* A step of a task that leaves the URLs to the tasks they have.           *)
UrlStays(t) ==
  /\ \A r \in Tasks \ {t} : task'[r] = task[r]
  /\ UrlIsKnown(task'[t])
  /\ task[t].url = Nothing \/ task'[t].url = task[t].url \/ Disturbed

\* A step that writes no gossip row and leaves the tasks their URLs.
LEMMA GossipStays ==
  ASSUME GossipInv, TablesMove, events \subseteq events', db'.gossip = db.gossip,
         NEW t \in Tasks, UrlStays(t)
  PROVE  GossipInv'
<1>1. Stored(db.items) \subseteq Stored(db'.items)
  BY DEF TablesMove, NothingLost
<1>2. \A r \in Tasks : UrlIsKnown(task'[r])
  BY DEF GossipInv, UrlStays
<1>3. ASSUME ~ Disturbed, NEW m \in Materials, NEW r \in Tasks, task[r].url = m
      PROVE  task'[r].url = m
  BY <1>3, LibraryAssumption DEF UrlStays
<1>4. ~ Disturbed => events \cap {"died", "locked"} = {}
  BY DEF Disturbed
<1>5. GossipIsTruthful'
  BY <1>1, <1>3, <1>4 DEF GossipInv, GossipIsTruthful, Disturbed
<1> QED BY <1>2, <1>5 DEF GossipInv

(* The end of a gossip crawl: its row, if it is still there, says so.      *)
LEMMA GossipEnds ==
  ASSUME GossipInv, TablesMove, NEW t \in Tasks, task[t].pc \in Crawling, Ends(t), DOMAIN task = Tasks,
         events' = events, NEW status \in {"done", "failed"}, NEW got \in SUBSET Stored(db'.items),
         db'.gossip = WithStatus(db, task[t].url, status, got)
  PROVE  GossipInv'
<1> DEFINE m == task[t].url
<1>1. m \in Materials
  BY DEF GossipInv, UrlIsKnown
<1>2. Stored(db.items) \subseteq Stored(db'.items) /\ got \in SUBSET Urls
  BY DEF TablesMove, NothingLost, Stored
<1>3. /\ \A k \in Materials \ {m} : db'.gossip[k] = db.gossip[k]
      /\ db'.gossip[m] = Nothing \/ db'.gossip[m] = [status |-> status, got |-> got]
      /\ db'.gossip \in [Materials -> GossipRow \cup {Nothing}]
  BY <1>1, <1>2 DEF GossipInv, WithStatus, GossipRow
<1>4. /\ \A r \in Tasks \ {t} : task'[r] = task[r]
      /\ task'[t] = NoTask
  BY DEF Ends
<1>5. \A r \in Tasks : UrlIsKnown(task'[r])
  BY <1>4 DEF GossipInv, UrlIsKnown, NoTask, Crawling
<1>6. ASSUME NEW k \in Materials, db'.gossip[k] # Nothing
      PROVE  /\ db'.gossip[k].got \subseteq Stored(db'.items)
             /\ db'.gossip[k].status = "pending" /\ events' \cap {"died", "locked"} = {}
                    => \E r \in Tasks : task'[r].url = k
  <2>1. CASE k = m
    BY <1>3, <1>6, <2>1
  <2>2. CASE k # m
    BY <1>2, <1>3, <1>4, <1>6, <2>2 DEF GossipInv, GossipIsTruthful
  <2> QED BY <2>1, <2>2
<1> QED BY <1>3, <1>5, <1>6 DEF GossipInv, GossipIsTruthful

\* Ingest, clustering and scores touch neither the gossip rows nor the articles.
LEMMA ClusteringKeeps ==
  ASSUME TablesInv, NEW t \in Tasks, Ingest(t) \/ Assign(t) \/ WriteScores(t)
  PROVE  db'.gossip = db.gossip /\ db'.articles = db.articles /\ events \subseteq events'
<1>1. CASE Ingest(t)
  <2> DEFINE items == Ingested(db.items, task[t].batch, "site", started)
             d     == [db EXCEPT !.items = items]
             fresh == Assigned(d, items)
  <2>1. items \in Table
    <3>1. task[t].batch \in Seq(Versions) /\ Versions \subseteq Sighting
      BY LibraryAssumption DEF TablesInv, MemoryIsKnown
    <3>2. task[t].batch \in Seq(Sighting)
      BY <3>1
    <3> QED BY <3>2, IngestExtends DEF TablesInv
  <2>2. db' = Scored(fresh, Ids(fresh)) \/ db' = db \/ db' = d
    BY <1>1 DEF Ingest
  <2> HIDE DEF items
  <2>3. DOMAIN d = Tables /\ d.items = items /\ d.gossip = db.gossip /\ d.articles = db.articles
    BY DEF TablesInv, Tables
  <2> HIDE DEF d
  <2>4. /\ DOMAIN fresh = Tables /\ Agree(fresh.items, fresh.scoops)
        /\ fresh.gossip = d.gossip /\ fresh.articles = d.articles
    BY <2>1, <2>3, AssignedAgrees
  <2> HIDE DEF fresh
  <2> QED BY <1>1, <2>2, <2>3, <2>4, ScoredAgrees DEF Ingest
<1>2. CASE Assign(t)
  <2> DEFINE fresh == Assigned(db, task[t].items)
  <2>1. /\ DOMAIN db = Tables /\ db.items \in Table /\ task[t].items \in Table
        /\ Stored(task[t].items) \subseteq Stored(db.items)
    BY <1>2 DEF TablesInv, MemoryIsKnown, Assign
  <2>2. db' = Scored(fresh, Ids(fresh)) \/ db' = fresh
    BY <1>2 DEF Assign
  <2>3. /\ DOMAIN fresh = Tables /\ Agree(fresh.items, fresh.scoops)
        /\ fresh.gossip = db.gossip /\ fresh.articles = db.articles
    BY <2>1, AssignedAgrees
  <2>4. events \subseteq events'
    BY <1>2 DEF Assign
  <2> HIDE DEF fresh
  <2> QED BY <2>2, <2>3, <2>4, ScoredAgrees
<1>3. CASE WriteScores(t)
  BY <1>3, ScoredAgrees DEF WriteScores, TablesInv
<1> QED BY <1>1, <1>2, <1>3

\* A task has a URL exactly while it crawls it, and loses it only when it ends.
LEMMA UrlsStay ==
  ASSUME TablesInv, GossipInv, NEW t \in Tasks, LibraryTask(t), ~ CrawlFailed(t), ~ CrawlDone(t),
         \A m \in Materials : ~ SubmitUrl(t, m)
  PROVE  UrlStays(t)
<1> DEFINE m == task[t]
<1>0. /\ DOMAIN task = Tasks /\ DOMAIN m = DOMAIN NoTask /\ (m.pc = "idle" => m = NoTask)
      /\ UrlIsKnown(m)
  BY DEF TablesInv, MemoryIsKnown, GossipInv
<1> DEFINE Idle(n) == n.pc \notin Crawling /\ n.url = Nothing
<1>1. ASSUME NEW n, Idle(n), task' = [task EXCEPT ![t] = n], m.url = Nothing \/ Disturbed
      PROVE  UrlStays(t)
  BY <1>0, <1>1 DEF UrlStays, UrlIsKnown
<1>2. Idle(NoTask)
  BY DEF NoTask, Crawling
<1>3. m.pc \notin Crawling => m.url = Nothing
  BY <1>0 DEF UrlIsKnown
<1>4. CASE Ingest(t) \/ Assign(t) \/ WriteScores(t) \/ CommitArticles(t)
  BY <1>1, <1>2, <1>3, <1>4 DEF Ingest, Assign, WriteScores, CommitArticles, Ends, Crawling
<1>5. CASE LockedOut(t) \/ Dies(t)
  BY <1>1, <1>2, <1>5 DEF LockedOut, Dies, Ends, Disturbed
<1>6. ASSUME NEW n, Idle(n), Begin(t, n) PROVE UrlStays(t)
  <2>1. m.url = Nothing
    BY <1>3, <1>6 DEF Begin, Crawling
  <2> QED BY <1>1, <1>6, <2>1 DEF Begin
<1>7. CASE StartIngest(t) \/ StartCluster(t) \/ StartScore(t) \/ StartGenerate(t)
  <2>1. CASE StartIngest(t)
    <3>1. PICK b \in Crawled, k \in {"prep", "ingest"} :
            Begin(t, [NoTask EXCEPT !.kind = k, !.batch = b,
                                    !.pc = IF k = "prep" /\ b = <<>> THEN "list" ELSE "ingest"])
      BY <2>1 DEF StartIngest
    <3> DEFINE n == [NoTask EXCEPT !.kind = k, !.batch = b,
                                   !.pc = IF k = "prep" /\ b = <<>> THEN "list" ELSE "ingest"]
    <3>2. Idle(n)
      BY DEF NoTask, Crawling
    <3> HIDE DEF Idle
    <3> QED BY <1>6, <3>1, <3>2
  <2>2. CASE StartCluster(t)
    <3> DEFINE n == [NoTask EXCEPT !.kind = "cluster", !.pc = "list"]
    <3>1. Idle(n)
      BY DEF NoTask, Crawling
    <3> HIDE DEF Idle
    <3> QED BY <1>6, <2>2, <3>1 DEF StartCluster
  <2>3. CASE StartScore(t)
    <3> DEFINE n == [NoTask EXCEPT !.kind = "score", !.pc = "score", !.ids = Ids(db)]
    <3>1. Idle(n)
      BY DEF NoTask, Crawling
    <3> HIDE DEF Idle
    <3> QED BY <1>6, <2>3, <3>1 DEF StartScore
  <2>4. CASE StartGenerate(t)
    <3>1. PICK ids \in SUBSET Ids(db) :
            Begin(t, [NoTask EXCEPT !.kind = "generate", !.pc = "next", !.ids = ids])
      BY <2>4 DEF StartGenerate
    <3> DEFINE n == [NoTask EXCEPT !.kind = "generate", !.pc = "next", !.ids = ids]
    <3>2. Idle(n)
      BY DEF NoTask, Crawling
    <3> HIDE DEF Idle
    <3> QED BY <1>6, <3>1, <3>2
  <2> QED BY <1>7, <2>1, <2>2, <2>3, <2>4
<1>8. ASSUME \A r \in Tasks \ {t} : task'[r] = task[r], task'[t].url = m.url,
             task'[t].pc \in Crawling <=> m.pc \in Crawling
      PROVE  UrlStays(t)
  <2>1. m.url \in Materials \cup {Nothing} /\ (m.url # Nothing <=> m.pc \in Crawling)
    BY <1>0 DEF UrlIsKnown
  <2> HIDE DEF m
  <2>2. UrlIsKnown(task'[t])
    BY <1>8, <2>1 DEF UrlIsKnown
  <2> QED BY <1>8, <2>2 DEF UrlStays, m
<1>9. CASE ListItems(t) \/ GetScoop(t) \/ GetMembers(t)
  <2>1. CASE ListItems(t)
    BY <1>0, <1>8, <2>1 DEF ListItems, NoTask, Crawling
  <2>2. CASE GetScoop(t)
    BY <1>0, <1>8, <2>2 DEF GetScoop, NoTask, Crawling
  <2>3. CASE GetMembers(t)
    <3>1. PICK pc, material : pc \in {"next", "cache"} /\
            task' = [task EXCEPT ![t].pc = pc, ![t].material = material]
      BY <2>3 DEF GetMembers
    <3>2. m.pc = "members"
      BY <2>3 DEF GetMembers
    <3> QED BY <1>0, <1>8, <3>1, <3>2 DEF NoTask, Crawling
  <2> QED BY <1>9, <2>1, <2>2, <2>3
<1>10. CASE GetArticle(t)
  BY <1>0, <1>8, <1>10 DEF GetArticle, NoTask, Crawling
<1>11. CASE Chat(t) \/ PutArticle(t) \/ BuildScoop(t)
  BY <1>0, <1>8, <1>11 DEF Chat, PutArticle, BuildScoop, NoTask, Crawling
<1>12. CASE CrawlUrl(t)
  BY <1>0, <1>8, <1>12 DEF CrawlUrl, NoTask, Crawling
<1> QED BY <1>4, <1>5, <1>7, <1>9, <1>10, <1>11, <1>12 DEF LibraryTask

\* Every step keeps the gossip rows true.
LEMMA GossipStep ==
  ASSUME GossipInv, TablesInv, TablesMove, [LibraryNext]_libraryVars
  PROVE  GossipInv'
<1>0. /\ DOMAIN task = Tasks /\ DOMAIN db = Tables
      /\ \A t \in Tasks : DOMAIN task[t] = DOMAIN NoTask /\ (task[t].pc = "idle" => task[t] = NoTask)
  BY DEF TablesInv, MemoryIsKnown
<1>1. CASE UNCHANGED libraryVars
  BY <1>1 DEF libraryVars, GossipInv, GossipIsTruthful
<1>2. ASSUME NEW m \in Materials, DeleteUrl(m) PROVE GossipInv'
  <2>1. /\ db'.gossip = [db.gossip EXCEPT ![m] = Nothing] /\ db'.items = db.items
        /\ UNCHANGED <<task, events>>
    BY <1>0, <1>2 DEF DeleteUrl, Tables
  <2> QED BY <2>1 DEF GossipInv, GossipIsTruthful
<1>3. ASSUME NEW t \in Tasks, NEW m \in Materials, SubmitUrl(t, m) PROVE GossipInv'
  <2>1. /\ db'.gossip = [db.gossip EXCEPT ![m] = IF db.gossip[m] = Nothing
                            THEN [status |-> "pending", got |-> {}] ELSE db.gossip[m]]
        /\ db'.items = db.items /\ events' = events
        /\ task' = [task EXCEPT ![t] = [NoTask EXCEPT !.kind = "gossip", !.pc = "crawl", !.url = m]]
        /\ task[t] = NoTask
    BY <1>0, <1>3 DEF SubmitUrl, Begin, Tables
  <2>2. /\ task'[t].url = m /\ task'[t].pc = "crawl" /\ \A r \in Tasks \ {t} : task'[r] = task[r]
        /\ task[t].url = Nothing
    BY <1>0, <2>1 DEF NoTask
  <2>3. \A r \in Tasks : UrlIsKnown(task'[r])
    BY <2>2, LibraryAssumption DEF GossipInv, UrlIsKnown, Crawling
  <2>4. [status |-> "pending", got |-> {}] \in GossipRow
    BY DEF GossipRow
  <2>5. db'.gossip \in [Materials -> GossipRow \cup {Nothing}]
    BY <2>1, <2>4 DEF GossipInv
  <2>6. GossipIsTruthful'
    <3> SUFFICES ASSUME NEW k \in Materials, db'.gossip[k] # Nothing
                 PROVE  /\ db'.gossip[k].got \subseteq Stored(db'.items)
                        /\ db'.gossip[k].status = "pending" /\ events' \cap {"died", "locked"} = {}
                               => \E r \in Tasks : task'[r].url = k
      BY DEF GossipIsTruthful
    <3>1. CASE k = m /\ db.gossip[m] = Nothing
      BY <2>1, <2>2, <3>1 DEF GossipInv
    <3>2. CASE ~ (k = m /\ db.gossip[m] = Nothing)
      <4>1. db'.gossip[k] = db.gossip[k]
        BY <2>1, <3>2 DEF GossipInv
      <4>2. \A r \in Tasks : task[r].url = k => task'[r].url = k
        BY <2>2, LibraryAssumption
      <4> QED BY <2>1, <4>1, <4>2 DEF GossipInv, GossipIsTruthful
    <3> QED BY <3>1, <3>2
  <2> QED BY <2>3, <2>5, <2>6 DEF GossipInv
<1>4. ASSUME NEW t \in Tasks, CrawlFailed(t) PROVE GossipInv'
  <2>1. db'.gossip = WithStatus(db, task[t].url, "failed", {})
    BY <1>0, <1>4 DEF CrawlFailed, Tables
  <2> QED BY <1>0, <1>4, <2>1, GossipEnds DEF CrawlFailed, Crawling
<1>5. ASSUME NEW t \in Tasks, CrawlDone(t) PROVE GossipInv'
  <2> DEFINE batch == task[t].batch
             bare == [i \in 1..Len(batch) |-> [batch[i] EXCEPT !.text = Nothing]]
             got  == {bare[i].url : i \in 1..Len(bare)}
  <2>1. db'.gossip = WithStatus(db, task[t].url, "done", got)
    <3> HIDE DEF got
    <3>1. db' = [db EXCEPT !.items = Ingested(db.items, bare, "user", started),
                           !.gossip = WithStatus(db, task[t].url, "done", got)]
      BY <1>5 DEF CrawlDone, got
    <3> QED BY <1>0, <3>1 DEF Tables
  <2>2. batch \in Seq(Sighting)
    BY LibraryAssumption DEF TablesInv, MemoryIsKnown
  <2>3. /\ Len(batch) \in Nat /\ DOMAIN batch = 1..Len(batch)
        /\ \A i \in 1..Len(batch) : bare[i].url = batch[i].url
    BY <2>2 DEF Sighting
  <2>4. Len(bare) = Len(batch)
    BY <2>3
  <2>5. \A i \in DOMAIN batch : batch[i].url \in Stored(db'.items)
    BY <1>5, GossipMoves
  <2>6. got \in SUBSET Stored(db'.items)
    BY <2>3, <2>4, <2>5
  <2> HIDE DEF got
  <2> QED BY <1>0, <1>5, <2>1, <2>6, GossipEnds DEF CrawlDone, Crawling
<1>6. ASSUME NEW t \in Tasks, LibraryTask(t), ~ CrawlFailed(t), ~ CrawlDone(t),
             \A m \in Materials : ~ SubmitUrl(t, m)
      PROVE  GossipInv'
  <2>1. db'.gossip = db.gossip /\ events \subseteq events'
    <3>1. CASE Ingest(t) \/ Assign(t) \/ WriteScores(t)
      BY <3>1, ClusteringKeeps
    <3>2. CASE CommitArticles(t)
      BY <1>0, <3>2 DEF CommitArticles, Tables
    <3>3. CASE ~ (Ingest(t) \/ Assign(t) \/ WriteScores(t) \/ CommitArticles(t))
      BY <1>6, <3>3 DEF LibraryTask, StartIngest, StartCluster, StartScore, StartGenerate, ListItems,
           GetScoop, GetMembers, GetArticle, Chat, PutArticle, BuildScoop, CrawlUrl, LockedOut, Dies
    <3> QED BY <3>1, <3>2, <3>3
  <2>2. UrlStays(t)
    BY <1>6, UrlsStay
  <2> QED BY <2>1, <2>2, GossipStays
<1> QED BY <1>1, <1>2, <1>3, <1>4, <1>5, <1>6 DEF LibraryNext, LibraryTask

\* No URL is submitted at first.
LEMMA GossipStart == LibraryInit => GossipInv
<1> SUFFICES ASSUME LibraryInit PROVE GossipInv
  OBVIOUS
<1>1. db.gossip = [m \in Materials |-> Nothing]
  BY DEF LibraryInit
<1>2. \A t \in Tasks : task[t] = NoTask
  BY DEF LibraryInit
<1> QED BY <1>1, <1>2 DEF GossipInv, GossipIsTruthful, UrlIsKnown, NoTask, Crawling

\* A material that is done has its pages in the library, one that is pending has its
\* job unless that died or was locked out (gossip_materials.py:44-75, library.py:329).
THEOREM GossipStaysTruthful == LibrarySpec => []GossipIsTruthful
<1>1. TablesInv /\ GossipInv /\ [LibraryNext]_libraryVars => GossipInv'
  BY TablesStep, GossipStep
<1>2. GossipInv => GossipIsTruthful
  BY DEF GossipInv
<1> QED BY <1>1, <1>2, TablesHold, GossipStart, PTL DEF LibrarySpec
-----------------------------------------------------------------------------
(* The articles and the packages.                                          *)

(* A task that does not generate, or one that died.                        *)
LEMMA CacheStays ==
  ASSUME CacheInv, DOMAIN task = Tasks, NEW t \in Tasks, NEW n, task' = [task EXCEPT ![t] = n],
         n.kind # "generate", n.pc \notin Writing, n.put = {},
         task[t].kind # "generate" \/ ~ Undisturbed',
         db'.articles = db.articles, packages' = packages, events \subseteq events'
  PROVE  CacheInv'
<1>1. /\ task'[t] = n /\ \A r \in Tasks \ {t} : task'[r] = task[r]
      /\ \A r \in Generating' : r \in Generating /\ r # t /\ task'[r] = task[r]
  BY DEF Generating
<1>2. \A r \in Tasks : WriterKnows(task'[r])
  <2>1. WriterKnows(n)
    BY DEF WriterKnows, Writing
  <2> QED BY <1>1, <2>1 DEF CacheInv
<1>3. ArticleIsOfItsScoop'
  BY DEF CacheInv, ArticleIsOfItsScoop
<1>4. ASSUME Undisturbed'
      PROVE  /\ \A q, r \in Generating' : q = r
             /\ PackagesAreCached'
             /\ \A r \in Generating' : PutIsNew(task'[r], db'.articles)
  <2>1. Undisturbed /\ task[t].kind # "generate"
    BY <1>4 DEF Undisturbed
  <2>2. \A r \in Generating : r \in Generating' /\ task'[r] = task[r]
    BY <1>1, <2>1 DEF Generating
  <2>3. PackagesAreCached'
    BY <2>1, <2>2 DEF CacheInv, PackagesAreCached
  <2> QED BY <1>1, <2>1, <2>3 DEF CacheInv
<1> QED BY <1>2, <1>3, <1>4 DEF CacheInv

(* A step of a generation job.                                             *)
LEMMA CacheFollows ==
  ASSUME CacheInv, DOMAIN task = Tasks, NEW t \in Tasks, NEW n, task' = [task EXCEPT ![t] = n],
         task[t].kind = "generate", n.kind = "generate", WriterKnows(n),
         db'.articles = db.articles, events' = events, ArticleIsOfItsScoop',
         PutIsNew(task[t], db.articles) =>
             /\ PutIsNew(n, db.articles) /\ task[t].put \subseteq n.put
             /\ \A p \in packages' \ packages : CacheEntry(p.body) \in db.articles \cup task[t].put
  PROVE  CacheInv'
<1>1. /\ task'[t] = n /\ \A r \in Tasks \ {t} : task'[r] = task[r]
      /\ Generating' = Generating /\ t \in Generating
  BY DEF Generating
<1>2. \A r \in Tasks : WriterKnows(task'[r])
  BY <1>1 DEF CacheInv
<1>3. ASSUME Undisturbed'
      PROVE  /\ \A q, r \in Generating' : q = r
             /\ PackagesAreCached'
             /\ \A r \in Generating' : PutIsNew(task'[r], db'.articles)
  <2>1. Undisturbed
    BY <1>3 DEF Undisturbed
  <2>2. /\ \A r \in Generating : r = t
        /\ PutIsNew(task[t], db.articles)
    BY <1>1, <2>1 DEF CacheInv
  <2>3. PackagesAreCached'
    <3> SUFFICES ASSUME NEW p \in packages'
                 PROVE  CacheEntry(p.body) \in db.articles \/ CacheEntry(p.body) \in n.put
      BY <1>1 DEF PackagesAreCached, CacheEntry
    <3>1. CASE p \in packages
      BY <1>1, <2>1, <2>2, <3>1 DEF CacheInv, PackagesAreCached
    <3>2. CASE p \notin packages
      BY <2>2, <3>2
    <3> QED BY <3>1, <3>2
  <2> QED BY <1>1, <2>2, <2>3
<1> QED BY <1>2, <1>3 DEF CacheInv

\* The commit of a generation job: what it put is what the packages hold.
LEMMA CommitKeeps ==
  ASSUME CacheInv, TablesInv, NEW t \in Tasks, CommitArticles(t)
  PROVE  CacheInv'
<1>1. /\ DOMAIN task = Tasks /\ task'[t] = NoTask /\ \A r \in Tasks \ {t} : task'[r] = task[r]
      /\ task[t].kind = "generate" /\ t \in Generating
      /\ packages' = packages /\ events' = events
  BY DEF CommitArticles, Ends, TablesInv, Generating
<1>2. db'.articles = Articles(t)
  BY DEF CommitArticles, TablesInv, Tables
<1>3. \A r \in Tasks : WriterKnows(task'[r])
  BY <1>1 DEF CacheInv, WriterKnows, NoTask, Writing
<1>4. \A a \in db'.articles : a = CacheEntry(a.body)
  BY <1>2 DEF CacheInv, WriterKnows, Articles
<1>5. ArticleIsOfItsScoop'
  BY <1>1 DEF CacheInv, ArticleIsOfItsScoop
<1>6. Undisturbed' => Generating' = {} /\ PackagesAreCached'
  <2> SUFFICES ASSUME Undisturbed' PROVE Generating' = {} /\ PackagesAreCached'
    OBVIOUS
  <2>1. Undisturbed
    BY <1>1 DEF Undisturbed
  <2>2. (\A r \in Generating : r = t) /\ PutIsNew(task[t], db.articles)
    BY <1>1, <2>1 DEF CacheInv
  <2>3. Generating' = {}
    BY <1>1, <2>2 DEF Generating, NoTask
  <2>4. Articles(t) = db.articles \cup task[t].put
    BY <2>2 DEF Articles, PutIsNew
  <2>5. \A p \in packages : CacheEntry(p.body) \in Articles(t)
    BY <2>1, <2>2, <2>4 DEF CacheInv, PackagesAreCached
  <2> QED BY <1>1, <1>2, <2>3, <2>5 DEF PackagesAreCached, CacheEntry
<1> QED BY <1>3, <1>4, <1>5, <1>6 DEF CacheInv

(* The members of a scoop, read after it was seen: none or all of it.      *)
LEMMA MembersAreAll ==
  ASSUME TablesInv, NEW id, id # Nothing, Members(db.items, id) # {}
  PROVE  /\ Members(db.items, id) = id
         /\ Len(Material(db.items, id)) = Cardinality(id)
<1>1. id \in ScoopsOf(db.scoops)
  BY DEF TablesInv, Agree, Members
<1>2. Members(db.items, id) = id /\ id \in SUBSET Urls
  BY <1>1 DEF TablesInv, Agree, ScoopsOf
<1>3. Cardinality(id) \in Nat
  BY <1>2, LibraryAssumption, FS_Subset, FS_CardinalityType
<1> QED BY <1>2, <1>3 DEF Material

\* Each step of a generation job before its commit.
LEMMA GenerationKeeps ==
  ASSUME CacheInv, TablesInv, NEW t \in Tasks,
         \/ GetScoop(t) \/ GetMembers(t) \/ GetArticle(t) \/ Chat(t) \/ PutArticle(t) \/ BuildScoop(t)
  PROVE  CacheInv'
<1> DEFINE m == task[t]
<1>0. DOMAIN task = Tasks /\ DOMAIN m = DOMAIN NoTask /\ WriterKnows(m)
      /\ m.ids \subseteq SUBSET Urls
  BY DEF TablesInv, MemoryIsKnown, CacheInv
<1>1. m.pc \in Writing /\ m.kind = "generate" /\ db' = db /\ events' = events
  <2>1. m.pc \in Writing /\ db' = db /\ events' = events
    BY DEF GetScoop, GetMembers, GetArticle, Chat, PutArticle, BuildScoop, Writing
  <2> QED BY <1>0, <2>1 DEF WriterKnows
<1>2. ~ BuildScoop(t) => packages' = packages
  BY DEF GetScoop, GetMembers, GetArticle, Chat, PutArticle
<1>3. packages' = packages => ArticleIsOfItsScoop'
  BY DEF CacheInv, ArticleIsOfItsScoop
\* The step is the memory n that follows m.
<1>4. ASSUME NEW n, task' = [task EXCEPT ![t] = n], n.kind = "generate", WriterKnows(n),
             packages' = packages, PutIsNew(m, db.articles) => PutIsNew(n, db.articles) /\ m.put \subseteq n.put
      PROVE  CacheInv'
  BY <1>0, <1>1, <1>3, <1>4, CacheFollows
<1> DEFINE GoesOn(n) == /\ n.kind = m.kind /\ n.pc = "next" /\ n.put = m.put
<1>5. ASSUME NEW n, GoesOn(n), task' = [task EXCEPT ![t] = n], packages' = packages
      PROVE  CacheInv'
  <2>1. WriterKnows(n) /\ n.kind = "generate"
    BY <1>0, <1>1, <1>5 DEF WriterKnows, Writing
  <2>2. PutIsNew(m, db.articles) => PutIsNew(n, db.articles) /\ m.put \subseteq n.put
    BY <1>5 DEF PutIsNew
  <2> QED BY <1>4, <1>5, <2>1, <2>2
<1>6. CASE GetScoop(t)
  <2>1. PICK id \in m.ids :
          task' = [task EXCEPT ![t].ids = @ \ {id},
                    ![t].pc = IF id \in Ids(db) THEN "members" ELSE "next", ![t].scoop = id]
    BY <1>6 DEF GetScoop
  <2> DEFINE n == [m EXCEPT !.ids = @ \ {id},
                            !.pc = IF id \in Ids(db) THEN "members" ELSE "next", !.scoop = id]
  <2>2. task' = [task EXCEPT ![t] = n]
    BY <1>0, <2>1
  <2>3. /\ n.kind = m.kind /\ n.pc \in {"members", "next"} /\ n.put = m.put /\ n.scoop = id
    BY <1>0 DEF NoTask
  <2> HIDE DEF n, m
  <2>4. id # Nothing
    BY <1>0, <2>1, LibraryAssumption
  <2>5. WriterKnows(n) /\ n.kind = "generate"
    BY <1>0, <1>1, <2>3, <2>4 DEF WriterKnows, Writing
  <2>6. PutIsNew(m, db.articles) => PutIsNew(n, db.articles) /\ m.put \subseteq n.put
    BY <2>3 DEF PutIsNew
  <2> QED BY <1>2, <1>4, <1>6, <2>2, <2>5, <2>6 DEF GetScoop, BuildScoop, m
<1>7. CASE GetMembers(t)
  <2> DEFINE us == Members(db.items, m.scoop)
             n == [m EXCEPT !.pc = IF us = {} THEN "next" ELSE "cache",
                            !.material = Material(db.items, us)]
  <2>1. task' = [task EXCEPT ![t] = n]
    BY <1>0, <1>7 DEF GetMembers
  <2>2. /\ n.kind = m.kind /\ n.put = m.put /\ n.scoop = m.scoop /\ n.material = Material(db.items, us)
        /\ n.pc = IF us = {} THEN "next" ELSE "cache"
    BY <1>0 DEF NoTask
  <2>3. m.pc = "members" /\ m.scoop # Nothing
    BY <1>0, <1>7 DEF GetMembers, WriterKnows, Writing
  <2>4. us # {} => Len(Material(db.items, us)) = Cardinality(m.scoop)
    BY <2>3, MembersAreAll
  <2> HIDE DEF n, m, us
  <2>5. WriterKnows(n) /\ n.kind = "generate"
    BY <1>0, <1>1, <2>2, <2>3, <2>4 DEF WriterKnows, Writing
  <2>6. PutIsNew(m, db.articles) => PutIsNew(n, db.articles) /\ m.put \subseteq n.put
    BY <2>2 DEF PutIsNew
  <2>7. packages' = packages
    BY <1>7 DEF GetMembers
  <2> QED BY <1>4, <2>1, <2>5, <2>6, <2>7
<1>8. CASE GetArticle(t)
  <2> DEFINE hits == {a \in Articles(t) : a.key = m.material}
             hit == CHOOSE a \in hits : TRUE
  <2>1. m.pc = "cache" /\ packages' = packages
    BY <1>8 DEF GetArticle
  <2>2. \/ hits = {} /\ task' = [task EXCEPT ![t].pc = "chat"]
        \/ hits # {} /\ task' = [task EXCEPT ![t].pc = "build", ![t].body = hit.body]
    BY <1>8 DEF GetArticle, CacheKey
  <2>3. CASE hits = {}
    <3> DEFINE n == [m EXCEPT !.pc = "chat"]
    <3>1. task' = [task EXCEPT ![t] = n]
      BY <1>0, <2>2, <2>3
    <3>2. n.kind = m.kind /\ n.put = m.put /\ n.scoop = m.scoop /\ n.material = m.material /\ n.pc = "chat"
      BY <1>0 DEF NoTask
    <3>3. PutIsNew(m, db.articles) => \A a \in db.articles \cup m.put : a.key # m.material
      BY <2>3 DEF PutIsNew, Articles
    <3> HIDE DEF n, m, hits
    <3>4. WriterKnows(n) /\ n.kind = "generate"
      BY <1>0, <1>1, <2>1, <3>2 DEF WriterKnows, Writing
    <3>5. PutIsNew(m, db.articles) => PutIsNew(n, db.articles) /\ m.put \subseteq n.put
      BY <3>2, <3>3 DEF PutIsNew
    <3> QED BY <1>4, <2>1, <3>1, <3>4, <3>5
  <2>4. CASE hits # {}
    <3> DEFINE n == [m EXCEPT !.pc = "build", !.body = hit.body]
    <3>1. task' = [task EXCEPT ![t] = n]
      BY <1>0, <2>2, <2>4
    <3>2. /\ n.kind = m.kind /\ n.put = m.put /\ n.scoop = m.scoop /\ n.material = m.material
          /\ n.pc = "build" /\ n.body = hit.body
      BY <1>0 DEF NoTask
    <3>3. hit \in Articles(t) /\ hit.key = m.material
      BY <2>4
    <3>4. hit \in db.articles \cup m.put /\ hit = CacheEntry(hit.body)
      BY <3>3 DEF Articles, CacheInv, WriterKnows
    <3>5. hit.body.of = m.material
      BY <3>3, <3>4 DEF CacheEntry
    <3> HIDE DEF n, m, hits, hit
    <3>6. WriterKnows(n) /\ n.kind = "generate"
      BY <1>0, <1>1, <2>1, <3>2, <3>5 DEF WriterKnows, Writing
    <3>7. PutIsNew(m, db.articles) => PutIsNew(n, db.articles) /\ m.put \subseteq n.put
      BY <3>2, <3>4 DEF PutIsNew
    <3> QED BY <1>4, <2>1, <3>1, <3>6, <3>7
  <2> QED BY <2>3, <2>4
<1>9. CASE Chat(t)
  <2> DEFINE n == [m EXCEPT !.pc = "put", !.body = [of |-> m.material, nr |-> chats]]
             k == [m EXCEPT !.pc = "next"]
  <2>1. m.pc = "chat" /\ packages' = packages
        /\ (task' = [task EXCEPT ![t] = n] \/ task' = [task EXCEPT ![t] = k])
    BY <1>0, <1>9 DEF Chat
  <2>2. /\ n.kind = m.kind /\ n.put = m.put /\ n.scoop = m.scoop /\ n.material = m.material
        /\ n.pc = "put" /\ n.body.of = m.material
        /\ GoesOn(k)
    BY <1>0 DEF NoTask
  <2> HIDE DEF n, m
  <2>3. WriterKnows(n) /\ n.kind = "generate"
    BY <1>0, <1>1, <2>1, <2>2 DEF WriterKnows, Writing
  <2>4. PutIsNew(m, db.articles) => PutIsNew(n, db.articles) /\ m.put \subseteq n.put
    BY <2>1, <2>2 DEF PutIsNew
  <2> HIDE DEF k, GoesOn
  <2> QED BY <1>4, <1>5, <2>1, <2>2, <2>3, <2>4
<1>10. CASE PutArticle(t)
  <2> DEFINE put == {a \in m.put : a.key # m.material} \cup {[key |-> m.material, body |-> m.body]}
             n == [m EXCEPT !.pc = "build", !.put = put]
             k == [m EXCEPT !.pc = "next"]
  <2>1. m.pc = "put" /\ packages' = packages
        /\ (task' = [task EXCEPT ![t] = n] \/ task' = [task EXCEPT ![t] = k])
    BY <1>0, <1>10 DEF PutArticle, CacheKey
  <2>2. /\ n.kind = m.kind /\ n.put = put /\ n.scoop = m.scoop /\ n.material = m.material
        /\ n.pc = "build" /\ n.body = m.body
        /\ GoesOn(k)
    BY <1>0 DEF NoTask
  <2>3. m.body.of = m.material /\ [key |-> m.material, body |-> m.body] = CacheEntry(m.body)
    BY <1>0, <2>1 DEF WriterKnows, CacheEntry
  <2>4. /\ CacheEntry(m.body) \in put /\ CacheEntry(m.body).key = m.material /\ CacheEntry(m.body).body = m.body
        /\ \A a \in put : a = CacheEntry(m.body) \/ a \in m.put
        /\ (\A a \in m.put : a.key # m.material) => m.put \subseteq put
    BY <2>3
  <2> HIDE DEF n, m, put
  <2>5. WriterKnows(n) /\ n.kind = "generate"
    BY <1>0, <1>1, <2>1, <2>2, <2>3, <2>4 DEF WriterKnows, Writing
  <2>6. PutIsNew(m, db.articles) => PutIsNew(n, db.articles) /\ m.put \subseteq n.put
    BY <2>1, <2>2, <2>4 DEF PutIsNew
  <2> HIDE DEF k, GoesOn
  <2> QED BY <1>4, <1>5, <2>1, <2>2, <2>5, <2>6
<1>11. CASE BuildScoop(t)
  <2> DEFINE n == [m EXCEPT !.pc = "next"]
             new == [id |-> m.scoop, body |-> m.body, wanted |-> m.material]
  <2>1. /\ m.pc = "build" /\ task' = [task EXCEPT ![t] = n]
        /\ packages' = packages \/ packages' = packages \cup {new}
    BY <1>0, <1>11 DEF BuildScoop
  <2>2. GoesOn(n)
    BY <1>0 DEF NoTask
  <2>3. new.body = m.body /\ m.body.of = m.material /\ Len(m.material) = Cardinality(m.scoop)
    BY <1>0, <2>1 DEF WriterKnows
  <2>4. ArticleIsOfItsScoop'
    BY <2>1, <2>3 DEF CacheInv, ArticleIsOfItsScoop
  <2> HIDE DEF n, m, new
  <2>5. WriterKnows(n) /\ n.kind = "generate"
    BY <1>0, <1>1, <2>2 DEF WriterKnows, Writing
  <2>6. PutIsNew(m, db.articles) =>
          /\ PutIsNew(n, db.articles) /\ m.put \subseteq n.put
          /\ \A p \in packages' \ packages : CacheEntry(p.body) \in db.articles \cup m.put
    BY <2>1, <2>2, <2>3 DEF PutIsNew
  <2> QED BY <1>0, <1>1, <2>1, <2>4, <2>5, <2>6, CacheFollows DEF m
<1> QED BY <1>6, <1>7, <1>8, <1>9, <1>10, <1>11

\* A task begins: a second generation job is noted as an overlap.
LEMMA StartsKeep ==
  ASSUME CacheInv, TablesInv, NEW t \in Tasks,
         \/ StartIngest(t) \/ StartCluster(t) \/ StartScore(t) \/ StartGenerate(t)
         \/ \E m \in Materials : SubmitUrl(t, m)
  PROVE  CacheInv'
<1>0. DOMAIN task = Tasks /\ WriterKnows(task[t]) /\ DOMAIN db = Tables
      /\ (task[t].pc = "idle" => task[t] = NoTask)
  BY DEF TablesInv, MemoryIsKnown, CacheInv
<1>1. db'.articles = db.articles /\ packages' = packages
  <2>1. CASE \E m \in Materials : SubmitUrl(t, m)
    BY <1>0, <2>1 DEF SubmitUrl, Tables
  <2>2. CASE ~ \E m \in Materials : SubmitUrl(t, m)
    BY <2>2 DEF StartIngest, StartCluster, StartScore, StartGenerate
  <2> QED BY <2>1, <2>2
<1>2. task[t].kind # "generate"
  <2>1. task[t].pc = "idle"
    BY DEF StartIngest, StartCluster, StartScore, StartGenerate, SubmitUrl, Begin
  <2> QED BY <1>0, <2>1 DEF NoTask
<1> DEFINE Other(n) == n.kind # "generate" /\ n.pc \notin Writing /\ n.put = {}
<1>3. ASSUME NEW n, Other(n), Begin(t, n), events' = events PROVE CacheInv'
  BY <1>0, <1>1, <1>2, <1>3, CacheStays DEF Begin
<1>4. CASE StartIngest(t)
  <2>1. PICK b \in Crawled, k \in {"prep", "ingest"} :
          Begin(t, [NoTask EXCEPT !.kind = k, !.batch = b,
                                  !.pc = IF k = "prep" /\ b = <<>> THEN "list" ELSE "ingest"])
    BY <1>4 DEF StartIngest
  <2> DEFINE n == [NoTask EXCEPT !.kind = k, !.batch = b,
                                 !.pc = IF k = "prep" /\ b = <<>> THEN "list" ELSE "ingest"]
  <2>2. Other(n)
    BY DEF NoTask, Writing
  <2> HIDE DEF Other
  <2> QED BY <1>3, <1>4, <2>1, <2>2 DEF StartIngest
<1>5. CASE StartCluster(t)
  <2> DEFINE n == [NoTask EXCEPT !.kind = "cluster", !.pc = "list"]
  <2>1. Other(n)
    BY DEF NoTask, Writing
  <2> HIDE DEF Other
  <2> QED BY <1>3, <1>5, <2>1 DEF StartCluster
<1>6. CASE StartScore(t)
  <2> DEFINE n == [NoTask EXCEPT !.kind = "score", !.pc = "score", !.ids = Ids(db)]
  <2>1. Other(n)
    BY DEF NoTask, Writing
  <2> HIDE DEF Other
  <2> QED BY <1>3, <1>6, <2>1 DEF StartScore
<1>7. ASSUME NEW u \in Materials, SubmitUrl(t, u) PROVE CacheInv'
  <2> DEFINE n == [NoTask EXCEPT !.kind = "gossip", !.pc = "crawl", !.url = u]
  <2>1. Other(n)
    BY DEF NoTask, Writing
  <2> HIDE DEF Other
  <2> QED BY <1>3, <1>7, <2>1 DEF SubmitUrl
\* The only writer, unless another one was at work.
<1>8. CASE StartGenerate(t)
  <2>1. PICK ids \in SUBSET Ids(db) :
          Begin(t, [NoTask EXCEPT !.kind = "generate", !.pc = "next", !.ids = ids])
    BY <1>8 DEF StartGenerate
  <2> DEFINE n == [NoTask EXCEPT !.kind = "generate", !.pc = "next", !.ids = ids]
  <2>2. n.kind = "generate" /\ n.pc = "next" /\ n.put = {}
    BY DEF NoTask
  <2> HIDE DEF n
  <2>3. task' = [task EXCEPT ![t] = n]
    BY <2>1 DEF Begin, n
  <2>4. /\ task'[t] = n /\ \A r \in Tasks \ {t} : task'[r] = task[r]
        /\ Generating' = Generating \cup {t}
    BY <1>0, <2>2, <2>3 DEF Generating
  <2>5. \A r \in Tasks : WriterKnows(task'[r])
    <3>1. WriterKnows(n)
      BY <2>2 DEF WriterKnows, Writing
    <3> QED BY <2>4, <3>1 DEF CacheInv
  <2>6. ArticleIsOfItsScoop'
    BY <1>1 DEF CacheInv, ArticleIsOfItsScoop
  <2>7. PutIsNew(n, db.articles)
    BY <2>2 DEF PutIsNew
  <2>8. ASSUME Undisturbed'
        PROVE  Generating' = {t} /\ PackagesAreCached'
    <3>1. Undisturbed /\ Generating = {}
      BY <1>8, <2>8 DEF StartGenerate, Undisturbed
    <3> QED BY <1>1, <2>4, <3>1 DEF CacheInv, PackagesAreCached
  <2> QED BY <1>1, <2>4, <2>5, <2>6, <2>7, <2>8 DEF CacheInv
<1> QED BY <1>4, <1>5, <1>6, <1>7, <1>8

\* Every step keeps the articles and the packages.
LEMMA CacheStep ==
  ASSUME CacheInv, TablesInv, [LibraryNext]_libraryVars
  PROVE  CacheInv'
<1>0. /\ DOMAIN task = Tasks /\ DOMAIN db = Tables
      /\ \A t \in Tasks : WriterKnows(task[t]) /\ DOMAIN task[t] = DOMAIN NoTask
  BY DEF TablesInv, MemoryIsKnown, CacheInv
<1>1. CASE UNCHANGED libraryVars
  BY <1>1 DEF libraryVars, CacheInv, ArticleIsOfItsScoop, Undisturbed, PackagesAreCached, Generating
<1>2. ASSUME NEW m \in Materials, DeleteUrl(m) PROVE CacheInv'
  <2>1. db'.articles = db.articles /\ UNCHANGED <<task, packages, events>>
    BY <1>0, <1>2 DEF DeleteUrl, Tables
  <2> QED BY <2>1 DEF CacheInv, ArticleIsOfItsScoop, Undisturbed, PackagesAreCached, Generating
<1>3. ASSUME NEW t \in Tasks, LibraryTask(t) PROVE CacheInv'
  <2> DEFINE Other(n) == n.kind # "generate" /\ n.pc \notin Writing /\ n.put = {}
             m == task[t]
  <2>1. ASSUME NEW n, Other(n), task' = [task EXCEPT ![t] = n],
               m.pc \notin Writing \/ ~ Undisturbed',
               db'.articles = db.articles, packages' = packages, events \subseteq events'
        PROVE  CacheInv'
    <3>1. m.kind # "generate" \/ ~ Undisturbed'
      BY <1>0, <2>1 DEF WriterKnows
    <3> QED BY <1>0, <2>1, <3>1, CacheStays
  <2>2. Other(NoTask)
    BY DEF NoTask, Writing
  <2>3. CASE Ingest(t) \/ Assign(t) \/ WriteScores(t)
    <3>1. m.pc \notin Writing /\ packages' = packages /\ task' = [task EXCEPT ![t] = NoTask]
      BY <2>3 DEF Ingest, Assign, WriteScores, Ends, Writing
    <3> QED BY <2>1, <2>2, <2>3, <3>1, ClusteringKeeps
  <2>4. CASE CrawlFailed(t) \/ CrawlDone(t)
    <3>1. m.pc \notin Writing /\ packages' = packages /\ events' = events
          /\ task' = [task EXCEPT ![t] = NoTask]
      BY <2>4 DEF CrawlFailed, CrawlDone, Ends, Writing
    <3>2. db'.articles = db.articles
      BY <1>0, <2>4 DEF CrawlFailed, CrawlDone, Tables
    <3> QED BY <2>1, <2>2, <3>1, <3>2
  <2>5. CASE LockedOut(t)
    <3>1. m.pc \notin Writing
      BY <2>5 DEF LockedOut, Writing
    <3> QED BY <2>1, <2>2, <2>5, <3>1 DEF LockedOut, Ends
  <2>6. CASE Dies(t)
    <3>1. ~ Undisturbed'
      BY <2>6 DEF Dies, Undisturbed
    <3> QED BY <2>1, <2>2, <2>6, <3>1 DEF Dies, Ends
  <2>7. CASE ListItems(t)
    <3> DEFINE n == [m EXCEPT !.pc = "assign", !.items = db.items]
    <3>1. task' = [task EXCEPT ![t] = n] /\ m.pc = "list"
      BY <1>0, <2>7 DEF ListItems
    <3>2. n.kind = m.kind /\ n.pc = "assign" /\ n.put = m.put
      BY <1>0 DEF NoTask
    <3> HIDE DEF n
    <3>3. Other(n)
      BY <1>0, <3>1, <3>2 DEF WriterKnows, Writing
    <3>4. m.pc \notin Writing
      BY <3>1 DEF Writing
    <3> QED BY <2>1, <2>7, <3>1, <3>3, <3>4 DEF ListItems
  <2>8. CASE CrawlUrl(t)
    <3>1. PICK n : /\ task' = [task EXCEPT ![t] = n]
                   /\ n.kind = m.kind /\ n.pc \in {"gossip-failed", "gossip-done"} /\ n.put = m.put
      <4>1. CASE task' = [task EXCEPT ![t].pc = "gossip-failed"]
        <5> DEFINE n == [m EXCEPT !.pc = "gossip-failed"]
        <5>1. task' = [task EXCEPT ![t] = n]
          BY <1>0, <4>1
        <5>2. n.kind = m.kind /\ n.pc = "gossip-failed" /\ n.put = m.put
          BY <1>0 DEF NoTask
        <5> QED BY <5>1, <5>2
      <4>2. ASSUME NEW b \in Crawled, task' = [task EXCEPT ![t].pc = "gossip-done", ![t].batch = b]
            PROVE  \E n : /\ task' = [task EXCEPT ![t] = n]
                          /\ n.kind = m.kind /\ n.pc \in {"gossip-failed", "gossip-done"}
                          /\ n.put = m.put
        <5> DEFINE n == [m EXCEPT !.pc = "gossip-done", !.batch = b]
        <5>1. task' = [task EXCEPT ![t] = n]
          BY <1>0, <4>2
        <5>2. n.kind = m.kind /\ n.pc = "gossip-done" /\ n.put = m.put
          BY <1>0 DEF NoTask
        <5> QED BY <5>1, <5>2
      <4> QED BY <2>8, <4>1, <4>2 DEF CrawlUrl
    <3>2. m.pc = "crawl"
      BY <2>8 DEF CrawlUrl
    <3>3. Other(n) /\ m.pc \notin Writing
      BY <1>0, <3>1, <3>2 DEF WriterKnows, Writing
    <3> QED BY <2>1, <2>8, <3>1, <3>3 DEF CrawlUrl
  <2> QED BY <1>3, <2>3, <2>4, <2>5, <2>6, <2>7, <2>8, StartsKeep, GenerationKeeps, CommitKeeps
          DEF LibraryTask
<1> QED BY <1>1, <1>2, <1>3 DEF LibraryNext

\* No article and no package at first.
LEMMA CacheStart == LibraryInit => CacheInv
<1> SUFFICES ASSUME LibraryInit PROVE CacheInv
  OBVIOUS
<1>1. db.articles = {} /\ packages = {} /\ \A t \in Tasks : task[t] = NoTask
  BY DEF LibraryInit
<1>2. Generating = {}
  BY <1>1 DEF Generating, NoTask
<1>3. WriterKnows(NoTask)
  BY DEF WriterKnows, NoTask, Writing
<1> QED BY <1>1, <1>2, <1>3 DEF CacheInv, ArticleIsOfItsScoop, PackagesAreCached

\* The article in a package was written from the whole scoop, and is the one a re-run
\* finds in the cache, unless a job died or two ran at once (library.py:268,
\* scoop_pipeline.py:126).
THEOREM CacheStaysSound == LibrarySpec => []CacheIsSound
<1>1. TablesInv /\ CacheInv /\ [LibraryNext]_libraryVars => CacheInv'
  BY CacheStep
<1>2. CacheInv => CacheIsSound
  <2>1. \A p \in packages : [key |-> CacheKey(p.body.of), body |-> p.body] = CacheEntry(p.body)
    BY DEF CacheKey, CacheEntry
  <2> QED BY <2>1 DEF CacheInv, CacheIsSound, RerunIsStable, Undisturbed, PackagesAreCached
<1> QED BY <1>1, <1>2, TablesHold, CacheStart, PTL DEF LibrarySpec

-----------------------------------------------------------------------------
(* What the scores of a scoop come to: fractions first, with the greatest *)
(* common divisor that reduces them, then the weighted mean, then the four *)
(* dimensions.                                                             *)

Fraction == {a \in Int \X Int : a[2] > 0}

\* Products: of both sides of an inequality, cancelled again, of two positive numbers.
LEMMA Multiply ==
  ASSUME NEW x \in Int, NEW z \in Int, NEW k \in Int, k >= 0, x <= z PROVE x * k <= z * k
<1>1. (z - x) * k >= 0
  OBVIOUS
<1>2. (z - x) * k = z * k - x * k
  OBVIOUS
<1>3. x * k \in Int /\ z * k \in Int
  OBVIOUS
<1> QED BY <1>1, <1>2, <1>3

LEMMA Cancel ==
  ASSUME NEW x \in Int, NEW z \in Int, NEW k \in Int, k > 0, x * k <= z * k PROVE x <= z
<1> SUFFICES ASSUME z + 1 <= x PROVE FALSE
  OBVIOUS
<1>1. (z + 1) * k <= x * k
  BY Multiply
<1>2. (z + 1) * k = z * k + k
  OBVIOUS
<1>3. x * k \in Int /\ z * k \in Int
  OBVIOUS
<1> QED BY <1>1, <1>2, <1>3

LEMMA Positive == ASSUME NEW x \in Int, NEW z \in Int, x > 0, z > 0 PROVE x * z \in Int /\ x * z > 0
<1>1. 1 * z <= x * z
  BY Multiply
<1>2. x * z \in Int
  OBVIOUS
<1> QED BY <1>1, <1>2

\* Fractions: sums, multiples and the order.
LEMMA FractionParts ==
  ASSUME NEW a \in Fraction PROVE a[1] \in Int /\ a[2] \in Int /\ a[2] > 0 /\ a = <<a[1], a[2]>>
BY DEF Fraction

LEMMA IsFraction == ASSUME NEW n \in Int, NEW d \in Int, d > 0 PROVE <<n, d>> \in Fraction
BY DEF Fraction

LEMMA PlusTyped == ASSUME NEW a \in Fraction, NEW b \in Fraction PROVE Plus(a, b) \in Fraction
<1>1. a[2] * b[2] \in Int /\ a[2] * b[2] > 0
  BY FractionParts, Positive
<1>2. a[1] * b[2] + b[1] * a[2] \in Int
  BY FractionParts
<1> QED BY <1>1, <1>2, IsFraction DEF Plus

LEMMA TimesTyped == ASSUME NEW a \in Fraction, NEW w \in Int PROVE Times(a, w) \in Fraction
<1>1. a[1] * w \in Int
  BY FractionParts
<1> QED BY <1>1, FractionParts, IsFraction DEF Times

\* The order of fractions is transitive, and sums and multiples keep it.
LEMMA LeqTransitive ==
  ASSUME NEW a \in Fraction, NEW b \in Fraction, NEW c \in Fraction, Leq(a, b), Leq(b, c)
  PROVE  Leq(a, c)
<1> DEFINE n1 == a[1]
           d1 == a[2]
           n2 == b[1]
           d2 == b[2]
           n3 == c[1]
           d3 == c[2]
<1>1. n1 \in Int /\ n2 \in Int /\ n3 \in Int /\ d1 \in Int /\ d2 \in Int /\ d3 \in Int
      /\ d1 > 0 /\ d2 > 0 /\ d3 > 0
  BY FractionParts
<1>2. n1 * d2 <= n2 * d1 /\ n2 * d3 <= n3 * d2
  BY DEF Leq
<1> HIDE DEF n1, d1, n2, d2, n3, d3
<1>3. (n1 * d2) * d3 <= (n2 * d1) * d3
  <2>1. n1 * d2 \in Int /\ n2 * d1 \in Int
    BY <1>1
  <2> QED BY <1>1, <1>2, <2>1, Multiply
<1>4. (n2 * d3) * d1 <= (n3 * d2) * d1
  <2>1. n2 * d3 \in Int /\ n3 * d2 \in Int
    BY <1>1
  <2> QED BY <1>1, <1>2, <2>1, Multiply
<1>5. (n1 * d3) * d2 <= (n3 * d1) * d2
  BY <1>1, <1>3, <1>4
<1>6. n1 * d3 <= n3 * d1
  <2>1. n1 * d3 \in Int /\ n3 * d1 \in Int
    BY <1>1
  <2> QED BY <1>1, <1>5, <2>1, Cancel
<1> QED BY <1>6 DEF Leq, n1, d1, n3, d3

LEMMA PlusMonotone ==
  ASSUME NEW a \in Fraction, NEW b \in Fraction, NEW c \in Fraction, NEW d \in Fraction,
         Leq(a, b), Leq(c, d)
  PROVE  Leq(Plus(a, c), Plus(b, d))
<1> DEFINE n1 == a[1]
           d1 == a[2]
           n2 == b[1]
           d2 == b[2]
           n3 == c[1]
           d3 == c[2]
           n4 == d[1]
           d4 == d[2]
<1>1. n1 \in Int /\ n2 \in Int /\ n3 \in Int /\ n4 \in Int
      /\ d1 \in Int /\ d2 \in Int /\ d3 \in Int /\ d4 \in Int
      /\ d1 > 0 /\ d2 > 0 /\ d3 > 0 /\ d4 > 0
  BY FractionParts
<1>2. n1 * d2 <= n2 * d1 /\ n3 * d4 <= n4 * d3
  BY DEF Leq
<1>3. Leq(Plus(a, c), Plus(b, d))
        <=> (n1 * d3 + n3 * d1) * (d2 * d4) <= (n2 * d4 + n4 * d2) * (d1 * d3)
  BY DEF Leq, Plus
<1> HIDE DEF n1, d1, n2, d2, n3, d3, n4, d4
<1>4. (n1 * d2) * (d3 * d4) <= (n2 * d1) * (d3 * d4)
  <2>1. n1 * d2 \in Int /\ n2 * d1 \in Int /\ d3 * d4 \in Int /\ d3 * d4 > 0
    BY <1>1, Positive
  <2> QED BY <1>2, <2>1, Multiply
<1>5. (n3 * d4) * (d1 * d2) <= (n4 * d3) * (d1 * d2)
  <2>1. n3 * d4 \in Int /\ n4 * d3 \in Int /\ d1 * d2 \in Int /\ d1 * d2 > 0
    BY <1>1, Positive
  <2> QED BY <1>2, <2>1, Multiply
<1>6. (n1 * d3 + n3 * d1) * (d2 * d4) = (n1 * d2) * (d3 * d4) + (n3 * d4) * (d1 * d2)
  BY <1>1
<1>7. (n2 * d4 + n4 * d2) * (d1 * d3) = (n2 * d1) * (d3 * d4) + (n4 * d3) * (d1 * d2)
  BY <1>1
<1>8. (n1 * d2) * (d3 * d4) \in Int /\ (n2 * d1) * (d3 * d4) \in Int
      /\ (n3 * d4) * (d1 * d2) \in Int /\ (n4 * d3) * (d1 * d2) \in Int
  BY <1>1
<1> QED BY <1>3, <1>4, <1>5, <1>6, <1>7, <1>8

LEMMA TimesMonotone ==
  ASSUME NEW a \in Fraction, NEW b \in Fraction, NEW w \in Int, w >= 0, Leq(a, b)
  PROVE  Leq(Times(a, w), Times(b, w))
<1> DEFINE n1 == a[1]
           d1 == a[2]
           n2 == b[1]
           d2 == b[2]
<1>1. n1 \in Int /\ n2 \in Int /\ d1 \in Int /\ d2 \in Int
  BY FractionParts
<1>2. n1 * d2 <= n2 * d1
  BY DEF Leq
<1>3. Leq(Times(a, w), Times(b, w)) <=> (n1 * w) * d2 <= (n2 * w) * d1
  BY DEF Leq, Times
<1> HIDE DEF n1, d1, n2, d2
<1>4. (n1 * d2) * w <= (n2 * d1) * w
  <2>1. n1 * d2 \in Int /\ n2 * d1 \in Int
    BY <1>1
  <2> QED BY <1>2, <2>1, Multiply
<1>5. (n1 * d2) * w = (n1 * w) * d2 /\ (n2 * d1) * w = (n2 * w) * d1
  BY <1>1
<1> QED BY <1>3, <1>4, <1>5

\* A score is a fraction between 0 and 1; clamping makes one and keeps the order.
Score(a) == a \in Fraction /\ Leq(Zero, a) /\ Leq(a, One)

LEMMA ClampScores == ASSUME NEW a \in Fraction PROVE Score(Clamp01(a))
<1>1. a[1] \in Int /\ a[2] \in Int /\ a[2] > 0
  BY FractionParts
<1>2. Zero \in Fraction /\ One \in Fraction
  BY IsFraction DEF Zero, One
<1>3. CASE a[1] < 0
  BY <1>1, <1>2, <1>3 DEF Clamp01, Score, Leq, Zero, One
<1>4. CASE ~ (a[1] < 0) /\ a[1] > a[2]
  BY <1>1, <1>2, <1>4 DEF Clamp01, Score, Leq, Zero, One
<1>5. CASE ~ (a[1] < 0) /\ ~ (a[1] > a[2])
  BY <1>1, <1>2, <1>5 DEF Clamp01, Score, Leq, Zero, One
<1> QED BY <1>3, <1>4, <1>5

LEMMA ClampMonotone ==
  ASSUME NEW a \in Fraction, NEW b \in Fraction, Leq(a, b)
  PROVE  Leq(Clamp01(a), Clamp01(b))
<1>1. a[1] \in Int /\ a[2] \in Int /\ a[2] > 0 /\ b[1] \in Int /\ b[2] \in Int /\ b[2] > 0
  BY FractionParts
<1>2. Score(Clamp01(a)) /\ Score(Clamp01(b))
  BY ClampScores
<1>3. CASE a[1] < 0
  BY <1>2, <1>3 DEF Clamp01, Score
<1>4. CASE b[1] > b[2]
  <2>1. Clamp01(b) = One
    BY <1>1, <1>4 DEF Clamp01
  <2> QED BY <1>2, <2>1 DEF Score
<1>5. CASE ~ (a[1] < 0) /\ ~ (b[1] > b[2])
  <2>1. a[1] * b[2] <= b[1] * a[2]
    BY DEF Leq
  <2>2. b[1] >= 0
    <3> SUFFICES ASSUME b[1] <= -1 PROVE FALSE
      BY <1>1
    <3>1. b[1] * a[2] <= (-1) * a[2]
      BY <1>1, Multiply
    <3>2. 0 * b[2] <= a[1] * b[2]
      BY <1>1, <1>5, Multiply
    <3>3. a[1] * b[2] \in Int /\ b[1] * a[2] \in Int
      BY <1>1
    <3> QED BY <1>1, <2>1, <3>1, <3>2, <3>3
  <2>3. Clamp01(b) = b
    BY <1>1, <1>5, <2>2 DEF Clamp01
  <2>4. CASE a[1] > a[2]
    <3>1. Clamp01(a) = One
      BY <1>1, <1>5, <2>4 DEF Clamp01
    <3>2. a[2] * b[2] <= a[1] * b[2]
      BY <1>1, <2>4, Multiply
    <3>3. a[2] * b[2] <= b[1] * a[2]
      <4>1. a[2] * b[2] \in Int /\ a[1] * b[2] \in Int /\ b[1] * a[2] \in Int
        BY <1>1
      <4> QED BY <2>1, <3>2, <4>1
    <3>4. b[2] * a[2] <= b[1] * a[2]
      BY <1>1, <3>3
    <3>5. b[2] <= b[1]
      BY <1>1, <3>4, Cancel
    <3> QED BY <1>1, <2>3, <3>1, <3>5 DEF Leq, One
  <2>5. CASE ~ (a[1] > a[2])
    BY <1>1, <1>5, <2>3, <2>5 DEF Clamp01
  <2> QED BY <2>4, <2>5
<1> QED BY <1>3, <1>4, <1>5

\* Euclid's algorithm, for divisors up to n: the recursion has a solution, and only one.
Euclid(g, n) ==
  g = [p \in Nat \X (0..n) |-> IF p[2] = 0 THEN p[1] ELSE g[<<p[2], p[1] % p[2]>>]]

LEMMA RemainderIsLess ==
  ASSUME NEW n \in Nat, NEW p \in Nat \X (0..(n + 1)), p[2] # 0
  PROVE  <<p[2], p[1] % p[2]>> \in Nat \X (0..n)
<1>1. p[1] \in Nat /\ p[2] \in Nat /\ p[2] > 0 /\ p[2] <= n + 1
  OBVIOUS
<1>2. p[1] % p[2] \in 0..(p[2] - 1)
  BY <1>1
<1> QED BY <1>1, <1>2

LEMMA EuclidExists == \A n \in Nat : \E g : Euclid(g, n)
<1> DEFINE S == {n \in Nat : \E g : Euclid(g, n)}
<1>1. 0 \in S
  <2> DEFINE g == [p \in Nat \X (0..0) |-> p[1]]
  <2>1. Euclid(g, 0)
    BY DEF Euclid
  <2> QED BY <2>1
<1>2. ASSUME NEW n \in Nat, n \in S PROVE n + 1 \in S
  <2>1. PICK g : Euclid(g, n)
    BY <1>2
  <2> DEFINE all == Nat \X (0..(n + 1))
             h == [p \in all |-> IF p[2] = 0 THEN p[1] ELSE g[<<p[2], p[1] % p[2]>>]]
             Next(p) == IF p[2] = 0 THEN p[1] ELSE h[<<p[2], p[1] % p[2]>>]
  <2>2. ASSUME NEW q \in Nat \X (0..n) PROVE q \in all /\ h[q] = g[q]
    <3>1. q \in all
      OBVIOUS
    <3>2. g[q] = IF q[2] = 0 THEN q[1] ELSE g[<<q[2], q[1] % q[2]>>]
      BY <2>1 DEF Euclid
    <3> QED BY <3>1, <3>2
  <2>3. ASSUME NEW p \in all PROVE h[p] = Next(p)
    <3>1. CASE p[2] = 0
      BY <3>1
    <3>2. CASE p[2] # 0
      <4>1. h[<<p[2], p[1] % p[2]>>] = g[<<p[2], p[1] % p[2]>>]
        BY <2>2, <3>2, RemainderIsLess
      <4>2. h[p] = g[<<p[2], p[1] % p[2]>>]
        BY <3>2
      <4> QED BY <3>2, <4>1, <4>2
    <3> QED BY <3>1, <3>2
  <2>4. h = [p \in all |-> h[p]]
    OBVIOUS
  <2>5. h = [p \in all |-> Next(p)]
    <3> HIDE DEF h, Next
    <3> QED BY <2>3, <2>4
  <2>6. Euclid(h, n + 1)
    <3> HIDE DEF h
    <3> QED BY <2>5 DEF Euclid
  <2> QED BY <2>6
<1> HIDE DEF S
<1>3. \A n \in Nat : n \in S
  BY <1>1, <1>2, NatSubsets
<1> QED BY <1>3 DEF S

LEMMA EuclidUnique ==
  ASSUME NEW f, NEW g, NEW k \in Nat, NEW l \in Nat, Euclid(f, k), Euclid(g, l)
  PROVE  \A n \in Nat : n <= k /\ n <= l => \A m \in Nat : f[<<m, n>>] = g[<<m, n>>]
<1> DEFINE Same(n) == n <= k /\ n <= l => \A m \in Nat : f[<<m, n>>] = g[<<m, n>>]
           S == {n \in Nat : \A i \in 0..n : Same(i)}
<1>0. /\ \A m \in Nat, n \in 0..k : f[<<m, n>>] = IF n = 0 THEN m ELSE f[<<n, m % n>>]
      /\ \A m \in Nat, n \in 0..l : g[<<m, n>>] = IF n = 0 THEN m ELSE g[<<n, m % n>>]
  <2>1. ASSUME NEW m \in Nat, NEW n \in 0..k PROVE f[<<m, n>>] = IF n = 0 THEN m ELSE f[<<n, m % n>>]
    <3>1. <<m, n>> \in Nat \X (0..k) /\ <<m, n>>[1] = m /\ <<m, n>>[2] = n
      OBVIOUS
    <3> QED BY <3>1 DEF Euclid
  <2>2. ASSUME NEW m \in Nat, NEW n \in 0..l PROVE g[<<m, n>>] = IF n = 0 THEN m ELSE g[<<n, m % n>>]
    <3>1. <<m, n>> \in Nat \X (0..l) /\ <<m, n>>[1] = m /\ <<m, n>>[2] = n
      OBVIOUS
    <3> QED BY <3>1 DEF Euclid
  <2> QED BY <2>1, <2>2
<1>1. 0 \in S
  <2>1. 0 \in 0..k /\ 0 \in 0..l
    OBVIOUS
  <2>2. Same(0)
    BY <1>0, <2>1
  <2>3. \A i \in 0..0 : i = 0
    OBVIOUS
  <2> HIDE DEF Same
  <2> QED BY <2>2, <2>3
<1>2. ASSUME NEW n \in Nat, n \in S PROVE n + 1 \in S
  <2>1. ASSUME n + 1 <= k, n + 1 <= l, NEW m \in Nat PROVE f[<<m, n + 1>>] = g[<<m, n + 1>>]
    <3>1. m % (n + 1) \in 0..n
      OBVIOUS
    <3>2. Same(m % (n + 1))
      BY <1>2, <3>1
    <3>3. f[<<n + 1, m % (n + 1)>>] = g[<<n + 1, m % (n + 1)>>]
      BY <2>1, <3>1, <3>2
    <3>4. n + 1 \in 0..k /\ n + 1 \in 0..l /\ n + 1 # 0
      BY <2>1
    <3> QED BY <1>0, <3>3, <3>4
  <2>2. Same(n + 1)
    BY <2>1
  <2>3. \A i \in 0..(n + 1) : i \in 0..n \/ i = n + 1
    OBVIOUS
  <2> HIDE DEF Same
  <2> QED BY <1>2, <2>2, <2>3
<1> HIDE DEF S
<1>3. \A n \in Nat : n \in S
  BY <1>1, <1>2, NatSubsets
<1> QED BY <1>3 DEF S

LEMMA GcdUnfolds ==
  ASSUME NEW m \in Nat, NEW n \in Nat
  PROVE  Gcd[<<m, n>>] = IF n = 0 THEN m ELSE Gcd[<<n, m % n>>]
<1> DEFINE G(n_) == CHOOSE g : Euclid(g, n_)
           gcd == [p \in Nat \X Nat |-> G(p[2])[p]]
           Next(p) == IF p[2] = 0 THEN p[1] ELSE gcd[<<p[2], p[1] % p[2]>>]
<1>1. \A k \in Nat : Euclid(G(k), k)
  BY EuclidExists
<1> HIDE DEF G
<1>2. ASSUME NEW p \in Nat \X Nat PROVE gcd[p] = Next(p)
  <2> DEFINE a == p[1]
             b == p[2]
  <2>1. a \in Nat /\ b \in Nat /\ p = <<a, b>> /\ gcd[p] = G(b)[p]
    OBVIOUS
  <2>2. <<a, b>> \in Nat \X (0..b) /\ <<a, b>>[1] = a /\ <<a, b>>[2] = b
    BY <2>1
  <2>3. G(b)[<<a, b>>] = IF b = 0 THEN a ELSE G(b)[<<b, a % b>>]
    BY <1>1, <2>1, <2>2 DEF Euclid
  <2>4. ASSUME b # 0 PROVE gcd[<<b, a % b>>] = G(b)[<<b, a % b>>]
    <3>1. a % b \in 0..(b - 1) /\ a % b \in Nat /\ a % b <= b
      BY <2>1, <2>4
    <3>2. <<b, a % b>> \in Nat \X Nat /\ <<b, a % b>>[2] = a % b
      BY <2>1, <3>1
    <3>3. gcd[<<b, a % b>>] = G(a % b)[<<b, a % b>>]
      BY <3>2
    <3> QED BY <1>1, <2>1, <3>1, <3>3, EuclidUnique
  <2> HIDE DEF a, b, gcd
  <2>5. CASE b = 0
    BY <2>1, <2>3, <2>5 DEF a, b
  <2>6. CASE b # 0
    <3>1. gcd[p] = gcd[<<b, a % b>>]
      BY <2>1, <2>3, <2>4, <2>6
    <3> QED BY <2>6, <3>1 DEF a, b
  <2> QED BY <2>5, <2>6
<1>3. gcd = [p \in Nat \X Nat |-> gcd[p]]
  OBVIOUS
<1>4. gcd = [p \in Nat \X Nat |-> Next(p)]
  <2> HIDE DEF gcd, Next
  <2> QED BY <1>2, <1>3
<1> HIDE DEF gcd
<1>5. Gcd = [p \in Nat \X Nat |-> IF p[2] = 0 THEN p[1] ELSE Gcd[<<p[2], p[1] % p[2]>>]]
  BY <1>4 DEF Gcd
<1>6. <<m, n>> \in Nat \X Nat /\ <<m, n>>[1] = m /\ <<m, n>>[2] = n
  OBVIOUS
<1> QED BY <1>5, <1>6

Divides(g, n) == \E q \in Int : n = g * q

\* A divisor of two numbers divides what is made of them.
LEMMA DividesSum ==
  ASSUME NEW g \in Int, NEW a \in Int, NEW b \in Int, NEW k \in Int, Divides(g, a), Divides(g, b)
  PROVE  Divides(g, a * k + b)
<1>1. PICK q \in Int : a = g * q
  BY DEF Divides
<1>2. PICK r \in Int : b = g * r
  BY DEF Divides
<1>3. a * k + b = g * (q * k + r)
  BY <1>1, <1>2
<1>4. q * k + r \in Int
  OBVIOUS
<1> QED BY <1>3, <1>4 DEF Divides

\* The greatest common divisor is one, of positive n and any m.
LEMMA GcdDivides ==
  \A n \in Nat : n > 0 => \A m \in Nat :
      /\ Gcd[<<m, n>>] \in 1..n
      /\ Divides(Gcd[<<m, n>>], m) /\ Divides(Gcd[<<m, n>>], n)
<1> DEFINE Fine(n) == n > 0 => \A m \in Nat :
             /\ Gcd[<<m, n>>] \in 1..n
             /\ Divides(Gcd[<<m, n>>], m) /\ Divides(Gcd[<<m, n>>], n)
           S == {n \in Nat : \A i \in 0..n : Fine(i)}
<1>1. 0 \in S
  OBVIOUS
<1>2. ASSUME NEW n \in Nat, n \in S PROVE n + 1 \in S
  <2>1. ASSUME NEW m \in Nat
        PROVE  /\ Gcd[<<m, n + 1>>] \in 1..(n + 1)
               /\ Divides(Gcd[<<m, n + 1>>], m) /\ Divides(Gcd[<<m, n + 1>>], n + 1)
    <3> DEFINE d == n + 1
               r == m % d
               q == m \div d
               g == Gcd[<<d, r>>]
    <3>1. d \in Nat /\ d > 0 /\ r \in 0..n /\ q \in Int /\ m = d * q + r
      OBVIOUS
    <3>2. Gcd[<<m, d>>] = g
      BY <3>1, GcdUnfolds
    <3>3. Fine(r)
      BY <1>2, <3>1
    <3> HIDE DEF r, q
    <3>4. CASE r = 0
      <4>1. g = d
        BY <3>1, <3>4, GcdUnfolds
      <4>2. m = d * q /\ d = d * 1
        BY <3>1, <3>4
      <4>3. d \in 1..d
        BY <3>1
      <4> QED BY <3>1, <3>2, <4>1, <4>2, <4>3 DEF Divides
    <3>5. CASE r # 0
      <4>1. r \in Nat /\ r > 0 /\ r <= n
        BY <3>1, <3>5
      <4>2. g \in 1..r /\ Divides(g, d) /\ Divides(g, r)
        BY <3>1, <3>3, <4>1
      <4> HIDE DEF g, d
      <4>3. Divides(g, m)
        <5>1. g \in Int /\ d \in Int /\ q \in Int /\ r \in Int
          BY <3>1, <4>1, <4>2
        <5>2. Divides(g, d * q + r)
          BY <4>2, <5>1, DividesSum
        <5> QED BY <3>1, <5>2
      <4>4. g \in 1..d
        BY <3>1, <4>1, <4>2 DEF d
      <4> QED BY <3>2, <4>2, <4>3, <4>4 DEF d
    <3> QED BY <3>4, <3>5
  <2>2. Fine(n + 1)
    BY <2>1
  <2>3. \A i \in 0..(n + 1) : i \in 0..n \/ i = n + 1
    OBVIOUS
  <2> HIDE DEF Fine
  <2> QED BY <1>2, <2>2, <2>3
<1> HIDE DEF S
<1>3. \A n \in Nat : n \in S
  BY <1>1, <1>2, NatSubsets
<1>4. \A n \in Nat : Fine(n)
  <2> SUFFICES ASSUME NEW n \in Nat PROVE Fine(n)
    OBVIOUS
  <2>1. n \in 0..n
    OBVIOUS
  <2> HIDE DEF Fine
  <2> QED BY <1>3, <2>1 DEF S
<1> QED BY <1>4

\* The quotient of a multiple.
LEMMA Quotient == ASSUME NEW g \in Int, g > 0, NEW q \in Int PROVE (g * q) \div g = q
<1> DEFINE n == g * q
           k == n \div g
           r == n % g
<1>1. n \in Int /\ k \in Int /\ r \in Int /\ n = g * k + r /\ 0 <= r /\ r < g
  OBVIOUS
<1>2. r = (q - k) * g
  BY <1>1
<1> HIDE DEF k, r
<1>3. CASE q - k >= 1
  <2>1. 1 * g <= (q - k) * g
    BY <1>1, <1>3, Multiply
  <2> QED BY <1>1, <1>2, <2>1
<1>4. CASE q - k <= -1
  <2>1. (q - k) * g <= (-1) * g
    BY <1>1, <1>4, Multiply
  <2> QED BY <1>1, <1>2, <2>1
<1>5. CASE q = k
  BY <1>5 DEF k
<1> QED BY <1>1, <1>3, <1>4, <1>5

\* A reduced fraction is one, and the same.
LEMMA ReducedIsTheSame ==
  ASSUME NEW n \in Int, NEW d \in Int, d > 0
  PROVE  /\ Reduced(n, d) \in Fraction
         /\ Leq(Reduced(n, d), <<n, d>>) /\ Leq(<<n, d>>, Reduced(n, d))
<1> DEFINE m == IF n < 0 THEN -n ELSE n
           g == Gcd[<<m, d>>]
<1>1. m \in Nat /\ d \in Nat
  OBVIOUS
<1>2. g \in 1..d /\ Divides(g, m) /\ Divides(g, d)
  BY <1>1, GcdDivides
<1>3. Reduced(n, d) = <<n \div g, d \div g>>
  BY DEF Reduced
<1> HIDE DEF g
<1>4. g \in Int /\ g > 0
  BY <1>2
<1>5. PICK q \in Int : d = g * q
  BY <1>2 DEF Divides
<1>6. PICK p \in Int : n = g * p
  <2>1. PICK r \in Int : m = g * r
    BY <1>2 DEF Divides
  <2>2. CASE n < 0
    <3>1. n = g * (-r) /\ -r \in Int
      BY <1>4, <2>1, <2>2
    <3> QED BY <3>1
  <2>3. CASE ~ (n < 0)
    BY <2>1, <2>3
  <2> QED BY <2>2, <2>3
<1>7. Reduced(n, d) = <<p, q>>
  BY <1>3, <1>4, <1>5, <1>6, Quotient
<1>8. q > 0
  <2> SUFFICES ASSUME q <= 0 PROVE FALSE
    OBVIOUS
  <2>1. q * g <= 0 * g
    BY <1>4, Multiply
  <2> QED BY <1>4, <1>5, <2>1
<1>9. p * d = n * q
  BY <1>4, <1>5, <1>6
<1>10. p * d \in Int /\ n * q \in Int
  OBVIOUS
<1> QED BY <1>7, <1>8, <1>9, <1>10, IsFraction DEF Leq

-----------------------------------------------------------------------------
(* The weighted mean: by induction over its parts.                         *)

MeanJoined(a, p) == [sum |-> Plus(a.sum, Times(p[1], p[2])), weight |-> a.weight + p[2]]
NoParts == [sum |-> Zero, weight |-> 0]

\* The function that folds the parts of a mean over the sets of their places.
IsMean(it, s, n) ==
  it = [p \in SUBSET (1..n) |-> IF p = {} THEN NoParts ELSE MeanJoined(it[p \ {Max(p)}], s[Max(p)])]

\* That function exists: CHOOSE of it is one (MapThenFoldSet).
LEMMA MeanExists == ASSUME NEW s PROVE \A n \in Nat : \E it : IsMean(it, s, n)
<1> DEFINE S == {n \in Nat : \E it : IsMean(it, s, n)}
           Up(a, x) == MeanJoined(a, s[x])
<1>1. 0 \in S
  <2> DEFINE it == [p \in SUBSET (1..0) |-> NoParts]
  <2>1. \A p \in SUBSET (1..0) : p = {}
    OBVIOUS
  <2>2. IsMean(it, s, 0)
    BY <2>1 DEF IsMean
  <2> QED BY <2>2
<1>2. ASSUME NEW n \in Nat, n \in S PROVE n + 1 \in S
  <2>1. PICK it : IsMean(it, s, n)
    BY <1>2
  <2> DEFINE all == SUBSET (1..(n + 1))
             jt == [p \in all |-> IF n + 1 \in p THEN Up(it[p \ {n + 1}], n + 1) ELSE it[p]]
             Follows(p) == IF p = {} THEN NoParts ELSE Up(jt[p \ {Max(p)}], Max(p))
  <2>2. it = [q \in SUBSET (1..n) |-> IF q = {} THEN NoParts ELSE Up(it[q \ {Max(q)}], Max(q))]
    BY <2>1 DEF IsMean
  <2> HIDE DEF Up
  <2>3. ASSUME NEW p \in all, n + 1 \in p PROVE jt[p] = Follows(p)
    <3>1. Max(p) = n + 1 /\ p # {} /\ p \ {n + 1} \in all /\ n + 1 \notin p \ {n + 1}
      BY <2>3, NextIsMax
    <3>2. jt[p \ {n + 1}] = it[p \ {n + 1}]
      BY <3>1
    <3> QED BY <2>3, <3>1, <3>2
  <2>4. ASSUME NEW p \in all, n + 1 \notin p PROVE jt[p] = Follows(p)
    <3>1. p \in SUBSET (1..n) /\ jt[p] = it[p]
      BY <2>4
    <3>2. p \ {Max(p)} \in all /\ n + 1 \notin p \ {Max(p)}
      BY <2>4
    <3>3. jt[p \ {Max(p)}] = it[p \ {Max(p)}]
      BY <3>2
    <3>4. it[p] = IF p = {} THEN NoParts ELSE Up(it[p \ {Max(p)}], Max(p))
      BY <2>2, <3>1
    <3> QED BY <3>1, <3>3, <3>4
  <2>5. jt = [p \in all |-> jt[p]]
    OBVIOUS
  <2>6. \A p \in all : jt[p] = Follows(p)
    BY <2>3, <2>4
  <2>7. jt = [p \in all |-> Follows(p)]
    <3> HIDE DEF jt, Follows
    <3> QED BY <2>5, <2>6
  <2>8. IsMean(jt, s, n + 1)
    <3> HIDE DEF jt
    <3> QED BY <2>7 DEF IsMean, Up
  <2> QED BY <2>8
<1> HIDE DEF S
<1>3. \A n \in Nat : n \in S
  BY <1>1, <1>2, NatSubsets
<1> QED BY <1>3 DEF S

MeanOf(a) == IF a.weight <= 0 THEN Zero ELSE Clamp01(Reduced(a.sum[1], a.sum[2] * a.weight))

\* The sum and the weight of the first n parts, for each n.
Sums(k, s) ==
  /\ k[0] = NoParts
  /\ \A n \in Nat : n + 1 <= Len(s) => k[n + 1] = MeanJoined(k[n], s[n + 1])

\* A mean is found part by part.
LEMMA MeanUnfolds ==
  ASSUME NEW A, NEW s \in Seq(A)
  PROVE  \E k : Sums(k, s) /\ Weighted(s) = MeanOf(k[Len(s)])
<1> DEFINE N == Len(s)
           it == CHOOSE f : IsMean(f, s, N)
           k == [n \in Nat |-> it[1..n]]
           all == FoldLeft(LAMBDA a, p : [sum |-> Plus(a.sum, Times(p[1], p[2])), weight |-> a.weight + p[2]],
                        [sum |-> Zero, weight |-> 0], s)
<1>1. N \in Nat /\ DOMAIN s = 1..N
  OBVIOUS
<1>2. all = it[1..N]
  BY <1>1 DEF FoldLeft, MapThenFoldSet, IsMean, MeanJoined, NoParts
<1>3. Weighted(s) = MeanOf(all)
  BY DEF Weighted, MeanOf
<1>4. IsMean(it, s, N)
  BY <1>1, MeanExists
<1> HIDE DEF it, N, all
<1>5. k[0] = NoParts
  <2>1. 1..0 = {} /\ {} \in SUBSET (1..N)
    OBVIOUS
  <2> QED BY <1>4, <2>1 DEF IsMean
<1>6. ASSUME NEW n \in Nat, n + 1 <= N PROVE k[n + 1] = MeanJoined(k[n], s[n + 1])
  <2>1. /\ 1..(n + 1) \in SUBSET (1..N) /\ 1..(n + 1) # {} /\ (1..(n + 1)) \ {n + 1} = 1..n
    <3>1. n + 1 \in 1..N /\ n + 1 \in 1..(n + 1) /\ 1..(n + 1) \in SUBSET (1..N)
      BY <1>1, <1>6
    <3>2. (1..(n + 1)) \ {n + 1} = 1..n
      OBVIOUS
    <3> QED BY <3>1, <3>2
  <2>2. Max(1..(n + 1)) = n + 1
    BY <2>1, NextIsMax
  <2>3. k[n + 1] = it[1..(n + 1)] /\ k[n] = it[1..n]
    OBVIOUS
  <2> HIDE DEF k
  <2> QED BY <1>4, <2>1, <2>2, <2>3 DEF IsMean
<1>7. Sums(k, s)
  BY <1>5, <1>6 DEF Sums, N
<1>8. Weighted(s) = MeanOf(k[Len(s)])
  BY <1>1, <1>2, <1>3 DEF N
<1> HIDE DEF k
<1> QED BY <1>7, <1>8

MeanParts == Fraction \X Int
Part(a) == a = [sum |-> a.sum, weight |-> a.weight] /\ a.sum \in Fraction /\ a.weight \in Int

LEMMA JoinedTyped == ASSUME NEW a, Part(a), NEW p \in MeanParts PROVE Part(MeanJoined(a, p))
<1>1. p[1] \in Fraction /\ p[2] \in Int
  BY DEF MeanParts
<1>2. Plus(a.sum, Times(p[1], p[2])) \in Fraction
  BY <1>1, TimesTyped, PlusTyped DEF Part
<1> QED BY <1>1, <1>2 DEF Part, MeanJoined

\* What has been joined so far is a fraction and a weight.
LEMMA SumsTyped ==
  ASSUME NEW s \in Seq(MeanParts), NEW k, Sums(k, s)
  PROVE  \A n \in Nat : n <= Len(s) => Part(k[n])
<1> DEFINE S == {n \in Nat : n <= Len(s) => Part(k[n])}
<1>1. 0 \in S
  <2>1. Zero \in Fraction
    BY IsFraction DEF Zero
  <2> QED BY <2>1 DEF Sums, NoParts, Part
<1>2. ASSUME NEW n \in Nat, n \in S PROVE n + 1 \in S
  <2> SUFFICES ASSUME n + 1 <= Len(s) PROVE Part(k[n + 1])
    OBVIOUS
  <2>1. s[n + 1] \in MeanParts /\ Part(k[n])
    BY <1>2
  <2> QED BY <2>1, JoinedTyped DEF Sums
<1> HIDE DEF S
<1>3. \A n \in Nat : n \in S
  BY <1>1, <1>2, NatSubsets
<1> QED BY <1>3 DEF S

\* A mean is a score, whatever its parts and weights.
LEMMA MeanIsScore == ASSUME NEW s \in Seq(MeanParts) PROVE Score(Weighted(s))
<1>1. PICK k : Sums(k, s) /\ Weighted(s) = MeanOf(k[Len(s)])
  BY MeanUnfolds
<1> DEFINE a == k[Len(s)]
<1>2. Part(a)
  BY <1>1, SumsTyped
<1> HIDE DEF a
<1>3. CASE a.weight <= 0
  <2>1. Score(Zero)
    BY IsFraction DEF Score, Zero, One, Leq
  <2> QED BY <1>1, <1>3, <2>1 DEF MeanOf, a
<1>4. CASE ~ (a.weight <= 0)
  <2>1. a.sum[1] \in Int /\ a.sum[2] \in Int /\ a.sum[2] > 0 /\ a.weight \in Int /\ a.weight > 0
    BY <1>2, <1>4, FractionParts DEF Part
  <2>2. a.sum[2] * a.weight \in Int /\ a.sum[2] * a.weight > 0
    BY <2>1, Positive
  <2>3. Score(Clamp01(Reduced(a.sum[1], a.sum[2] * a.weight)))
    BY <2>1, <2>2, ReducedIsTheSame, ClampScores
  <2> QED BY <1>1, <1>4, <2>3 DEF MeanOf, a
<1> QED BY <1>3, <1>4

\* No part smaller, no weight negative: no smaller mean.
LEMMA MeanIsMonotone ==
  ASSUME NEW s \in Seq(MeanParts), NEW u \in Seq(MeanParts), Len(u) = Len(s),
         \A i \in 1..Len(s) : u[i][2] = s[i][2] /\ s[i][2] >= 0 /\ Leq(s[i][1], u[i][1])
  PROVE  Leq(Weighted(s), Weighted(u))
<1>1. PICK k : Sums(k, s) /\ Weighted(s) = MeanOf(k[Len(s)])
  BY MeanUnfolds
<1>2. PICK j : Sums(j, u) /\ Weighted(u) = MeanOf(j[Len(u)])
  BY MeanUnfolds
<1>3. \A n \in Nat : n <= Len(s) => Part(k[n]) /\ Part(j[n])
  BY <1>1, <1>2, SumsTyped
<1> DEFINE Ordered(n) == j[n].weight = k[n].weight /\ Leq(k[n].sum, j[n].sum)
           S == {n \in Nat : n <= Len(s) => Ordered(n)}
<1>4. 0 \in S
  BY <1>1, <1>2 DEF Sums, NoParts, Leq, Zero
<1>5. ASSUME NEW n \in Nat, n \in S PROVE n + 1 \in S
  <2> SUFFICES ASSUME n + 1 <= Len(s) PROVE Ordered(n + 1)
    OBVIOUS
  <2> DEFINE p == s[n + 1]
             q == u[n + 1]
             a == k[n]
             b == j[n]
  <2>1. p \in MeanParts /\ q \in MeanParts /\ q[2] = p[2] /\ p[2] >= 0 /\ Leq(p[1], q[1])
    OBVIOUS
  <2>2. b.weight = a.weight /\ Leq(a.sum, b.sum) /\ Part(a) /\ Part(b)
    BY <1>3, <1>5
  <2>3. k[n + 1] = MeanJoined(a, p) /\ j[n + 1] = MeanJoined(b, q)
    BY <1>1, <1>2 DEF Sums
  <2> HIDE DEF p, q, a, b
  <2>4. p[1] \in Fraction /\ q[1] \in Fraction /\ p[2] \in Int
    BY <2>1 DEF MeanParts
  <2>5. Leq(Times(p[1], p[2]), Times(q[1], q[2]))
    BY <2>1, <2>4, TimesMonotone
  <2>6. Times(p[1], p[2]) \in Fraction /\ Times(q[1], q[2]) \in Fraction
    BY <2>1, <2>4, TimesTyped
  <2>7. a.sum \in Fraction /\ b.sum \in Fraction
    BY <2>2 DEF Part
  <2>8. Leq(Plus(a.sum, Times(p[1], p[2])), Plus(b.sum, Times(q[1], q[2])))
    BY <2>2, <2>5, <2>6, <2>7, PlusMonotone
  <2> QED BY <2>1, <2>2, <2>3, <2>8 DEF MeanJoined
<1> HIDE DEF S
<1>6. \A n \in Nat : n \in S
  BY <1>4, <1>5, NatSubsets
<1> DEFINE a == k[Len(s)]
           b == j[Len(s)]
<1>7. b.weight = a.weight /\ Leq(a.sum, b.sum) /\ Part(a) /\ Part(b)
  <2>1. Len(s) \in Nat
    OBVIOUS
  <2> QED BY <1>3, <1>6, <2>1 DEF S
<1>8. Weighted(s) = MeanOf(a) /\ Weighted(u) = MeanOf(b)
  BY <1>1, <1>2
<1> HIDE DEF a, b
<1>9. CASE a.weight <= 0
  <2>1. Leq(Zero, Zero)
    BY DEF Leq, Zero
  <2> QED BY <1>7, <1>8, <1>9, <2>1 DEF MeanOf
<1>10. CASE ~ (a.weight <= 0)
  <2> DEFINE w == a.weight
             n1 == a.sum[1]
             d1 == a.sum[2]
             n2 == b.sum[1]
             d2 == b.sum[2]
  <2>1. /\ n1 \in Int /\ d1 \in Int /\ d1 > 0 /\ n2 \in Int /\ d2 \in Int /\ d2 > 0
        /\ w \in Int /\ w > 0 /\ b.weight = w
    BY <1>7, <1>10, FractionParts DEF Part
  <2>2. n1 * d2 <= n2 * d1
    BY <1>7 DEF Leq
  <2>3. Weighted(s) = Clamp01(Reduced(n1, d1 * w)) /\ Weighted(u) = Clamp01(Reduced(n2, d2 * w))
    BY <1>8, <1>10, <2>1 DEF MeanOf
  <2> HIDE DEF w, n1, d1, n2, d2
  <2>4. d1 * w \in Int /\ d1 * w > 0 /\ d2 * w \in Int /\ d2 * w > 0
    BY <2>1, Positive
  <2>5. n1 * (d2 * w) <= n2 * (d1 * w)
    <3>1. (n1 * d2) * w <= (n2 * d1) * w
      <4>1. n1 * d2 \in Int /\ n2 * d1 \in Int
        BY <2>1
      <4> QED BY <2>1, <2>2, <4>1, Multiply
    <3>2. (n1 * d2) * w = n1 * (d2 * w) /\ (n2 * d1) * w = n2 * (d1 * w)
      BY <2>1
    <3> QED BY <3>1, <3>2
  <2> DEFINE x == <<n1, d1 * w>>
             z == <<n2, d2 * w>>
             rx == Reduced(n1, d1 * w)
             rz == Reduced(n2, d2 * w)
  <2>6. Leq(x, z)
    BY <2>5 DEF Leq
  <2>7. x \in Fraction /\ z \in Fraction
    BY <2>1, <2>4, IsFraction
  <2>8. rx \in Fraction /\ Leq(rx, x)
    BY <2>1, <2>4, ReducedIsTheSame
  <2>9. rz \in Fraction /\ Leq(z, rz)
    BY <2>1, <2>4, ReducedIsTheSame
  <2> HIDE DEF x, z, rx, rz
  <2>10. Leq(rx, z)
    BY <2>6, <2>7, <2>8, LeqTransitive
  <2>11. Leq(rx, rz)
    BY <2>7, <2>8, <2>9, <2>10, LeqTransitive
  <2> QED BY <2>3, <2>8, <2>9, <2>11, ClampMonotone DEF rx, rz
<1> QED BY <1>9, <1>10

-----------------------------------------------------------------------------
(* The four dimensions.                                                    *)

\* Of finitely many numbers one is the greatest.
LEMMA GreatestExists ==
  ASSUME NEW N \in Nat, NEW f, NEW T \in SUBSET (1..N), T # {}, \A i \in T : f[i] \in Int
  PROVE  \E m \in T : \A i \in T : f[i] <= f[m]
<1> DEFINE Has(U) == \E m \in U : \A i \in U : f[i] <= f[m]
           S == {n \in Nat : \A U \in SUBSET (1..n) : U \subseteq T /\ U # {} => Has(U)}
<1>1. 0 \in S
  <2>1. \A U \in SUBSET (1..0) : U = {}
    OBVIOUS
  <2> QED BY <2>1
<1>2. ASSUME NEW n \in Nat, n \in S PROVE n + 1 \in S
  <2>1. ASSUME NEW U \in SUBSET (1..(n + 1)), U \subseteq T, U # {} PROVE Has(U)
    <3>1. CASE n + 1 \notin U
      <4>1. U \in SUBSET (1..n)
        BY <3>1
      <4> HIDE DEF Has
      <4> QED BY <1>2, <2>1, <4>1
    <3>2. CASE n + 1 \in U /\ U \ {n + 1} = {}
      <4>1. f[n + 1] \in Int /\ \A i \in U : i = n + 1
        BY <2>1, <3>2
      <4> QED BY <3>2, <4>1
    <3>3. CASE n + 1 \in U /\ U \ {n + 1} # {}
      <4> DEFINE V == U \ {n + 1}
      <4>1. V \in SUBSET (1..n) /\ V \subseteq T /\ V # {}
        BY <2>1, <3>3
      <4>2. Has(V)
        <5> HIDE DEF V, Has
        <5> QED BY <1>2, <4>1
      <4>3. PICK m \in V : \A i \in V : f[i] <= f[m]
        BY <4>2
      <4>4. f[m] \in Int /\ f[n + 1] \in Int /\ \A i \in U : f[i] \in Int /\ (i \in V \/ i = n + 1)
        BY <2>1, <3>3
      <4>5. CASE f[n + 1] <= f[m]
        BY <4>3, <4>4, <4>5
      <4>6. CASE f[n + 1] > f[m]
        <5>1. \A i \in U : f[i] <= f[n + 1]
          BY <4>3, <4>4, <4>6
        <5> QED BY <3>3, <5>1
      <4> QED BY <4>4, <4>5, <4>6
    <3> QED BY <3>1, <3>2, <3>3
  <2> HIDE DEF Has
  <2> QED BY <2>1
<1> HIDE DEF S, Has
<1>3. \A n \in Nat : n \in S
  BY <1>1, <1>2, NatSubsets
<1>4. Has(T)
  BY <1>3 DEF S
<1> QED BY <1>4 DEF Has

Article == [date : Int \cup {Unknown}, text : Nat, source : Nat, angle : Nat]

LEMMA ArticleOf ==
  ASSUME NEW ms \in Seq(Article), NEW i \in 1..Len(ms)
  PROVE  /\ ms[i].date \in Int \cup {Unknown} /\ ms[i].text \in Nat
         /\ ms[i].source \in Nat /\ ms[i].angle \in Nat
<1>1. ms[i] \in Article
  OBVIOUS
<1> QED BY <1>1 DEF Article

\* The latest date: no dated article is later, and one is as late.
LatestDate(ms, d) ==
  /\ d = Unknown => \A i \in 1..Len(ms) : ms[i].date = Unknown
  /\ d # Unknown => /\ d \in Int
                    /\ \E i \in 1..Len(ms) : ms[i].date = d
                    /\ \A i \in 1..Len(ms) : ms[i].date # Unknown => ms[i].date <= d

LEMMA LatestIsLatest == ASSUME NEW ms \in Seq(Article) PROVE LatestDate(ms, Latest(ms))
<1> DEFINE dates == {ms[i].date : i \in 1..Len(ms)} \ {Unknown}
           f == [i \in 1..Len(ms) |-> ms[i].date]
           T == {i \in 1..Len(ms) : ms[i].date # Unknown}
<1>0. Len(ms) \in Nat
  OBVIOUS
<1>1. \A i \in T : f[i] \in Int /\ f[i] = ms[i].date
  BY ArticleOf
<1>2. CASE dates = {}
  <2>1. Latest(ms) = Unknown
    BY <1>2 DEF Latest
  <2> QED BY <1>2, <2>1 DEF LatestDate
<1>3. CASE dates # {}
  <2>1. T # {} /\ T \in SUBSET (1..Len(ms))
    BY <1>3
  <2>2. PICK m \in T : \A i \in T : f[i] <= f[m]
    <3> HIDE DEF f, T
    <3> QED BY <1>0, <1>1, <2>1, GreatestExists
  <2>3. \A d \in dates : d \in Int /\ d <= ms[m].date
    BY <1>1, <2>2
  <2>4. ms[m].date \in dates
    OBVIOUS
  <2>5. Max(dates) \in dates /\ \A d \in dates : Max(dates) >= d
    <3>1. \E x \in dates : \A d \in dates : x >= d
      BY <2>3, <2>4
    <3> HIDE DEF dates
    <3> QED BY <3>1 DEF Max
  <2>6. Latest(ms) = Max(dates)
    BY <1>3 DEF Latest
  <2> DEFINE d == Latest(ms)
  <2>7. d \in dates /\ \A e \in dates : d >= e
    BY <2>5, <2>6
  <2> HIDE DEF d
  <2>8. d \in Int /\ d # Unknown
    BY <2>3, <2>7, ScoreAssumption
  <2>9. \E i \in 1..Len(ms) : ms[i].date = d
    BY <2>7
  <2>10. ASSUME NEW i \in 1..Len(ms), ms[i].date # Unknown PROVE ms[i].date <= d
    <3>1. ms[i].date \in dates
      BY <2>10
    <3> QED BY <2>3, <2>7, <2>8, <3>1
  <2> QED BY <2>8, <2>9, <2>10 DEF LatestDate, d
<1> QED BY <1>2, <1>3

\* The longest text is the length of one, or 0.
LEMMA TextIsKnown == ASSUME NEW ms \in Seq(Article) PROVE MaxText(ms) \in Nat
<1> DEFINE N == Len(ms) + 1
           f == [i \in 1..N |-> IF i = N THEN 0 ELSE ms[i].text]
           texts == {0} \cup {ms[i].text : i \in 1..Len(ms)}
<1>1. N \in Nat /\ 1..N \in SUBSET (1..N) /\ N \in 1..N /\ \A i \in 1..N : i = N \/ i \in 1..Len(ms)
  OBVIOUS
<1>2. \A i \in 1..N : f[i] \in Nat
  BY <1>1, ArticleOf
<1>3. PICK m \in 1..N : \A i \in 1..N : f[i] <= f[m]
  <2>1. 1..N # {} /\ \A i \in 1..N : f[i] \in Int
    BY <1>1, <1>2
  <2> HIDE DEF f, N
  <2> QED BY <1>1, <2>1, GreatestExists
<1>4. texts = {f[i] : i \in 1..N}
  <2>1. \A i \in 1..Len(ms) : i \in 1..N /\ f[i] = ms[i].text
    OBVIOUS
  <2>2. f[N] = 0
    BY <1>1
  <2>3. \A i \in 1..N : f[i] = 0 \/ (i \in 1..Len(ms) /\ f[i] = ms[i].text)
    BY <1>1
  <2> HIDE DEF f, N
  <2> QED BY <1>1, <2>1, <2>2, <2>3
<1> HIDE DEF f, N, texts
<1>5. \E x \in texts : \A t \in texts : x >= t
  BY <1>2, <1>3, <1>4
<1>6. Max(texts) \in texts
  BY <1>5 DEF Max
<1> QED BY <1>2, <1>4, <1>6 DEF MaxText, texts

\* Share, recency and velocity are scores, and none falls with what it counts.
LEMMA ScoresOf ==
  /\ Score(Zero) /\ Score(One)
  /\ \A a : Score(a) => a \in Fraction /\ Leq(Zero, a) /\ Leq(a, One) /\ Leq(a, a)
<1>1. Score(Zero) /\ Score(One)
  BY IsFraction DEF Score, Zero, One, Leq
<1>2. ASSUME NEW a, Score(a) PROVE Leq(a, a)
  <2>1. a[1] * a[2] \in Int
    BY <1>2, FractionParts DEF Score
  <2> QED BY <2>1 DEF Leq
<1> QED BY <1>1, <1>2 DEF Score

\* Two clamped fractions of one denominator.
LEMMA SameDenominator ==
  ASSUME NEW n \in Int, NEW m \in Int, NEW d \in Int, d > 0, n <= m
  PROVE  /\ Score(Clamp01(<<n, d>>)) /\ Score(Clamp01(<<m, d>>))
         /\ Leq(Clamp01(<<n, d>>), Clamp01(<<m, d>>))
<1>1. <<n, d>> \in Fraction /\ <<m, d>> \in Fraction
  BY IsFraction
<1>2. Leq(<<n, d>>, <<m, d>>)
  BY Multiply DEF Leq
<1> QED BY <1>1, <1>2, ClampScores, ClampMonotone

LEMMA ShareIsScore ==
  ASSUME NEW n \in Nat, NEW m \in Nat, n <= m, NEW cap \in Int
  PROVE  Score(Share(n, cap)) /\ Leq(Share(n, cap), Share(m, cap))
<1>1. CASE cap <= 0
  BY <1>1, ScoresOf DEF Share
<1>2. CASE cap > 0
  <2>1. Share(n, cap) = Clamp01(<<n, cap>>) /\ Share(m, cap) = Clamp01(<<m, cap>>)
    BY <1>2 DEF Share
  <2> QED BY <1>2, <2>1, SameDenominator
<1> QED BY <1>1, <1>2

LEMMA RecencyIsScore ==
  ASSUME NEW latest \in Int \cup {Unknown}, NEW now \in Int, NEW window \in Int
  PROVE  Score(Recency(latest, now, window))
<1>1. CASE latest = Unknown \/ window <= 0
  BY <1>1, ScoresOf DEF Recency
<1>2. CASE ~ (latest = Unknown \/ window <= 0) /\ now <= latest
  BY <1>2, ScoresOf DEF Recency
<1>3. CASE ~ (latest = Unknown \/ window <= 0) /\ ~ (now <= latest)
  <2>1. window - (now - latest) \in Int /\ window > 0
    BY <1>3
  <2>2. Recency(latest, now, window) = Clamp01(<<window - (now - latest), window>>)
    BY <1>3 DEF Recency
  <2> QED BY <2>1, <2>2, SameDenominator
<1> QED BY <1>1, <1>2, <1>3

\* A later date, or an earlier look at it, is no less recent; no date never is.
LEMMA RecencyIsMonotone ==
  ASSUME NEW early \in Int \cup {Unknown}, NEW late \in Int \cup {Unknown},
         NEW now \in Int, NEW before \in Int, NEW window \in Int, before <= now,
         early # Unknown => late # Unknown /\ early <= late
  PROVE  Leq(Recency(early, now, window), Recency(late, before, window))
<1>1. Score(Recency(early, now, window)) /\ Score(Recency(late, before, window))
  BY RecencyIsScore
<1>2. CASE early = Unknown \/ window <= 0
  BY <1>1, <1>2, ScoresOf DEF Recency
<1>3. CASE ~ (early = Unknown \/ window <= 0) /\ before <= late
  BY <1>1, <1>3, ScoresOf DEF Recency
<1>4. CASE ~ (early = Unknown \/ window <= 0) /\ ~ (before <= late)
  <2>1. early \in Int /\ late \in Int /\ early <= late /\ window > 0 /\ late < before /\ late # Unknown
    BY <1>4
  <2>2. ~ (now <= early)
    BY <2>1
  <2>3. Recency(early, now, window) = Clamp01(<<window - (now - early), window>>)
    BY <1>4, <2>2 DEF Recency
  <2>4. Recency(late, before, window) = Clamp01(<<window - (before - late), window>>)
    BY <1>4, <2>1 DEF Recency
  <2>5. window - (now - early) <= window - (before - late)
    BY <2>1
  <2>6. window - (now - early) \in Int /\ window - (before - late) \in Int
    BY <2>1
  <2> QED BY <2>1, <2>3, <2>4, <2>5, <2>6, SameDenominator
<1> QED BY <1>2, <1>3, <1>4

Recent(dates, now, window) == {i \in 1..Len(dates) : dates[i] # Unknown /\ dates[i] >= now - window}

LEMMA RecentAreFinite ==
  ASSUME NEW dates \in Seq(Int \cup {Unknown}), NEW now, NEW window
  PROVE  IsFiniteSet(Recent(dates, now, window)) /\ Cardinality(Recent(dates, now, window)) \in Nat
<1>1. IsFiniteSet(1..Len(dates))
  BY FS_Interval
<1>2. Recent(dates, now, window) \subseteq 1..Len(dates)
  BY DEF Recent
<1> QED BY <1>1, <1>2, FS_Subset, FS_CardinalityType

\* More dates, or an earlier look at them, is no less of a burst.
LEMMA VelocityIsMonotone ==
  ASSUME NEW few \in Seq(Int \cup {Unknown}), NEW more \in Seq(Int \cup {Unknown}),
         Len(few) <= Len(more), \A i \in 1..Len(few) : more[i] = few[i],
         NEW now \in Int, NEW before \in Int, before <= now, NEW window \in Int, NEW cap \in Int
  PROVE  /\ Score(Velocity(few, now, window, cap)) /\ Score(Velocity(more, before, window, cap))
         /\ Leq(Velocity(few, now, window, cap), Velocity(more, before, window, cap))
<1> DEFINE c == IF cap > 1 THEN cap ELSE 1
           A == Recent(few, now, window)
           B == Recent(more, before, window)
           v(dates, n) == IF window <= 0 \/ dates = <<>> THEN Zero
                          ELSE Clamp01(<<Cardinality(Recent(dates, n, window)), c>>)
<1>1. c \in Int /\ c > 0
  OBVIOUS
<1>2. Velocity(few, now, window, cap) = v(few, now) /\ Velocity(more, before, window, cap) = v(more, before)
  BY DEF Velocity, Recent
<1>3. IsFiniteSet(B) /\ Cardinality(A) \in Nat /\ Cardinality(B) \in Nat
  BY RecentAreFinite
<1>4. A \subseteq B
  <2> SUFFICES ASSUME NEW i \in 1..Len(few), few[i] # Unknown, few[i] >= now - window
               PROVE  i \in B
    BY DEF Recent
  <2>1. i \in 1..Len(more) /\ more[i] = few[i] /\ few[i] \in Int
    OBVIOUS
  <2> QED BY <2>1 DEF Recent
<1>5. Cardinality(A) <= Cardinality(B)
  BY <1>3, <1>4, FS_Subset
<1>6. few # <<>> => more # <<>>
  OBVIOUS
<1> HIDE DEF c, A, B
<1>7. Score(Clamp01(<<Cardinality(A), c>>)) /\ Score(Clamp01(<<Cardinality(B), c>>))
      /\ Leq(Clamp01(<<Cardinality(A), c>>), Clamp01(<<Cardinality(B), c>>))
  BY <1>1, <1>3, <1>5, SameDenominator
<1>8. CASE window <= 0
  BY <1>2, <1>8, ScoresOf
<1>9. CASE ~ (window <= 0) /\ few = <<>>
  <2>1. v(few, now) = Zero /\ (v(more, before) = Zero \/ v(more, before) = Clamp01(<<Cardinality(B), c>>))
    BY <1>9 DEF B
  <2> HIDE DEF v
  <2> QED BY <1>2, <1>7, <2>1, ScoresOf
<1>10. CASE ~ (window <= 0) /\ few # <<>>
  <2>1. v(few, now) = Clamp01(<<Cardinality(A), c>>) /\ v(more, before) = Clamp01(<<Cardinality(B), c>>)
    BY <1>6, <1>10 DEF A, B
  <2> HIDE DEF v
  <2> QED BY <1>2, <1>7, <2>1
<1> QED BY <1>8, <1>9, <1>10

\* The share of pairs that differ is a score; there is a pair where it is asked for.
LEMMA DiversityIsScore == ASSUME NEW A, NEW angles \in Seq(A) PROVE Score(Diversity(angles))
<1> DEFINE n == Len(angles)
           all == (1..n) \X (1..n)
           pairs == {p \in (1..n) \X (1..n) : p[1] < p[2]}
           told == {p \in pairs : angles[p[1]] # angles[p[2]]}
<1>1. n \in Nat
  OBVIOUS
<1>2. CASE n <= 1
  <2>1. n = 0 \/ n = 1
    BY <1>1, <1>2
  <2>2. Diversity(angles) = <<n, 1>>
    BY <1>2 DEF Diversity
  <2> QED BY <2>1, <2>2, ScoresOf DEF Zero, One
<1>3. CASE ~ (n <= 1)
  <2>1. IsFiniteSet(all)
    <3> DEFINE I == 1..n
    <3>1. IsFiniteSet(I)
      BY <1>1, FS_Interval
    <3> HIDE DEF I
    <3>2. IsFiniteSet(I \X I)
      BY <3>1, FS_Product
    <3> QED BY <3>2 DEF I
  <2>2. IsFiniteSet(pairs) /\ IsFiniteSet(told) /\ told \subseteq pairs
    <3>1. pairs \subseteq all /\ told \subseteq pairs
      OBVIOUS
    <3> QED BY <2>1, <3>1, FS_Subset
  <2>3. pairs # {}
    <3>1. <<1, 2>> \in all /\ <<1, 2>>[1] < <<1, 2>>[2]
      BY <1>1, <1>3
    <3>2. <<1, 2>> \in pairs
      BY <3>1
    <3> QED BY <3>2
  <2>4. Diversity(angles) = <<Cardinality(told), Cardinality(pairs)>>
    BY <1>3 DEF Diversity
  <2> HIDE DEF pairs, told
  <2>5. Cardinality(told) \in Nat /\ Cardinality(pairs) \in Nat /\ Cardinality(pairs) # 0
        /\ Cardinality(told) <= Cardinality(pairs)
    BY <2>2, <2>3, FS_Subset, FS_CardinalityType, FS_EmptySet
  <2> QED BY <2>4, <2>5, IsFraction DEF Score, Leq, Zero, One
<1> QED BY <1>2, <1>3

\* Sources are finitely many, so that their number is one.
LEMMA SourcesAreCounted ==
  ASSUME NEW ms \in Seq(Article)
  PROVE  /\ IsFiniteSet({ms[i].source : i \in 1..Len(ms)})
         /\ SourceCount(ms) \in Nat
<1> DEFINE f == [i \in 1..Len(ms) |-> ms[i].source]
           sources == {ms[i].source : i \in 1..Len(ms)}
<1>1. IsFiniteSet(1..Len(ms))
  BY FS_Interval
<1>2. f \in Surjection(1..Len(ms), sources)
  BY DEF Surjection
<1> HIDE DEF f, sources
<1>3. IsFiniteSet(sources)
  BY <1>1, <1>2, FS_Surjection
<1> QED BY <1>3, FS_CardinalityType DEF SourceCount, sources

Settings == [Weights \cup {"window", "burst", "material_cap", "full_text",
                           "diversity_cap", "cross_cap"} -> Int]

Typed(ms, now, c) == ms \in Seq(Article) /\ now \in Int /\ c \in Settings

DatesOf(ms)  == [i \in 1..Len(ms) |-> ms[i].date]
AnglesOf(ms) == [i \in 1..Len(ms) |-> ms[i].angle]

LEMMA DatesAreListed ==
  ASSUME NEW ms \in Seq(Article)
  PROVE  /\ DatesOf(ms) \in Seq(Int \cup {Unknown}) /\ Len(DatesOf(ms)) = Len(ms)
         /\ AnglesOf(ms) \in Seq(Nat) /\ Len(ms) \in Nat
         /\ Latest(ms) \in Int \cup {Unknown}
<1>1. Len(ms) \in Nat
  OBVIOUS
<1>2. DatesOf(ms) \in [1..Len(ms) -> Int \cup {Unknown}] /\ AnglesOf(ms) \in [1..Len(ms) -> Nat]
  BY ArticleOf DEF DatesOf, AnglesOf
<1>3. Latest(ms) \in Int \cup {Unknown}
  BY LatestIsLatest DEF LatestDate
<1> QED BY <1>1, <1>2, <1>3

LEMMA SettingOf ==
  ASSUME NEW c \in Settings
  PROVE  /\ c.window \in Int /\ c.burst \in Int /\ c.material_cap \in Int /\ c.full_text \in Int
         /\ c.diversity_cap \in Int /\ c.cross_cap \in Int
         /\ \A k \in Weights : c[k] \in Int
BY DEF Settings

\* A score with its weight.
LEMMA PartsOf ==
  ASSUME NEW a, Score(a), NEW w \in Int PROVE <<a, w>> \in MeanParts
BY DEF MeanParts, Score

\* Each dimension and the score itself are between 0 and 1.
LEMMA ClusterIsScored ==
  ASSUME NEW ms, NEW now, NEW c, Typed(ms, now, c)
  PROVE  /\ Score(Freshness(ms, now, c)) /\ Score(Importance(ms, c)) /\ Score(TrafficPotential(ms, c))
         /\ Score(Share(SourceCount(ms), c.cross_cap))
         /\ Score(ScoreCluster(ms, now, c).score)
<1>0. /\ ms \in Seq(Article) /\ now \in Int /\ c \in Settings
      /\ \A k \in Weights : c[k] \in Int
  BY SettingOf DEF Typed
<1>a. /\ c.window \in Int /\ c.burst \in Int /\ c.material_cap \in Int /\ c.full_text \in Int
      /\ c.diversity_cap \in Int /\ c.cross_cap \in Int
  BY <1>0, SettingOf
<1>b. SourceCount(ms) \in Nat
  BY <1>0, SourcesAreCounted
<1>c. DatesOf(ms) \in Seq(Int \cup {Unknown}) /\ Len(DatesOf(ms)) \in Nat /\ Latest(ms) \in Int \cup {Unknown}
  BY <1>0, DatesAreListed
<1>d. \A n \in Nat, cap \in Int : Score(Share(n, cap))
  <2> SUFFICES ASSUME NEW n \in Nat, NEW cap \in Int PROVE Score(Share(n, cap))
    OBVIOUS
  <2>1. n <= n
    OBVIOUS
  <2> QED BY <2>1, ShareIsScore
<1>1. Score(Freshness(ms, now, c))
  <2> DEFINE a == Recency(Latest(ms), now, c.window)
             b == Velocity(DatesOf(ms), now, c.burst, c.material_cap)
             s == << <<a, c.w_recency>>, <<b, c.w_velocity>> >>
  <2>1. Score(a)
    BY <1>0, <1>a, <1>c, RecencyIsScore
  <2>4. Score(b)
    <3>1. Len(DatesOf(ms)) <= Len(DatesOf(ms)) /\ now <= now
      BY <1>0, <1>c
    <3> QED BY <1>0, <1>a, <1>c, <3>1, VelocityIsMonotone
  <2>2. c.w_recency \in Int /\ c.w_velocity \in Int
    BY <1>0 DEF Weights
  <2>3. Freshness(ms, now, c) = Weighted(s)
    BY DEF Freshness, DatesOf
  <2> HIDE DEF a, b
  <2>5. s \in Seq(MeanParts)
    <3>1. <<a, c.w_recency>> \in MeanParts /\ <<b, c.w_velocity>> \in MeanParts
      BY <2>1, <2>2, <2>4, PartsOf
    <3> QED BY <3>1
  <2> QED BY <2>3, <2>5, MeanIsScore
<1>2. Score(Importance(ms, c))
  <2> DEFINE x == Share(MaxText(ms), c.full_text)
             y == Share(Len(ms), c.material_cap)
             z == Diversity(AnglesOf(ms))
             s == << <<x, c.w_completeness>>, <<y, c.w_material>>, <<z, c.w_diversity>> >>
  <2>1. Score(x)
    BY <1>0, <1>a, <1>d, TextIsKnown
  <2>2. Score(y)
    BY <1>0, <1>a, <1>d, DatesAreListed
  <2>3. Score(z)
    BY <1>0, DatesAreListed, DiversityIsScore
  <2>4. c.w_completeness \in Int /\ c.w_material \in Int /\ c.w_diversity \in Int
    BY <1>0 DEF Weights
  <2>5. Importance(ms, c) = Weighted(s)
    BY DEF Importance, AnglesOf
  <2> HIDE DEF x, y, z
  <2>6. s \in Seq(MeanParts)
    BY <2>1, <2>2, <2>3, <2>4, PartsOf
  <2> QED BY <2>5, <2>6, MeanIsScore
<1>3. Score(TrafficPotential(ms, c))
  <2> DEFINE x == Share(SourceCount(ms), c.diversity_cap)
             s == << <<Zero, c.w_volume>>, <<Zero, c.w_sources>>, <<x, c.w_coverage>> >>
  <2>1. Score(x) /\ Score(Zero)
    BY <1>a, <1>b, <1>d, ScoresOf
  <2>2. c.w_volume \in Int /\ c.w_sources \in Int /\ c.w_coverage \in Int
    BY <1>0 DEF Weights
  <2>3. TrafficPotential(ms, c) = Weighted(s)
    BY DEF TrafficPotential
  <2> HIDE DEF x
  <2>4. s \in Seq(MeanParts)
    BY <2>1, <2>2, PartsOf
  <2> QED BY <2>3, <2>4, MeanIsScore
<1>4. Score(Share(SourceCount(ms), c.cross_cap))
  BY <1>a, <1>b, <1>d
<1>5. Score(ScoreCluster(ms, now, c).score)
  <2> DEFINE f == Freshness(ms, now, c)
             i == Importance(ms, c)
             t == TrafficPotential(ms, c)
             x == Share(SourceCount(ms), c.cross_cap)
             s == << <<f, c.weight_freshness>>, <<i, c.weight_importance>>,
                     <<t, c.weight_traffic>>, <<x, c.weight_cross>> >>
  <2>1. ScoreCluster(ms, now, c).score = Weighted(s)
    BY DEF ScoreCluster
  <2>2. /\ c.weight_freshness \in Int /\ c.weight_importance \in Int
        /\ c.weight_traffic \in Int /\ c.weight_cross \in Int
    BY <1>0 DEF Weights
  <2> HIDE DEF f, i, t, x
  <2>3. <<f, c.weight_freshness>> \in MeanParts /\ <<i, c.weight_importance>> \in MeanParts
        /\ <<t, c.weight_traffic>> \in MeanParts /\ <<x, c.weight_cross>> \in MeanParts
    BY <1>1, <1>2, <1>3, <1>4, <2>2, PartsOf DEF f, i, t, x
  <2>4. s \in Seq(MeanParts)
    BY <2>3
  <2> QED BY <2>1, <2>4, MeanIsScore
<1> QED BY <1>1, <1>2, <1>3, <1>4, <1>5

ScoreInv ==
  /\ cfg \in Settings /\ hour \in Nat /\ members \in Seq(Article)
  /\ scores = ScoreCluster(members, hour, cfg)

\* The scores are those of the articles, the hour and the settings at hand.
LEMMA ScoreStep == ScoreInv /\ [ScoreNext]_scoreVars => ScoreInv'
<1> SUFFICES ASSUME ScoreInv, [ScoreNext]_scoreVars PROVE ScoreInv'
  OBVIOUS
<1>1. CASE Ages
  BY <1>1 DEF Ages, Rescore, ScoreInv
<1>2. CASE Joins
  <2>1. PICK d \in {Unknown, hour, hour + 1}, t \in {0, 1}, s \in {1, 2}, a \in {1, 2} :
          members' = Append(members, [date |-> d, text |-> t, source |-> s, angle |-> a])
    BY <1>2 DEF Joins
  <2>2. d \in Int \cup {Unknown} /\ t \in Nat /\ s \in Nat /\ a \in Nat
    BY DEF ScoreInv
  <2>3. [date |-> d, text |-> t, source |-> s, angle |-> a] \in Article
    BY <2>2 DEF Article
  <2> QED BY <1>2, <2>1, <2>3 DEF Joins, Rescore, ScoreInv
<1>3. CASE UNCHANGED scoreVars
  BY <1>3 DEF scoreVars, ScoreInv
<1> QED BY <1>1, <1>2, <1>3 DEF ScoreNext

LEMMA ScoreStart == ScoreInit => ScoreInv
<1> SUFFICES ASSUME ScoreInit PROVE ScoreInv
  OBVIOUS
<1>1. cfg \in Settings
  BY ScoreAssumption DEF ScoreInit, Settings
<1>2. <<>> \in Seq(Article)
  OBVIOUS
<1> QED BY <1>1, <1>2 DEF ScoreInit, ScoreInv

\* Every score is a fraction between 0 and 1, whatever the articles, the caps, the windows
\* and the weights, as long as they are finite: "clamped to 0..1 and never NaN" (scoring.py:10).
THEOREM ScoresStayInRange == ScoreSpec => []ScoresInRange
<1>1. ScoreInv => ScoresInRange
  <2> SUFFICES ASSUME ScoreInv, NEW k \in DOMAIN scores
               PROVE  scores[k][2] > 0 /\ Leq(Zero, scores[k]) /\ Leq(scores[k], One)
    BY DEF ScoresInRange
  <2>1. Typed(members, hour, cfg)
    BY DEF ScoreInv, Typed
  <2>2. Score(scores[k])
    <3>1. k \in {"freshness", "importance", "traffic_potential", "cross_site_coverage", "score"}
      BY DEF ScoreInv, ScoreCluster
    <3>2. /\ Score(scores["freshness"]) /\ Score(scores["importance"])
          /\ Score(scores["traffic_potential"]) /\ Score(scores["cross_site_coverage"])
          /\ Score(scores["score"])
      <4>1. /\ scores.freshness = Freshness(members, hour, cfg)
            /\ scores.importance = Importance(members, cfg)
            /\ scores.traffic_potential = TrafficPotential(members, cfg)
            /\ scores.cross_site_coverage = Share(SourceCount(members), cfg.cross_cap)
            /\ scores.score = ScoreCluster(members, hour, cfg).score
        BY DEF ScoreInv, ScoreCluster
      <4> QED BY <2>1, <4>1, ClusterIsScored
    <3> QED BY <3>1, <3>2
  <2> QED BY <2>2, FractionParts DEF Score
<1> QED BY <1>1, ScoreStart, ScoreStep, PTL DEF ScoreSpec

\* More articles, and an earlier look at them.
GrowsFrom(more, few) == Len(few) <= Len(more) /\ \A i \in 1..Len(few) : more[i] = few[i]

\* More articles: the latest date is none the earlier, and the sources are none the fewer.
LEMMA LatestGrows ==
  ASSUME NEW few \in Seq(Article), NEW more \in Seq(Article), GrowsFrom(more, few)
  PROVE  Latest(few) # Unknown => Latest(more) # Unknown /\ Latest(few) <= Latest(more)
<1> SUFFICES ASSUME Latest(few) # Unknown
             PROVE  Latest(more) # Unknown /\ Latest(few) <= Latest(more)
  OBVIOUS
<1>1. LatestDate(few, Latest(few)) /\ LatestDate(more, Latest(more))
  BY LatestIsLatest
<1>2. PICK i \in 1..Len(few) : few[i].date = Latest(few)
  BY <1>1 DEF LatestDate
<1>3. i \in 1..Len(more) /\ more[i].date = Latest(few)
  BY <1>2 DEF GrowsFrom
<1> QED BY <1>1, <1>3 DEF LatestDate

LEMMA SourcesGrow ==
  ASSUME NEW few \in Seq(Article), NEW more \in Seq(Article), GrowsFrom(more, few)
  PROVE  SourceCount(few) <= SourceCount(more)
<1> DEFINE A == {few[i].source : i \in 1..Len(few)}
           B == {more[i].source : i \in 1..Len(more)}
<1>1. A \subseteq B
  BY DEF GrowsFrom
<1>2. IsFiniteSet(B)
  BY SourcesAreCounted
<1> HIDE DEF A, B
<1>3. Cardinality(A) <= Cardinality(B)
  BY <1>1, <1>2, FS_Subset
<1> QED BY <1>3 DEF SourceCount, A, B

NoNegativeWeight(c) == \A k \in Weights : c[k] >= 0

\* Freshness, and then traffic potential and coverage, with no negative weight.
LEMMA FreshnessIsMonotone ==
  ASSUME NEW few, NEW more, NEW now, NEW before, NEW c, Typed(few, now, c), Typed(more, before, c),
         before <= now, GrowsFrom(more, few), NoNegativeWeight(c)
  PROVE  Leq(Freshness(few, now, c), Freshness(more, before, c))
<1>0. /\ few \in Seq(Article) /\ more \in Seq(Article) /\ now \in Int /\ before \in Int /\ c \in Settings
      /\ c.w_recency \in Int /\ c.w_velocity \in Int /\ c.w_recency >= 0 /\ c.w_velocity >= 0
      /\ c.window \in Int /\ c.burst \in Int /\ c.material_cap \in Int
  BY SettingOf DEF Typed, NoNegativeWeight, Weights
<1>1. /\ DatesOf(few) \in Seq(Int \cup {Unknown}) /\ Len(DatesOf(few)) = Len(few)
      /\ DatesOf(more) \in Seq(Int \cup {Unknown}) /\ Len(DatesOf(more)) = Len(more)
      /\ Latest(few) \in Int \cup {Unknown} /\ Latest(more) \in Int \cup {Unknown}
  BY <1>0, DatesAreListed
<1> DEFINE a == Recency(Latest(few), now, c.window)
           b == Velocity(DatesOf(few), now, c.burst, c.material_cap)
           p == Recency(Latest(more), before, c.window)
           q == Velocity(DatesOf(more), before, c.burst, c.material_cap)
           s == << <<a, c.w_recency>>, <<b, c.w_velocity>> >>
           u == << <<p, c.w_recency>>, <<q, c.w_velocity>> >>
<1>2. Leq(a, p)
  <2>1. Latest(few) # Unknown => Latest(more) # Unknown /\ Latest(few) <= Latest(more)
    BY <1>0, LatestGrows
  <2> QED BY <1>0, <1>1, <2>1, RecencyIsMonotone
<1>3. Score(a) /\ Score(p)
  BY <1>0, <1>1, RecencyIsScore
<1>4. Score(b) /\ Score(q) /\ Leq(b, q)
  <2>1. \A i \in 1..Len(DatesOf(few)) : DatesOf(more)[i] = DatesOf(few)[i]
    BY <1>1 DEF DatesOf, GrowsFrom
  <2>2. Len(DatesOf(few)) <= Len(DatesOf(more))
    BY <1>1 DEF GrowsFrom
  <2> QED BY <1>0, <1>1, <2>1, <2>2, VelocityIsMonotone
<1>5. Freshness(few, now, c) = Weighted(s) /\ Freshness(more, before, c) = Weighted(u)
  BY DEF Freshness, DatesOf
<1> HIDE DEF a, b, p, q
<1>6. s \in Seq(MeanParts) /\ u \in Seq(MeanParts)
  <2>1. <<a, c.w_recency>> \in MeanParts /\ <<b, c.w_velocity>> \in MeanParts
        /\ <<p, c.w_recency>> \in MeanParts /\ <<q, c.w_velocity>> \in MeanParts
    BY <1>0, <1>3, <1>4, PartsOf
  <2> QED BY <2>1
<1>7. Len(s) = 2 /\ Len(u) = 2 /\ \A i \in 1..2 : i = 1 \/ i = 2
  OBVIOUS
<1>8. ASSUME NEW i \in 1..Len(s) PROVE u[i][2] = s[i][2] /\ s[i][2] >= 0 /\ Leq(s[i][1], u[i][1])
  <2>1. /\ s[1] = <<a, c.w_recency>> /\ s[2] = <<b, c.w_velocity>>
        /\ u[1] = <<p, c.w_recency>> /\ u[2] = <<q, c.w_velocity>>
    OBVIOUS
  <2>2. i = 1 \/ i = 2
    BY <1>7
  <2> HIDE DEF s, u
  <2>3. CASE i = 1
    BY <1>0, <1>2, <2>1, <2>3
  <2>4. CASE i = 2
    BY <1>0, <1>4, <2>1, <2>4
  <2> QED BY <2>2, <2>3, <2>4
<1> HIDE DEF s, u
<1>9. Leq(Weighted(s), Weighted(u))
  BY <1>6, <1>7, <1>8, MeanIsMonotone
<1> QED BY <1>5, <1>9

LEMMA TrafficIsMonotone ==
  ASSUME NEW few, NEW more, NEW now, NEW c, Typed(few, now, c), Typed(more, now, c),
         GrowsFrom(more, few), NoNegativeWeight(c)
  PROVE  /\ Leq(TrafficPotential(few, c), TrafficPotential(more, c))
         /\ Leq(Share(SourceCount(few), c.cross_cap), Share(SourceCount(more), c.cross_cap))
<1>0. /\ few \in Seq(Article) /\ more \in Seq(Article) /\ c \in Settings
      /\ c.w_volume \in Int /\ c.w_sources \in Int /\ c.w_coverage \in Int
      /\ c.w_volume >= 0 /\ c.w_sources >= 0 /\ c.w_coverage >= 0
      /\ c.diversity_cap \in Int /\ c.cross_cap \in Int
  BY SettingOf DEF Typed, NoNegativeWeight, Weights
<1>1. SourceCount(few) \in Nat /\ SourceCount(more) \in Nat /\ SourceCount(few) <= SourceCount(more)
  BY <1>0, SourcesAreCounted, SourcesGrow
<1> DEFINE x == Share(SourceCount(few), c.diversity_cap)
           z == Share(SourceCount(more), c.diversity_cap)
           s == << <<Zero, c.w_volume>>, <<Zero, c.w_sources>>, <<x, c.w_coverage>> >>
           u == << <<Zero, c.w_volume>>, <<Zero, c.w_sources>>, <<z, c.w_coverage>> >>
<1>2. Score(x) /\ Leq(x, z)
  BY <1>0, <1>1, ShareIsScore
<1>3. Score(z) /\ Score(Zero) /\ Leq(Zero, Zero)
  <2>1. SourceCount(more) <= SourceCount(more)
    BY <1>1
  <2> QED BY <1>0, <1>1, <2>1, ShareIsScore, ScoresOf
<1>4. TrafficPotential(few, c) = Weighted(s) /\ TrafficPotential(more, c) = Weighted(u)
  BY DEF TrafficPotential
<1>5. Leq(Share(SourceCount(few), c.cross_cap), Share(SourceCount(more), c.cross_cap))
  BY <1>0, <1>1, ShareIsScore
<1> HIDE DEF x, z
<1>6. s \in Seq(MeanParts) /\ u \in Seq(MeanParts)
  <2>1. <<Zero, c.w_volume>> \in MeanParts /\ <<Zero, c.w_sources>> \in MeanParts
        /\ <<x, c.w_coverage>> \in MeanParts /\ <<z, c.w_coverage>> \in MeanParts
    BY <1>0, <1>2, <1>3, PartsOf
  <2> QED BY <2>1
<1>7. Len(s) = 3 /\ Len(u) = 3 /\ \A i \in 1..3 : i = 1 \/ i = 2 \/ i = 3
  OBVIOUS
<1>8. ASSUME NEW i \in 1..Len(s) PROVE u[i][2] = s[i][2] /\ s[i][2] >= 0 /\ Leq(s[i][1], u[i][1])
  BY <1>0, <1>2, <1>3, <1>7
<1> HIDE DEF s, u
<1>9. Leq(Weighted(s), Weighted(u))
  BY <1>6, <1>7, <1>8, MeanIsMonotone
<1> QED BY <1>4, <1>5, <1>9

\* The score of an older look at the same articles.
LEMMA ScoreFades ==
  ASSUME NEW ms, NEW now, NEW before, NEW c, Typed(ms, now, c), Typed(ms, before, c),
         before <= now, NoNegativeWeight(c)
  PROVE  /\ Leq(Freshness(ms, now, c), Freshness(ms, before, c))
         /\ Leq(ScoreCluster(ms, now, c).score, ScoreCluster(ms, before, c).score)
<1> DEFINE f == Freshness(ms, now, c)
           g == Freshness(ms, before, c)
           i == Importance(ms, c)
           t == TrafficPotential(ms, c)
           x == Share(SourceCount(ms), c.cross_cap)
           s == << <<f, c.weight_freshness>>, <<i, c.weight_importance>>,
                   <<t, c.weight_traffic>>, <<x, c.weight_cross>> >>
           u == << <<g, c.weight_freshness>>, <<i, c.weight_importance>>,
                   <<t, c.weight_traffic>>, <<x, c.weight_cross>> >>
<1>0. /\ c \in Settings
      /\ c.weight_freshness \in Int /\ c.weight_importance \in Int
      /\ c.weight_traffic \in Int /\ c.weight_cross \in Int
      /\ c.weight_freshness >= 0 /\ c.weight_importance >= 0
      /\ c.weight_traffic >= 0 /\ c.weight_cross >= 0
  BY SettingOf DEF Typed, NoNegativeWeight, Weights
<1>1. Leq(f, g)
  <2>1. GrowsFrom(ms, ms)
    BY DEF GrowsFrom, Typed
  <2> QED BY <2>1, FreshnessIsMonotone
<1>2. Score(f) /\ Score(g) /\ Score(i) /\ Score(t) /\ Score(x)
  BY ClusterIsScored
<1>3. Leq(i, i) /\ Leq(t, t) /\ Leq(x, x)
  BY <1>2, ScoresOf
<1>4. ScoreCluster(ms, now, c).score = Weighted(s) /\ ScoreCluster(ms, before, c).score = Weighted(u)
  BY DEF ScoreCluster
<1> HIDE DEF f, g, i, t, x
<1>5. s \in Seq(MeanParts) /\ u \in Seq(MeanParts)
  <2>1. <<f, c.weight_freshness>> \in MeanParts /\ <<g, c.weight_freshness>> \in MeanParts
        /\ <<i, c.weight_importance>> \in MeanParts /\ <<t, c.weight_traffic>> \in MeanParts
        /\ <<x, c.weight_cross>> \in MeanParts
    BY <1>0, <1>2, PartsOf
  <2> QED BY <2>1
<1>6. Len(s) = 4 /\ Len(u) = 4 /\ \A k \in 1..4 : k = 1 \/ k = 2 \/ k = 3 \/ k = 4
  OBVIOUS
<1>7. ASSUME NEW k \in 1..Len(s) PROVE u[k][2] = s[k][2] /\ s[k][2] >= 0 /\ Leq(s[k][1], u[k][1])
  BY <1>0, <1>1, <1>3, <1>6
<1> HIDE DEF s, u
<1>8. Leq(Weighted(s), Weighted(u))
  BY <1>5, <1>6, <1>7, MeanIsMonotone
<1> QED BY <1>1, <1>4, <1>8 DEF f, g

LEMMA StepIsMonotone ==
  ASSUME ScoreInv, [ScoreNext]_scoreVars, NoNegativeWeight(cfg)
  PROVE  /\ hour' > hour => \A k \in DOMAIN scores : Leq(scores'[k], scores[k])
         /\ Len(members') > Len(members) =>
               \A k \in {"freshness", "traffic_potential", "cross_site_coverage"} :
                   Leq(scores[k], scores'[k])
<1>0. /\ Typed(members, hour, cfg) /\ Typed(members', hour', cfg)
      /\ scores = ScoreCluster(members, hour, cfg) /\ scores' = ScoreCluster(members', hour', cfg)
  <2>1. ScoreInv' /\ cfg' = cfg
    BY ScoreStep DEF ScoreNext, Ages, Joins, scoreVars
  <2> QED BY <2>1 DEF ScoreInv, Typed
<1>1. ASSUME NEW ms, NEW now
      PROVE  LET v == ScoreCluster(ms, now, cfg)
             IN  /\ v.freshness = Freshness(ms, now, cfg) /\ v.importance = Importance(ms, cfg)
                 /\ v.traffic_potential = TrafficPotential(ms, cfg)
                 /\ v.cross_site_coverage = Share(SourceCount(ms), cfg.cross_cap)
                 /\ DOMAIN v = {"freshness", "importance", "traffic_potential",
                                "cross_site_coverage", "score"}
  BY DEF ScoreCluster
<1>2. CASE Ages
  <2>1. members' = members /\ hour' = hour + 1 /\ hour \in Int /\ hour <= hour + 1
    BY <1>2 DEF Ages, ScoreInv
  <2>2. /\ Leq(scores'["freshness"], scores["freshness"]) /\ Leq(scores'["score"], scores["score"])
    BY <1>0, <1>1, <2>1, ScoreFades
  <2>3. /\ scores'["importance"] = scores["importance"]
        /\ scores'["traffic_potential"] = scores["traffic_potential"]
        /\ scores'["cross_site_coverage"] = scores["cross_site_coverage"]
    BY <1>0, <1>1, <2>1
  <2>4. /\ Score(scores["importance"]) /\ Score(scores["traffic_potential"])
        /\ Score(scores["cross_site_coverage"])
    BY <1>0, <1>1, ClusterIsScored
  <2>5. /\ Leq(scores["importance"], scores["importance"])
        /\ Leq(scores["traffic_potential"], scores["traffic_potential"])
        /\ Leq(scores["cross_site_coverage"], scores["cross_site_coverage"])
    BY <2>4, ScoresOf
  <2>6. DOMAIN scores = {"freshness", "importance", "traffic_potential", "cross_site_coverage", "score"}
    BY <1>0, <1>1
  <2>7. ~ (Len(members') > Len(members))
    <3>1. Len(members) \in Nat
      BY DEF ScoreInv
    <3> QED BY <2>1, <3>1
  <2> QED BY <2>2, <2>3, <2>5, <2>6, <2>7
<1>3. CASE Joins
  <2>1. hour' = hour /\ hour \in Nat /\ members \in Seq(Article)
    BY <1>3 DEF Joins, ScoreInv
  <2>2. GrowsFrom(members', members)
    <3>1. PICK a : members' = Append(members, a)
      BY <1>3 DEF Joins
    <3> QED BY <2>1, <3>1 DEF GrowsFrom
  <2>3. Leq(Freshness(members, hour, cfg), Freshness(members', hour, cfg))
    BY <1>0, <2>1, <2>2, FreshnessIsMonotone
  <2>4. /\ Leq(TrafficPotential(members, cfg), TrafficPotential(members', cfg))
        /\ Leq(Share(SourceCount(members), cfg.cross_cap), Share(SourceCount(members'), cfg.cross_cap))
    BY <1>0, <2>1, <2>2, TrafficIsMonotone
  <2> QED BY <1>0, <1>1, <2>1, <2>3, <2>4
<1>4. CASE UNCHANGED scoreVars
  <2>1. hour' = hour /\ members' = members /\ hour \in Nat /\ Len(members) \in Nat
    BY <1>4 DEF scoreVars, ScoreInv
  <2> QED BY <2>1
<1> QED BY <1>2, <1>3, <1>4 DEF ScoreNext

\* Old news never climbs, and another report never makes a scoop staler or its coverage
\* smaller, whatever the articles, caps and windows, as long as no weight is negative.
THEOREM ScoresKeepOrder == ScoreSpec => ScoresAreMonotone
<1>1. ScoreInv /\ [ScoreNext]_scoreVars =>
        [(\A k \in Weights : cfg[k] >= 0) =>
            /\ hour' > hour => \A k \in DOMAIN scores : Leq(scores'[k], scores[k])
            /\ Len(members') > Len(members) =>
                  \A k \in {"freshness", "traffic_potential", "cross_site_coverage"} :
                      Leq(scores[k], scores'[k])]_scoreVars
  BY StepIsMonotone DEF NoNegativeWeight
<1> QED BY <1>1, ScoreStart, ScoreStep, PTL DEF ScoreSpec, ScoresAreMonotone
=============================================================================

---------------------------- MODULE RosterProofs ----------------------------
(***************************************************************************)
(* What the tiers of the roster stand for, for any domains and any number  *)
(* of health checks and discoveries that overlap or stop anywhere; and,    *)
(* with one check and one discovery at a time, how a tier may change.      *)
(***************************************************************************)
EXTENDS SiteRoster, SequenceTheorems, TLAPS

(* What a tier has to have behind it.  The counts only grow, so that it is *)
(* as true of a row that a check listed long ago, and of what it is going  *)
(* to write.                                                               *)
Merits(d, t) ==
  /\ t = MONITORED => passes[d] >= 1
  /\ t = ACTIVE => passes[d] >= 2
  /\ t \in {FAILED, INACTIVE} => failures[d] >= FAIL_THRESHOLD

Earned(d, row) == row \in Row /\ row.fail_count <= failures[d] /\ Merits(d, row.tier)

Earns(d, w) ==
  /\ w.kind = "tier" => Merits(d, w.tier)
  /\ w.kind = "health" => w.fail_count <= failures[d]

ListedTiers == {CANDIDATE, MONITORED, ACTIVE}

CheckKnows(c) ==
  /\ DOMAIN check[c] = DOMAIN NoCheck
  /\ check[c].tiers \in CheckedTiers \cup {<<MONITORED>>, <<>>}
  /\ \A s \in check[c].sites :
        /\ s.domain \in Domains /\ roster[s.domain] # Absent
        /\ Earned(s.domain, s.row) /\ s.row.tier \in ListedTiers
  /\ check[c].pc = "write" =>
        /\ check[c].domain \in Domains /\ roster[check[c].domain] # Absent
        /\ check[c].writes \in Seq(Write)
        /\ \A i \in DOMAIN check[c].writes : Earns(check[c].domain, check[c].writes[i])

EarnedInv ==
  /\ roster \in [Domains -> Row \cup {Absent}]
  /\ failures \in [Domains -> Nat] /\ passes \in [Domains -> Nat]
  /\ DOMAIN check = Checks
  /\ \A d \in Domains : roster[d] # Absent => Earned(d, roster[d])
  /\ \A c \in Checks : CheckKnows(c)

-----------------------------------------------------------------------------
LEMMA PairJoined == ASSUME NEW a, NEW b PROVE <<a>> \o <<b>> = <<a, b>>
<1> DEFINE S == {a, b}
           j == <<a>> \o <<b>>
           t == <<a, b>>
<1>1. <<a>> \in Seq(S) /\ <<b>> \in Seq(S) /\ t \in Seq(S)
  OBVIOUS
<1>2. j \in Seq(S) /\ Len(j) = 2 /\ j[1] = a /\ j[2] = b
  BY <1>1
<1>3. Len(t) = 2 /\ t[1] = a /\ t[2] = b
  OBVIOUS
<1> HIDE DEF S, j, t
<1>4. \A i \in 1..Len(j) : j[i] = t[i]
  BY <1>2, <1>3
<1>5. j = t
  BY <1>1, <1>2, <1>3, <1>4, SeqEqual
<1> QED BY <1>5 DEF j, t

LEMMA TailsOfTwo ==
  ASSUME NEW a, NEW b
  PROVE  /\ Head(<<a, b>>) = a /\ Tail(<<a, b>>) = <<b>>
         /\ Head(<<a>>) = a /\ Tail(<<a>>) = <<>>
<1> DEFINE S == {a, b}
           t == Tail(<<a, b>>)
           u == <<b>>
           v == Tail(<<a>>)
<1>1. <<a, b>> \in Seq(S) /\ <<a>> \in Seq(S) /\ u \in Seq(S) /\ <<>> \in Seq(S)
  OBVIOUS
<1>2. t \in Seq(S) /\ Len(t) = 1 /\ t[1] = b /\ v \in Seq(S) /\ Len(v) = 0
  BY <1>1
<1>3. Len(u) = 1 /\ u[1] = b
  OBVIOUS
<1> HIDE DEF S, t, u, v
<1>4. t = u /\ v = <<>>
  BY <1>1, <1>2, <1>3, SeqEqual
<1> QED BY <1>4 DEF t, u, v

(* What an assessment of a listed row makes the check write.               *)
Fails(row, a, f) == ~ Passed(a) /\ f = row.fail_count + 1

LEMMA TransitionWrites ==
  ASSUME NEW row \in Row, row.tier \in ListedTiers, NEW a
  PROVE  LET ws == Transition(row, a)
         IN  \/ row.tier = CANDIDATE /\ ws = <<Mark, SetTier(MIRROR), Health(0, 0)>>
             \/ row.tier = CANDIDATE /\ Passed(a) /\ ws = <<SetTier(MONITORED), Health(0, 0)>>
             \/ /\ row.tier = MONITORED /\ Passed(a)
                /\ ws = <<SetTier(ACTIVE), Health(0, row.ok_count + 1)>>
             \/ row.tier = ACTIVE /\ ws = <<Health(row.fail_count, row.ok_count)>>
             \/ ~ Passed(a) /\ ws = <<Health(row.fail_count + 1, row.ok_count)>>
             \/ \E t \in {FAILED, INACTIVE} :
                   /\ ~ Passed(a) /\ row.fail_count + 1 >= FAIL_THRESHOLD
                   /\ t = INACTIVE <=> row.tier = ACTIVE
                   /\ ws = <<SetTier(t), Health(row.fail_count + 1, row.ok_count)>>
<1> DEFINE f == row.fail_count + 1
           Outcome(t) == \/ Failing(row, t) = <<Health(f, row.ok_count)>>
                         \/ /\ f >= FAIL_THRESHOLD
                            /\ Failing(row, t) = <<SetTier(t), Health(f, row.ok_count)>>
<1>1. \A t : Outcome(t)
  <2> TAKE t
  <2>1. f \in Nat
    BY DEF Row
  <2>2. <<>> \o <<Health(f, row.ok_count)>> = <<Health(f, row.ok_count)>>
    OBVIOUS
  <2>3. <<SetTier(t)>> \o <<Health(f, row.ok_count)>> = <<SetTier(t), Health(f, row.ok_count)>>
    BY PairJoined
  <2> QED BY <2>2, <2>3 DEF Failing
<1>2. CASE row.tier = CANDIDATE
  BY <1>1, <1>2 DEF Transition, Passed, CANDIDATE, MONITORED, ACTIVE, FAILED, INACTIVE
<1>3. CASE row.tier = MONITORED
  BY <1>1, <1>3 DEF Transition, Passed, CANDIDATE, MONITORED, ACTIVE, FAILED, INACTIVE
<1>4. CASE row.tier = ACTIVE
  BY <1>1, <1>4 DEF Transition, Passed, CANDIDATE, MONITORED, ACTIVE, FAILED, INACTIVE
<1> QED BY <1>2, <1>3, <1>4 DEF ListedTiers

LEMMA AppliedIsEarned ==
  ASSUME NEW d \in Domains, NEW row, Earned(d, row), NEW w \in Write, Earns(d, w)
  PROVE  Earned(d, Applied(row, w))
<1>1. CASE w \in [kind: {"mirror"}]
  BY <1>1 DEF Applied, Earned, Row, Merits
<1>2. CASE w \in [kind: {"tier"}, tier: Tiers]
  BY <1>2 DEF Applied, Earned, Earns, Row, Merits
<1>3. CASE w \in [kind: {"health"}, fail_count: Nat, ok_count: Nat]
  BY <1>3 DEF Applied, Earned, Earns, Row, Merits
<1> QED BY <1>1, <1>2, <1>3 DEF Write


RosterGrown ==
  /\ \A d \in Domains : roster[d] # Absent => roster'[d] # Absent
  /\ failures' \in [Domains -> Nat] /\ passes' \in [Domains -> Nat]
  /\ \A d \in Domains : failures[d] <= failures'[d] /\ passes[d] <= passes'[d]

LEMMA StillEarned ==
  ASSUME EarnedInv, RosterGrown, NEW d \in Domains, NEW row, Earned(d, row) PROVE Earned(d, row)'
BY DEF EarnedInv, RosterGrown, Earned, Merits, Row, FAIL_THRESHOLD

LEMMA StillKnows ==
  ASSUME EarnedInv, RosterGrown, NEW c \in Checks, check'[c] = check[c] PROVE CheckKnows(c)'
<1>1. CheckKnows(c)
  BY DEF EarnedInv
<1>2. \A s \in check'[c].sites :
        /\ s.domain \in Domains /\ roster'[s.domain] # Absent
        /\ Earned(s.domain, s.row)' /\ s.row.tier \in ListedTiers
  <2> SUFFICES ASSUME NEW s \in check[c].sites
               PROVE  /\ s.domain \in Domains /\ roster'[s.domain] # Absent
                      /\ Earned(s.domain, s.row)' /\ s.row.tier \in ListedTiers
    OBVIOUS
  <2> QED BY <1>1, StillEarned DEF CheckKnows, RosterGrown
<1>3. ASSUME check[c].pc = "write", NEW i \in DOMAIN check[c].writes
      PROVE  Earns(check[c].domain, check[c].writes[i])'
  <2> DEFINE d == check[c].domain
             w == check[c].writes[i]
  <2>1. d \in Domains /\ Earns(d, w) /\ w \in Write
    BY <1>1, <1>3 DEF CheckKnows
  <2>2. /\ failures[d] \in Nat /\ failures'[d] \in Nat /\ passes[d] \in Nat /\ passes'[d] \in Nat
        /\ failures[d] <= failures'[d] /\ passes[d] <= passes'[d]
    BY <2>1 DEF EarnedInv, RosterGrown
  <2>3. /\ w.kind = "tier" => /\ w.tier = MONITORED => passes'[d] >= 1
                              /\ w.tier = ACTIVE => passes'[d] >= 2
                              /\ w.tier \in {FAILED, INACTIVE} => failures'[d] >= FAIL_THRESHOLD
        /\ w.kind = "health" => w.fail_count <= failures'[d]
    BY <2>1, <2>2 DEF Earns, Merits, Write, FAIL_THRESHOLD
  <2> QED BY <2>3 DEF Earns, Merits
<1> QED BY <1>1, <1>2, <1>3 DEF CheckKnows, RosterGrown

LEMMA NewRowIsEarned == ASSUME EarnedInv, NEW d \in Domains PROVE Earned(d, NewRow) /\ NewRow # Absent
<1>1. NewRow \in Row
  BY DEF NewRow, Row, Tiers
<1>2. NewRow.fail_count <= failures[d]
  BY DEF NewRow, EarnedInv
<1>3. Merits(d, NewRow.tier)
  BY DEF NewRow, Merits, CANDIDATE, MONITORED, ACTIVE, FAILED, INACTIVE
<1> QED BY <1>1, <1>2, <1>3, RosterAssumption DEF Earned

(* Discoveries and the crawl leave the checks and the counts alone, and a  *)
(* row stays as it was but for a stamp, unless it is a new one.            *)
LEMMA RowsMayBeNew ==
  ASSUME EarnedInv, UNCHANGED <<check, failures, passes>>, NEW e \in Domains, NEW row,
         roster' = [roster EXCEPT ![e] = row], Earned(e, row), row # Absent
  PROVE  EarnedInv'
<1>1. RosterGrown
  BY DEF RosterGrown, EarnedInv
<1>2. \A c \in Checks : CheckKnows(c)'
  BY <1>1, StillKnows
<1>3. ASSUME NEW d \in Domains, roster'[d] # Absent PROVE Earned(d, roster[d])'
  <2>1. \E r : r = roster'[d] /\ Earned(d, r)
    BY <1>3 DEF EarnedInv
  <2>2. PICK r : r = roster'[d] /\ Earned(d, r)
    BY <2>1
  <2>3. Earned(d, r)'
    BY <1>1, <2>2, StillEarned
  <2> QED BY <2>2, <2>3 DEF Earned, Merits
<1>4. row \in Row
  BY DEF Earned
<1> QED BY <1>1, <1>2, <1>3, <1>4 DEF EarnedInv

LEMMA FinderKeeps == ASSUME EarnedInv, NEW f \in Finders, Finder(f) PROVE EarnedInv'
<1>1. CASE UNCHANGED <<roster, check, failures, passes>>
  BY <1>1 DEF EarnedInv, CheckKnows, Earned, Merits, Earns
<1>2. CASE AddCandidate(f)
  <2>1. PICK d \in Domains : roster' = IF finder[f].dry THEN roster ELSE [roster EXCEPT ![d] = NewRow]
    BY <1>2 DEF AddCandidate
  <2>2. CASE roster' = roster
    BY <1>1, <1>2, <2>2 DEF AddCandidate
  <2>3. CASE roster' = [roster EXCEPT ![d] = NewRow]
    BY <1>2, <2>3, NewRowIsEarned, RowsMayBeNew DEF AddCandidate
  <2> QED BY <2>1, <2>2, <2>3
<1> QED BY <1>1, <1>2 DEF Finder, StartFinder, ListKnown, NextSeed, SkipHost, FinderEnds

LEMMA CrawlKeeps == ASSUME EarnedInv, StartCrawl \/ CrawlSite \/ CrawlEnds PROVE EarnedInv'
<1>1. CASE UNCHANGED <<roster, check, failures, passes>>
  BY <1>1 DEF EarnedInv, CheckKnows, Earned, Merits, Earns
<1>2. CASE CrawlSite
  <2>1. PICK d \in crawler.sites : roster' = roster \/ roster' = Stamped(d)
    BY <1>2 DEF CrawlSite
  <2>2. CASE roster' = Stamped(d) /\ d \in Domains /\ roster[d] # Absent
    <3> DEFINE row == [roster[d] EXCEPT !.crawled = TRUE]
    <3>1. Earned(d, row) /\ row \in Row
      BY <2>2 DEF EarnedInv, Earned, Merits, Row
    <3>2. row # Absent /\ roster' = [roster EXCEPT ![d] = row]
      BY <2>2, <3>1, RosterAssumption DEF Stamped
    <3>3. UNCHANGED <<check, failures, passes>>
      BY <1>2 DEF CrawlSite
    <3> HIDE DEF row
    <3> QED BY <2>2, <3>1, <3>2, <3>3, RowsMayBeNew
  <2>3. CASE roster' = roster
    BY <1>1, <1>2, <2>3 DEF CrawlSite
  <2>4. CASE roster' = Stamped(d) /\ ~ (d \in Domains /\ roster[d] # Absent)
    <3>1. roster' = roster
      BY <2>4 DEF Stamped, EarnedInv
    <3> QED BY <2>3, <3>1
  <2> QED BY <2>1, <2>2, <2>3, <2>4
<1> QED BY <1>1, <1>2 DEF StartCrawl, CrawlEnds

(* A check that takes one step, with what it knows then.                   *)
LEMMA CheckSteps ==
  ASSUME EarnedInv, NEW c \in Checks, NEW memory, check' = [check EXCEPT ![c] = memory],
         RosterGrown, CheckKnows(c)', roster' \in [Domains -> Row \cup {Absent}],
         \A d \in Domains : roster'[d] # Absent => Earned(d, roster[d])'
  PROVE  EarnedInv'
<1>1. ASSUME NEW b \in Checks PROVE CheckKnows(b)'
  <2>1. CASE b = c
    BY <2>1
  <2>2. CASE b # c
    BY <2>2, StillKnows DEF EarnedInv
  <2> QED BY <2>1, <2>2
<1> QED BY <1>1 DEF EarnedInv, RosterGrown

LEMMA ListedIsKnown ==
  ASSUME EarnedInv, NEW c \in Checks, ListTier(c) PROVE EarnedInv'
<1> DEFINE t == Head(check[c].tiers)
           rows == {[domain |-> d, row |-> roster[d]] : d \in ListByTier(t)}
           memory == [[check[c] EXCEPT !.sites = @ \cup rows] EXCEPT !.tiers = Tail(@)]
<1>1. CheckKnows(c)
  BY DEF EarnedInv
<1>2. /\ check[c].pc = "list" /\ check[c].tiers # <<>>
      /\ UNCHANGED <<roster, failures, passes>>
  BY DEF ListTier
<1>3. check' = [check EXCEPT ![c] = memory]
  BY <1>1 DEF ListTier, EarnedInv, CheckKnows, NoCheck
<1>4. /\ DOMAIN check'[c] = DOMAIN NoCheck /\ check'[c].pc = "list"
      /\ check'[c].sites = check[c].sites \cup rows /\ check'[c].tiers = Tail(check[c].tiers)
  BY <1>1, <1>2, <1>3 DEF EarnedInv, CheckKnows, NoCheck
<1>5. t \in ListedTiers /\ check'[c].tiers \in CheckedTiers \cup {<<MONITORED>>, <<>>}
  <2>1. check[c].tiers \in {<<CANDIDATE, MONITORED>>, <<ACTIVE>>, <<MONITORED>>}
    BY <1>1, <1>2 DEF CheckKnows, CheckedTiers
  <2>2. \A a, b : /\ Head(<<a, b>>) = a /\ Tail(<<a, b>>) = <<b>>
                  /\ Head(<<a>>) = a /\ Tail(<<a>>) = <<>>
    BY TailsOfTwo
  <2> QED BY <1>4, <2>1, <2>2 DEF ListedTiers
<1>6. \A s \in rows : /\ s.domain \in Domains /\ roster[s.domain] # Absent
                      /\ Earned(s.domain, s.row) /\ s.row.tier \in ListedTiers
  BY <1>5 DEF EarnedInv, ListByTier
<1>7. \A s \in check'[c].sites : /\ s.domain \in Domains /\ roster'[s.domain] # Absent
                                 /\ Earned(s.domain, s.row)' /\ s.row.tier \in ListedTiers
  BY <1>1, <1>2, <1>4, <1>6 DEF CheckKnows, Earned, Merits
<1>8. CheckKnows(c)'
  BY <1>4, <1>5, <1>7 DEF CheckKnows
<1>9. RosterGrown
  BY <1>2 DEF EarnedInv, RosterGrown
<1> QED BY <1>2, <1>3, <1>8, <1>9, CheckSteps DEF EarnedInv, Earned, Merits

LEMMA AssessedIsKnown ==
  ASSUME EarnedInv, NEW c \in Checks, Assess(c) PROVE EarnedInv'
<1>1. CheckKnows(c)
  BY DEF EarnedInv
<1>a. PICK s \in check[c].sites : \E a :
        /\ check' = [check EXCEPT
             ![c].pc = "write", ![c].sites = @ \ {s}, ![c].domain = s.domain,
             ![c].row = s.row, ![c].writes = Transition(s.row, a)]
        /\ failures' = [failures EXCEPT ![s.domain] = @ + IF Passed(a) THEN 0 ELSE 1]
        /\ passes' = [passes EXCEPT ![s.domain] = @ + IF Passed(a) THEN 1 ELSE 0]
  BY DEF Assess
<1>2. PICK a :
        /\ check' = [check EXCEPT
             ![c].pc = "write", ![c].sites = @ \ {s}, ![c].domain = s.domain,
             ![c].row = s.row, ![c].writes = Transition(s.row, a)]
        /\ failures' = [failures EXCEPT ![s.domain] = @ + IF Passed(a) THEN 0 ELSE 1]
        /\ passes' = [passes EXCEPT ![s.domain] = @ + IF Passed(a) THEN 1 ELSE 0]
  BY <1>a
<1> DEFINE d == s.domain
           ws == Transition(s.row, a)
           memory == [check[c] EXCEPT !.pc = "write", !.sites = @ \ {s}, !.domain = s.domain,
                                      !.row = s.row, !.writes = ws]
<1>3. /\ d \in Domains /\ roster[d] # Absent /\ s.row \in Row /\ s.row.tier \in ListedTiers
      /\ s.row.fail_count <= failures[d] /\ Merits(d, s.row.tier)
  BY <1>1 DEF CheckKnows, Earned
<1>4. roster' = roster /\ RosterGrown
  <2>1. roster' = roster
    BY DEF Assess
  <2>2. /\ failures' \in [Domains -> Nat] /\ passes' \in [Domains -> Nat]
        /\ \A e \in Domains : failures[e] <= failures'[e] /\ passes[e] <= passes'[e]
    BY <1>2, <1>3 DEF EarnedInv
  <2> QED BY <2>1, <2>2 DEF RosterGrown
<1>5. check' = [check EXCEPT ![c] = memory]
  BY <1>1, <1>2 DEF EarnedInv, CheckKnows, NoCheck
<1>6. /\ DOMAIN check'[c] = DOMAIN NoCheck /\ check'[c].pc = "write"
      /\ check'[c].sites \subseteq check[c].sites /\ check'[c].tiers = check[c].tiers
      /\ check'[c].domain = d /\ check'[c].writes = ws
  <2> HIDE DEF ws
  <2> QED BY <1>1, <1>5 DEF EarnedInv, CheckKnows, NoCheck
<1>7. ws \in Seq(Write) /\ \A i \in DOMAIN ws : Earns(d, ws[i])'
  <2>1. /\ failures[d] \in Nat /\ passes[d] \in Nat
        /\ Passed(a) => failures'[d] = failures[d] /\ passes'[d] = passes[d] + 1
        /\ ~ Passed(a) => failures'[d] = failures[d] + 1 /\ passes'[d] = passes[d]
    BY <1>2, <1>3 DEF EarnedInv
  <2>2. s.row.fail_count \in Nat /\ s.row.ok_count \in Nat
    BY <1>3 DEF Row
  <2> DEFINE Good(w) == w \in Write /\ Earns(d, w)'
  <2>3. Good(Mark)
    BY DEF Mark, Write, Earns
  <2>4. ASSUME NEW f \in Nat, NEW o \in Nat, f <= failures'[d] PROVE Good(Health(f, o))
    BY <2>4 DEF Health, Write, Earns
  <2>5. ASSUME NEW t \in Tiers, Merits(d, t)' PROVE Good(SetTier(t))
    BY <2>5 DEF SetTier, Write, Earns
  <2>6. Good(SetTier(MIRROR))
    BY <2>5 DEF Merits, Tiers, MIRROR, MONITORED, ACTIVE, FAILED, INACTIVE
  <2>7. Good(Health(0, 0)) /\ Good(Health(0, s.row.ok_count + 1))
    BY <2>1, <2>2, <2>4
  <2>8. Good(Health(s.row.fail_count, s.row.ok_count))
    BY <1>3, <2>1, <2>2, <2>4
  <2>9. ~ Passed(a) => Good(Health(s.row.fail_count + 1, s.row.ok_count))
    BY <1>3, <2>1, <2>2, <2>4
  <2>10. Passed(a) => Good(SetTier(MONITORED))
    BY <2>1, <2>5 DEF Merits, Tiers, MONITORED, ACTIVE, FAILED, INACTIVE
  <2>11. Passed(a) /\ s.row.tier = MONITORED => Good(SetTier(ACTIVE))
    BY <1>3, <2>1, <2>5 DEF Merits, Tiers, MONITORED, ACTIVE, FAILED, INACTIVE
  <2>12. ASSUME NEW t \in {FAILED, INACTIVE}, ~ Passed(a), s.row.fail_count + 1 >= FAIL_THRESHOLD
         PROVE  Good(SetTier(t))
    BY <1>3, <2>1, <2>2, <2>5, <2>12 DEF Merits, Tiers, MONITORED, ACTIVE, FAILED, INACTIVE,
                                         FAIL_THRESHOLD
  <2> HIDE DEF Good
  <2>13. \E x, y, z :
           /\ Good(x) /\ Good(y) /\ Good(z)
           /\ ws \in {<<x>>, <<x, y>>, <<x, y, z>>}
    BY <1>3, <2>3, <2>6, <2>7, <2>8, <2>9, <2>10, <2>11, <2>12, TransitionWrites
  <2>14. PICK x, y, z : /\ Good(x) /\ Good(y) /\ Good(z)
                        /\ ws \in {<<x>>, <<x, y>>, <<x, y, z>>}
    BY <2>13
  <2> DEFINE G == {x, y, z}
  <2>15. ws \in Seq(G)
    <3>1. <<x>> \in Seq(G) /\ <<x, y>> \in Seq(G) /\ <<x, y, z>> \in Seq(G)
      OBVIOUS
    <3> QED BY <2>14, <3>1
  <2>16. G \subseteq Write /\ \A w \in G : Good(w)
    BY <2>14 DEF Good
  <2>17. \A i \in DOMAIN ws : ws[i] \in G
    BY <2>15
  <2>18. ws \in Seq(Write)
    BY <2>15, <2>16
  <2> QED BY <2>16, <2>17, <2>18 DEF Good
<1>8. \A r \in check'[c].sites :
        /\ r.domain \in Domains /\ roster'[r.domain] # Absent
        /\ Earned(r.domain, r.row)' /\ r.row.tier \in ListedTiers
  <2> SUFFICES ASSUME NEW r \in check[c].sites
               PROVE  /\ r.domain \in Domains /\ roster'[r.domain] # Absent
                      /\ Earned(r.domain, r.row)' /\ r.row.tier \in ListedTiers
    BY <1>6
  <2> QED BY <1>1, <1>4, StillEarned DEF CheckKnows
<1>9. CheckKnows(c)'
  <2> HIDE DEF ws, d
  <2> QED BY <1>1, <1>3, <1>4, <1>6, <1>7, <1>8 DEF CheckKnows
<1>10. ASSUME NEW e \in Domains, roster'[e] # Absent PROVE Earned(e, roster[e])'
  <2>1. PICK r : r = roster[e] /\ Earned(e, r)
    BY <1>4, <1>10 DEF EarnedInv
  <2>2. Earned(e, r)'
    BY <1>4, <2>1, StillEarned
  <2> QED BY <1>4, <2>1, <2>2 DEF Earned, Merits
<1> QED BY <1>4, <1>5, <1>9, <1>10, CheckSteps DEF EarnedInv

LEMMA WrittenIsKnown ==
  ASSUME EarnedInv, NEW c \in Checks, WriteRow(c) PROVE EarnedInv'
<1> DEFINE d == check[c].domain
           w == Head(check[c].writes)
           row == Applied(roster[d], w)
           memory == [check[c] EXCEPT !.writes = Tail(@)]
<1>1. CheckKnows(c) /\ check[c].pc = "write" /\ check[c].writes # <<>>
  BY DEF EarnedInv, WriteRow
<1>2. /\ roster' = [roster EXCEPT ![d] = Applied(@, w)]
      /\ check' = [check EXCEPT ![c] = memory]
      /\ failures' = failures /\ passes' = passes
  BY DEF WriteRow
<1>3. /\ d \in Domains /\ roster[d] # Absent /\ w \in Write /\ Earns(d, w)
      /\ Earned(d, roster[d]) /\ DOMAIN check[c].writes = 1..Len(check[c].writes)
  BY <1>1 DEF CheckKnows, EarnedInv
<1>4. Earned(d, row) /\ row \in Row /\ row # Absent
  BY <1>3, AppliedIsEarned, RosterAssumption DEF Earned
<1>5. RosterGrown /\ roster' \in [Domains -> Row \cup {Absent}] /\ roster'[d] = row
  BY <1>2, <1>3, <1>4 DEF EarnedInv, RosterGrown
<1>6. /\ DOMAIN check'[c] = DOMAIN NoCheck /\ check'[c].pc = "write"
      /\ check'[c].sites = check[c].sites /\ check'[c].tiers = check[c].tiers
      /\ check'[c].domain = d /\ check'[c].writes = Tail(check[c].writes)
  BY <1>1, <1>2 DEF EarnedInv, CheckKnows, NoCheck
<1>7. /\ Tail(check[c].writes) \in Seq(Write)
      /\ \A i \in DOMAIN Tail(check[c].writes) :
            /\ i + 1 \in DOMAIN check[c].writes
            /\ Tail(check[c].writes)[i] = check[c].writes[i + 1]
  BY <1>1 DEF CheckKnows
<1>8. \A i \in DOMAIN check'[c].writes : Earns(d, check'[c].writes[i])
  BY <1>1, <1>6, <1>7 DEF CheckKnows
<1>9. \A s \in check'[c].sites :
        /\ s.domain \in Domains /\ roster'[s.domain] # Absent
        /\ Earned(s.domain, s.row) /\ s.row.tier \in ListedTiers
  BY <1>1, <1>5, <1>6 DEF CheckKnows, RosterGrown
<1>10. CheckKnows(c)'
  <2> HIDE DEF d
  <2> QED BY <1>1, <1>2, <1>3, <1>5, <1>6, <1>7, <1>8, <1>9
             DEF CheckKnows, Earned, Merits, Earns, RosterGrown
<1>11. ASSUME NEW e \in Domains, roster'[e] # Absent PROVE Earned(e, roster[e])'
  <2>1. Earned(e, roster'[e])
    BY <1>2, <1>3, <1>4, <1>5, <1>11 DEF EarnedInv
  <2> QED BY <1>2, <2>1 DEF Earned, Merits
<1> QED BY <1>2, <1>5, <1>10, <1>11, CheckSteps

LEMMA OtherCheckSteps ==
  ASSUME EarnedInv, NEW c \in Checks, StartCheck(c) \/ NextSite(c) \/ CheckEnds(c) PROVE EarnedInv'
<1>1. UNCHANGED <<roster, failures, passes>> /\ RosterGrown
  <2>1. UNCHANGED <<roster, failures, passes>>
    BY DEF StartCheck, NextSite, CheckEnds
  <2> QED BY <2>1 DEF EarnedInv, RosterGrown
<1>2. \E memory : /\ check' = [check EXCEPT ![c] = memory] /\ DOMAIN memory = DOMAIN NoCheck
                  /\ memory.pc # "write" /\ memory.sites \subseteq check[c].sites
                  /\ memory.tiers \in CheckedTiers \cup {<<MONITORED>>, <<>>}
  <2> DEFINE Memory(m) == /\ check' = [check EXCEPT ![c] = m] /\ DOMAIN m = DOMAIN NoCheck
                          /\ m.pc # "write" /\ m.sites \subseteq check[c].sites
                          /\ m.tiers \in CheckedTiers \cup {<<MONITORED>>, <<>>}
  <2>1. CASE StartCheck(c)
    <3>0. PICK ts \in CheckedTiers : \E lib :
            check' = [check EXCEPT ![c] = [NoCheck EXCEPT !.pc = "list", !.tiers = ts, !.library = lib]]
      BY <2>1 DEF StartCheck
    <3>1. PICK lib :
            check' = [check EXCEPT ![c] = [NoCheck EXCEPT !.pc = "list", !.tiers = ts, !.library = lib]]
      BY <3>0
    <3> DEFINE m == [NoCheck EXCEPT !.pc = "list", !.tiers = ts, !.library = lib]
    <3>2. Memory(m)
      BY <3>1 DEF NoCheck
    <3> QED BY <3>2
  <2>2. CASE NextSite(c)
    <3> DEFINE m == [check[c] EXCEPT !.pc = "next", !.writes = <<>>, !.domain = Absent, !.row = Absent]
    <3>1. CheckKnows(c) /\ DOMAIN check = Checks
      BY DEF EarnedInv
    <3>2. check' = [check EXCEPT ![c] = m]
      BY <2>2, <3>1 DEF NextSite, CheckKnows, NoCheck
    <3>3. DOMAIN m = DOMAIN NoCheck /\ m.pc = "next" /\ m.sites = check[c].sites /\ m.tiers = check[c].tiers
      BY <3>1 DEF CheckKnows, NoCheck
    <3>4. Memory(m)
      BY <3>1, <3>2, <3>3 DEF CheckKnows
    <3> QED BY <3>4
  <2>3. CASE CheckEnds(c)
    <3>1. Memory(NoCheck)
      BY <2>3 DEF CheckEnds, NoCheck
    <3> QED BY <3>1
  <2> QED BY <2>1, <2>2, <2>3
<1>3. PICK memory : /\ check' = [check EXCEPT ![c] = memory] /\ DOMAIN memory = DOMAIN NoCheck
                    /\ memory.pc # "write" /\ memory.sites \subseteq check[c].sites
                    /\ memory.tiers \in CheckedTiers \cup {<<MONITORED>>, <<>>}
  BY <1>2
<1>4. CheckKnows(c)'
  BY <1>1, <1>3 DEF EarnedInv, CheckKnows, Earned, Merits
<1> QED BY <1>1, <1>3, <1>4, CheckSteps DEF EarnedInv, Earned, Merits

LEMMA EarnedStarts == RosterInit => EarnedInv
BY DEF RosterInit, EarnedInv, CheckKnows, NoCheck

LEMMA EarnedStep == EarnedInv /\ [RosterNext]_rosterVars => EarnedInv'
<1> SUFFICES ASSUME EarnedInv, [RosterNext]_rosterVars PROVE EarnedInv'
  OBVIOUS
<1>1. CASE UNCHANGED rosterVars
  BY <1>1 DEF rosterVars, EarnedInv, CheckKnows, Earned, Merits, Earns
<1>2. ASSUME NEW c \in Checks, Check(c) PROVE EarnedInv'
  BY <1>2, ListedIsKnown, AssessedIsKnown, WrittenIsKnown, OtherCheckSteps DEF Check
<1> QED BY <1>1, <1>2, FinderKeeps, CrawlKeeps DEF RosterNext

\* No site is retired before three of its checks failed, none monitored or crawled
\* before it passed one or two of them, for any number of checks and discoveries that
\* overlap or stop between their writes (_apply_tier_transition).
THEOREM SitesEarnTheirTier == RosterSpec => [](RetiredHadFailures /\ ActiveWasProved)
<1>1. EarnedInv => RetiredHadFailures /\ ActiveWasProved
  BY DEF EarnedInv, Earned, Merits, RetiredHadFailures, ActiveWasProved
<1> QED BY <1>1, EarnedStarts, EarnedStep, PTL DEF RosterSpec

-----------------------------------------------------------------------------
(* The types: a check lists rows, and all that a discovery or the crawl    *)
(* remembers are hosts there are.                                          *)

CheckMemory(c) ==
  /\ check[c].pc \in {"idle", "list", "next", "write"}
  /\ check[c].sites \subseteq Site
  /\ check[c].pc = "write" => check[c].domain \in Domains /\ check[c].row \in Row
  /\ check[c].pc # "write" => check[c].writes = <<>>

FinderMemory(f) == DOMAIN finder[f] = DOMAIN NoFinder /\ finder[f].known \subseteq Domains

Crawler == [pc: {"idle", "crawl"}, sites: SUBSET Domains, got: SUBSET Addresses]

MemoryInv ==
  /\ library \subseteq Addresses
  /\ \A c \in Checks : CheckMemory(c)
  /\ DOMAIN finder = Finders /\ \A f \in Finders : FinderMemory(f)
  /\ crawler \in Crawler

LEMMA MemoryStarts == RosterInit => MemoryInv
BY DEF RosterInit, MemoryInv, CheckMemory, FinderMemory, Crawler, NoCheck, NoFinder, NoCrawler

(* Of the checks only c moves, and it ends up with a memory of its type.   *)
LEMMA CheckRemembers ==
  ASSUME EarnedInv, MemoryInv, NEW c \in Checks, NEW memory,
         check' = [check EXCEPT ![c] = memory], UNCHANGED <<library, finder, crawler>>,
         memory.pc \in {"idle", "list", "next", "write"}, memory.sites \subseteq Site,
         memory.pc = "write" => memory.domain \in Domains /\ memory.row \in Row,
         memory.pc # "write" => memory.writes = <<>>
  PROVE  MemoryInv'
<1>1. \A b \in Checks : CheckMemory(b)'
  BY DEF MemoryInv, EarnedInv, CheckMemory
<1> QED BY <1>1 DEF MemoryInv, FinderMemory

LEMMA MemoryAtCheck ==
  ASSUME EarnedInv, MemoryInv, NEW c \in Checks, Check(c) PROVE MemoryInv'
<1>1. /\ CheckKnows(c) /\ CheckMemory(c) /\ c \in DOMAIN check /\ DOMAIN check[c] = DOMAIN NoCheck
      /\ UNCHANGED <<library, finder, crawler>>
  BY DEF EarnedInv, MemoryInv, CheckKnows, Check, StartCheck, ListTier, Assess, WriteRow,
         NextSite, CheckEnds
<1>2. CASE StartCheck(c)
  <2>1. PICK ts \in CheckedTiers, lib \in {{}, library} :
          check' = [check EXCEPT ![c] = [NoCheck EXCEPT !.pc = "list", !.tiers = ts, !.library = lib]]
    BY <1>2 DEF StartCheck
  <2> DEFINE memory == [NoCheck EXCEPT !.pc = "list", !.tiers = ts, !.library = lib]
  <2>2. memory.pc = "list" /\ memory.sites = {} /\ memory.writes = <<>>
    BY DEF NoCheck
  <2>3. check' = [check EXCEPT ![c] = memory]
    BY <2>1
  <2> HIDE DEF memory
  <2> QED BY <1>1, <2>2, <2>3, CheckRemembers
<1>3. CASE ListTier(c)
  <2> DEFINE rows == {[domain |-> d, row |-> roster[d]] : d \in ListByTier(Head(check[c].tiers))}
             rest == Tail(check[c].tiers)
             memory == [check[c] EXCEPT !.sites = check[c].sites \cup rows, !.tiers = rest]
  <2>1. check' = [check EXCEPT ![c] = memory] /\ check[c].pc = "list"
    BY <1>1, <1>3 DEF ListTier
  <2>2. rows \subseteq Site
    BY DEF ListByTier, EarnedInv, Site
  <2> HIDE DEF rows, rest
  <2>3. memory.pc = "list" /\ memory.sites = check[c].sites \cup rows /\ memory.writes = check[c].writes
    BY <1>1, <2>1 DEF NoCheck
  <2> HIDE DEF memory
  <2> QED BY <1>1, <2>1, <2>2, <2>3, CheckRemembers DEF CheckMemory
<1>4. CASE Assess(c)
  <2>1. PICK s \in check[c].sites : \E a :
          check' = [check EXCEPT
             ![c].pc = "write", ![c].sites = @ \ {s}, ![c].domain = s.domain,
             ![c].row = s.row, ![c].writes = Transition(s.row, a)]
    BY <1>4 DEF Assess
  <2>2. PICK a :
          check' = [check EXCEPT
             ![c].pc = "write", ![c].sites = @ \ {s}, ![c].domain = s.domain,
             ![c].row = s.row, ![c].writes = Transition(s.row, a)]
    BY <2>1
  <2> DEFINE ws == Transition(s.row, a)
             memory == [check[c] EXCEPT !.pc = "write", !.sites = @ \ {s}, !.domain = s.domain,
                                        !.row = s.row, !.writes = ws]
  <2> HIDE DEF ws
  <2>3. check' = [check EXCEPT ![c] = memory]
    BY <1>1, <2>2 DEF NoCheck, ws
  <2>4. /\ memory.pc = "write" /\ memory.sites = check[c].sites \ {s}
        /\ memory.domain = s.domain /\ memory.row = s.row
    BY <1>1 DEF NoCheck
  <2>5. s \in Site
    BY <1>1 DEF CheckMemory
  <2>6. s.domain \in Domains /\ s.row \in Row
    BY <2>5 DEF Site
  <2> HIDE DEF memory
  <2> QED BY <1>1, <2>3, <2>4, <2>6, CheckRemembers DEF CheckMemory
<1>5. CASE WriteRow(c)
  <2> DEFINE rest == Tail(check[c].writes)
             memory == [check[c] EXCEPT !.writes = rest]
  <2>1. check' = [check EXCEPT ![c] = memory] /\ check[c].pc = "write"
    BY <1>1, <1>5 DEF WriteRow
  <2> HIDE DEF rest
  <2>2. /\ memory.pc = check[c].pc /\ memory.sites = check[c].sites
        /\ memory.domain = check[c].domain /\ memory.row = check[c].row
    BY <1>1 DEF NoCheck
  <2> HIDE DEF memory
  <2> QED BY <1>1, <2>1, <2>2, CheckRemembers DEF CheckMemory
<1>6. CASE NextSite(c)
  <2> DEFINE memory == [check[c] EXCEPT !.pc = "next", !.writes = <<>>, !.domain = Absent,
                                        !.row = Absent]
  <2>1. check' = [check EXCEPT ![c] = memory]
    BY <1>1, <1>6 DEF NextSite
  <2>2. memory.pc = "next" /\ memory.sites = check[c].sites /\ memory.writes = <<>>
    BY <1>1 DEF NoCheck
  <2> HIDE DEF memory
  <2> QED BY <1>1, <2>1, <2>2, CheckRemembers DEF CheckMemory
<1>7. CASE CheckEnds(c)
  <2>1. check' = [check EXCEPT ![c] = NoCheck]
    BY <1>7 DEF CheckEnds
  <2>2. NoCheck.pc = "idle" /\ NoCheck.sites = {} /\ NoCheck.writes = <<>>
    BY DEF NoCheck
  <2> QED BY <1>1, <2>1, <2>2, CheckRemembers
<1> QED BY <1>2, <1>3, <1>4, <1>5, <1>6, <1>7 DEF Check

LEMMA MemoryAtFinder ==
  ASSUME EarnedInv, MemoryInv, NEW f \in Finders, Finder(f) PROVE MemoryInv'
<1>1. UNCHANGED <<library, check, crawler>> /\ FinderMemory(f) /\ f \in DOMAIN finder
  BY DEF MemoryInv, Finder, StartFinder, ListKnown, NextSeed, SkipHost, AddCandidate, FinderEnds
<1>2. \E memory : /\ finder' = [finder EXCEPT ![f] = memory]
                  /\ DOMAIN memory = DOMAIN NoFinder /\ memory.known \subseteq Domains
  <2> DEFINE Fits(m) == /\ finder' = [finder EXCEPT ![f] = m]
                        /\ DOMAIN m = DOMAIN NoFinder /\ m.known \subseteq Domains
  <2>1. CASE StartFinder(f)
    <3>1. PICK dry \in BOOLEAN :
            finder' = [finder EXCEPT ![f] = [NoFinder EXCEPT
                    !.pc = "list", !.dry = dry, !.tiers = FinderOrder,
                    !.known = YamlDomains, !.seeds = YamlDomains]]
      BY <2>1 DEF StartFinder
    <3> DEFINE m == [NoFinder EXCEPT !.pc = "list", !.dry = dry, !.tiers = FinderOrder,
                                     !.known = YamlDomains, !.seeds = YamlDomains]
    <3>2. Fits(m)
      BY <3>1, RosterAssumption DEF NoFinder
    <3> QED BY <3>2
  <2>2. CASE ListKnown(f)
    <3> DEFINE more == ListByTier(Head(finder[f].tiers))
               rest == Tail(finder[f].tiers)
               m == [finder[f] EXCEPT !.known = finder[f].known \cup more, !.tiers = rest]
    <3>1. finder' = [finder EXCEPT ![f] = m]
      BY <1>1, <2>2 DEF ListKnown, FinderMemory, NoFinder
    <3>2. more \subseteq Domains
      BY DEF ListByTier
    <3> HIDE DEF more, rest
    <3>3. Fits(m)
      BY <1>1, <3>1, <3>2 DEF FinderMemory, NoFinder
    <3> QED BY <3>3
  <2>3. CASE NextSeed(f)
    <3>1. PICK s \in finder[f].seeds :
            finder' = [finder EXCEPT ![f].pc = "seed", ![f].seed = s,
                                     ![f].seeds = @ \ {s}, ![f].perSeed = 0]
      BY <2>3 DEF NextSeed
    <3> DEFINE m == [finder[f] EXCEPT !.pc = "seed", !.seed = s, !.seeds = @ \ {s}, !.perSeed = 0]
    <3>2. Fits(m)
      BY <1>1, <3>1 DEF FinderMemory, NoFinder
    <3> QED BY <3>2
  <2>4. CASE SkipHost(f)
    <3>1. PICK d \in Domains : finder' = [finder EXCEPT ![f].known = @ \cup {d}]
      BY <2>4 DEF SkipHost
    <3> DEFINE m == [finder[f] EXCEPT !.known = @ \cup {d}]
    <3>2. Fits(m)
      BY <1>1, <3>1 DEF FinderMemory, NoFinder
    <3> QED BY <3>2
  <2>5. CASE AddCandidate(f)
    <3>1. PICK d \in Domains :
            finder' = [finder EXCEPT ![f].known = @ \cup {d},
                                     ![f].perSeed = @ + 1, ![f].total = @ + 1]
      BY <2>5 DEF AddCandidate
    <3> DEFINE m == [finder[f] EXCEPT !.known = @ \cup {d}, !.perSeed = @ + 1, !.total = @ + 1]
    <3>2. Fits(m)
      BY <1>1, <3>1 DEF FinderMemory, NoFinder
    <3> QED BY <3>2
  <2>6. CASE FinderEnds(f)
    <3>1. Fits(NoFinder)
      BY <2>6 DEF FinderEnds, NoFinder
    <3> QED BY <3>1
  <2> QED BY <2>1, <2>2, <2>3, <2>4, <2>5, <2>6 DEF Finder
<1>3. \A g \in Finders : FinderMemory(g)'
  BY <1>2 DEF MemoryInv, FinderMemory
<1>4. DOMAIN finder' = Finders
  BY <1>2 DEF MemoryInv
<1> QED BY <1>1, <1>3, <1>4 DEF MemoryInv, CheckMemory

LEMMA MemoryAtCrawl ==
  ASSUME MemoryInv, StartCrawl \/ CrawlSite \/ CrawlEnds PROVE MemoryInv'
<1>1. UNCHANGED <<check, finder>>
  BY DEF StartCrawl, CrawlSite, CrawlEnds
<1>2. ASSUME NEW d \in Domains, NEW n \in SampleSizes \cup {0} PROVE Canonicals(d, n) \subseteq Addresses
  <2>1. OriginOf[d] \in Domains /\ n \in Nat
    BY RosterAssumption
  <2> QED BY <2>1 DEF Canonicals, Addresses
<1>3. crawler' \in Crawler
  <2>1. CASE StartCrawl
    BY <2>1, RosterAssumption DEF StartCrawl, ListByTier, Crawler
  <2>2. CASE CrawlSite
    <3>1. PICK d \in crawler.sites, n \in SampleSizes \cup {0} :
            crawler' = [crawler EXCEPT !.sites = @ \ {d}, !.got = @ \cup Canonicals(d, n)]
      BY <2>2 DEF CrawlSite
    <3>2. crawler \in Crawler
      BY DEF MemoryInv
    <3>3. Canonicals(d, n) \subseteq Addresses
      BY <1>2, <3>2 DEF Crawler
    <3> QED BY <3>1, <3>2, <3>3 DEF Crawler
  <2>3. CASE CrawlEnds
    BY <2>3 DEF CrawlEnds, NoCrawler, Crawler
  <2> QED BY <2>1, <2>2, <2>3
<1>4. library' \subseteq Addresses
  BY DEF MemoryInv, Crawler, StartCrawl, CrawlSite, CrawlEnds
<1> QED BY <1>1, <1>3, <1>4 DEF MemoryInv, CheckMemory, FinderMemory

\* Rows, lists and histories have their types at every moment, whatever checks, discoveries
\* and crawls overlap or stop anywhere.
THEOREM RosterTyped == RosterSpec => []RosterTypeOK
<1> DEFINE I == EarnedInv /\ MemoryInv
<1>1. RosterInit => I
  BY EarnedStarts, MemoryStarts
<1>2. I /\ [RosterNext]_rosterVars => I'
  <2> SUFFICES ASSUME I, [RosterNext]_rosterVars PROVE MemoryInv'
    BY EarnedStep
  <2>1. CASE UNCHANGED rosterVars
    BY <2>1 DEF rosterVars, MemoryInv, CheckMemory, FinderMemory
  <2> QED BY <2>1, MemoryAtCheck, MemoryAtFinder, MemoryAtCrawl DEF RosterNext
<1>3. I => RosterTypeOK
  <2> SUFFICES ASSUME I PROVE RosterTypeOK
    OBVIOUS
  <2>1. <<>> \in Seq(Write)
    OBVIOUS
  <2>2. ASSUME NEW c \in Checks
        PROVE  /\ check[c].pc \in {"idle", "list", "next", "write"}
               /\ check[c].sites \subseteq Site
               /\ check[c].pc = "write" => [domain |-> check[c].domain, row |-> check[c].row] \in Site
               /\ check[c].writes \in Seq(Write)
    BY <2>1 DEF EarnedInv, CheckKnows, MemoryInv, CheckMemory, Site
  <2> QED BY <2>2 DEF RosterTypeOK, EarnedInv, MemoryInv, FinderMemory, Crawler
<1> QED BY <1>1, <1>2, <1>3, PTL DEF RosterSpec

-----------------------------------------------------------------------------
(* One check and one discovery at a time.  Then a check knows the tier of  *)
(* every site it has listed and is going to move it along an edge; all     *)
(* edges lead from a tier that a discovery asks for to one that it asks    *)
(* for later, so that it knows every site once it has asked for all tiers. *)

OneOfEach == (\A c, d \in Checks : c = d) /\ (\A f, g \in Finders : f = g)

Place(t) ==
  IF t = CANDIDATE THEN 1 ELSE IF t = MONITORED THEN 2 ELSE IF t = ACTIVE THEN 3
  ELSE IF t = MIRROR THEN 4 ELSE IF t = FAILED THEN 5 ELSE 6

InTurn(d, ws) ==
  \A i \in DOMAIN ws : ws[i].kind = "tier" =>
    /\ <<roster[d].tier, ws[i].tier>> \in Edges
    /\ \A k \in DOMAIN ws : k # i => ws[k].kind # "tier"
    /\ ws[i].tier = MIRROR => roster[d].is_mirror \/ \E k \in 1..(i - 1) : ws[k].kind = "mirror"

CheckAlone(c) ==
  /\ check[c].pc \notin {"idle", "list"} => check[c].tiers = <<>>
  /\ \A s \in check[c].sites :
        /\ s.row.tier = roster[s.domain].tier
        /\ \A i \in DOMAIN check[c].tiers : check[c].tiers[i] # s.row.tier
        /\ check[c].pc = "write" => s.domain # check[c].domain
        /\ \A r \in check[c].sites : r.domain = s.domain => r = s
  /\ check[c].pc = "write" => InTurn(check[c].domain, check[c].writes)

FinderAlone(f) ==
  /\ DOMAIN finder[f] = DOMAIN NoFinder
  /\ finder[f].tiers \in Seq(Tiers)
  /\ \A i \in DOMAIN finder[f].tiers :
        /\ 6 - Len(finder[f].tiers) + i \in 1..6
        /\ finder[f].tiers[i] = FinderOrder[6 - Len(finder[f].tiers) + i]
  /\ finder[f].pc = "seed" => finder[f].tiers = <<>>
  /\ finder[f].pc # "idle" =>
        \A d \in Domains \ finder[f].known :
           roster[d] # Absent => Place(roster[d].tier) > 6 - Len(finder[f].tiers)

AloneInv ==
  /\ EarnedInv
  /\ DOMAIN finder = Finders
  /\ \A c \in Checks : CheckAlone(c)
  /\ \A f \in Finders : FinderAlone(f)
  /\ MirrorIsFlagged

LEMMA Places ==
  /\ \A t \in Tiers : Place(t) \in 1..6 /\ FinderOrder[Place(t)] = t
  /\ \A n \in 1..6 : FinderOrder[n] \in Tiers /\ Place(FinderOrder[n]) = n
  /\ \A t, u : <<t, u>> \in Edges => t \in Tiers /\ u \in Tiers /\ Place(t) < Place(u)
<1> USE DEF Place, FinderOrder, Tiers, CANDIDATE, MONITORED, ACTIVE, MIRROR, FAILED, INACTIVE
<1>1. \A t \in Tiers : Place(t) \in 1..6 /\ FinderOrder[Place(t)] = t
  OBVIOUS
<1>2. \A n \in 1..6 : FinderOrder[n] \in Tiers /\ Place(FinderOrder[n]) = n
  OBVIOUS
<1>3. ASSUME NEW t, NEW u, <<t, u>> \in Edges PROVE t \in Tiers /\ u \in Tiers /\ Place(t) < Place(u)
  BY <1>3 DEF Edges
<1> QED BY <1>1, <1>2, <1>3

(* What a step may do to the rows there are, and what it may not undo.     *)
Walk ==
  \A d \in Domains : roster[d] # Absent =>
     /\ roster'[d] # Absent
     /\ roster'[d].tier = roster[d].tier \/ <<roster[d].tier, roster'[d].tier>> \in Edges
     /\ roster[d].crawled => roster'[d].crawled

Rest ==
  \A d \in Domains : roster[d] # Absent =>
     /\ roster'[d] # Absent
     /\ roster'[d].tier = roster[d].tier /\ roster'[d].is_mirror = roster[d].is_mirror
     /\ roster[d].crawled => roster'[d].crawled

LEMMA FinderSees ==
  ASSUME AloneInv, EarnedInv', Walk, NEW f \in Finders, finder'[f] = finder[f],
         \A d \in Domains : roster[d] = Absent => roster'[d] = Absent
  PROVE  FinderAlone(f)'
<1>1. FinderAlone(f) /\ Len(finder[f].tiers) \in Nat
  BY DEF AloneInv, FinderAlone
<1>2. ASSUME finder[f].pc # "idle", NEW d \in Domains \ finder[f].known, roster'[d] # Absent
      PROVE  Place(roster'[d].tier) > 6 - Len(finder[f].tiers)
  <2>1. roster[d] # Absent /\ Place(roster[d].tier) > 6 - Len(finder[f].tiers)
    BY <1>1, <1>2 DEF FinderAlone
  <2>2. roster[d].tier \in Tiers /\ roster'[d].tier \in Tiers
    BY <1>2, <2>1 DEF AloneInv, EarnedInv, Earned, Row
  <2>3. /\ Place(roster[d].tier) \in Int /\ Place(roster'[d].tier) \in Int
        /\ Place(roster[d].tier) <= Place(roster'[d].tier)
    <3> DEFINE t == roster[d].tier
               u == roster'[d].tier
    <3>1. Place(t) \in 1..6 /\ Place(u) \in 1..6
      BY <2>2, Places
    <3>2. u = t \/ <<t, u>> \in Edges
      BY <2>1 DEF Walk
    <3>3. <<t, u>> \in Edges => Place(t) < Place(u)
      BY Places
    <3> HIDE DEF t, u
    <3>4. Place(t) \in Int /\ Place(u) \in Int /\ Place(t) <= Place(u)
      BY <3>1, <3>2, <3>3
    <3> QED BY <3>4 DEF t, u
  <2> QED BY <1>1, <2>1, <2>3
<1> QED BY <1>1, <1>2 DEF FinderAlone, Place

LEMMA CheckSees ==
  ASSUME AloneInv, Rest, NEW c \in Checks, check'[c] = check[c] PROVE CheckAlone(c)'
<1>1. CheckAlone(c) /\ CheckKnows(c)
  BY DEF AloneInv, EarnedInv
<1>2. \A s \in check[c].sites : roster'[s.domain].tier = roster[s.domain].tier
  BY <1>1 DEF CheckKnows, Rest
<1>3. ASSUME check[c].pc = "write" PROVE InTurn(check[c].domain, check[c].writes)'
  <2>1. /\ roster'[check[c].domain].tier = roster[check[c].domain].tier
        /\ roster'[check[c].domain].is_mirror = roster[check[c].domain].is_mirror
    BY <1>1, <1>3 DEF CheckKnows, Rest
  <2> QED BY <1>1, <1>3, <2>1 DEF CheckAlone, InTurn
<1> QED BY <1>1, <1>2, <1>3 DEF CheckAlone

LEMMA FinderAloneSteps ==
  ASSUME AloneInv, EarnedInv', OneOfEach, NEW f \in Finders, Finder(f)
  PROVE  AloneInv' /\ Walk
<1>1. FinderAlone(f) /\ \A g \in Finders : g = f
  BY DEF AloneInv, OneOfEach
<1>2. check' = check
  BY DEF Finder, StartFinder, ListKnown, NextSeed, SkipHost, AddCandidate, FinderEnds
<1>3. ASSUME NEW memory, finder' = [finder EXCEPT ![f] = memory], roster' = roster,
             FinderAlone(f)'
      PROVE  AloneInv' /\ Walk
  <2>1. Rest /\ Walk /\ MirrorIsFlagged'
    BY <1>3 DEF Rest, Walk, AloneInv, MirrorIsFlagged
  <2> QED BY <1>1, <1>2, <1>3, <2>1, CheckSees DEF AloneInv
<1>4. CASE StartFinder(f)
  <2>1. PICK dry \in BOOLEAN :
          finder' = [finder EXCEPT ![f] = [NoFinder EXCEPT
                      !.pc = "list", !.dry = dry, !.tiers = FinderOrder,
                      !.known = YamlDomains, !.seeds = YamlDomains]]
    BY <1>4 DEF StartFinder
  <2>2. /\ DOMAIN finder'[f] = DOMAIN NoFinder /\ finder'[f].pc = "list"
        /\ finder'[f].tiers = FinderOrder /\ roster' = roster
    BY <1>4, <2>1 DEF StartFinder, AloneInv, NoFinder
  <2>3. FinderOrder \in Seq(Tiers) /\ Len(FinderOrder) = 6
    BY DEF FinderOrder, Tiers
  <2>4. \A d \in Domains : roster[d] # Absent => Place(roster[d].tier) > 0
    BY Places DEF AloneInv, EarnedInv, Earned, Row
  <2>5. FinderAlone(f)'
    BY <2>2, <2>3, <2>4 DEF FinderAlone, Place
  <2> QED BY <1>3, <2>1, <2>2, <2>5
<1>5. CASE ListKnown(f)
  <2> DEFINE ts == finder[f].tiers
             memory == [[finder[f] EXCEPT !.known = @ \cup ListByTier(Head(ts))] EXCEPT !.tiers = Tail(@)]
  <2>1. ts # <<>> /\ finder[f].pc = "list" /\ roster' = roster /\ finder' = [finder EXCEPT ![f] = memory]
    BY <1>1, <1>5 DEF ListKnown, AloneInv, FinderAlone, NoFinder
  <2>2. /\ DOMAIN finder'[f] = DOMAIN NoFinder /\ finder'[f].pc = "list"
        /\ finder'[f].tiers = Tail(ts) /\ finder'[f].known = finder[f].known \cup ListByTier(Head(ts))
    BY <1>1, <2>1 DEF AloneInv, FinderAlone, NoFinder
  <2>3. /\ Len(ts) \in Nat /\ Len(ts) > 0 /\ Tail(ts) \in Seq(Tiers) /\ Len(Tail(ts)) = Len(ts) - 1
        /\ \A i \in DOMAIN Tail(ts) : i \in Nat /\ i + 1 \in DOMAIN ts /\ Tail(ts)[i] = ts[i + 1]
        /\ 1 \in DOMAIN ts /\ Head(ts) = ts[1]
    BY <1>1, <2>1 DEF FinderAlone
  <2>4. /\ \A i \in DOMAIN Tail(ts) : /\ 6 - Len(Tail(ts)) + i \in 1..6
                                      /\ Tail(ts)[i] = FinderOrder[6 - Len(Tail(ts)) + i]
        /\ 7 - Len(ts) \in 1..6 /\ Head(ts) = FinderOrder[7 - Len(ts)]
    <3>1. ASSUME NEW k \in DOMAIN ts
          PROVE  6 - Len(ts) + k \in 1..6 /\ ts[k] = FinderOrder[6 - Len(ts) + k]
      BY <1>1, <3>1 DEF FinderAlone
    <3>2. ASSUME NEW i \in DOMAIN Tail(ts)
          PROVE  /\ 6 - Len(Tail(ts)) + i \in 1..6
                 /\ Tail(ts)[i] = FinderOrder[6 - Len(Tail(ts)) + i]
      <4>1. i \in Nat /\ i + 1 \in DOMAIN ts /\ Tail(ts)[i] = ts[i + 1]
        BY <2>3
      <4> DEFINE n == Len(ts)
                 m == Len(Tail(ts))
      <4>3. n \in Nat /\ m = n - 1
        BY <2>3
      <4> HIDE DEF n, m
      <4>4. 6 - m + i = 6 - n + (i + 1)
        BY <4>1, <4>3
      <4>2. 6 - Len(Tail(ts)) + i = 6 - Len(ts) + (i + 1)
        BY <4>4 DEF n, m
      <4> QED BY <3>1, <4>1, <4>2
    <3>3. 6 - Len(ts) + 1 = 7 - Len(ts)
      BY <2>3
    <3>4. 7 - Len(ts) \in 1..6 /\ Head(ts) = FinderOrder[7 - Len(ts)]
      BY <2>3, <3>1, <3>3
    <3> QED BY <3>2, <3>4
  <2>5. ASSUME NEW d \in Domains \ finder'[f].known, roster[d] # Absent
        PROVE  Place(roster[d].tier) > 6 - Len(Tail(ts))
    <3>1. roster[d].tier \in Tiers /\ roster[d].tier # FinderOrder[7 - Len(ts)]
      BY <2>2, <2>4, <2>5 DEF ListByTier, AloneInv, EarnedInv, Earned, Row
    <3>2. Place(roster[d].tier) \in 1..6 /\ Place(roster[d].tier) # 7 - Len(ts)
      BY <3>1, Places
    <3>3. Place(roster[d].tier) > 6 - Len(ts)
      BY <1>1, <2>1, <2>2, <2>5 DEF FinderAlone
    <3> QED BY <2>3, <3>2, <3>3
  <2> DEFINE us == Tail(ts)
             known == finder'[f].known
  <2>6. /\ us \in Seq(Tiers)
        /\ \A i \in DOMAIN us : 6 - Len(us) + i \in 1..6 /\ us[i] = FinderOrder[6 - Len(us) + i]
    BY <2>3, <2>4
  <2>7. finder'[f].tiers = us /\ roster' = roster
    BY <2>1, <2>2
  <2>8. \A d \in Domains \ known : roster[d] # Absent => Place(roster[d].tier) > 6 - Len(us)
    BY <2>5
  <2> HIDE DEF us, memory
  <2>9. FinderAlone(f)'
    <3>1. finder'[f].tiers \in Seq(Tiers)
      BY <2>6, <2>7
    <3>2. \A i \in DOMAIN finder'[f].tiers :
            /\ 6 - Len(finder'[f].tiers) + i \in 1..6
            /\ finder'[f].tiers[i] = FinderOrder[6 - Len(finder'[f].tiers) + i]
      BY <2>6, <2>7
    <3>3. \A d \in Domains \ finder'[f].known :
            roster'[d] # Absent => Place(roster'[d].tier) > 6 - Len(finder'[f].tiers)
      BY <2>7, <2>8
    <3> QED BY <2>2, <3>1, <3>2, <3>3 DEF FinderAlone, Place
  <2> QED BY <1>3, <2>1, <2>9
<1>6. ASSUME NEW memory, finder' = [finder EXCEPT ![f] = memory], roster' = roster,
             DOMAIN memory = DOMAIN NoFinder, memory.tiers = <<>>,
             memory.pc = "idle" \/ (memory.pc = "seed" /\ finder[f].pc # "idle" /\ finder[f].tiers = <<>>
                                    /\ finder[f].known \subseteq memory.known)
      PROVE  AloneInv' /\ Walk
  <2>1. finder'[f] = memory
    BY <1>6 DEF AloneInv
  <2>2. /\ DOMAIN finder'[f] = DOMAIN NoFinder /\ finder'[f].tiers = <<>>
        /\ finder'[f].tiers \in Seq(Tiers) /\ DOMAIN finder'[f].tiers = {}
    <3>1. <<>> \in Seq(Tiers) /\ DOMAIN <<>> = {}
      OBVIOUS
    <3> QED BY <1>6, <2>1, <3>1
  <2>3. ASSUME finder'[f].pc # "idle", NEW d \in Domains \ finder'[f].known, roster'[d] # Absent
        PROVE  Place(roster'[d].tier) > 6 - Len(finder'[f].tiers)
    BY <1>1, <1>6, <2>1, <2>3 DEF FinderAlone, Place
  <2>4. FinderAlone(f)'
    BY <2>2, <2>3 DEF FinderAlone, Place
  <2> QED BY <1>3, <1>6, <2>4
<1>7. CASE NextSeed(f)
  <2>1. PICK s : finder' = [finder EXCEPT ![f].pc = "seed", ![f].seed = s,
                                          ![f].seeds = @ \ {s}, ![f].perSeed = 0]
    BY <1>7 DEF NextSeed
  <2> DEFINE memory == [[[[finder[f] EXCEPT !.pc = "seed"] EXCEPT !.seed = s]
                           EXCEPT !.seeds = @ \ {s}] EXCEPT !.perSeed = 0]
  <2>2. finder' = [finder EXCEPT ![f] = memory]
    BY <1>1, <2>1 DEF AloneInv, FinderAlone, NoFinder
  <2>3. /\ DOMAIN memory = DOMAIN NoFinder /\ memory.tiers = finder[f].tiers /\ memory.pc = "seed"
        /\ memory.known = finder[f].known
    BY <1>1 DEF FinderAlone, NoFinder
  <2> HIDE DEF memory
  <2> QED BY <1>6, <1>7, <2>2, <2>3 DEF NextSeed
<1>8. CASE SkipHost(f)
  <2>1. PICK d : finder' = [finder EXCEPT ![f].known = @ \cup {d}]
    BY <1>8 DEF SkipHost
  <2> DEFINE memory == [finder[f] EXCEPT !.known = @ \cup {d}]
  <2>2. finder' = [finder EXCEPT ![f] = memory]
    BY <1>1, <2>1 DEF AloneInv, FinderAlone, NoFinder
  <2>3. /\ DOMAIN memory = DOMAIN NoFinder /\ memory.tiers = finder[f].tiers /\ memory.pc = finder[f].pc
        /\ memory.known = finder[f].known \cup {d}
    BY <1>1 DEF FinderAlone, NoFinder
  <2> HIDE DEF memory
  <2> QED BY <1>1, <1>6, <1>8, <2>2, <2>3 DEF SkipHost, FinderAlone
<1>9. CASE FinderEnds(f)
  <2>1. DOMAIN NoFinder = DOMAIN NoFinder /\ NoFinder.tiers = <<>> /\ NoFinder.pc = "idle"
    BY DEF NoFinder
  <2> QED BY <1>6, <1>9, <2>1 DEF FinderEnds
<1>10. CASE AddCandidate(f)
  <2>1. PICK d \in Domains \ finder[f].known :
          /\ roster' = IF finder[f].dry THEN roster ELSE [roster EXCEPT ![d] = NewRow]
          /\ finder' = [finder EXCEPT ![f].known = @ \cup {d}, ![f].perSeed = @ + 1, ![f].total = @ + 1]
    BY <1>10 DEF AddCandidate
  <2> DEFINE memory == [[[finder[f] EXCEPT !.known = @ \cup {d}] EXCEPT !.perSeed = @ + 1]
                          EXCEPT !.total = @ + 1]
  <2>2. finder' = [finder EXCEPT ![f] = memory]
    BY <1>1, <2>1 DEF AloneInv, FinderAlone, NoFinder
  <2>3. /\ DOMAIN memory = DOMAIN NoFinder /\ memory.tiers = finder[f].tiers /\ memory.pc = finder[f].pc
        /\ memory.known = finder[f].known \cup {d}
    BY <1>1 DEF FinderAlone, NoFinder
  <2> HIDE DEF memory
  <2>4. finder[f].pc = "seed" /\ finder[f].tiers = <<>>
    BY <1>1, <1>10 DEF AddCandidate, FinderAlone
  <2>5. CASE roster' = roster
    BY <1>6, <2>2, <2>3, <2>4, <2>5
  <2>6. CASE roster' = [roster EXCEPT ![d] = NewRow]
    <3>1. roster[d] = Absent
      <4>1. SUFFICES ASSUME roster[d] # Absent PROVE FALSE
        OBVIOUS
      <4>2. Place(roster[d].tier) \in 1..6
        BY <4>1, Places DEF AloneInv, EarnedInv, Earned, Row
      <4>3. Place(roster[d].tier) > 6 - Len(<<>>) /\ Len(<<>>) = 0
        BY <1>1, <2>4, <4>1 DEF FinderAlone
      <4> QED BY <4>2, <4>3
    <3>2. \A e \in Domains \ {d} : roster'[e] = roster[e]
      BY <2>6 DEF AloneInv, EarnedInv
    <3>3. roster'[d] = NewRow
      BY <2>6 DEF AloneInv, EarnedInv
    <3>4. Rest /\ Walk
      BY <3>1, <3>2 DEF Rest, Walk
    <3>5. MirrorIsFlagged'
      BY <3>2, <3>3 DEF AloneInv, MirrorIsFlagged, NewRow, MIRROR, CANDIDATE
    <3>6. finder'[f] = memory
      BY <2>2 DEF AloneInv
    <3>7. FinderAlone(f)'
      BY <1>1, <2>3, <2>4, <3>2, <3>6 DEF FinderAlone, Place
    <3> QED BY <1>1, <1>2, <2>2, <3>4, <3>5, <3>7, CheckSees DEF AloneInv
  <2> QED BY <2>1, <2>5, <2>6
<1> QED BY <1>4, <1>5, <1>7, <1>8, <1>9, <1>10 DEF Finder

LEMMA AppliedTo ==
  ASSUME NEW row \in Row, NEW w \in Write
  PROVE  /\ Applied(row, w).crawled = row.crawled
         /\ w.kind # "tier" => Applied(row, w).tier = row.tier
         /\ w.kind = "tier" => Applied(row, w).tier = w.tier
         /\ w.kind = "mirror" => Applied(row, w).is_mirror
         /\ row.is_mirror => Applied(row, w).is_mirror
<1>1. CASE w \in [kind: {"mirror"}]
  BY <1>1 DEF Applied, Row
<1>2. CASE w \in [kind: {"tier"}, tier: Tiers]
  BY <1>2 DEF Applied, Row
<1>3. CASE w \in [kind: {"health"}, fail_count: Nat, ok_count: Nat]
  BY <1>3 DEF Applied, Row
<1> QED BY <1>1, <1>2, <1>3 DEF Write

(* A step of the check: the discovery sees no row appear.                  *)
LEMMA CheckMoves ==
  ASSUME AloneInv, EarnedInv', OneOfEach, NEW c \in Checks, CheckAlone(c)', finder' = finder,
         Walk, \A d \in Domains : roster[d] = Absent => roster'[d] = Absent, MirrorIsFlagged'
  PROVE  AloneInv' /\ Walk
<1>1. \A b \in Checks : b = c
  BY DEF OneOfEach
<1>2. \A f \in Finders : FinderAlone(f)'
  BY FinderSees
<1> QED BY <1>1, <1>2 DEF AloneInv

(* A step of the check that writes nothing.                                *)
LEMMA CheckReads ==
  ASSUME AloneInv, EarnedInv', OneOfEach, NEW c \in Checks, CheckAlone(c)', finder' = finder,
         roster' = roster
  PROVE  AloneInv' /\ Walk
<1>1. Walk /\ MirrorIsFlagged'
  BY DEF Walk, AloneInv, MirrorIsFlagged
<1> QED BY <1>1, CheckMoves

LEMMA OtherStepsAlone ==
  ASSUME AloneInv, EarnedInv', OneOfEach, NEW c \in Checks,
         StartCheck(c) \/ NextSite(c) \/ CheckEnds(c)
  PROVE  AloneInv' /\ Walk
<1>1. CheckAlone(c) /\ CheckKnows(c) /\ DOMAIN check = Checks
  BY DEF AloneInv, EarnedInv
<1>2. finder' = finder /\ roster' = roster
  BY DEF StartCheck, NextSite, CheckEnds
<1>3. CASE StartCheck(c) \/ CheckEnds(c)
  <2>1. check'[c].sites = {} /\ check'[c].pc \in {"idle", "list"}
    <3>1. CASE CheckEnds(c)
      BY <1>1, <3>1 DEF CheckEnds, NoCheck
    <3>2. CASE StartCheck(c)
      <4>1. PICK ts \in CheckedTiers, lib \in {{}, library} :
              check' = [check EXCEPT ![c] = [NoCheck EXCEPT !.pc = "list", !.tiers = ts, !.library = lib]]
        BY <3>2 DEF StartCheck
      <4> QED BY <1>1, <4>1 DEF NoCheck
    <3> QED BY <1>3, <3>1, <3>2
  <2>2. CheckAlone(c)'
    BY <2>1 DEF CheckAlone
  <2> QED BY <1>2, <2>2, CheckReads
<1>4. CASE NextSite(c)
  <2>1. /\ check'[c].sites = check[c].sites /\ check'[c].pc = "next"
        /\ check'[c].tiers = check[c].tiers /\ check[c].pc = "write"
    BY <1>1, <1>4 DEF NextSite, CheckKnows, NoCheck
  <2>2. CheckAlone(c)'
    BY <1>1, <1>2, <2>1 DEF CheckAlone
  <2> QED BY <1>2, <2>2, CheckReads
<1> QED BY <1>3, <1>4

LEMMA ListedAlone ==
  ASSUME AloneInv, EarnedInv', OneOfEach, NEW c \in Checks, ListTier(c)
  PROVE  AloneInv' /\ Walk
<1> DEFINE ts == check[c].tiers
           rows == {[domain |-> d, row |-> roster[d]] : d \in ListByTier(Head(ts))}
<1>1. CheckAlone(c) /\ CheckKnows(c) /\ DOMAIN check = Checks
  BY DEF AloneInv, EarnedInv
<1>2. /\ finder' = finder /\ roster' = roster /\ check[c].pc = "list" /\ ts # <<>>
      /\ check'[c].pc = "list" /\ check'[c].tiers = Tail(ts)
      /\ check'[c].sites = check[c].sites \cup rows
  BY <1>1 DEF ListTier, CheckKnows, NoCheck
<1>3. /\ 1 \in DOMAIN ts /\ Head(ts) = ts[1]
      /\ \A i \in DOMAIN Tail(ts) : /\ i + 1 \in DOMAIN ts /\ Tail(ts)[i] = ts[i + 1]
                                    /\ Tail(ts)[i] # Head(ts)
  <2>1. ts \in {<<CANDIDATE, MONITORED>>, <<ACTIVE>>, <<MONITORED>>}
    BY <1>1, <1>2 DEF CheckKnows, CheckedTiers
  <2>2. CASE ts = <<CANDIDATE, MONITORED>>
    <3>1. Head(ts) = CANDIDATE /\ Tail(ts) = <<MONITORED>>
      BY <2>2, TailsOfTwo
    <3>2. DOMAIN Tail(ts) = {1} /\ Tail(ts)[1] = MONITORED
      <4>1. \A m : Len(<<m>>) = 1 /\ DOMAIN <<m>> = 1..1 /\ <<m>>[1] = m
        OBVIOUS
      <4>2. 1..1 = {1}
        OBVIOUS
      <4> HIDE DEF ts
      <4> QED BY <3>1, <4>1, <4>2
    <3>3. DOMAIN ts = {1, 2} /\ ts[1] = CANDIDATE /\ ts[2] = MONITORED
      BY <2>2
    <3> QED BY <3>1, <3>2, <3>3 DEF CANDIDATE, MONITORED
  <2>3. ASSUME NEW t, ts = <<t>>
        PROVE  1 \in DOMAIN ts /\ Head(ts) = ts[1] /\ DOMAIN Tail(ts) = {}
    <3>1. Head(ts) = t /\ Tail(ts) = <<>>
      BY <2>3, TailsOfTwo
    <3>2. DOMAIN Tail(ts) = {}
      BY <3>1
    <3> QED BY <2>3, <3>1, <3>2
  <2> QED BY <2>1, <2>2, <2>3
<1>4. \A s \in rows : s.row = roster[s.domain] /\ s.row.tier = Head(ts)
  BY DEF ListByTier
<1>5. \A s \in check[c].sites : s.row.tier # Head(ts) /\ s.row.tier = roster[s.domain].tier
  BY <1>1, <1>3 DEF CheckAlone
<1>6. \A s, r \in rows : r.domain = s.domain => r = s
  OBVIOUS
<1> HIDE DEF rows, ts
<1>7. ASSUME NEW s \in check[c].sites \cup rows
      PROVE  /\ s.row.tier = roster[s.domain].tier
             /\ \A i \in DOMAIN Tail(ts) : Tail(ts)[i] # s.row.tier
             /\ \A r \in check[c].sites \cup rows : r.domain = s.domain => r = s
  <2>1. CASE s \in rows
    <3>1. \A r \in check[c].sites : r.domain # s.domain
      BY <1>4, <1>5, <2>1
    <3> QED BY <1>3, <1>4, <1>6, <2>1, <3>1
  <2>2. CASE s \in check[c].sites
    <3>1. \A r \in rows : r.domain # s.domain
      BY <1>4, <1>5, <2>2
    <3>2. \A i \in DOMAIN ts : ts[i] # s.row.tier
      BY <1>1, <2>2 DEF CheckAlone, ts
    <3>3. \A r \in check[c].sites : r.domain = s.domain => r = s
      BY <1>1, <2>2 DEF CheckAlone
    <3> QED BY <1>3, <1>5, <2>2, <3>1, <3>2, <3>3
  <2> QED BY <2>1, <2>2
<1>8. CheckAlone(c)'
  BY <1>2, <1>7 DEF CheckAlone
<1> QED BY <1>2, <1>8, CheckReads

LEMMA AssessedAlone ==
  ASSUME AloneInv, EarnedInv', OneOfEach, NEW c \in Checks, Assess(c)
  PROVE  AloneInv' /\ Walk
<1>1. CheckAlone(c) /\ CheckKnows(c) /\ DOMAIN check = Checks
  BY DEF AloneInv, EarnedInv
<1>a. PICK s \in check[c].sites : \E a :
        check' = [check EXCEPT
             ![c].pc = "write", ![c].sites = @ \ {s}, ![c].domain = s.domain,
             ![c].row = s.row, ![c].writes = Transition(s.row, a)]
  BY DEF Assess
<1>2. PICK a :
        check' = [check EXCEPT
             ![c].pc = "write", ![c].sites = @ \ {s}, ![c].domain = s.domain,
             ![c].row = s.row, ![c].writes = Transition(s.row, a)]
  BY <1>a
<1> DEFINE d == s.domain
           ws == Transition(s.row, a)
<1>3. /\ finder' = finder /\ roster' = roster /\ check[c].tiers = <<>>
      /\ check'[c].tiers = <<>> /\ check'[c].pc = "write" /\ check'[c].sites = check[c].sites \ {s}
      /\ check'[c].domain = d /\ check'[c].writes = ws
  <2> HIDE DEF ws
  <2> QED BY <1>1, <1>2 DEF Assess, CheckKnows, NoCheck, ws
<1>4. s.row \in Row /\ s.row.tier \in ListedTiers /\ s.row.tier = roster[d].tier
  BY <1>1 DEF CheckKnows, CheckAlone, Earned
<1>5. InTurn(d, ws)
  <2> DEFINE OneTier(t, vs) ==
               \A i \in DOMAIN vs : vs[i].kind = "tier" =>
                 /\ vs[i].tier = t
                 /\ \A k \in DOMAIN vs : k # i => vs[k].kind # "tier"
  <2>1. ASSUME NEW f, NEW o PROVE InTurn(d, <<Health(f, o)>>)
    BY DEF InTurn, Health
  <2>2. ASSUME NEW t, NEW f, NEW o, <<roster[d].tier, t>> \in Edges, t # MIRROR
        PROVE  InTurn(d, <<SetTier(t), Health(f, o)>>)
    <3>1. DOMAIN <<SetTier(t), Health(f, o)>> = 1..2
      OBVIOUS
    <3> QED BY <2>2, <3>1 DEF InTurn, SetTier, Health
  <2>3. ASSUME <<roster[d].tier, MIRROR>> \in Edges
        PROVE  InTurn(d, <<Mark, SetTier(MIRROR), Health(0, 0)>>)
    <3>1. DOMAIN <<Mark, SetTier(MIRROR), Health(0, 0)>> = 1..3
      OBVIOUS
    <3> QED BY <2>3, <3>1 DEF InTurn, SetTier, Health, Mark
  <2> USE DEF Edges, ListedTiers, CANDIDATE, MONITORED, ACTIVE, MIRROR, FAILED, INACTIVE
  <2>4. roster[d].tier = CANDIDATE =>
          <<roster[d].tier, MIRROR>> \in Edges /\ <<roster[d].tier, MONITORED>> \in Edges
    OBVIOUS
  <2>5. roster[d].tier = MONITORED => <<roster[d].tier, ACTIVE>> \in Edges
    OBVIOUS
  <2>6. \A t \in {FAILED, INACTIVE} :
          (t = INACTIVE <=> roster[d].tier = ACTIVE) => <<roster[d].tier, t>> \in Edges
    BY <1>4
  <2>7. MONITORED # MIRROR /\ ACTIVE # MIRROR /\ FAILED # MIRROR /\ INACTIVE # MIRROR
    OBVIOUS
  <2> HIDE DEF Edges, ListedTiers, CANDIDATE, MONITORED, ACTIVE, MIRROR, FAILED, INACTIVE
  <2> QED BY <1>4, <2>1, <2>2, <2>3, <2>4, <2>5, <2>6, <2>7, TransitionWrites
<1>6. \A r \in check'[c].sites :
        /\ r.row.tier = roster[r.domain].tier /\ r.domain # d
        /\ \A q \in check'[c].sites : q.domain = r.domain => q = r
  BY <1>1, <1>3 DEF CheckAlone
<1>7. CheckAlone(c)'
  <2> HIDE DEF ws, d
  <2>1. \A r \in check'[c].sites : \A i \in DOMAIN check'[c].tiers : check'[c].tiers[i] # r.row.tier
    <3>1. DOMAIN <<>> = {}
      OBVIOUS
    <3> QED BY <1>3, <3>1
  <2>2. InTurn(check[c].domain, check[c].writes)'
    BY <1>3, <1>5 DEF InTurn
  <2> QED BY <1>3, <1>6, <2>1, <2>2 DEF CheckAlone
<1> QED BY <1>3, <1>7, CheckReads

LEMMA WrittenAlone ==
  ASSUME AloneInv, EarnedInv', OneOfEach, NEW c \in Checks, WriteRow(c)
  PROVE  AloneInv' /\ Walk
<1> DEFINE d == check[c].domain
           ws == check[c].writes
           w == Head(ws)
           row == Applied(roster[d], w)
<1>1. /\ CheckAlone(c) /\ CheckKnows(c) /\ DOMAIN check = Checks
      /\ roster \in [Domains -> Row \cup {Absent}] /\ MirrorIsFlagged
  BY DEF AloneInv, EarnedInv
<1>2. /\ roster' = [roster EXCEPT ![d] = row] /\ finder' = finder
      /\ check[c].pc = "write" /\ check'[c].pc = "write" /\ ws # <<>>
      /\ check'[c].sites = check[c].sites /\ check'[c].tiers = check[c].tiers
      /\ check'[c].domain = d /\ check'[c].writes = Tail(ws)
  BY <1>1 DEF WriteRow, CheckKnows, NoCheck
<1>3. /\ d \in Domains /\ roster[d] # Absent /\ roster[d] \in Row
      /\ ws \in Seq(Write) /\ w \in Write /\ w = ws[1] /\ 1 \in DOMAIN ws
      /\ InTurn(d, ws)
  BY <1>1, <1>2 DEF CheckKnows, CheckAlone
<1>4. \A i \in DOMAIN Tail(ws) : /\ i \in Nat \ {0} /\ i + 1 \in DOMAIN ws
                                /\ Tail(ws)[i] = ws[i + 1]
  BY <1>2, <1>3
<1>5. roster'[d] = row /\ \A e \in Domains \ {d} : roster'[e] = roster[e]
  BY <1>1, <1>2, <1>3
<1>6. /\ row.crawled = roster[d].crawled
      /\ w.kind # "tier" => row.tier = roster[d].tier
      /\ w.kind = "tier" => row.tier = w.tier
      /\ w.kind = "mirror" => row.is_mirror
      /\ roster[d].is_mirror => row.is_mirror
  BY <1>3, AppliedTo
<1>7. w.kind = "tier" => /\ <<roster[d].tier, w.tier>> \in Edges
                         /\ \A k \in DOMAIN ws : k # 1 => ws[k].kind # "tier"
                         /\ w.tier = MIRROR => roster[d].is_mirror
  BY <1>3 DEF InTurn
<1> HIDE DEF row, d, w, ws
<1>8. roster'[d] # Absent /\ row \in Row
  <2>1. row = Applied(roster[d], w) /\ row \in Row
    <3>1. Earned(d, roster[d]) /\ Earns(d, w)
      BY <1>1, <1>2, <1>3 DEF AloneInv, EarnedInv, CheckKnows, d, w, ws
    <3> QED BY <1>3, <3>1, AppliedIsEarned DEF row, Earned
  <2> QED BY <1>5, <2>1, RosterAssumption
<1>9. Walk
  BY <1>5, <1>6, <1>7, <1>8 DEF Walk
<1>10. MirrorIsFlagged'
  <2>1. ASSUME row.tier = MIRROR PROVE row.is_mirror
    BY <1>1, <1>3, <1>6, <1>7, <2>1 DEF MirrorIsFlagged
  <2> QED BY <1>1, <1>5, <2>1 DEF MirrorIsFlagged
<1> DEFINE vs == Tail(ws)
<1>11. ASSUME NEW i \in DOMAIN vs, vs[i].kind = "tier"
       PROVE  /\ <<row.tier, vs[i].tier>> \in Edges
              /\ \A k \in DOMAIN vs : k # i => vs[k].kind # "tier"
              /\ vs[i].tier = MIRROR => row.is_mirror \/ \E k \in 1..(i - 1) : vs[k].kind = "mirror"
  <2>1. /\ i + 1 \in DOMAIN ws /\ vs[i] = ws[i + 1] /\ i \in Nat \ {0}
        /\ <<roster[d].tier, vs[i].tier>> \in Edges
        /\ \A k \in DOMAIN ws : k # i + 1 => ws[k].kind # "tier"
    BY <1>3, <1>4, <1>11 DEF InTurn
  <2>2. w.kind # "tier" /\ row.tier = roster[d].tier
    BY <1>3, <1>6, <2>1
  <2>3. ASSUME vs[i].tier = MIRROR
        PROVE  row.is_mirror \/ \E k \in 1..(i - 1) : vs[k].kind = "mirror"
    <3>1. roster[d].is_mirror \/ \E k \in 1..i : ws[k].kind = "mirror"
      <4>1. roster[d].is_mirror \/ \E k \in 1..((i + 1) - 1) : ws[k].kind = "mirror"
        BY <1>3, <1>11, <2>1, <2>3 DEF InTurn
      <4>2. (i + 1) - 1 = i
        BY <2>1
      <4> QED BY <4>1, <4>2
    <3>2. ASSUME NEW k \in 1..i, ws[k].kind = "mirror", k # 1
          PROVE  k - 1 \in 1..(i - 1) /\ vs[k - 1].kind = "mirror"
      <4>1. k - 1 \in 1..(i - 1) /\ k - 1 \in 1..i /\ (k - 1) + 1 = k
        BY <2>1, <3>2
      <4>2. k - 1 \in DOMAIN vs
        <5>1. DOMAIN vs = 1..Len(vs) /\ Len(vs) \in Nat
          BY <1>2, <1>3
        <5> HIDE DEF vs
        <5> QED BY <2>1, <4>1, <5>1
      <4> QED BY <1>4, <3>2, <4>1, <4>2
    <3> QED BY <1>3, <1>6, <3>1, <3>2
  <2>4. \A k \in DOMAIN vs : k # i => vs[k].kind # "tier"
    BY <1>4, <2>1
  <2> QED BY <2>1, <2>2, <2>3, <2>4
<1>12. CheckAlone(c)'
  <2>1. \A s \in check[c].sites : s.domain # d /\ roster'[s.domain] = roster[s.domain]
    BY <1>1, <1>2, <1>5 DEF CheckAlone, CheckKnows, d
  <2>2. InTurn(check[c].domain, check[c].writes)'
    <3> HIDE DEF vs
    <3> QED BY <1>2, <1>5, <1>11 DEF InTurn, vs
  <2> QED BY <1>1, <1>2, <2>1, <2>2 DEF CheckAlone
<1>13. \A e \in Domains : roster[e] = Absent => roster'[e] = Absent
  BY <1>3, <1>5
<1> QED BY <1>2, <1>9, <1>10, <1>12, <1>13, CheckMoves

LEMMA CrawlStepsAlone ==
  ASSUME AloneInv, EarnedInv', StartCrawl \/ CrawlSite \/ CrawlEnds
  PROVE  AloneInv' /\ Walk
<1>1. UNCHANGED <<check, finder>>
  BY DEF StartCrawl, CrawlSite, CrawlEnds
<1>2. roster' = roster \/ \E d \in Domains : /\ roster[d] # Absent
                                           /\ roster' = [roster EXCEPT ![d].crawled = TRUE]
  <2>1. CASE CrawlSite
    <3>1. PICK d \in crawler.sites : roster' = roster \/ roster' = Stamped(d)
      BY <2>1 DEF CrawlSite
    <3>2. d \in Domains \/ Stamped(d) = roster
      BY DEF Stamped, AloneInv, EarnedInv
    <3> QED BY <3>1, <3>2 DEF Stamped
  <2> QED BY <2>1 DEF StartCrawl, CrawlEnds
<1>3. Rest /\ \A d \in Domains : roster[d] = Absent <=> roster'[d] = Absent
  <2>1. CASE roster' = roster
    BY <2>1 DEF Rest
  <2>2. ASSUME NEW e \in Domains, roster' = [roster EXCEPT ![e].crawled = TRUE], roster[e] # Absent
        PROVE  Rest /\ \A d \in Domains : roster[d] = Absent <=> roster'[d] = Absent
    <3>1. roster[e] \in Row
      BY <2>2 DEF AloneInv, EarnedInv
    <3>2. /\ roster'[e].tier = roster[e].tier /\ roster'[e].is_mirror = roster[e].is_mirror
          /\ roster'[e].crawled /\ roster'[e] \in Row
          /\ \A d \in Domains \ {e} : roster'[d] = roster[d]
      BY <2>2, <3>1 DEF AloneInv, EarnedInv, Row
    <3> QED BY <2>2, <3>2, RosterAssumption DEF Rest
  <2> QED BY <1>2, <2>1, <2>2
<1>4. Walk /\ MirrorIsFlagged'
  BY <1>3 DEF Rest, Walk, AloneInv, MirrorIsFlagged
<1>5. \A f \in Finders : FinderAlone(f)'
  BY <1>1, <1>3, <1>4, FinderSees
<1>6. \A c \in Checks : CheckAlone(c)'
  BY <1>1, <1>3, CheckSees
<1> QED BY <1>1, <1>4, <1>5, <1>6 DEF AloneInv

LEMMA AloneStarts == RosterInit => AloneInv
<1> SUFFICES ASSUME RosterInit PROVE AloneInv
  OBVIOUS
<1>1. \A c \in Checks : CheckAlone(c)
  BY DEF RosterInit, CheckAlone, NoCheck
<1>2. \A f \in Finders : FinderAlone(f)
  <2>1. <<>> \in Seq(Tiers) /\ DOMAIN <<>> = {}
    OBVIOUS
  <2> QED BY <2>1 DEF RosterInit, FinderAlone, NoFinder
<1> QED BY <1>1, <1>2, EarnedStarts DEF RosterInit, AloneInv, MirrorIsFlagged

LEMMA AloneStep ==
  ASSUME OneOfEach, AloneInv, [RosterNext]_rosterVars PROVE AloneInv' /\ (Walk \/ UNCHANGED rosterVars)
<1>1. EarnedInv'
  BY EarnedStep DEF AloneInv
<1>2. CASE UNCHANGED rosterVars
  <2>1. Rest /\ Walk /\ MirrorIsFlagged'
    BY <1>2 DEF rosterVars, Rest, Walk, AloneInv, MirrorIsFlagged
  <2>2. \A f \in Finders : FinderAlone(f)'
    BY <1>1, <1>2, <2>1, FinderSees DEF rosterVars
  <2>3. \A c \in Checks : CheckAlone(c)'
    BY <1>2, <2>1, CheckSees DEF rosterVars
  <2> QED BY <1>1, <1>2, <2>1, <2>2, <2>3 DEF AloneInv, rosterVars
<1>3. ASSUME NEW c \in Checks, Check(c) PROVE AloneInv' /\ Walk
  BY <1>1, <1>3, ListedAlone, AssessedAlone, WrittenAlone, OtherStepsAlone DEF Check
<1> QED BY <1>1, <1>2, <1>3, FinderAloneSteps, CrawlStepsAlone DEF RosterNext

\* Every tier is earned, and a site of tier mirror carries the flag also when the check
\* stops between its writes: with one health check and one discovery at a time, whatever
\* they and the crawl do in between.  (With two discoveries the second may set the row
\* back to a new one between the mark and the tier.)
THEOREM TiersStayEarned == ASSUME OneOfEach PROVE RosterSpec => []TiersAreEarned
<1>1. AloneInv => TiersAreEarned
  BY DEF AloneInv, EarnedInv, Earned, Merits, RetiredHadFailures, ActiveWasProved, TiersAreEarned
<1>2. AloneInv /\ [RosterNext]_rosterVars => AloneInv'
  BY AloneStep
<1> QED BY <1>1, <1>2, AloneStarts, PTL DEF RosterSpec

\* Tiers move along the edges of the machine of health_check_sources.py and no row is set
\* back to a new one by a discovery that runs beside the check (_roster_domains asks for
\* the tiers one by one, in the order of their moves).
THEOREM TiersKeepToTheMachine == ASSUME OneOfEach PROVE RosterSpec => TiersFollowMachine
<1>1. AloneInv /\ [RosterNext]_rosterVars =>
        AloneInv' /\ [\A d \in Domains : roster[d] # Absent =>
                         /\ roster'[d] # Absent
                         /\ roster'[d].tier = roster[d].tier \/ <<roster[d].tier, roster'[d].tier>> \in Edges
                         /\ roster[d].crawled => roster'[d].crawled]_rosterVars
  BY AloneStep DEF Walk
<1> QED BY <1>1, AloneStarts, PTL DEF RosterSpec, TiersFollowMachine
=============================================================================

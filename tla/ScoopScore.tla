------------------------------ MODULE ScoopScore ------------------------------
(***************************************************************************)
(* The score of a scoop (cpost/core/scoring.py): four dimensions, each a   *)
(* weighted mean of fractions, and their weighted mean.  A float is        *)
(* modelled by the fraction <<n, d>> it stands for.  The scoop is rescored *)
(* while time passes and articles come in.  No caller passes the result of *)
(* an external search, so that its two dimensions are 0.                   *)
(***************************************************************************)
EXTENDS Integers, Sequences, FiniteSets, SequencesExt

CONSTANTS
    Configs,      \* settings: caps, windows and weights, also degenerate ones
    LastHour,     \* (bound)
    MaxMembers,   \* (bound) articles of the scoop
    Unknown       \* no date

Leq(a, b)  == a[1] * b[2] <= b[1] * a[2]
Zero == <<0, 1>>
One  == <<1, 1>>

Gcd[p \in Nat \X Nat] == IF p[2] = 0 THEN p[1] ELSE Gcd[<<p[2], p[1] % p[2]>>]

Reduced(n, d) ==
    LET g == Gcd[<<IF n < 0 THEN -n ELSE n, d>>] IN <<n \div g, d \div g>>

Clamp01(x) == IF x[1] < 0 THEN Zero ELSE IF x[1] > x[2] THEN One ELSE x

Plus(a, b)  == <<a[1] * b[2] + b[1] * a[2], a[2] * b[2]>>
Times(a, w) == <<a[1] * w, a[2]>>

(* The mean of (value, weight) pairs.                                      *)
Weighted(parts) ==
    LET all == FoldLeft(LAMBDA a, p : [sum |-> Plus(a.sum, Times(p[1], p[2])), weight |-> a.weight + p[2]],
                        [sum |-> Zero, weight |-> 0], parts)
    IN  IF all.weight <= 0 THEN Zero
        ELSE Clamp01(Reduced(all.sum[1], all.sum[2] * all.weight))

(* confidence, completeness, material, cross_site_coverage: n of a cap.    *)
Share(n, cap) ==
    IF cap <= 0 THEN (IF n > 0 THEN One ELSE Zero) ELSE Clamp01(<<n, cap>>)

(* Mutant of Recency: a date to come counts as none.                       *)
RecencyPastOnly(latest, now, window) ==
    IF latest = Unknown \/ window <= 0 THEN Zero
    ELSE IF now < latest THEN Zero
    ELSE Clamp01(<<window - (now - latest), window>>)

Recency(latest, now, window) ==
    IF latest = Unknown \/ window <= 0 THEN Zero
    ELSE IF now <= latest THEN One
    ELSE Clamp01(<<window - (now - latest), window>>)

Velocity(dates, now, window, cap) ==
    LET recent == {i \in 1..Len(dates) : dates[i] # Unknown /\ dates[i] >= now - window}
    IN  IF window <= 0 \/ dates = <<>> THEN Zero
        ELSE Clamp01(<<Cardinality(recent), IF cap > 1 THEN cap ELSE 1>>)

(* importance_diversity: the share of pairs that tell different angles.    *)
Diversity(angles) ==
    LET n == Len(angles)
        pairs == {p \in (1..n) \X (1..n) : p[1] < p[2]}
    IN  IF n <= 1 THEN <<n, 1>>
        ELSE <<Cardinality({p \in pairs : angles[p[1]] # angles[p[2]]}), Cardinality(pairs)>>

(* latest_published, source_count and the longest text of a cluster.       *)
Latest(ms) ==
    LET dates == {ms[i].date : i \in 1..Len(ms)} \ {Unknown}
    IN  IF dates = {} THEN Unknown ELSE Max(dates)

SourceCount(ms) == Cardinality({ms[i].source : i \in 1..Len(ms)})
MaxText(ms)     == Max({0} \cup {ms[i].text : i \in 1..Len(ms)})

Freshness(ms, now, c) ==
    Weighted(<< <<Recency(Latest(ms), now, c.window), c.w_recency>>,
                <<Velocity([i \in 1..Len(ms) |-> ms[i].date], now, c.burst, c.material_cap),
                  c.w_velocity>> >>)

Importance(ms, c) ==
    Weighted(<< <<Share(MaxText(ms), c.full_text), c.w_completeness>>,
                <<Share(Len(ms), c.material_cap), c.w_material>>,
                <<Diversity([i \in 1..Len(ms) |-> ms[i].angle]), c.w_diversity>> >>)

TrafficPotential(ms, c) ==
    Weighted(<< <<Zero, c.w_volume>>, <<Zero, c.w_sources>>,
                <<Share(SourceCount(ms), c.diversity_cap), c.w_coverage>> >>)

(* score_cluster_v2                                                        *)
ScoreCluster(ms, now, c) ==
    LET fresh == Freshness(ms, now, c)
        imp   == Importance(ms, c)
        tp    == TrafficPotential(ms, c)
        csc   == Share(SourceCount(ms), c.cross_cap)
    IN  [freshness |-> fresh, importance |-> imp, traffic_potential |-> tp,
         cross_site_coverage |-> csc,
         score |-> Weighted(<< <<fresh, c.weight_freshness>>, <<imp, c.weight_importance>>,
                               <<tp, c.weight_traffic>>, <<csc, c.weight_cross>> >>)]

Weights == {"w_recency", "w_velocity", "w_completeness", "w_material", "w_diversity",
            "w_volume", "w_sources", "w_coverage", "weight_freshness",
            "weight_importance", "weight_traffic", "weight_cross"}

(* load coerces every value to an int or a float; nothing checks its sign.  *)
(* A setting is a finite number here: a float setting may also be .nan or  *)
(* .inf in the file, and no property is about the scores that come of it.  *)
ASSUME ScoreAssumption ==
    /\ Configs \subseteq [Weights \cup {"window", "burst", "material_cap", "full_text",
                                     "diversity_cap", "cross_cap"} -> Int]
    /\ Unknown \notin Int

VARIABLES
    cfg,       \* scoring.yaml
    hour,      \* now
    members,   \* the articles: date, length of the text, source, angle
    scores     \* what score_cluster_v2 last returned

scoreVars == <<cfg, hour, members, scores>>

Rescore == scores' = ScoreCluster(members', hour', cfg)

ScoreInit ==
    /\ cfg \in Configs
    /\ hour = 0
    /\ members = <<>>
    /\ scores = ScoreCluster(members, hour, cfg)

Ages ==
    /\ hour < LastHour
    /\ hour' = hour + 1
    /\ UNCHANGED <<cfg, members>>
    /\ Rescore

(* An article joins; it may have no date, or one that is still to come.    *)
Joins ==
    /\ Len(members) < MaxMembers
    /\ \E d \in {Unknown, hour, hour + 1}, t \in {0, 1}, s \in {1, 2}, a \in {1, 2} :
        members' = Append(members, [date |-> d, text |-> t, source |-> s, angle |-> a])
    /\ UNCHANGED <<cfg, hour>>
    /\ Rescore

ScoreNext == Ages \/ Joins

ScoreSpec == ScoreInit /\ [][ScoreNext]_scoreVars

-----------------------------------------------------------------------------
(* "All outputs are clamped to 0..1 and never NaN, even on empty or        *)
(* degenerate input" (scoring.py:10), of settings that are finite: no      *)
(* division by zero either.                                                *)
ScoresInRange ==
    \A k \in DOMAIN scores :
        scores[k][2] > 0 /\ Leq(Zero, scores[k]) /\ Leq(scores[k], One)

(* Old news never climbs: as time alone passes no score rises; and another *)
(* report of a scoop, dated or not, never makes it staler or its coverage  *)
(* smaller.  (Weights are not checked when they are loaded; with a         *)
(* negative one the order of scoops may turn round.)                       *)
ScoresAreMonotone ==
    [][(\A k \in Weights : cfg[k] >= 0) =>
         /\ hour' > hour => \A k \in DOMAIN scores : Leq(scores'[k], scores[k])
         /\ Len(members') > Len(members) =>
               \A k \in {"freshness", "traffic_potential", "cross_site_coverage"} :
                   Leq(scores[k], scores'[k])]_scoreVars
=============================================================================

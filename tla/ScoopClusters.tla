---------------------------- MODULE ScoopClusters ----------------------------
(***************************************************************************)
(* The grouping of library items into scoops (cluster_items in             *)
(* cpost/core/cluster.py): a union-find over all pairs of items.  The      *)
(* items are numbered by their URL, so that the smaller number is the      *)
(* smaller URL; which pairs are alike is an input.                         *)
(***************************************************************************)
EXTENDS Naturals

CONSTANTS
    ItemCount,
    Alikes      \* the sets of alike pairs an input may have

Items == 1..ItemCount
Pairs == {p \in Items \X Items : p[1] < p[2]}

ASSUME ClusterAssumption == ItemCount \in Nat /\ Alikes \subseteq SUBSET Pairs

VARIABLES
    alike,    \* the pairs that pass the similarity and the time window
    parent,   \* the forest
    pending,  \* the pairs still to look at
    pair,     \* the pair in hand
    at,       \* the nodes from which find goes on, for a and for b
    step      \* "next", "find" or "done"

clusterVars == <<alike, parent, pending, pair, at, step>>

ClusterInit ==
    /\ alike \in Alikes
    /\ parent = [x \in Items |-> x]
    /\ pending = Pairs
    /\ pair = <<0, 0>> /\ at = <<0, 0>>
    /\ step = "next"

(* The double loop takes the pairs in order.                               *)
Before(p, q) == p[1] < q[1] \/ (p[1] = q[1] /\ p[2] < q[2])

NextPair ==
    /\ step = "next"
    /\ \E p \in pending :
        /\ \A q \in pending : p = q \/ Before(p, q)
        /\ pending' = pending \ {p}
        /\ pair' = p
        /\ IF p \in alike THEN step' = "find" /\ at' = p ELSE UNCHANGED <<step, at>>
    /\ UNCHANGED <<alike, parent>>

(* One turn of find's loop: the node's parent becomes its grandparent, and *)
(* find goes on from there.  First a's loop, then b's.                     *)
Halve(k) ==
    /\ step = "find"
    /\ parent[at[k]] # at[k]
    /\ k = 2 => parent[at[1]] = at[1]
    /\ parent' = [parent EXCEPT ![at[k]] = parent[@]]
    /\ at' = [at EXCEPT ![k] = parent'[at[k]]]
    /\ UNCHANGED <<alike, pending, pair, step>>

Lower  == IF at[1] < at[2] THEN at[1] ELSE at[2]
Higher == IF at[1] < at[2] THEN at[2] ELSE at[1]

(* Mutant of Union: the item itself is hung there, not its root.           *)
UnionOfItem ==
    /\ step = "find"
    /\ parent[at[1]] = at[1] /\ parent[at[2]] = at[2]
    /\ parent' = [parent EXCEPT ![pair[2]] = Lower]
    /\ step' = "next"
    /\ UNCHANGED <<alike, pending, pair, at>>

(* union: the larger root is hung under the smaller one.                   *)
Union ==
    /\ step = "find"
    /\ parent[at[1]] = at[1] /\ parent[at[2]] = at[2]
    /\ parent' = [parent EXCEPT ![Higher] = Lower]
    /\ step' = "next"
    /\ UNCHANGED <<alike, pending, pair, at>>

Group ==
    /\ step = "next" /\ pending = {}
    /\ step' = "done"
    /\ UNCHANGED <<alike, parent, pending, pair, at>>

ClusterNext == NextPair \/ Halve(1) \/ Halve(2) \/ Union \/ Group

ClusterSpec == ClusterInit /\ [][ClusterNext]_clusterVars

-----------------------------------------------------------------------------
(* The least partition that keeps alike items together.                    *)
Closed(C, E)  == \A p \in E : p[1] \in C <=> p[2] \in C
Components(E) == {C \in (SUBSET Items) \ {{}} :
                    Closed(C, E) /\ \A D \in (SUBSET C) \ {{}} : Closed(D, E) => D = C}

(* The pairs that were united so far.                                      *)
United == {p \in alike \ pending : p # pair \/ step # "find"}

Roots == {x \in Items : parent[x] = x}

(* The forest is one whatever the order of unions and path halvings: every *)
(* node but a root hangs under a smaller one, so that each find ends.      *)
ForestOK ==
    /\ parent \in [Items -> Items]
    /\ \A x \in Items : parent[x] <= x
    /\ pending \subseteq Pairs
    /\ step \in {"next", "find", "done"}
    /\ step = "find" => pair \in Pairs /\ at \in Items \X Items

(* At every point of the double loop, also between two halvings, a node is *)
(* in the component of its parent, and every component of the pairs united *)
(* so far has one root, its smallest member: the groups are the connected  *)
(* components ("Grouping is transitive", cluster.py:8) and no other order  *)
(* of the items could give other ones ("deterministic").                   *)
GroupsAreComponents ==
    \A C \in Components(United) :
        /\ \A x \in C : parent[x] \in C
        /\ \E r \in C : C \cap Roots = {r} /\ \A x \in C : r <= x
=============================================================================

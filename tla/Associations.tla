----------------------------- MODULE Associations -----------------------------
(***************************************************************************)
(* The graph of associations over the nexus (graph_nexus.rs): links made   *)
(* in bulk from embeddings or shared names, redundant links pruned by      *)
(* Forman-Ricci curvature, and recall by expansion from seeds.  This API   *)
(* is Rust only, so index and nexus are the caller's to keep in step, as   *)
(* the examples do: create_node then insert, enforce_capacity then, when   *)
(* the caller remembers, retain_ids.                                       *)
(*                                                                         *)
(* An embedding is one of a few vectors, with a table of their cosines in  *)
(* hundredths; a content is the set of names it mentions.                  *)
(***************************************************************************)
EXTENDS GraphNexus, VectorIndex, FiniteSetsExt

CONSTANTS
    Facts,          \* what callers store: [vector, mentions]
    Similarity,     \* cosine of two vectors
    Cosines,        \* thresholds passed to link_semantic and its LSH variant
    EntityLimits,   \* <<max_entity_freq, min_shared>> passed to link_by_entities
    Curvatures      \* the min_curvature values passed to prune_redundant_edges

ASSUME AssociationAssumption ==
    /\ Cosines \subseteq Int
    /\ EntityLimits \subseteq Nat \X Nat
    /\ Curvatures \subseteq Int

VARIABLES
    index,          \* the caller's index: entries [node_id, vector]
    mentions        \* live node ids -> names in the content

avars == <<vars, index, mentions>>

AInit == Init /\ index = << >> /\ mentions = << >>

-----------------------------------------------------------------------------
(* create_node, then insert *)

Remember(s, level, fact) ==
    /\ CreateNode(s, level)
    /\ index' = Append(index, [node_id |-> drawn + 1, vector |-> fact.vector])
    /\ mentions' = [n \in DOMAIN nodes' |->
                       IF n \in Live THEN mentions[n] ELSE fact.mentions]

(* enforce_capacity, with or without retain_ids after it *)

Forget(max_nodes) ==
    /\ EnforceCapacity(max_nodes)
    /\ mentions' = [n \in DOMAIN nodes' |-> mentions[n]]
    /\ UNCHANGED index

Retain ==
    /\ index' = RetainIds(index, Live)
    /\ UNCHANGED <<vars, mentions>>

-----------------------------------------------------------------------------
(* Linking.  Candidates are pairs of positions i < j of a sequence of node
   ids, taken in lexicographic order; each goes through add_edge, which
   refuses what AddEdge refuses, and only a link that is made draws an id.
   No id stands at two positions, so no candidate repeats another. *)

Ends(e) == {e.source_id, e.target_id}

Positions(ids) == {p \in (DOMAIN ids) \X (DOMAIN ids) : p[1] < p[2]}

\* Mutant: a pair already linked is linked again.
AcceptedAgain(ids, pairs) ==
    {p \in pairs : {ids[p[1]], ids[p[2]]} \subseteq Live}

Accepted(ids, pairs) ==
    {p \in pairs : /\ {ids[p[1]], ids[p[2]]} \subseteq Live
                  /\ ~Linked(ids[p[1]], ids[p[2]])}

LinkPairs(ids, pairs) ==
    \E made \in {Accepted(ids, pairs)} :
        LET place(p) ==
                Cardinality({q \in made :
                    q[1] < p[1] \/ (q[1] = p[1] /\ q[2] <= p[2])})
        IN  /\ drawn' = drawn + Cardinality(made)
            /\ drawn' <= MaxDraws
            /\ edges' = edges \cup {[id |-> drawn + place(p),
                                     source_id |-> ids[p[1]],
                                     target_id |-> ids[p[2]]] : p \in made}
            /\ UNCHANGED <<nodes, clock, index, mentions>>

IndexIds == [i \in DOMAIN index |-> index[i].node_id]

Similar(p, threshold) ==
    Similarity[index[p[1]].vector][index[p[2]].vector] >= threshold

SimilarPairs(threshold) == {p \in Positions(IndexIds) : Similar(p, threshold)}

LinkSemantic(threshold) == LinkPairs(IndexIds, SimilarPairs(threshold))

\* What random hyperplanes put in a common bucket is any set of pairs of unlike
\* vectors, and equal vectors always.
Meetings == SUBSET kSubset(2, DOMAIN Similarity)

InOneBucket(p, met) ==
    \/ index[p[1]].vector = index[p[2]].vector
    \/ {index[p[1]].vector, index[p[2]].vector} \in met

\* A pair that met is then scored.
MatchedPairs(threshold, met) ==
    {p \in Positions(IndexIds) : InOneBucket(p, met) /\ Similar(p, threshold)}

LinkSemanticLsh(threshold) ==
    \E met \in Meetings : LinkPairs(IndexIds, MatchedPairs(threshold, met))

\* Names that occur in at most max_entity_freq nodes.
Rare(max_entity_freq) ==
    {t \in UNION {mentions[n] : n \in Live} :
        Cardinality({n \in Live : t \in mentions[n]}) <= max_entity_freq}

Shared(m, n, max_entity_freq) == mentions[m] \cap mentions[n] \cap Rare(max_entity_freq)

\* The nodes come in the BTreeMap's hash order: any order here.
LinkByEntities(max_entity_freq, min_shared) ==
    \E ids \in SetToSeqs(Live) :
        LinkPairs(ids, {p \in Positions(ids) :
                          Cardinality(Shared(ids[p[1]], ids[p[2]], max_entity_freq))
                              >= min_shared})

-----------------------------------------------------------------------------
(* prune_redundant_edges *)

DegreeIn(es, n) == Cardinality({e \in es : n \in Ends(e)})
NeighborsIn(es, n) == (UNION {Ends(e) : e \in {f \in es : n \in Ends(f)}}) \ {n}

Curvature(e) ==
    LET degrees == DegreeIn(edges, e.source_id) + DegreeIn(edges, e.target_id)
        triangles == NeighborsIn(edges, e.source_id) \cap NeighborsIn(edges, e.target_id)
    IN  4 - degrees + 3 * Cardinality(triangles)

\* Mutant: an edge at the threshold is a candidate.
RedundantOrEqual(min_curvature) ==
    LET before(e, f) == \/ Curvature(e) > Curvature(f)
                        \/ Curvature(e) = Curvature(f) /\ e.id < f.id
    IN  InOrder({e \in edges : Curvature(e) >= min_curvature}, before)

\* The candidates, most redundant first, equals in the order of the Vec.
Redundant(min_curvature) ==
    LET score == [e \in edges |-> Curvature(e)]
        before(e, f) == score[e] > score[f] \/ (score[e] = score[f] /\ e.id < f.id)
    IN  InOrder({e \in edges : score[e] > min_curvature}, before)

\* Mutant: the degrees are not kept up while edges go.
PrunedByOldDegrees(min_curvature) ==
    {e \in edges : \/ Curvature(e) <= min_curvature
                   \/ \E n \in Ends(e) : DegreeIn(edges, n) = 1}

\* What is left when each candidate goes unless that isolates an end.
Pruned(min_curvature) ==
    LET redundant == Redundant(min_curvature)
        left[i \in 0 .. Len(redundant)] ==
            IF i = 0 THEN edges
            ELSE LET before == left[i - 1]
                 IN  IF \A n \in Ends(redundant[i]) : DegreeIn(before, n) > 1
                     THEN before \ {redundant[i]}
                     ELSE before
    IN  left[Len(redundant)]

Prune(min_curvature) ==
    /\ UNCHANGED <<nodes, clock, drawn, index, mentions>>
    /\ edges' = Pruned(min_curvature)

-----------------------------------------------------------------------------
(* expand and associative_recall *)

\* Mutants: every turn starts from the seeds again; dead seeds count as reached.
ExpandFromSeeds(seeds, hops) ==
    LET seen == seeds \cap Live
    IN  IF hops = 0 THEN seen ELSE seen \cup UNION {NeighborsIn(edges, n) : n \in seen}

ExpandUnfiltered(seeds, hops) ==
    seeds \cup UNION {NeighborsIn(edges, n) : n \in seeds}

\* Breadth first: each turn looks only at what the turn before it found.
Expand(seeds, hops) ==
    LET turn[i \in 0 .. hops] ==
            IF i = 0 THEN [seen |-> seeds \cap Live, frontier |-> seeds \cap Live]
            ELSE LET before == turn[i - 1]
                     next == UNION {NeighborsIn(edges, n) : n \in before.frontier}
                 IN  [seen |-> before.seen \cup next,
                      frontier |-> next \ before.seen]
    IN  turn[hops].seen

Seeds(query, k_seeds) ==
    LET scored == [i \in DOMAIN index |->
                      [node_id |-> index[i].node_id,
                       score |-> Similarity[query][index[i].vector]]]
        found == Search(scored, k_seeds)
    IN  [i \in DOMAIN found |-> found[i].node_id]

\* The ranked part of the answer; the other reached nodes follow in hash order.
Leading(query, k_seeds, hops) ==
    LET seeds   == Seeds(query, k_seeds)
        reached == Expand(ToSet(seeds), hops)
    IN  Picked(seeds, {i \in DOMAIN seeds : seeds[i] \in reached})

Following(query, k_seeds, hops) ==
    LET seeds == ToSet(Seeds(query, k_seeds)) IN Expand(seeds, hops) \ seeds

-----------------------------------------------------------------------------
\* An edge's direction is never read, so links by hand are made one way.
ANext ==
    \/ \E s \in Sources, level \in Levels, fact \in Facts : Remember(s, level, fact)
    \/ \E a, b \in Live : a < b /\ AddEdge(a, b) /\ UNCHANGED <<index, mentions>>
    \/ \E max \in Capacities : Forget(max)
    \/ Retain
    \/ \E threshold \in Cosines : LinkSemantic(threshold) \/ LinkSemanticLsh(threshold)
    \/ \E limits \in EntityLimits : LinkByEntities(limits[1], limits[2])
    \/ \E min \in Curvatures : Prune(min)

ASpec == AInit /\ [][ANext]_avars

-----------------------------------------------------------------------------
(* Properties; EdgesSound of GraphNexus is the first of them. *)

\* Pruning isolates nobody, however many of a node's links are redundant at
\* once (prune_redundant_edges: "AND neither endpoint would be left isolated").
NobodyIsolated ==
    \A min \in Curvatures :
        LET left == Pruned(min)
        IN  \A n \in Live : DegreeIn(edges, n) > 0 => DegreeIn(left, n) > 0

Crosses(e, side) == Cardinality(Ends(e) \cap side) = 1

\* An edge is a bridge if it is the only one between some nodes and the rest.
IsBridge(e) ==
    \E side \in SUBSET Live : /\ Crosses(e, side)
                              /\ \A f \in edges \ {e} : ~Crosses(f, side)

\* "a bridge/bottleneck between clusters - structurally load-bearing, KEPT":
\* with a threshold of at least 0, no link that is a bridge when the call
\* begins is cut by it.
BridgesKept ==
    \A min \in Curvatures :
        min >= 0 => LET left == Pruned(min)
                    IN  \A e \in edges \ left : ~IsBridge(e)

\* "inside a dense cluster with many alternative paths - redundant, safe to
\* drop": whatever was linked across stays linked across.
RedundantIsSafeToDrop ==
    \A min \in Curvatures :
        min >= 0 => LET left == Pruned(min)
                    IN  \A side \in SUBSET Live :
                           (\E e \in edges : Crosses(e, side))
                              => \E e \in left : Crosses(e, side)

\* Whatever stale ids an index not retained after a sweep offers as seeds, an
\* expansion holds stored nodes only: callers look each one up unchecked
\* (examples/agent_loop.rs).
RecallAnswersOnlyStored ==
    \A query \in DOMAIN Similarity, k \in 1 .. 2, hops \in 0 .. 1 :
        LET leading == Leading(query, k, hops)
        IN  /\ ToSet(leading) \cup Following(query, k, hops) \subseteq Live
            /\ Cardinality(ToSet(leading)) = Len(leading)

\* expand: "all node ids reachable from seeds within `hops` steps".
ExpandReachesWithin ==
    \A seeds \in SUBSET Live, hops \in 0 .. 2 :
        LET ball[i \in 0 .. hops] ==
                IF i = 0 THEN seeds
                ELSE LET within == ball[i - 1]
                     IN  within \cup UNION {Ends(e) : e \in {f \in edges :
                                                        Ends(f) \cap within # {}}}
        IN  Expand(seeds, hops) = ball[hops]

=============================================================================

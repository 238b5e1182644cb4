------------------------------ MODULE GraphNexus ------------------------------
(***************************************************************************)
(* MemoryGraphNexus (graph_nexus.rs): the nodes and edges of one engine,   *)
(* its logical clock and its id generator.  One action per mutating        *)
(* method; a method that returns early without effect is a step that is    *)
(* not taken.  The type is not synchronised: callers run its methods one   *)
(* at a time (MemoryEngine models the lock that makes them).               *)
(*                                                                         *)
(* Ids.  next_id emits SplitMix64 outputs: a bijection of a counter, so    *)
(* the k-th draw is modelled by k itself.  Nodes and edges share the       *)
(* generator.  The hash only decides the BTreeMap's iteration order, which *)
(* is left open here wherever the code could depend on it.                 *)
(*                                                                         *)
(* Not kept: content, summary, tags, cluster_id, cell_id, confidence,      *)
(* created_at, bridge_to_all, edge weight and relation, hyperedges and     *)
(* topology, which no mutating method reads.                               *)
(***************************************************************************)
EXTENDS Provenance, FiniteSets

CONSTANTS
    Sources,        \* the provenances callers use
    Levels,         \* the canon levels callers use
    Affects,        \* the emotional dispositions callers attach
    Capacities,     \* the limits callers pass to enforce_capacity
    Thresholds,     \* the min_confirmations callers pass to the promotion sweep
    CounterMax,     \* u32::MAX, where the saturating counters stop
    MaxDraws,       \* bound: ids drawn
    MaxTicks,       \* bound: ticks of the logical clock
    MaxVerdicts     \* bound: verdicts on one node, as its counters show them

ASSUME NexusAssumption ==
    /\ Sources \subseteq SourceType
    /\ Levels \subseteq CanonLevel
    /\ Capacities \subseteq Nat
    /\ Thresholds \subseteq Nat
    /\ CounterMax \in Nat \ {0}
    /\ MaxDraws \in Nat
    /\ MaxTicks \in Nat
    /\ MaxVerdicts \in Nat

VARIABLES
    nodes,          \* live node ids -> MemoryNode
    edges,          \* the edge list; Vec order is the order of the edges' ids
    clock,          \* last tick handed out
    drawn           \* ids drawn from id_seed so far

vars == <<nodes, edges, clock, drawn>>

Neutral == "neutral_baseline"                     \* AffectState::default()

MemoryNode ==
    [source_type      : SourceType,
     canon_level      : CanonLevel,
     is_ephemeral     : BOOLEAN,
     affect           : Affects \cup {Neutral},
     importance       : Nat,
     last_accessed_at : Nat,
     access_count     : 0 .. CounterMax,
     confirmations    : 0 .. CounterMax,
     rejections       : 0 .. CounterMax]

MemoryEdge == [id : Nat, source_id : Nat, target_id : Nat]

Live == DOMAIN nodes
Evictable == {n \in Live : nodes[n].is_ephemeral}

\* Mutant: the counters do not saturate.
PlainIncrement(c) == c + 1

SaturatingIncrement(c) == IF c < CounterMax THEN c + 1 ELSE CounterMax

Init ==
    /\ nodes = << >>
    /\ edges = {}
    /\ clock = 0
    /\ drawn = 0

-----------------------------------------------------------------------------
(* create_node *)

NewNode(s, level, now) ==
    [source_type      |-> s,
     canon_level      |-> level,
     is_ephemeral     |-> ~IsImmortal(level),
     affect           |-> Neutral,
     importance       |-> StartImportance(s),
     last_accessed_at |-> now,
     access_count     |-> 1,
     confirmations    |-> 0,
     rejections       |-> 0]

\* Mutant: ids are positions, so an evicted node's id comes back.
CreateNodeByPosition(s, level) ==
    LET id == Cardinality(Live) + 1
    IN  /\ drawn < MaxDraws /\ clock < MaxTicks
        /\ drawn' = AtLeast(drawn, id)
        /\ clock' = clock + 1
        /\ nodes' = [n \in Live \cup {id} |->
                        IF n = id THEN NewNode(s, level, clock + 1) ELSE nodes[n]]
        /\ UNCHANGED edges

CreateNode(s, level) ==
    /\ drawn < MaxDraws /\ clock < MaxTicks
    /\ drawn' = drawn + 1
    /\ clock' = clock + 1
    /\ nodes' = [n \in Live \cup {drawn + 1} |->
                    IF n = drawn + 1 THEN NewNode(s, level, clock + 1)
                                     ELSE nodes[n]]
    /\ UNCHANGED edges

(* add_edge: refused for a self-loop, a missing endpoint or a linked pair.
   Only a link that is made draws an id. *)

Linked(a, b) ==
    \E e \in edges : {e.source_id, e.target_id} = {a, b}

AddEdge(a, b) ==
    /\ drawn < MaxDraws
    /\ a # b
    /\ {a, b} \subseteq Live
    /\ ~Linked(a, b)
    /\ drawn' = drawn + 1
    /\ edges' = edges \cup {[id |-> drawn + 1, source_id |-> a, target_id |-> b]}
    /\ UNCHANGED <<nodes, clock>>

(* record_access: the clock ticks even when the node is gone. *)

\* Mutant: the access is stamped with the tick before it.
TouchedEarly(node, now) ==
    [node EXCEPT !.access_count = SaturatingIncrement(@),
                 !.last_accessed_at = now - 1]

Touched(node, now) ==
    [node EXCEPT !.access_count = SaturatingIncrement(@),
                 !.last_accessed_at = now]

RecordAccess(id) ==
    /\ clock < MaxTicks
    /\ clock' = clock + 1
    /\ nodes' = IF id \in Live
                THEN [nodes EXCEPT ![id] = Touched(@, clock + 1)]
                ELSE nodes
    /\ UNCHANGED <<edges, drawn>>

(* record_human_feedback *)

Judged(node, helpful) ==
    IF helpful
    THEN [node EXCEPT !.confirmations = SaturatingIncrement(@),
                      !.importance = Confirmed(@, node.source_type)]
    ELSE [node EXCEPT !.rejections = SaturatingIncrement(@),
                      !.importance = Rejected(@)]

RecordHumanFeedback(id, helpful) ==
    /\ id \in Live
    /\ nodes[id].confirmations + nodes[id].rejections < MaxVerdicts
    /\ nodes' = [nodes EXCEPT ![id] = Judged(@, helpful)]
    /\ UNCHANGED <<edges, clock, drawn>>

(* set_node_affect *)

SetNodeAffect(id, affect) ==
    /\ id \in Live
    /\ nodes' = [nodes EXCEPT ![id].affect = affect]
    /\ UNCHANGED <<edges, clock, drawn>>

(* promote_confirmed_to_canon *)

\* Mutant: votes suffice, whatever the source.
PromotableByVotes(n, min_confirmations) ==
    /\ ~IsCanon(nodes[n].canon_level)
    /\ nodes[n].confirmations >= min_confirmations

Promotable(n, min_confirmations) ==
    /\ ~IsCanon(nodes[n].canon_level)
    /\ ~IsSelfDescription(nodes[n].source_type)
    /\ nodes[n].confirmations >= min_confirmations

\* Mutant: promotion leaves the eviction flag alone.
CanonisedInName(node, level) == [node EXCEPT !.canon_level = level]

Canonised(node, level) ==
    [node EXCEPT !.canon_level = level, !.is_ephemeral = FALSE]

PromoteConfirmedToCanon(min_confirmations, level) ==
    /\ IsCanon(level)
    /\ nodes' = [n \in Live |-> IF Promotable(n, min_confirmations)
                                THEN Canonised(nodes[n], level)
                                ELSE nodes[n]]
    /\ UNCHANGED <<edges, clock, drawn>>

(* enforce_capacity: sort what may be evicted by importance, then oldest
   access, then fewest accesses, and drop a prefix.  Nodes equal on all three
   keys keep the BTreeMap's hash order, which is any order here. *)

\* Mutants: recency before importance; frequency before recency; no tie-break.
LessRecent(m, n) ==
    \/ nodes[m].last_accessed_at < nodes[n].last_accessed_at
    \/ /\ nodes[m].last_accessed_at = nodes[n].last_accessed_at
       /\ nodes[m].importance < nodes[n].importance

LessUsed(m, n) ==
    \/ nodes[m].importance < nodes[n].importance
    \/ /\ nodes[m].importance = nodes[n].importance
       /\ nodes[m].access_count < nodes[n].access_count

LessImportant(m, n) == nodes[m].importance < nodes[n].importance

LessValuable(m, n) ==
    LET x == nodes[m]
        y == nodes[n]
    IN  \/ x.importance < y.importance
        \/ /\ x.importance = y.importance
           /\ \/ x.last_accessed_at < y.last_accessed_at
              \/ /\ x.last_accessed_at = y.last_accessed_at
                 /\ x.access_count < y.access_count

LeastValuable(k) ==
    {V \in SUBSET Evictable :
        /\ Cardinality(V) = k
        /\ \A victim \in V, spared \in Evictable \ V : ~LessValuable(spared, victim)}

\* Mutant: one node short of the limit's demand.
VictimsOneShort(max_nodes) ==
    LeastValuable(AtMost(Cardinality(Live) - max_nodes - 1, Cardinality(Evictable)))

Victims(max_nodes) ==
    LeastValuable(AtMost(Cardinality(Live) - max_nodes, Cardinality(Evictable)))

\* Mutant: an edge is dropped with its source only.
EnforceCapacityOneEnd(max_nodes) ==
    /\ Cardinality(Live) > max_nodes
    /\ \E V \in Victims(max_nodes) :
          /\ nodes' = [n \in Live \ V |-> nodes[n]]
          /\ edges' = {e \in edges : e.source_id \notin V}
    /\ UNCHANGED <<clock, drawn>>

EnforceCapacity(max_nodes) ==
    /\ Cardinality(Live) > max_nodes
    /\ \E V \in Victims(max_nodes) :
          /\ nodes' = [n \in Live \ V |-> nodes[n]]
          /\ edges' = {e \in edges : e.source_id \notin V /\ e.target_id \notin V}
    /\ UNCHANGED <<clock, drawn>>

-----------------------------------------------------------------------------
\* Callers may hold any id ever returned, evicted or not.
Next ==
    \/ \E s \in Sources, level \in Levels : CreateNode(s, level)
    \/ \E a, b \in Live : AddEdge(a, b)
    \/ \E id \in 1 .. drawn : RecordAccess(id)
    \/ \E id \in Live, helpful \in BOOLEAN : RecordHumanFeedback(id, helpful)
    \/ \E id \in Live, affect \in Affects : SetNodeAffect(id, affect)
    \/ \E min \in Thresholds, level \in Levels : PromoteConfirmedToCanon(min, level)
    \/ \E max \in Capacities : EnforceCapacity(max)

Spec == Init /\ [][Next]_vars

-----------------------------------------------------------------------------
(* Invariants *)

\* Every variable keeps its type; ids are ones that were drawn and no tick
\* lies in the future.
TypeOK ==
    /\ drawn \in Nat
    /\ clock \in Nat
    /\ Live \subseteq 1 .. drawn
    /\ nodes \in [Live -> MemoryNode]
    /\ edges \subseteq MemoryEdge

\* The provenance ceiling is absolute: no sequence of confirmations, with the
\* rounding of f32 addition, lifts a node above the cap of its source
\* (record_human_feedback, "two invariants hold ...").
ProvenanceCeiling ==
    \A n \in Live : nodes[n].importance <= MaxImportanceCap(nodes[n].source_type)

\* Every live node has a last-access tick of its own: a tick is handed out
\* once and overwritten only by a later one (enforce_capacity's comment: "the
\* logical clock gives every node a distinct last-access tick").
DistinctTicks ==
    /\ \A n \in Live : nodes[n].last_accessed_at <= clock
    /\ \A m, n \in Live :
          nodes[m].last_accessed_at = nodes[n].last_accessed_at => m = n

\* Whatever the limit, at most one set of nodes is the least valuable: the
\* hash order of the BTreeMap never decides who is forgotten.
EvictionUnambiguous ==
    \A max \in Capacities : \A V, W \in Victims(max) : V = W

\* is_ephemeral is a cached negation of canon_level: two methods write one or
\* both, enforce_capacity trusts one and the promotion sweep the other.
EphemeralIffNotCanon ==
    \A n \in Live : nodes[n].is_ephemeral <=> ~IsCanon(nodes[n].canon_level)

\* The edge list never dangles into an evicted node, has no self-loop, links a
\* pair once, and an edge never shares its id with a node.
EdgesSound ==
    /\ \A e \in edges :
          /\ e.source_id \in Live /\ e.target_id \in Live
          /\ e.source_id # e.target_id
          /\ e.id <= drawn /\ e.id \notin Live
    /\ \A e, f \in edges :
          {e.source_id, e.target_id} = {f.source_id, f.target_id} => e = f

\* What the verdicts a node has received say about its importance, whatever
\* their number and order: applause alone never lowers a node, doubt alone
\* always does.
ShowsVerdicts(node) ==
    LET start == StartImportance(node.source_type)
    IN  /\ node.rejections = 0 => node.importance >= start
        /\ node.confirmations = 0 => node.importance <= start
        /\ (node.rejections = 0 /\ node.confirmations > 0)
              => \/ node.importance > start
                 \/ start = MaxImportanceCap(node.source_type)
        /\ (node.confirmations = 0 /\ node.rejections > 0)
              => node.importance < start

VerdictsShowInImportance == \A n \in Live : ShowsVerdicts(nodes[n])

\* "Rejection outweighs confirmation ... regardless of how much feedback
\* arrives" (record_human_feedback): a node rejected more often than it was
\* confirmed ranks below a node nobody judged.
RejectionOutweighsConfirmation ==
    \A n \in Live :
        nodes[n].rejections > nodes[n].confirmations
            => nodes[n].importance < StartImportance(nodes[n].source_type)

-----------------------------------------------------------------------------
(* Action properties *)

\* No call ever drops a canon node, or takes its canon level away
\* (enforce_capacity: "Canon nodes are NEVER evicted").
CanonKept ==
    \A n \in Live : IsCanon(nodes[n].canon_level)
        => /\ n \in DOMAIN nodes'
           /\ nodes'[n].canon_level = nodes[n].canon_level

CanonNeverEvicted == [][CanonKept]_vars

\* Votes never overturn the quarantine: a self-description that is not canon
\* when it is stored never becomes canon later (promote_confirmed_to_canon).
NoSelfPromotion ==
    \A n \in Live \cap DOMAIN nodes' :
        /\ IsSelfDescription(nodes[n].source_type)
        /\ ~IsCanon(nodes[n].canon_level)
        => ~IsCanon(nodes'[n].canon_level)

QuarantineHolds == [][NoSelfPromotion]_vars

\* What the verdicts on a node are worth when they all agree: doubted nodes
\* below unjudged ones below praised ones.  Mixed verdicts have no standing.
Praised(node) == node.confirmations > 0 /\ node.rejections = 0
Unjudged(node) == node.confirmations = 0 /\ node.rejections = 0
Doubted(node) == node.confirmations = 0 /\ node.rejections > 0

BetterJudged(x, y) ==
    \/ Praised(x) /\ (Unjudged(y) \/ Doubted(y))
    \/ Unjudged(x) /\ Doubted(y)

\* Eviction respects the human verdict: of two nodes of one provenance, the
\* better judged one is never dropped while the other, equally exposed, is
\* kept, however recently or often the other was used.  (Self-description is
\* created at its cap, so praise cannot show there.)
VerdictsRespected ==
    \A gone \in Live \ DOMAIN nodes', kept \in Evictable \cap DOMAIN nodes' :
        /\ nodes[gone].source_type = nodes[kept].source_type
        /\ ~IsSelfDescription(nodes[gone].source_type)
        => ~BetterJudged(nodes[gone], nodes[kept])

VerdictOutranksUse == [][VerdictsRespected]_vars

\* "With no feedback recorded ... the order falls back to recency": of two
\* unjudged nodes of one provenance the one touched longer ago goes first.
OldestFirst ==
    \A gone \in Live \ DOMAIN nodes', kept \in Evictable \cap DOMAIN nodes' :
        /\ nodes[gone].source_type = nodes[kept].source_type
        /\ Unjudged(nodes[gone]) /\ Unjudged(nodes[kept])
        => nodes[gone].last_accessed_at < nodes[kept].last_accessed_at

UnjudgedGoOldestFirst == [][OldestFirst]_vars

\* After a sweep the limit holds, or nothing but canon is left above it; and a
\* sweep never drops more than it was asked to.
CapacityYieldsOnlyToCanon ==
    [][\A max \in Capacities : EnforceCapacity(max)
          => \/ Cardinality(DOMAIN nodes') = max
             \/ /\ Cardinality(DOMAIN nodes') > max
                /\ \A n \in DOMAIN nodes' : IsCanon(nodes'[n].canon_level)]_vars

\* Canon, and what humans confirmed beyond where creation put it.
Valued(node) == IsCanon(node.canon_level) \/ node.importance > BaseImportance

\* No other choice of max nodes, by recency, frequency or any other rule, would
\* have kept more of what is valued than a sweep to max does (the claim
\* footprint-fw/src/bin/canon.rs measures against two baselines).
NoPolicyKeepsMoreValued ==
    [][\A max \in Capacities : EnforceCapacity(max)
          => \A kept \in SUBSET Live : Cardinality(kept) <= max
                => Cardinality({n \in kept : Valued(nodes[n])})
                     <= Cardinality({n \in DOMAIN nodes' : Valued(nodes[n])})]_vars

-----------------------------------------------------------------------------
(* Refinement *)

Canon == Live \ Evictable
SelfDescriptions == {n \in Live : IsSelfDescription(nodes[n].source_type)}

Promise == INSTANCE RetentionPromise
             WITH Id <- 1 .. MaxDraws, canon <- Canon, passing <- Evictable,
                  quarantined <- SelfDescriptions, issued <- 1 .. drawn

\* The nexus implements RetentionPromise: canon is for good, quarantine is
\* not overturned, an id is issued once.
KeepsThePromise == Promise!Spec
=============================================================================

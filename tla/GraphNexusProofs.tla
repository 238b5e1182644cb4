--------------------------- MODULE GraphNexusProofs ---------------------------
(***************************************************************************)
(* Theorems about GraphNexus for every value of its constants: any set of  *)
(* provenances, any limits and thresholds, any number of nodes, ticks and  *)
(* verdicts, any width of the saturating counters.                         *)
(***************************************************************************)
EXTENDS GraphNexus, FiniteSetTheorems, TLAPS

-----------------------------------------------------------------------------
(* The arithmetic of importance. *)

\* Rounding to a multiple of 2, 4 or 8 moves a number by at most half of that.
LEMMA RoundToMultipleBounds ==
    ASSUME NEW x \in Nat, NEW q \in {2, 4, 8}
    PROVE  /\ RoundToMultiple(x, q) \in Nat
           /\ x - 4 <= RoundToMultiple(x, q)
           /\ RoundToMultiple(x, q) <= x + 4
<1>1. CASE q = 2
  BY <1>1 DEF RoundToMultiple
<1>2. CASE q = 4
  BY <1>2 DEF RoundToMultiple
<1>3. CASE q = 8
  BY <1>3 DEF RoundToMultiple
<1>4. QED
  BY <1>1, <1>2, <1>3

\* One f32 rounding moves an importance by at most four units of 2^-26.
LEMMA RoundedBounds ==
    ASSUME NEW x \in Int
    PROVE  /\ Rounded(x) \in Int
           /\ x - 4 <= Rounded(x)
           /\ Rounded(x) <= x + 4
<1>1. CASE x < 16777216
  BY <1>1, SMT DEF Rounded
<1>2. CASE x >= 16777216
  <2>1. x \in Nat /\ Grain(x) \in {2, 4, 8}
    BY <1>2, SMT DEF Grain, One
  <2>2. Rounded(x) = RoundToMultiple(x, Grain(x))
    BY <1>2, SMT DEF Rounded
  <2>3. QED
    BY <2>1, <2>2, RoundToMultipleBounds, SMT
<1>3. QED
  BY <1>1, <1>2, SMT

\* Every source starts a node inside its ceiling, strictly below it except
\* for self-description, which starts at it.
LEMMA CapTable ==
    ASSUME NEW s \in SourceType
    PROVE  /\ MaxImportanceCap(s) \in Nat
           /\ MaxImportanceCap(s) <= One
           /\ StartImportance(s) \in 1 .. MaxImportanceCap(s)
           /\ ~IsSelfDescription(s) => StartImportance(s) < MaxImportanceCap(s)
BY SMT DEF SourceType, MaxImportanceCap, StartImportance, AtMost, BaseImportance,
       IsSelfDescription, One

\* A confirmation stays under the ceiling and never loses ground; it gains
\* some unless the ceiling stops it.
LEMMA ConfirmedBounds ==
    ASSUME NEW s \in SourceType, NEW x \in 0 .. MaxImportanceCap(s)
    PROVE  /\ Confirmed(x, s) \in 0 .. MaxImportanceCap(s)
           /\ Confirmed(x, s) >= x
           /\ Confirmed(x, s) > x \/ Confirmed(x, s) = MaxImportanceCap(s)
<1>1. MaxImportanceCap(s) \in Nat
  BY CapTable
<1>2. x + ConfirmStep \in Int
  BY <1>1, SMT DEF ConfirmStep, One
<1>3. /\ Rounded(x + ConfirmStep) \in Int
      /\ Rounded(x + ConfirmStep) >= (x + ConfirmStep) - 4
  BY <1>2, RoundedBounds
<1>4. QED
  BY <1>1, <1>3, SMT DEF Confirmed, AtMost, ConfirmStep, One

\* A rejection loses ground unless the importance is already zero.
LEMMA RejectedBounds ==
    ASSUME NEW x \in Nat
    PROVE  /\ Rejected(x) \in 0 .. x
           /\ x > 0 => Rejected(x) < x
<1>1. x - RejectStep \in Int
  BY SMT DEF RejectStep
<1>2. /\ Rounded(x - RejectStep) \in Int
      /\ Rounded(x - RejectStep) <= (x - RejectStep) + 4
  BY <1>1, RoundedBounds
<1>3. QED
  BY <1>2, SMT DEF Rejected, AtLeast, RejectStep

-----------------------------------------------------------------------------
(* What one node keeps through every method. *)

NodeOK(node) ==
    /\ node.importance <= MaxImportanceCap(node.source_type)
    /\ node.is_ephemeral <=> ~IsCanon(node.canon_level)
    /\ ShowsVerdicts(node)

LEMMA NewNodeOK ==
    ASSUME NEW s \in SourceType, NEW level \in CanonLevel, NEW now \in Nat
    PROVE  /\ NewNode(s, level, now) \in MemoryNode
           /\ NodeOK(NewNode(s, level, now))
<1>1. StartImportance(s) \in Nat /\ StartImportance(s) <= MaxImportanceCap(s)
  BY CapTable
<1>2. NewNode(s, level, now) \in MemoryNode
  BY <1>1, NexusAssumption DEF NewNode, MemoryNode, Neutral, IsImmortal, IsCanon
<1>3. NewNode(s, level, now).is_ephemeral <=> ~IsCanon(NewNode(s, level, now).canon_level)
  BY DEF NewNode, IsImmortal
<1>4. ShowsVerdicts(NewNode(s, level, now))
  BY <1>1 DEF NewNode, ShowsVerdicts
<1>5. QED
  BY <1>1, <1>2, <1>3, <1>4 DEF NodeOK, NewNode

LEMMA TouchedOK ==
    ASSUME NEW node \in MemoryNode, NodeOK(node), NEW now \in Nat
    PROVE  /\ Touched(node, now) \in MemoryNode
           /\ NodeOK(Touched(node, now))
<1>1. SaturatingIncrement(node.access_count) \in 0 .. CounterMax
  BY NexusAssumption DEF MemoryNode, SaturatingIncrement
<1>2. Touched(node, now) \in MemoryNode
  BY <1>1 DEF MemoryNode, Touched
<1>3. QED
  BY <1>2 DEF NodeOK, MemoryNode, Touched, ShowsVerdicts, IsCanon

LEMMA AffectOK ==
    ASSUME NEW node \in MemoryNode, NodeOK(node), NEW affect \in Affects
    PROVE  /\ [node EXCEPT !.affect = affect] \in MemoryNode
           /\ NodeOK([node EXCEPT !.affect = affect])
<1>1. [node EXCEPT !.affect = affect] \in MemoryNode
  BY DEF NodeOK, MemoryNode
<1>2. QED
  BY <1>1 DEF NodeOK, MemoryNode, ShowsVerdicts, IsCanon

LEMMA CanonisedOK ==
    ASSUME NEW node \in MemoryNode, NodeOK(node), NEW level \in CanonLevel, IsCanon(level)
    PROVE  /\ Canonised(node, level) \in MemoryNode
           /\ NodeOK(Canonised(node, level))
<1>1. Canonised(node, level) \in MemoryNode
  BY DEF NodeOK, MemoryNode, Canonised
<1>2. QED
  BY <1>1 DEF NodeOK, MemoryNode, Canonised, ShowsVerdicts, IsCanon

LEMMA JudgedOK ==
    ASSUME NEW node \in MemoryNode, NodeOK(node), NEW helpful \in BOOLEAN
    PROVE  /\ Judged(node, helpful) \in MemoryNode
           /\ NodeOK(Judged(node, helpful))
<1> DEFINE s == node.source_type
           x == node.importance
<1>1. /\ s \in SourceType
      /\ x \in 0 .. MaxImportanceCap(s)
      /\ StartImportance(s) \in 1 .. MaxImportanceCap(s)
      /\ MaxImportanceCap(s) \in Nat
  BY CapTable DEF NodeOK, MemoryNode
<1>2. CASE helpful
  <2>1. /\ Confirmed(x, s) \in 0 .. MaxImportanceCap(s)
        /\ Confirmed(x, s) >= x
        /\ Confirmed(x, s) > x \/ Confirmed(x, s) = MaxImportanceCap(s)
    BY <1>1, ConfirmedBounds
  <2>2. Judged(node, helpful) =
          [node EXCEPT !.confirmations = SaturatingIncrement(node.confirmations),
                       !.importance = Confirmed(x, s)]
    BY <1>2 DEF Judged
  <2>3. SaturatingIncrement(node.confirmations) \in 1 .. CounterMax
    BY NexusAssumption DEF NodeOK, MemoryNode, SaturatingIncrement
  <2>4. Judged(node, helpful) \in MemoryNode
    <3>1. Confirmed(x, s) \in Nat
      BY <1>1, <2>1
    <3>2. SaturatingIncrement(node.confirmations) \in 0 .. CounterMax
      BY <2>3, NexusAssumption
    <3>3. QED
      BY <2>2, <3>1, <3>2 DEF MemoryNode
  <2>5. QED
    BY <1>1, <2>1, <2>2, <2>3, <2>4, NexusAssumption
    DEF NodeOK, MemoryNode, ShowsVerdicts, IsCanon
<1>3. CASE ~helpful
  <2>1. /\ Rejected(x) \in 0 .. x
        /\ x > 0 => Rejected(x) < x
    BY <1>1, RejectedBounds
  <2>2. Judged(node, helpful) =
          [node EXCEPT !.rejections = SaturatingIncrement(node.rejections),
                       !.importance = Rejected(x)]
    BY <1>3 DEF Judged
  <2>3. SaturatingIncrement(node.rejections) \in 1 .. CounterMax
    BY NexusAssumption DEF NodeOK, MemoryNode, SaturatingIncrement
  <2>4. Judged(node, helpful) \in MemoryNode
    <3>1. Rejected(x) \in Nat
      BY <1>1, <2>1
    <3>2. SaturatingIncrement(node.rejections) \in 0 .. CounterMax
      BY <2>3, NexusAssumption
    <3>3. QED
      BY <2>2, <3>1, <3>2 DEF MemoryNode
  <2>5. QED
    BY <1>1, <2>1, <2>2, <2>3, <2>4, NexusAssumption
    DEF NodeOK, MemoryNode, ShowsVerdicts, IsCanon
<1>4. QED
  BY <1>2, <1>3

-----------------------------------------------------------------------------
(* The inductive invariant.  Each property below needs the others: eviction  *)
(* by recency is only an order if ticks are distinct, an edge id stays clear *)
(* of node ids only because both come from one counter, and the ceiling is   *)
(* kept by a verdict only if it held before it.                              *)

NodesOK == \A n \in Live : NodeOK(nodes[n])

IInv == TypeOK /\ NodesOK /\ DistinctTicks /\ EdgesSound

LEMMA InitIInv == Init => IInv
BY DEF Init, IInv, TypeOK, NodesOK, DistinctTicks, EdgesSound, Live

LEMMA CreateNodeStep ==
    ASSUME IInv, NEW s \in Sources, NEW level \in CanonLevel, CreateNode(s, level)
    PROVE  IInv'
<1> DEFINE new == drawn + 1
           node == NewNode(s, level, clock + 1)
<1>1. /\ drawn \in Nat /\ clock \in Nat /\ Live \subseteq 1 .. drawn
      /\ nodes \in [Live -> MemoryNode] /\ edges \subseteq MemoryEdge
      /\ new \notin Live
  BY DEF IInv, TypeOK
<1>2. /\ drawn' = drawn + 1 /\ clock' = clock + 1 /\ edges' = edges
      /\ Live' = Live \cup {new}
      /\ nodes' = [n \in Live \cup {new} |-> IF n = new THEN node ELSE nodes[n]]
  BY DEF CreateNode, Live
<1>3. node \in MemoryNode /\ NodeOK(node)
  BY <1>1, NewNodeOK, NexusAssumption
<1>4. node.last_accessed_at = clock + 1
  BY DEF NewNode
<1>5. /\ nodes'[new] = node
      /\ \A n \in Live : nodes'[n] = nodes[n]
  BY <1>1, <1>2
<1>6. TypeOK'
  <2>1. nodes' \in [Live' -> MemoryNode]
    BY <1>1, <1>2, <1>3
  <2>2. Live' \subseteq 1 .. drawn'
    BY <1>1, <1>2
  <2>3. QED
    BY <1>1, <1>2, <2>1, <2>2 DEF TypeOK
<1>7. NodesOK'
  BY <1>2, <1>3, <1>5 DEF IInv, NodesOK
<1>8. DistinctTicks'
  <2>1. \A n \in Live : /\ nodes[n].last_accessed_at \in Nat
                        /\ nodes[n].last_accessed_at <= clock
    BY <1>1 DEF IInv, DistinctTicks, MemoryNode
  <2>2. \A m, n \in Live :
           nodes[m].last_accessed_at = nodes[n].last_accessed_at => m = n
    BY DEF IInv, DistinctTicks
  <2>3. \A n \in Live' : nodes'[n].last_accessed_at <= clock'
    BY <1>1, <1>2, <1>4, <1>5, <2>1
  <2>4. ASSUME NEW m \in Live', NEW n \in Live',
               nodes'[m].last_accessed_at = nodes'[n].last_accessed_at
        PROVE  m = n
    <3>1. nodes'[new].last_accessed_at = clock + 1
      BY <1>4, <1>5
    <3>2. \A k \in Live : nodes'[k].last_accessed_at # clock + 1
      BY <1>1, <1>5, <2>1
    <3>3. (m \in Live \/ m = new) /\ (n \in Live \/ n = new)
      BY <1>2
    <3>4. QED
      BY <1>5, <2>2, <2>4, <3>1, <3>2, <3>3
  <2>5. QED
    BY <2>3, <2>4 DEF DistinctTicks
<1>9. EdgesSound'
  BY <1>1, <1>2 DEF IInv, EdgesSound, MemoryEdge
<1>10. QED
  BY <1>6, <1>7, <1>8, <1>9 DEF IInv

LEMMA AddEdgeStep ==
    ASSUME IInv, NEW a \in Live, NEW b \in Live, AddEdge(a, b)
    PROVE  IInv'
<1> DEFINE e0 == [id |-> drawn + 1, source_id |-> a, target_id |-> b]
<1>1. /\ drawn \in Nat /\ Live \subseteq 1 .. drawn /\ edges \subseteq MemoryEdge
      /\ drawn' = drawn + 1 /\ clock' = clock /\ nodes' = nodes /\ Live' = Live
      /\ edges' = edges \cup {e0}
      /\ a # b /\ ~Linked(a, b)
  BY DEF IInv, TypeOK, AddEdge, Live
<1>2. /\ a \in Nat /\ b \in Nat /\ e0 \in MemoryEdge
      /\ e0.id = drawn + 1 /\ e0.source_id = a /\ e0.target_id = b
  BY <1>1 DEF MemoryEdge
<1>3. TypeOK'
  BY <1>1, <1>2 DEF IInv, TypeOK
<1>4. NodesOK' /\ DistinctTicks'
  BY <1>1 DEF IInv, NodesOK, DistinctTicks
<1>5. EdgesSound'
  <2>1. ASSUME NEW e \in edges'
        PROVE  /\ e.source_id \in Live' /\ e.target_id \in Live'
               /\ e.source_id # e.target_id
               /\ e.id <= drawn' /\ e.id \notin Live'
    <3>1. CASE e \in edges
      BY <1>1, <3>1 DEF IInv, EdgesSound, MemoryEdge
    <3>2. CASE e = e0
      BY <1>1, <1>2, <3>2
    <3>3. QED
      BY <1>1, <2>1, <3>1, <3>2
  <2>2. ASSUME NEW e \in edges', NEW f \in edges',
               {e.source_id, e.target_id} = {f.source_id, f.target_id}
        PROVE  e = f
    <3>1. \A g \in edges : {g.source_id, g.target_id} # {a, b}
      BY <1>1 DEF Linked
    <3>2. \A g \in edges' : g \in edges \/ g = e0
      BY <1>1
    <3>3. \A g, h \in edges :
             {g.source_id, g.target_id} = {h.source_id, h.target_id} => g = h
      BY DEF IInv, EdgesSound
    <3>4. {e0.source_id, e0.target_id} = {a, b}
      BY <1>2
    <3>5. QED
      BY <2>2, <3>1, <3>2, <3>3, <3>4
  <2>3. QED
    BY <2>1, <2>2 DEF EdgesSound
<1>6. QED
  BY <1>3, <1>4, <1>5 DEF IInv

\* A method that rewrites nodes in place, keeping ids and access ticks, keeps
\* the invariant when every rewritten node is sound: verdicts, affect and the
\* promotion sweep are all of this form.
LEMMA RewriteStep ==
    ASSUME IInv,
           nodes' \in [Live -> MemoryNode],
           \A n \in Live : NodeOK(nodes'[n]),
           \A n \in Live : nodes'[n].last_accessed_at = nodes[n].last_accessed_at,
           UNCHANGED <<edges, clock, drawn>>
    PROVE  IInv'
<1>1. Live' = Live
  BY DEF Live
<1>2. TypeOK'
  BY <1>1 DEF IInv, TypeOK
<1>3. NodesOK'
  BY <1>1 DEF NodesOK
<1>4. DistinctTicks'
  BY <1>1 DEF IInv, DistinctTicks
<1>5. EdgesSound'
  BY <1>1 DEF IInv, EdgesSound
<1>6. QED
  BY <1>2, <1>3, <1>4, <1>5 DEF IInv

LEMMA RecordHumanFeedbackStep ==
    ASSUME IInv, NEW id \in Live, NEW helpful \in BOOLEAN,
           RecordHumanFeedback(id, helpful)
    PROVE  IInv'
<1>1. nodes \in [Live -> MemoryNode] /\ \A n \in Live : NodeOK(nodes[n])
  BY DEF IInv, TypeOK, NodesOK
<1>2. /\ Judged(nodes[id], helpful) \in MemoryNode
      /\ NodeOK(Judged(nodes[id], helpful))
  BY <1>1, JudgedOK
<1>3. Judged(nodes[id], helpful).last_accessed_at = nodes[id].last_accessed_at
  BY <1>1 DEF Judged, MemoryNode
<1>4. nodes' = [nodes EXCEPT ![id] = Judged(nodes[id], helpful)]
  BY DEF RecordHumanFeedback
<1>5. /\ nodes' \in [Live -> MemoryNode]
      /\ nodes'[id] = Judged(nodes[id], helpful)
      /\ \A n \in Live \ {id} : nodes'[n] = nodes[n]
  BY <1>1, <1>2, <1>4
<1>6. UNCHANGED <<edges, clock, drawn>>
  BY DEF RecordHumanFeedback
<1>7. QED
  BY <1>1, <1>2, <1>3, <1>5, <1>6, RewriteStep

LEMMA SetNodeAffectStep ==
    ASSUME IInv, NEW id \in Live, NEW affect \in Affects, SetNodeAffect(id, affect)
    PROVE  IInv'
<1> DEFINE node == [nodes[id] EXCEPT !.affect = affect]
<1>1. nodes \in [Live -> MemoryNode] /\ \A n \in Live : NodeOK(nodes[n])
  BY DEF IInv, TypeOK, NodesOK
<1>2. node \in MemoryNode /\ NodeOK(node)
  BY <1>1, AffectOK
<1>3. node.last_accessed_at = nodes[id].last_accessed_at
  BY <1>1 DEF MemoryNode
<1>4. nodes' = [nodes EXCEPT ![id] = node]
  BY DEF SetNodeAffect
<1>5. /\ nodes' \in [Live -> MemoryNode]
      /\ nodes'[id] = node
      /\ \A n \in Live \ {id} : nodes'[n] = nodes[n]
  BY <1>1, <1>2, <1>4
<1>6. UNCHANGED <<edges, clock, drawn>>
  BY DEF SetNodeAffect
<1>7. QED
  BY <1>1, <1>2, <1>3, <1>5, <1>6, RewriteStep

LEMMA PromoteStep ==
    ASSUME IInv, NEW min \in Thresholds, NEW level \in Levels,
           PromoteConfirmedToCanon(min, level)
    PROVE  IInv'
<1>1. nodes \in [Live -> MemoryNode] /\ \A n \in Live : NodeOK(nodes[n])
  BY DEF IInv, TypeOK, NodesOK
<1>2. IsCanon(level) /\ level \in CanonLevel
  BY NexusAssumption DEF PromoteConfirmedToCanon
<1>3. ASSUME NEW n \in Live
      PROVE  /\ Canonised(nodes[n], level) \in MemoryNode
             /\ NodeOK(Canonised(nodes[n], level))
             /\ Canonised(nodes[n], level).last_accessed_at = nodes[n].last_accessed_at
  <2>1. nodes[n] \in MemoryNode /\ NodeOK(nodes[n])
    BY <1>1
  <2>2. QED
    BY <1>2, <2>1, CanonisedOK DEF Canonised, MemoryNode
<1>4. nodes' = [n \in Live |-> IF Promotable(n, min) THEN Canonised(nodes[n], level)
                                                    ELSE nodes[n]]
  BY DEF PromoteConfirmedToCanon
<1>5. /\ nodes' \in [Live -> MemoryNode]
      /\ \A n \in Live : nodes'[n] \in {Canonised(nodes[n], level), nodes[n]}
  BY <1>1, <1>3, <1>4
<1>6. UNCHANGED <<edges, clock, drawn>>
  BY DEF PromoteConfirmedToCanon
<1>7. QED
  BY <1>1, <1>3, <1>5, <1>6, RewriteStep

LEMMA RecordAccessStep ==
    ASSUME IInv, NEW id \in 1 .. drawn, RecordAccess(id)
    PROVE  IInv'
<1>1. /\ drawn \in Nat /\ clock \in Nat /\ Live \subseteq 1 .. drawn
      /\ nodes \in [Live -> MemoryNode] /\ edges \subseteq MemoryEdge
  BY DEF IInv, TypeOK
<1>2. clock' = clock + 1 /\ edges' = edges /\ drawn' = drawn
  BY DEF RecordAccess
<1>3. \A n \in Live : /\ NodeOK(nodes[n])
                      /\ nodes[n].last_accessed_at \in Nat
                      /\ nodes[n].last_accessed_at <= clock
  BY <1>1 DEF IInv, NodesOK, DistinctTicks, MemoryNode
<1>4. CASE id \in Live
  <2> DEFINE node == Touched(nodes[id], clock + 1)
  <2>1. node \in MemoryNode /\ NodeOK(node)
    BY <1>1, <1>3, <1>4, TouchedOK
  <2>2. node.last_accessed_at = clock + 1
    BY <1>1, <1>4 DEF Touched, MemoryNode
  <2>3. nodes' = [nodes EXCEPT ![id] = node]
    BY <1>4 DEF RecordAccess
  <2>4. /\ nodes' \in [Live -> MemoryNode]
        /\ Live' = Live
        /\ nodes'[id] = node
        /\ \A n \in Live \ {id} : nodes'[n] = nodes[n]
    BY <1>1, <1>4, <2>1, <2>3 DEF Live
  <2>5. TypeOK'
    BY <1>1, <1>2, <2>4 DEF TypeOK
  <2>6. NodesOK'
    BY <1>3, <2>1, <2>4 DEF NodesOK
  <2>7. DistinctTicks'
    <3>1. nodes'[id].last_accessed_at = clock + 1
      BY <2>2, <2>4
    <3>2. \A n \in Live \ {id} : /\ nodes'[n].last_accessed_at = nodes[n].last_accessed_at
                                  /\ nodes'[n].last_accessed_at # clock + 1
      BY <1>1, <1>3, <2>4
    <3>3. \A m, n \in Live :
             nodes[m].last_accessed_at = nodes[n].last_accessed_at => m = n
      BY DEF IInv, DistinctTicks
    <3>4. \A n \in Live : nodes'[n].last_accessed_at <= clock'
      BY <1>1, <1>2, <1>3, <3>1, <3>2
    <3>5. ASSUME NEW m \in Live, NEW n \in Live,
                 nodes'[m].last_accessed_at = nodes'[n].last_accessed_at
          PROVE  m = n
      BY <3>1, <3>2, <3>3, <3>5
    <3>6. QED
      BY <2>4, <3>4, <3>5 DEF DistinctTicks
  <2>8. EdgesSound'
    BY <1>2, <2>4 DEF IInv, EdgesSound
  <2>9. QED
    BY <2>5, <2>6, <2>7, <2>8 DEF IInv
<1>5. CASE id \notin Live
  <2>1. nodes' = nodes /\ Live' = Live
    BY <1>5 DEF RecordAccess, Live
  <2>2. TypeOK'
    BY <1>1, <1>2, <2>1 DEF TypeOK
  <2>3. NodesOK'
    BY <1>3, <2>1 DEF NodesOK
  <2>4. DistinctTicks'
    BY <1>1, <1>2, <1>3, <2>1 DEF IInv, DistinctTicks
  <2>5. EdgesSound'
    BY <1>2, <2>1 DEF IInv, EdgesSound
  <2>6. QED
    BY <2>2, <2>3, <2>4, <2>5 DEF IInv
<1>6. QED
  BY <1>4, <1>5

\* What a sweep does to the state, once the victims are chosen.
LEMMA Eviction ==
    ASSUME NEW max \in Capacities, EnforceCapacity(max)
    PROVE  \E V \in SUBSET Evictable :
              /\ \A gone \in V, kept \in Evictable \ V : ~LessValuable(kept, gone)
              /\ nodes' = [n \in Live \ V |-> nodes[n]]
              /\ Live' = Live \ V
              /\ edges' = {e \in edges : e.source_id \notin V /\ e.target_id \notin V}
              /\ clock' = clock /\ drawn' = drawn
BY DEF EnforceCapacity, Victims, LeastValuable, Live

LEMMA EnforceCapacityStep ==
    ASSUME IInv, NEW max \in Capacities, EnforceCapacity(max)
    PROVE  IInv'
<1>1. PICK V \in SUBSET Evictable :
              /\ nodes' = [n \in Live \ V |-> nodes[n]]
              /\ Live' = Live \ V
              /\ edges' = {e \in edges : e.source_id \notin V /\ e.target_id \notin V}
              /\ clock' = clock /\ drawn' = drawn
  BY Eviction
<1>2. \A n \in Live' : n \in Live /\ nodes'[n] = nodes[n]
  BY <1>1
<1>3. TypeOK'
  BY <1>1, <1>2 DEF IInv, TypeOK
<1>4. NodesOK'
  BY <1>2 DEF IInv, NodesOK
<1>5. DistinctTicks'
  BY <1>1, <1>2 DEF IInv, DistinctTicks
<1>6. EdgesSound'
  BY <1>1 DEF IInv, EdgesSound
<1>7. QED
  BY <1>3, <1>4, <1>5, <1>6 DEF IInv

LEMMA StepIInv == IInv /\ [Next]_vars => IInv'
<1> SUFFICES ASSUME IInv, [Next]_vars
             PROVE  IInv'
  OBVIOUS
<1>1. ASSUME NEW s \in Sources, NEW level \in Levels, CreateNode(s, level)
      PROVE  IInv'
  BY <1>1, CreateNodeStep, NexusAssumption
<1>2. ASSUME NEW a \in Live, NEW b \in Live, AddEdge(a, b)
      PROVE  IInv'
  BY <1>2, AddEdgeStep
<1>3. ASSUME NEW id \in 1 .. drawn, RecordAccess(id)
      PROVE  IInv'
  BY <1>3, RecordAccessStep
<1>4. ASSUME NEW id \in Live, NEW helpful \in BOOLEAN,
             RecordHumanFeedback(id, helpful)
      PROVE  IInv'
  BY <1>4, RecordHumanFeedbackStep
<1>5. ASSUME NEW id \in Live, NEW affect \in Affects, SetNodeAffect(id, affect)
      PROVE  IInv'
  BY <1>5, SetNodeAffectStep
<1>6. ASSUME NEW min \in Thresholds, NEW level \in Levels,
             PromoteConfirmedToCanon(min, level)
      PROVE  IInv'
  BY <1>6, PromoteStep
<1>7. ASSUME NEW max \in Capacities, EnforceCapacity(max)
      PROVE  IInv'
  BY <1>7, EnforceCapacityStep
<1>8. CASE UNCHANGED vars
  BY <1>8 DEF vars, IInv, TypeOK, NodesOK, DistinctTicks, EdgesSound, Live
<1>9. QED
  BY <1>1, <1>2, <1>3, <1>4, <1>5, <1>6, <1>7, <1>8 DEF Next

\* The conjunction above holds in every reachable state.
THEOREM Invariance == Spec => []IInv
BY InitIInv, StepIInv, PTL DEF Spec

-----------------------------------------------------------------------------
(* The invariants the runs check. *)

\* Types, in every reachable state.
THEOREM TypeCorrect == Spec => []TypeOK
<1>1. IInv => TypeOK
  BY DEF IInv
<1>2. QED
  BY <1>1, Invariance, PTL

\* The provenance ceiling is absolute: record_human_feedback's first promise,
\* with the code's f32 rounding, for any number of verdicts.
THEOREM CeilingIsAbsolute == Spec => []ProvenanceCeiling
<1>1. IInv => ProvenanceCeiling
  BY DEF IInv, NodesOK, NodeOK, ProvenanceCeiling
<1>2. QED
  BY <1>1, Invariance, PTL

\* No two live nodes share a last-access tick, so recency never ties.
THEOREM RecencyNeverTies == Spec => []DistinctTicks
<1>1. IInv => DistinctTicks
  BY DEF IInv
<1>2. QED
  BY <1>1, Invariance, PTL

\* is_ephemeral and canon_level never disagree, so the flag eviction trusts
\* and the level the promotion sweep trusts mean the same.
THEOREM FlagsAgree == Spec => []EphemeralIffNotCanon
<1>1. IInv => EphemeralIffNotCanon
  BY DEF IInv, NodesOK, NodeOK, EphemeralIffNotCanon
<1>2. QED
  BY <1>1, Invariance, PTL

\* No edge dangles, loops or repeats, and no edge shares an id with a node.
THEOREM EdgesStaySound == Spec => []EdgesSound
<1>1. IInv => EdgesSound
  BY DEF IInv
<1>2. QED
  BY <1>1, Invariance, PTL

\* Unanimous verdicts always show in the importance eviction sorts by.
THEOREM VerdictsShow == Spec => []VerdictsShowInImportance
<1>1. IInv => VerdictsShowInImportance
  BY DEF IInv, NodesOK, NodeOK, VerdictsShowInImportance
<1>2. QED
  BY <1>1, Invariance, PTL

-----------------------------------------------------------------------------
(* The action properties the runs check. *)

\* Only a capacity sweep removes nodes.
LEMMA OnlyEvictionForgets ==
    ASSUME [Next]_vars
    PROVE  Live \subseteq DOMAIN nodes' \/ \E max \in Capacities : EnforceCapacity(max)
<1>1. ASSUME NEW s \in Sources, NEW level \in Levels, CreateNode(s, level)
      PROVE  Live \subseteq DOMAIN nodes'
  BY <1>1 DEF CreateNode
<1>2. ASSUME NEW a \in Live, NEW b \in Live, AddEdge(a, b)
      PROVE  Live \subseteq DOMAIN nodes'
  BY <1>2 DEF AddEdge, Live
<1>3. ASSUME NEW id \in 1 .. drawn, RecordAccess(id)
      PROVE  Live \subseteq DOMAIN nodes'
  BY <1>3 DEF RecordAccess, Live
<1>4. ASSUME NEW id \in Live, NEW helpful \in BOOLEAN,
             RecordHumanFeedback(id, helpful)
      PROVE  Live \subseteq DOMAIN nodes'
  BY <1>4 DEF RecordHumanFeedback, Live
<1>5. ASSUME NEW id \in Live, NEW affect \in Affects, SetNodeAffect(id, affect)
      PROVE  Live \subseteq DOMAIN nodes'
  BY <1>5 DEF SetNodeAffect, Live
<1>6. ASSUME NEW min \in Thresholds, NEW level \in Levels,
             PromoteConfirmedToCanon(min, level)
      PROVE  Live \subseteq DOMAIN nodes'
  BY <1>6 DEF PromoteConfirmedToCanon
<1>7. CASE UNCHANGED vars
  BY <1>7 DEF vars, Live
<1>8. QED
  BY <1>1, <1>2, <1>3, <1>4, <1>5, <1>6, <1>7 DEF Next

\* The better judged of two nodes of one provenance has the higher importance.
LEMMA JudgementOrdersImportance ==
    ASSUME NEW x \in MemoryNode, NodeOK(x), NEW y \in MemoryNode, NodeOK(y),
           x.source_type = y.source_type, ~IsSelfDescription(x.source_type),
           BetterJudged(x, y)
    PROVE  x.importance > y.importance
<1> DEFINE start == StartImportance(x.source_type)
<1>1. start \in Nat /\ start < MaxImportanceCap(x.source_type)
  BY CapTable DEF MemoryNode
<1>2. /\ x.importance \in Nat /\ y.importance \in Nat
      /\ x.confirmations \in Nat /\ y.confirmations \in Nat
      /\ x.rejections \in Nat /\ y.rejections \in Nat
      /\ MaxImportanceCap(x.source_type) \in Nat
  BY NexusAssumption, CapTable DEF MemoryNode
<1>3. /\ x.rejections = 0 => x.importance >= start
      /\ (x.rejections = 0 /\ x.confirmations > 0) => x.importance > start
  BY <1>1, <1>2 DEF NodeOK, ShowsVerdicts
<1>4. /\ y.confirmations = 0 => y.importance <= start
      /\ (y.confirmations = 0 /\ y.rejections > 0) => y.importance < start
  BY <1>1, <1>2 DEF NodeOK, ShowsVerdicts
<1>5. QED
  BY <1>1, <1>2, <1>3, <1>4 DEF BetterJudged, Praised, Unjudged, Doubted

\* Eviction never drops a better judged node and keeps a worse judged one of
\* the same provenance: enforce_capacity's "importance leads", as a theorem.
THEOREM VerdictsOutrankUse == Spec => VerdictOutranksUse
<1>1. IInv /\ [Next]_vars => [VerdictsRespected]_vars
  <2> SUFFICES ASSUME IInv, [Next]_vars,
                      NEW gone \in Live \ DOMAIN nodes',
                      NEW kept \in Evictable \cap DOMAIN nodes',
                      nodes[gone].source_type = nodes[kept].source_type,
                      ~IsSelfDescription(nodes[gone].source_type),
                      BetterJudged(nodes[gone], nodes[kept])
               PROVE  FALSE
    BY DEF VerdictsRespected
  <2>1. PICK max \in Capacities : EnforceCapacity(max)
    BY OnlyEvictionForgets
  <2>2. ~LessValuable(kept, gone)
    BY <2>1, Eviction DEF Live
  <2>3. /\ nodes[gone] \in MemoryNode /\ NodeOK(nodes[gone])
        /\ nodes[kept] \in MemoryNode /\ NodeOK(nodes[kept])
    BY DEF IInv, TypeOK, NodesOK, Evictable
  <2>4. nodes[gone].importance > nodes[kept].importance
    BY <2>3, JudgementOrdersImportance
  <2>5. nodes[gone].importance \in Nat /\ nodes[kept].importance \in Nat
    BY <2>3 DEF MemoryNode
  <2>6. QED
    BY <2>2, <2>4, <2>5 DEF LessValuable
<1>2. QED
  BY <1>1, Invariance, PTL DEF Spec, VerdictOutranksUse

\* Unjudged nodes of one provenance start equal and stay equal.
LEMMA UnjudgedStayAtStart ==
    ASSUME NEW x \in MemoryNode, NodeOK(x), Unjudged(x)
    PROVE  x.importance = StartImportance(x.source_type)
<1>1. StartImportance(x.source_type) \in Nat /\ x.importance \in Nat
  BY CapTable DEF MemoryNode
<1>2. /\ x.importance >= StartImportance(x.source_type)
      /\ x.importance <= StartImportance(x.source_type)
  BY DEF NodeOK, ShowsVerdicts, Unjudged
<1>3. QED
  BY <1>1, <1>2

\* Among unjudged nodes of one provenance a sweep goes by age, whatever else it
\* is a step of.
LEMMA SweepGoesOldestFirst ==
    ASSUME IInv, NEW max \in Capacities, EnforceCapacity(max)
    PROVE  OldestFirst
<1> SUFFICES ASSUME NEW gone \in Live \ DOMAIN nodes',
                    NEW kept \in Evictable \cap DOMAIN nodes',
                    nodes[gone].source_type = nodes[kept].source_type,
                    Unjudged(nodes[gone]), Unjudged(nodes[kept])
             PROVE  nodes[gone].last_accessed_at < nodes[kept].last_accessed_at
  BY DEF OldestFirst
<1>1. ~LessValuable(kept, gone)
  BY Eviction DEF Live
<1>2. /\ nodes[gone] \in MemoryNode /\ NodeOK(nodes[gone])
      /\ nodes[kept] \in MemoryNode /\ NodeOK(nodes[kept])
      /\ kept \in Live
  BY DEF IInv, TypeOK, NodesOK, Evictable
<1>3. nodes[gone].importance = nodes[kept].importance
  BY <1>2, UnjudgedStayAtStart
<1>4. nodes[gone].last_accessed_at # nodes[kept].last_accessed_at
  BY <1>2 DEF IInv, DistinctTicks
<1>5. nodes[gone].last_accessed_at \in Nat /\ nodes[kept].last_accessed_at \in Nat
  BY <1>2 DEF MemoryNode
<1> QED
  BY <1>1, <1>3, <1>4, <1>5 DEF LessValuable

\* With no feedback the order falls back to recency, strictly: the doc comment
\* of enforce_capacity, which needs the ticks to be distinct.
THEOREM UnjudgedFallBackToRecency == Spec => UnjudgedGoOldestFirst
<1>1. IInv /\ [Next]_vars => [OldestFirst]_vars
  <2> SUFFICES ASSUME IInv, [Next]_vars
               PROVE  OldestFirst
    OBVIOUS
  <2>1. CASE Live \subseteq DOMAIN nodes'
    BY <2>1 DEF OldestFirst
  <2> QED
    BY <2>1, OnlyEvictionForgets, SweepGoesOldestFirst
<1> QED
  BY <1>1, Invariance, PTL DEF Spec, UnjudgedGoOldestFirst

\* Two sets a sweep may drop are one.
LEMMA VictimsAreDetermined ==
    ASSUME IInv, NEW max \in Capacities, NEW V \in Victims(max), NEW W \in Victims(max)
    PROVE  V = W
<1>1. /\ V \subseteq Evictable /\ W \subseteq Evictable
      /\ Cardinality(V) = Cardinality(W)
      /\ \A v \in V, s \in Evictable \ V : ~LessValuable(s, v)
      /\ \A w \in W, s \in Evictable \ W : ~LessValuable(s, w)
  BY DEF Victims, LeastValuable
<1>2. IsFiniteSet(V) /\ IsFiniteSet(W)
  <2>1. V \subseteq 1 .. drawn /\ W \subseteq 1 .. drawn /\ drawn \in Nat
    BY <1>1 DEF Evictable, IInv, TypeOK
  <2>2. IsFiniteSet(1 .. drawn)
    BY <2>1, FS_Interval
  <2>3. QED
    BY <2>1, <2>2, FS_Subset
<1>3. ASSUME NEW v \in V \ W, NEW w \in W \ V
      PROVE  FALSE
  <2>1. ~LessValuable(w, v) /\ ~LessValuable(v, w)
    BY <1>1
  <2>2. v \in Live /\ w \in Live /\ nodes[v] \in MemoryNode /\ nodes[w] \in MemoryNode
    BY <1>1 DEF Evictable, IInv, TypeOK
  <2>3. nodes[v].last_accessed_at = nodes[w].last_accessed_at
    BY <2>1, <2>2 DEF LessValuable, MemoryNode
  <2>4. v = w
    BY <2>2, <2>3 DEF IInv, DistinctTicks
  <2>5. QED
    BY <2>4
<1>4. V \subseteq W \/ W \subseteq V
  BY <1>3
<1>5. QED
  BY <1>1, <1>2, <1>4, FS_Subset

\* Of the sets of nodes a sweep may drop there is at most one: whatever order
\* the hash ids have, the victims are the same.
THEOREM HashOrderNeverDecides == Spec => []EvictionUnambiguous
<1>1. IInv => EvictionUnambiguous
  BY VictimsAreDetermined DEF EvictionUnambiguous
<1> QED
  BY <1>1, Invariance, PTL

\* No id that was drawn and is not a node's becomes one.
NobodyReturns == \A id \in (1 .. drawn) \ Live : id \notin DOMAIN nodes'

\* A forgotten node never returns, and no link's id ever names a node: an id
\* string a caller kept finds its own node or nothing (create_node and add_edge
\* draw from one generator, and nothing else inserts into the map).
THEOREM ForgottenStaysForgotten == Spec => [][NobodyReturns]_vars
<1>1. IInv /\ [Next]_vars => NobodyReturns
  <2> SUFFICES ASSUME IInv, [Next]_vars
               PROVE  NobodyReturns
    OBVIOUS
  <2>1. drawn \in Nat /\ nodes \in [Live -> MemoryNode]
    BY DEF IInv, TypeOK
  <2>2. ASSUME NEW s \in Sources, NEW level \in Levels, CreateNode(s, level)
        PROVE  NobodyReturns
    <3>1. DOMAIN nodes' = Live \cup {drawn + 1} /\ drawn + 1 \notin 1 .. drawn
      BY <2>1, <2>2 DEF CreateNode
    <3> QED
      BY <3>1 DEF NobodyReturns
  <2>3. ASSUME DOMAIN nodes' \subseteq Live
        PROVE  NobodyReturns
    BY <2>3 DEF NobodyReturns
  <2>4. ASSUME NEW max \in Capacities, EnforceCapacity(max)
        PROVE  DOMAIN nodes' \subseteq Live
    BY <2>4, Eviction DEF Live
  <2>5. CASE \/ \E a, b \in Live : AddEdge(a, b)
             \/ \E id \in 1 .. drawn : RecordAccess(id)
             \/ \E id \in Live, helpful \in BOOLEAN : RecordHumanFeedback(id, helpful)
             \/ \E id \in Live, affect \in Affects : SetNodeAffect(id, affect)
             \/ UNCHANGED vars
    <3>1. DOMAIN nodes' = DOMAIN nodes
      BY <2>5 DEF AddEdge, RecordAccess, RecordHumanFeedback, SetNodeAffect, vars
    <3> QED
      BY <2>3, <3>1 DEF Live
  <2>6. ASSUME NEW min \in Thresholds, NEW level \in Levels,
               PromoteConfirmedToCanon(min, level)
        PROVE  DOMAIN nodes' \subseteq Live
    BY <2>6 DEF PromoteConfirmedToCanon
  <2> QED
    BY <2>2, <2>3, <2>4, <2>5, <2>6 DEF Next
<1> QED
  BY <1>1, Invariance, PTL DEF Spec

-----------------------------------------------------------------------------
(* What a sweep leaves: how many, and how many of them are valued. *)

\* A sweep drops k evictable nodes and counts them right.
LEMMA SweepCounts ==
    ASSUME IInv, NEW max \in Capacities, EnforceCapacity(max)
    PROVE  LET k == AtMost(Cardinality(Live) - max, Cardinality(Evictable))
           IN  \E V \in SUBSET Evictable :
                  /\ Cardinality(V) = k
                  /\ nodes' = [n \in Live \ V |-> nodes[n]]
                  /\ \A victim \in V, spared \in Evictable \ V : ~LessValuable(spared, victim)
                  /\ Cardinality(Live \ V) = Cardinality(Live) - k
                  /\ Cardinality(V) = Cardinality(Evictable) => V = Evictable
<1> DEFINE k == AtMost(Cardinality(Live) - max, Cardinality(Evictable))
<1>1. PICK V \in Victims(max) : nodes' = [n \in Live \ V |-> nodes[n]]
  BY DEF EnforceCapacity
<1>2. /\ V \in SUBSET Evictable /\ Cardinality(V) = k
      /\ \A victim \in V, spared \in Evictable \ V : ~LessValuable(spared, victim)
  BY DEF Victims, LeastValuable
<1>3. Evictable \subseteq Live /\ IsFiniteSet(Live)
  <2>1. Live \subseteq 1 .. drawn /\ drawn \in Nat
    BY DEF IInv, TypeOK
  <2>2. IsFiniteSet(1 .. drawn)
    BY <2>1, FS_Interval
  <2>3. IsFiniteSet(Live)
    BY <2>1, <2>2, FS_Subset
  <2>4. Evictable \subseteq Live
    BY DEF Evictable
  <2> QED
    BY <2>3, <2>4
<1>4. IsFiniteSet(Evictable) /\ IsFiniteSet(V) /\ IsFiniteSet(Live \ V)
  BY <1>2, <1>3, FS_Subset
<1>5. Cardinality(Live \ V) = Cardinality(Live) - k
  <2>1. (Live \ V) \cup V = Live /\ (Live \ V) \cap V = {}
    BY <1>2, <1>3
  <2>2. Cardinality((Live \ V) \cup V)
           = Cardinality(Live \ V) + Cardinality(V) - Cardinality((Live \ V) \cap V)
    BY <1>4, FS_Union
  <2>3. Cardinality({}) = 0 /\ Cardinality(Live \ V) \in Nat /\ Cardinality(V) \in Nat
    BY <1>4, FS_EmptySet, FS_CardinalityType
  <2>4. Cardinality(Live) = Cardinality(Live \ V) + Cardinality(V) - 0
    BY <2>1, <2>2, <2>3
  <2>5. Cardinality(V) = k
    BY <1>2
  <2> HIDE DEF k
  <2> QED
    BY <2>3, <2>4, <2>5
<1>6. Cardinality(V) = Cardinality(Evictable) => V = Evictable
  BY <1>2, <1>4, FS_Subset
<1> QED
  BY <1>1, <1>2, <1>5, <1>6

LEMMA Sizes ==
    ASSUME IInv, NEW max \in Capacities
    PROVE  /\ max \in Nat
           /\ IsFiniteSet(Live) /\ IsFiniteSet(Evictable)
           /\ Cardinality(Live) \in Nat /\ Cardinality(Evictable) \in Nat
<1>1. Live \subseteq 1 .. drawn /\ drawn \in Nat /\ Evictable \subseteq Live
  BY DEF IInv, TypeOK, Evictable
<1>2. IsFiniteSet(Live) /\ IsFiniteSet(Evictable)
  <2>1. IsFiniteSet(1 .. drawn)
    BY <1>1, FS_Interval
  <2>2. IsFiniteSet(Live)
    BY <1>1, <2>1, FS_Subset
  <2> QED
    BY <1>1, <2>2, FS_Subset
<1> QED
  BY <1>2, FS_CardinalityType, NexusAssumption

\* A node no sweep may drop is canon.
LEMMA SparedIsCanon ==
    ASSUME IInv, NEW n \in Live \ Evictable
    PROVE  IsCanon(nodes[n].canon_level)
BY DEF IInv, NodesOK, NodeOK, Evictable

\* One sweep meets its limit, or leaves canon only, whatever else it is a step of.
LEMMA SweepMeetsItsLimit ==
    ASSUME IInv, NEW max \in Capacities, EnforceCapacity(max)
    PROVE  \/ Cardinality(DOMAIN nodes') = max
           \/ /\ Cardinality(DOMAIN nodes') > max
              /\ \A n \in DOMAIN nodes' : IsCanon(nodes'[n].canon_level)
<1> DEFINE k == AtMost(Cardinality(Live) - max, Cardinality(Evictable))
<1>1. PICK V \in SUBSET Evictable :
             /\ Cardinality(V) = k
             /\ nodes' = [n \in Live \ V |-> nodes[n]]
             /\ Cardinality(Live \ V) = Cardinality(Live) - k
             /\ Cardinality(V) = Cardinality(Evictable) => V = Evictable
  BY SweepCounts
<1>2. DOMAIN nodes' = Live \ V /\ \A n \in Live \ V : nodes'[n] = nodes[n]
  BY <1>1
<1>3. /\ Cardinality(Live) \in Nat /\ Cardinality(Evictable) \in Nat /\ max \in Nat
      /\ Cardinality(Live) > max
  BY Sizes DEF EnforceCapacity
<1>4. CASE k = Cardinality(Live) - max
  BY <1>1, <1>2, <1>3, <1>4
<1>5. CASE k # Cardinality(Live) - max
  <2>1. k = Cardinality(Evictable) /\ k < Cardinality(Live) - max
    BY <1>3, <1>5 DEF AtMost
  <2>2. Cardinality(DOMAIN nodes') > max
    <3> HIDE DEF k
    <3> QED
      BY <1>1, <1>2, <1>3, <2>1
  <2>3. V = Evictable
    BY <1>1, <2>1
  <2> QED
    BY <1>2, <2>2, <2>3, SparedIsCanon
<1> QED
  BY <1>4, <1>5

\* After a sweep the limit holds or only canon is left, and no more went than
\* had to.
THEOREM SweepsMeetTheLimit == Spec => CapacityYieldsOnlyToCanon
<1>1. IInv /\ [Next]_vars =>
        [\A max \in Capacities : EnforceCapacity(max)
            => \/ Cardinality(DOMAIN nodes') = max
               \/ /\ Cardinality(DOMAIN nodes') > max
                  /\ \A n \in DOMAIN nodes' : IsCanon(nodes'[n].canon_level)]_vars
  BY SweepMeetsItsLimit
<1> QED
  BY <1>1, Invariance, PTL DEF Spec, CapacityYieldsOnlyToCanon

\* A sweep keeps as much of what is valued as any choice of max nodes could:
\* either nothing valued goes, or everything that stays is valued.
THEOREM SweepsKeepTheValued == Spec => NoPolicyKeepsMoreValued
<1>1. ASSUME IInv, NEW max \in Capacities, EnforceCapacity(max),
             NEW kept \in SUBSET Live, Cardinality(kept) <= max
      PROVE  Cardinality({n \in kept : Valued(nodes[n])})
                 <= Cardinality({n \in DOMAIN nodes' : Valued(nodes[n])})
  <2> DEFINE k == AtMost(Cardinality(Live) - max, Cardinality(Evictable))
             mine == {n \in kept : Valued(nodes[n])}
  <2>1. PICK V \in SUBSET Evictable :
               /\ Cardinality(V) = k
               /\ nodes' = [n \in Live \ V |-> nodes[n]]
               /\ \A victim \in V, spared \in Evictable \ V : ~LessValuable(spared, victim)
               /\ Cardinality(Live \ V) = Cardinality(Live) - k
               /\ Cardinality(V) = Cardinality(Evictable) => V = Evictable
    BY <1>1, SweepCounts
  <2>2. DOMAIN nodes' = Live \ V
    BY <2>1
  <2>3. /\ Cardinality(Live) \in Nat /\ Cardinality(Evictable) \in Nat /\ max \in Nat
        /\ IsFiniteSet(Live)
    BY <1>1, Sizes
  <2>4. /\ IsFiniteSet(kept) /\ IsFiniteSet(mine) /\ Cardinality(kept) \in Nat
        /\ Cardinality(mine) \in Nat /\ Cardinality(mine) <= Cardinality(kept)
    <3>1. IsFiniteSet(kept)
      BY <2>3, FS_Subset
    <3>2. mine \in SUBSET kept
      OBVIOUS
    <3> HIDE DEF mine
    <3> QED
      BY <3>1, <3>2, FS_Subset, FS_CardinalityType
  <2>5. Cardinality(Live \ V) >= max
    <3>1. k <= Cardinality(Live) - max /\ k \in Int
      BY <2>3 DEF AtMost
    <3> HIDE DEF k
    <3> QED
      BY <2>1, <2>3, <3>1
  <2>6. CASE \A n \in Live \ V : Valued(nodes[n])
    <3>1. {n \in DOMAIN nodes' : Valued(nodes[n])} = Live \ V
      BY <2>2, <2>6
    <3>2. Cardinality(Live \ V) \in Nat
      BY <2>3, FS_Subset, FS_CardinalityType
    <3> HIDE DEF mine, k
    <3>3. Cardinality(mine) <= Cardinality(Live \ V)
      BY <1>1, <2>3, <2>4, <2>5, <3>2
    <3> QED
      BY <3>1, <3>3 DEF mine
  <2>7. CASE \E n \in Live \ V : ~Valued(nodes[n])
    <3>1. PICK s \in Live \ V : ~Valued(nodes[s])
      BY <2>7
    <3>2. s \in Evictable \ V
      BY <1>1, <3>1, SparedIsCanon DEF Valued
    <3>3. ASSUME NEW v \in V
          PROVE  ~Valued(nodes[v])
      <4>1. ~LessValuable(s, v)
        BY <2>1, <3>2
      <4>2. v \in Live /\ nodes[v] \in MemoryNode /\ nodes[s] \in MemoryNode
        BY <1>1, <3>1 DEF IInv, TypeOK, Evictable
      <4>3. nodes[v].importance <= nodes[s].importance
        BY <4>1, <4>2 DEF LessValuable, MemoryNode
      <4>4. ~IsCanon(nodes[v].canon_level)
        BY <1>1, <4>2 DEF IInv, NodesOK, NodeOK, Evictable
      <4> QED
        BY <3>1, <4>2, <4>3, <4>4 DEF Valued, MemoryNode, BaseImportance
    <3>4. mine \subseteq {n \in Live \ V : Valued(nodes[n])}
      BY <3>3
    <3>5. IsFiniteSet({n \in Live \ V : Valued(nodes[n])})
      BY <2>3, FS_Subset
    <3> HIDE DEF mine
    <3>6. Cardinality(mine) <= Cardinality({n \in Live \ V : Valued(nodes[n])})
      BY <3>4, <3>5, FS_Subset
    <3> QED
      BY <2>2, <3>6 DEF mine
  <2> QED
    BY <2>6, <2>7
<1>2. IInv /\ [Next]_vars =>
        [\A max \in Capacities : EnforceCapacity(max)
            => \A kept \in SUBSET Live : Cardinality(kept) <= max
                  => Cardinality({n \in kept : Valued(nodes[n])})
                       <= Cardinality({n \in DOMAIN nodes' : Valued(nodes[n])})]_vars
  BY <1>1
<1> QED
  BY <1>2, Invariance, PTL DEF Spec, NoPolicyKeepsMoreValued

-----------------------------------------------------------------------------
(* Canon, quarantine and the refinement of RetentionPromise. *)

\* How a step changes the canon level of a node that survives it.
LEMMA LevelsChangeOnlyByPromotion ==
    ASSUME IInv, [Next]_vars, NEW n \in Live \cap DOMAIN nodes',
           nodes'[n].canon_level # nodes[n].canon_level
    PROVE  /\ ~IsCanon(nodes[n].canon_level)
           /\ ~IsSelfDescription(nodes[n].source_type)
<1>1. nodes \in [Live -> MemoryNode] /\ n # drawn + 1
  BY DEF IInv, TypeOK
<1>2. ASSUME NEW s \in Sources, NEW level \in Levels, CreateNode(s, level)
      PROVE  FALSE
  BY <1>1, <1>2 DEF CreateNode
<1>3. ASSUME NEW a \in Live, NEW b \in Live, AddEdge(a, b)
      PROVE  FALSE
  BY <1>3 DEF AddEdge
<1>4. ASSUME NEW id \in 1 .. drawn, RecordAccess(id)
      PROVE  FALSE
  <2>1. \A m \in Live : Touched(nodes[m], clock + 1).canon_level = nodes[m].canon_level
    BY <1>1 DEF Touched, MemoryNode
  <2>2. nodes' = nodes \/ nodes' = [nodes EXCEPT ![id] = Touched(nodes[id], clock + 1)]
    BY <1>4 DEF RecordAccess
  <2>3. QED
    BY <1>1, <2>1, <2>2
<1>5. ASSUME NEW id \in Live, NEW helpful \in BOOLEAN,
             RecordHumanFeedback(id, helpful)
      PROVE  FALSE
  <2>1. Judged(nodes[id], helpful).canon_level = nodes[id].canon_level
    BY <1>1 DEF Judged, MemoryNode
  <2>2. nodes' = [nodes EXCEPT ![id] = Judged(nodes[id], helpful)]
    BY <1>5 DEF RecordHumanFeedback
  <2>3. QED
    BY <1>1, <2>1, <2>2
<1>6. ASSUME NEW id \in Live, NEW affect \in Affects, SetNodeAffect(id, affect)
      PROVE  FALSE
  <2>1. [nodes[id] EXCEPT !.affect = affect].canon_level = nodes[id].canon_level
    BY <1>1 DEF MemoryNode
  <2>2. nodes' = [nodes EXCEPT ![id] = [nodes[id] EXCEPT !.affect = affect]]
    BY <1>6 DEF SetNodeAffect
  <2>3. QED
    BY <1>1, <2>1, <2>2
<1>7. ASSUME NEW max \in Capacities, EnforceCapacity(max)
      PROVE  FALSE
  BY <1>7, Eviction DEF Live
<1>8. CASE UNCHANGED vars
  BY <1>8 DEF vars
<1>9. ASSUME NEW min \in Thresholds, NEW level \in Levels,
             PromoteConfirmedToCanon(min, level)
      PROVE  Promotable(n, min)
  BY <1>9 DEF PromoteConfirmedToCanon
<1>10. QED
  BY <1>2, <1>3, <1>4, <1>5, <1>6, <1>7, <1>8, <1>9 DEF Next, Promotable

\* Canon is for good: no call drops a canon node or changes its level.
THEOREM CanonIsForGood == Spec => CanonNeverEvicted
<1>1. IInv /\ [Next]_vars => [CanonKept]_vars
  <2> SUFFICES ASSUME IInv, [Next]_vars, NEW n \in Live, IsCanon(nodes[n].canon_level)
               PROVE  /\ n \in DOMAIN nodes'
                      /\ nodes'[n].canon_level = nodes[n].canon_level
    BY DEF CanonKept
  <2>1. n \notin Evictable
    BY DEF IInv, NodesOK, NodeOK, Evictable
  <2>2. n \in DOMAIN nodes'
    BY <2>1, OnlyEvictionForgets, Eviction DEF Live
  <2>3. QED
    BY <2>2, LevelsChangeOnlyByPromotion
<1>2. QED
  BY <1>1, Invariance, PTL DEF Spec, CanonNeverEvicted

\* No number of confirmations makes canon of a self-description that was not
\* stored as canon.
THEOREM QuarantineIsNotOverturned == Spec => QuarantineHolds
<1>1. IInv /\ [Next]_vars => [NoSelfPromotion]_vars
  BY LevelsChangeOnlyByPromotion DEF NoSelfPromotion
<1>2. QED
  BY <1>1, Invariance, PTL DEF Spec, QuarantineHolds

\* A step that keeps the flag and the source of every node is a stutter of the
\* promise; one that also draws an id is a Link.
LEMMA InPlaceStutters ==
    ASSUME Live' = Live, drawn' = drawn,
           \A n \in Live : /\ nodes'[n].is_ephemeral = nodes[n].is_ephemeral
                           /\ nodes'[n].source_type = nodes[n].source_type
    PROVE  UNCHANGED Promise!promiseVars
<1>1. Evictable' = Evictable
  BY DEF Evictable
<1>2. SelfDescriptions' = SelfDescriptions
  BY DEF SelfDescriptions
<1>3. Canon' = Canon
  BY <1>1 DEF Canon
<1>4. QED
  BY <1>1, <1>2, <1>3 DEF Promise!promiseVars

LEMMA CreateNodeStores ==
    ASSUME IInv, NEW s, NEW level, CreateNode(s, level)
    PROVE  Promise!Next
<1> DEFINE new == drawn + 1
           node == NewNode(s, level, clock + 1)
<1>1. /\ drawn \in Nat /\ drawn < MaxDraws /\ MaxDraws \in Nat
      /\ Live \subseteq 1 .. drawn /\ new \notin Live
      /\ drawn' = new
  BY NexusAssumption DEF IInv, TypeOK, CreateNode
<1>2. /\ Live' = Live \cup {new}
      /\ nodes'[new] = node
      /\ \A n \in Live : nodes'[n] = nodes[n]
  BY <1>1 DEF CreateNode, Live
<1>3. \/ Evictable' = Evictable \cup {new} /\ Canon' = Canon
      \/ Evictable' = Evictable /\ Canon' = Canon \cup {new}
  <2>1. CASE node.is_ephemeral
    <3>1. Evictable' = Evictable \cup {new}
      BY <1>1, <1>2, <2>1 DEF Evictable
    <3>2. QED
      BY <1>1, <1>2, <3>1 DEF Canon, Evictable
  <2>2. CASE ~node.is_ephemeral
    <3>1. Evictable' = Evictable
      BY <1>1, <1>2, <2>2 DEF Evictable
    <3>2. QED
      BY <1>1, <1>2, <3>1 DEF Canon, Evictable
  <2>3. QED
    BY <2>1, <2>2
<1>4. SelfDescriptions' \in {SelfDescriptions, SelfDescriptions \cup {new}}
  <2>1. CASE IsSelfDescription(node.source_type)
    BY <1>1, <1>2, <2>1 DEF SelfDescriptions
  <2>2. CASE ~IsSelfDescription(node.source_type)
    BY <1>1, <1>2, <2>2 DEF SelfDescriptions
  <2>3. QED
    BY <2>1, <2>2
<1>5. new \in 1 .. MaxDraws /\ new \notin 1 .. drawn /\ 1 .. drawn' = (1 .. drawn) \cup {new}
  BY <1>1
<1>6. Promise!Store(new)
  BY <1>3, <1>4, <1>5 DEF Promise!Store
<1>7. QED
  BY <1>5, <1>6 DEF Promise!Next

LEMMA PromotePromotes ==
    ASSUME IInv, NEW min \in Thresholds, NEW level \in Levels,
           PromoteConfirmedToCanon(min, level)
    PROVE  Promise!Next
<1> DEFINE S == {n \in Live : Promotable(n, min)}
<1>1. /\ nodes \in [Live -> MemoryNode] /\ Live' = Live /\ drawn' = drawn
      /\ nodes' = [n \in Live |-> IF Promotable(n, min) THEN Canonised(nodes[n], level)
                                                        ELSE nodes[n]]
  BY DEF IInv, TypeOK, PromoteConfirmedToCanon, Live
<1>2. \A n \in Live : Promotable(n, min) => nodes[n].is_ephemeral
  BY DEF IInv, NodesOK, NodeOK, Promotable
<1>3. \A n \in S : /\ nodes'[n].is_ephemeral = FALSE
                   /\ nodes'[n].source_type = nodes[n].source_type
  BY <1>1 DEF Canonised, MemoryNode
<1>4. \A n \in Live \ S : nodes'[n] = nodes[n]
  BY <1>1
<1>5. S \subseteq Evictable /\ S \cap SelfDescriptions = {}
  BY <1>2 DEF Evictable, Promotable, SelfDescriptions
<1>6. Evictable' = Evictable \ S
  BY <1>1, <1>3, <1>4 DEF Evictable
<1>7. Canon' = Canon \cup S
  BY <1>1, <1>5, <1>6 DEF Canon, Evictable
<1>8. SelfDescriptions' = SelfDescriptions
  BY <1>1, <1>3, <1>4 DEF SelfDescriptions
<1>9. Promise!Promote(S)
  BY <1>1, <1>5, <1>6, <1>7, <1>8 DEF Promise!Promote
<1>10. QED
  BY <1>5, <1>9 DEF Promise!Next

LEMMA EvictionForgets ==
    ASSUME IInv, NEW max \in Capacities, EnforceCapacity(max)
    PROVE  Promise!Next
<1>1. PICK V \in SUBSET Evictable :
              /\ nodes' = [n \in Live \ V |-> nodes[n]]
              /\ Live' = Live \ V
              /\ drawn' = drawn
  BY Eviction
<1>2. \A n \in Live' : n \in Live /\ nodes'[n] = nodes[n]
  BY <1>1
<1>3. Evictable' = Evictable \ V
  BY <1>1, <1>2 DEF Evictable
<1>4. Canon' = Canon
  BY <1>1, <1>3 DEF Canon, Evictable
<1>5. SelfDescriptions' = SelfDescriptions \ V
  BY <1>1, <1>2 DEF SelfDescriptions
<1>6. Promise!Forget(V)
  BY <1>1, <1>3, <1>4, <1>5 DEF Promise!Forget
<1>7. QED
  BY <1>6 DEF Promise!Next

\* Every step of the nexus is a step of the promise or a stutter.
LEMMA StepRefines ==
    ASSUME IInv, [Next]_vars
    PROVE  [Promise!Next]_(Promise!promiseVars)
<1>1. nodes \in [Live -> MemoryNode] /\ drawn \in Nat
  BY DEF IInv, TypeOK
<1>2. ASSUME NEW s \in Sources, NEW level \in Levels, CreateNode(s, level)
      PROVE  Promise!Next
  BY <1>2, CreateNodeStores
<1>3. ASSUME NEW a \in Live, NEW b \in Live, AddEdge(a, b)
      PROVE  Promise!Next
  <2>1. /\ drawn + 1 \in 1 .. MaxDraws /\ drawn + 1 \notin 1 .. drawn
        /\ 1 .. drawn' = (1 .. drawn) \cup {drawn + 1}
    BY <1>1, <1>3, NexusAssumption DEF AddEdge
  <2>2. nodes' = nodes
    BY <1>3 DEF AddEdge
  <2>3. Promise!Link({drawn + 1})
    BY <2>1, <2>2 DEF Promise!Link, Canon, Evictable, SelfDescriptions, Live
  <2>4. {drawn + 1} \in SUBSET (1 .. MaxDraws)
    BY <2>1
  <2>5. QED
    BY <2>3, <2>4 DEF Promise!Next
<1>4. ASSUME NEW id \in 1 .. drawn, RecordAccess(id)
      PROVE  UNCHANGED Promise!promiseVars
  <2>1. \A m \in Live :
          /\ Touched(nodes[m], clock + 1).is_ephemeral = nodes[m].is_ephemeral
          /\ Touched(nodes[m], clock + 1).source_type = nodes[m].source_type
    BY <1>1 DEF Touched, MemoryNode
  <2>2. \/ nodes' = nodes
        \/ id \in Live /\ nodes' = [nodes EXCEPT ![id] = Touched(nodes[id], clock + 1)]
    BY <1>4 DEF RecordAccess
  <2>3. QED
    BY <1>1, <1>4, <2>1, <2>2, InPlaceStutters DEF RecordAccess, Live
<1>5. ASSUME NEW id \in Live, NEW helpful \in BOOLEAN,
             RecordHumanFeedback(id, helpful)
      PROVE  UNCHANGED Promise!promiseVars
  <2>1. /\ Judged(nodes[id], helpful).is_ephemeral = nodes[id].is_ephemeral
        /\ Judged(nodes[id], helpful).source_type = nodes[id].source_type
    BY <1>1 DEF Judged, MemoryNode
  <2>2. nodes' = [nodes EXCEPT ![id] = Judged(nodes[id], helpful)] /\ drawn' = drawn
    BY <1>5 DEF RecordHumanFeedback
  <2>3. QED
    BY <1>1, <2>1, <2>2, InPlaceStutters DEF Live
<1>6. ASSUME NEW id \in Live, NEW affect \in Affects, SetNodeAffect(id, affect)
      PROVE  UNCHANGED Promise!promiseVars
  <2> DEFINE node == [nodes[id] EXCEPT !.affect = affect]
  <2>1. /\ node.is_ephemeral = nodes[id].is_ephemeral
        /\ node.source_type = nodes[id].source_type
    BY <1>1 DEF MemoryNode
  <2>2. nodes' = [nodes EXCEPT ![id] = node] /\ drawn' = drawn
    BY <1>6 DEF SetNodeAffect
  <2> HIDE DEF node
  <2>3. QED
    BY <1>1, <2>1, <2>2, InPlaceStutters DEF Live
<1>7. ASSUME NEW min \in Thresholds, NEW level \in Levels,
             PromoteConfirmedToCanon(min, level)
      PROVE  Promise!Next
  BY <1>7, PromotePromotes
<1>8. ASSUME NEW max \in Capacities, EnforceCapacity(max)
      PROVE  Promise!Next
  BY <1>8, EvictionForgets
<1>9. CASE UNCHANGED vars
  BY <1>9 DEF vars, Promise!promiseVars, Canon, Evictable, SelfDescriptions, Live
<1>10. QED
  BY <1>2, <1>3, <1>4, <1>5, <1>6, <1>7, <1>8, <1>9 DEF Next

\* The nexus implements RetentionPromise: canon is for good, quarantine is not
\* overturned by votes, an identifier is issued once.
THEOREM NexusKeepsThePromise == Spec => KeepsThePromise
<1>1. Init => Promise!Init
  BY DEF Init, Promise!Init, Canon, Evictable, SelfDescriptions, Live
<1>2. IInv /\ [Next]_vars => [Promise!Next]_(Promise!promiseVars)
  BY StepRefines
<1>3. QED
  BY <1>1, <1>2, Invariance, PTL DEF Spec, KeepsThePromise, Promise!Spec

=============================================================================

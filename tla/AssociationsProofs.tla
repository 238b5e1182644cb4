-------------------------- MODULE AssociationsProofs --------------------------
(***************************************************************************)
(* Theorems about Associations for every value of its constants: any       *)
(* facts, any similarity of their vectors, any thresholds and limits, any  *)
(* number of nodes and links.                                              *)
(***************************************************************************)
EXTENDS Associations, GraphNexusProofs, VectorIndexProofs

-----------------------------------------------------------------------------
(* The inductive invariant.  What GraphNexus keeps is not enough: pruning    *)
(* orders equal links by id, so ids must be distinct, and linking takes      *)
(* positions of the index for nodes, so no node may stand in it twice.       *)

EdgeIdsDistinct == \A e, f \in edges : e.id = f.id => e = f

Entry == [node_id : Nat, vector : {fact.vector : fact \in Facts}]

IndexSound ==
    /\ index \in Seq(Entry)
    /\ \A i \in 1 .. Len(index) : index[i].node_id <= drawn
    /\ \A i, j \in 1 .. Len(index) : index[i].node_id = index[j].node_id => i = j

AIInv == IInv /\ EdgeIdsDistinct /\ IndexSound

LEMMA InitAIInv == AInit => AIInv
<1> SUFFICES ASSUME AInit
             PROVE  AIInv
  OBVIOUS
<1>1. IInv
  BY InitIInv DEF AInit
<1>2. edges = {} /\ index = << >>
  BY DEF AInit, Init
<1>3. EdgeIdsDistinct
  BY <1>2 DEF EdgeIdsDistinct
<1>4. IndexSound
  <2>1. << >> \in Seq(Entry) /\ Len(<< >>) = 0
    BY EmptySeq
  <2> QED
    BY <1>2, <2>1 DEF IndexSound
<1> QED
  BY <1>1, <1>3, <1>4 DEF AIInv

\* Ids number the links, so there are finitely many.
LEMMA FiniteLinks ==
    ASSUME IInv, EdgeIdsDistinct
    PROVE  IsFiniteSet(edges)
<1> DEFINE number == [e \in edges |-> e.id]
<1>1. \A e \in edges : e.id \in 0 .. drawn
  BY DEF IInv, TypeOK, EdgesSound, MemoryEdge
<1>2. number \in Injection(edges, 0 .. drawn)
  BY <1>1 DEF EdgeIdsDistinct, Injection, IsInjective
<1>3. IsFiniteSet(0 .. drawn)
  BY FS_Interval DEF IInv, TypeOK
<1> HIDE DEF number
<1> QED
  BY <1>2, <1>3, FS_Injection

LEMMA FiniteLive ==
    ASSUME IInv
    PROVE  IsFiniteSet(Live)
<1>1. Live \in SUBSET (1 .. drawn) /\ drawn \in Int
  BY DEF IInv, TypeOK
<1>2. IsFiniteSet(1 .. drawn)
  BY <1>1, FS_Interval
<1> QED
  BY <1>1, <1>2, FS_Subset

-----------------------------------------------------------------------------
(* Linking. *)

\* The lexicographic order of candidates.
Lex(M) == {d \in M \X M : d[1][1] < d[2][1] \/ (d[1][1] = d[2][1] /\ d[1][2] < d[2][2])}

LEMMA LexOrders ==
    ASSUME NEW M, \A p \in M : p \in Int \X Int
    PROVE  IsOrder(Lex(M), M)
<1>1. \A p, q \in M : <<p, q>> \in Lex(M)
                        <=> p[1] < q[1] \/ (p[1] = q[1] /\ p[2] < q[2])
  BY DEF Lex
<1>2. \A p \in M : p[1] \in Int /\ p[2] \in Int /\ p = <<p[1], p[2]>>
  OBVIOUS
<1>3. \A p \in M : <<p, p>> \notin Lex(M)
  BY <1>1, <1>2
<1>4. ASSUME NEW p \in M, NEW q \in M, p # q
      PROVE  <<p, q>> \in Lex(M) \/ <<q, p>> \in Lex(M)
  <2>1. p[1] # q[1] \/ p[2] # q[2]
    BY <1>2, <1>4
  <2>2. /\ p[1] \in Int /\ p[2] \in Int /\ q[1] \in Int /\ q[2] \in Int
    BY <1>2
  <2>3. \/ p[1] < q[1] \/ (p[1] = q[1] /\ p[2] < q[2])
        \/ q[1] < p[1] \/ (q[1] = p[1] /\ q[2] < p[2])
    BY <2>1, <2>2
  <2> QED
    BY <1>1, <2>3
<1>5. ASSUME NEW p \in M, NEW q \in M, NEW r \in M, <<p, q>> \in Lex(M), <<q, r>> \in Lex(M)
      PROVE  <<p, r>> \in Lex(M)
  <2>1. /\ p[1] < q[1] \/ (p[1] = q[1] /\ p[2] < q[2])
        /\ q[1] < r[1] \/ (q[1] = r[1] /\ q[2] < r[2])
    BY <1>1, <1>5
  <2>2. /\ p[1] \in Int /\ p[2] \in Int /\ q[1] \in Int /\ q[2] \in Int
        /\ r[1] \in Int /\ r[2] \in Int
    BY <1>2
  <2>3. p[1] < r[1] \/ (p[1] = r[1] /\ p[2] < r[2])
    BY <2>1, <2>2
  <2> QED
    BY <1>1, <2>3
<1> QED
  BY <1>3, <1>4, <1>5 DEF IsOrder

\* Of n candidates each has a place of its own from 1 to n.
LEMMA PlacesOfPairs ==
    ASSUME NEW M, IsFiniteSet(M), \A p \in M : p \in Int \X Int,
           NEW place, \A p \in M : place[p] =
               Cardinality({q \in M : q[1] < p[1] \/ (q[1] = p[1] /\ q[2] <= p[2])})
    PROVE  /\ Cardinality(M) \in Nat
           /\ \A p \in M : place[p] \in 1 .. Cardinality(M)
           /\ \A p, q \in M : place[p] = place[q] => p = q
<1>1. IsOrder(Lex(M), M)
  BY LexOrders
<1>2. ASSUME NEW p \in M
      PROVE  /\ IsFiniteSet(Before(Lex(M), M, p))
             /\ p \notin Before(Lex(M), M, p)
             /\ {q \in M : q[1] < p[1] \/ (q[1] = p[1] /\ q[2] <= p[2])}
                  = Before(Lex(M), M, p) \cup {p}
  <2>1. Before(Lex(M), M, p) \in SUBSET M
    BY DEF Before
  <2>2. IsFiniteSet(Before(Lex(M), M, p))
    BY <2>1, FS_Subset
  <2>3. p \notin Before(Lex(M), M, p)
    BY <1>1 DEF Before, IsOrder
  <2>4. ASSUME NEW q \in M
        PROVE  (q[1] < p[1] \/ (q[1] = p[1] /\ q[2] <= p[2]))
                 <=> (<<q, p>> \in Lex(M) \/ q = p)
    <3>1. /\ p[1] \in Int /\ p[2] \in Int /\ q[1] \in Int /\ q[2] \in Int
          /\ (q = p <=> q[1] = p[1] /\ q[2] = p[2])
      OBVIOUS
    <3>2. <<q, p>> \in Lex(M) <=> q[1] < p[1] \/ (q[1] = p[1] /\ q[2] < p[2])
      BY DEF Lex
    <3> QED
      BY <3>1, <3>2
  <2>5. {q \in M : q[1] < p[1] \/ (q[1] = p[1] /\ q[2] <= p[2])}
          = Before(Lex(M), M, p) \cup {p}
    BY <2>4, Zenon DEF Before
  <2> QED
    BY <2>2, <2>3, <2>5
<1>3. /\ Cardinality(M) \in Nat
      /\ \A p \in M : Cardinality(Before(Lex(M), M, p)) \in 0 .. Cardinality(M) - 1
  BY <1>1, PlacesDiffer
<1>4. ASSUME NEW p \in M
      PROVE  place[p] = Cardinality(Before(Lex(M), M, p)) + 1
  <2>1. place[p] = Cardinality(Before(Lex(M), M, p) \cup {p})
    BY <1>2
  <2> QED
    BY <1>2, <2>1, FS_AddElement
<1>5. \A p \in M : place[p] \in 1 .. Cardinality(M)
  BY <1>3, <1>4
<1>6. ASSUME NEW p \in M, NEW q \in M, place[p] = place[q]
      PROVE  p = q
  <2>1. Cardinality(Before(Lex(M), M, p)) = Cardinality(Before(Lex(M), M, q))
    BY <1>3, <1>4, <1>6
  <2> QED
    BY <1>1, <2>1, PlacesTaken
<1> QED
  BY <1>3, <1>5, <1>6

LEMMA LinkPairsStep ==
    ASSUME AIInv, NEW n \in Nat, NEW ids, DOMAIN ids = 1 .. n,
           \A i, j \in 1 .. n : ids[i] = ids[j] => i = j,
           NEW pairs \in SUBSET Positions(ids), LinkPairs(ids, pairs)
    PROVE  AIInv'
<1> DEFINE M == Accepted(ids, pairs)
           c == Cardinality(M)
           place == [p \in M |-> Cardinality({q \in M :
                        q[1] < p[1] \/ (q[1] = p[1] /\ q[2] <= p[2])})]
           link(p) == [id |-> drawn + place[p], source_id |-> ids[p[1]], target_id |-> ids[p[2]]]
<1>1. /\ drawn \in Nat /\ Live \subseteq 1 .. drawn /\ edges \subseteq MemoryEdge
      /\ nodes \in [Live -> MemoryNode] /\ clock \in Nat
  BY DEF AIInv, IInv, TypeOK
<1>2. ASSUME NEW p \in M
      PROVE  /\ p[1] \in 1 .. n /\ p[2] \in 1 .. n /\ p = <<p[1], p[2]>> /\ p[1] < p[2]
             /\ ids[p[1]] \in Live /\ ids[p[2]] \in Live
             /\ ~Linked(ids[p[1]], ids[p[2]])
  BY DEF Accepted, Positions
<1>3. IsFiniteSet(M)
  <2>1. IsFiniteSet(1 .. n)
    BY FS_Interval
  <2>2. IsFiniteSet((1 .. n) \X (1 .. n))
    BY <2>1, FS_Product
  <2>3. M \in SUBSET ((1 .. n) \X (1 .. n))
    BY DEF Accepted, Positions
  <2> HIDE DEF M
  <2> QED
    BY <2>2, <2>3, FS_Subset
<1>4. /\ c \in Nat
      /\ \A p \in M : place[p] \in 1 .. c
      /\ \A p, q \in M : place[p] = place[q] => p = q
  <2>1. \A p \in M : p \in Int \X Int
    BY <1>2
  <2>2. \A p \in M : place[p] =
               Cardinality({q \in M : q[1] < p[1] \/ (q[1] = p[1] /\ q[2] <= p[2])})
    OBVIOUS
  <2> HIDE DEF M, place
  <2> QED
    BY <1>3, <2>1, <2>2, PlacesOfPairs
<1>5. /\ drawn' = drawn + c
      /\ edges' = edges \cup {link(p) : p \in M}
      /\ nodes' = nodes /\ clock' = clock /\ index' = index
  <2> HIDE DEF M
  <2>1. \A p \in M : place[p] =
               Cardinality({q \in M : q[1] < p[1] \/ (q[1] = p[1] /\ q[2] <= p[2])})
    OBVIOUS
  <2> DEFINE at(made, p) == Cardinality({q \in made : q[1] < p[1] \/ (q[1] = p[1] /\ q[2] <= p[2])})
             linkOf(made, p) ==
                 [id |-> drawn + at(made, p), source_id |-> ids[p[1]], target_id |-> ids[p[2]]]
             Made(made) == /\ drawn' = drawn + Cardinality(made)
                           /\ drawn' <= MaxDraws
                           /\ edges' = edges \cup {linkOf(made, p) : p \in made}
                           /\ UNCHANGED <<nodes, clock, index, mentions>>
  <2>2. \E made \in {M} : Made(made)
    BY DEF LinkPairs, M
  <2>3. Made(M)
    <3> HIDE DEF Made
    <3> QED
      BY <2>2
  <2>4. \A p \in M : linkOf(M, p) = link(p)
    <3> HIDE DEF place
    <3> QED
      BY <2>1
  <2>5. {linkOf(M, p) : p \in M} = {link(p) : p \in M}
    <3> HIDE DEF linkOf, link
    <3> QED
      BY <2>4
  <2> QED
    BY <2>3, <2>5
<1> HIDE DEF c, place
<1>6. Live' = Live
  BY <1>5 DEF Live
<1>7. ASSUME NEW p \in M
      PROVE  /\ link(p) \in MemoryEdge
             /\ link(p).id = drawn + place[p]
             /\ link(p).source_id = ids[p[1]] /\ link(p).target_id = ids[p[2]]
             /\ link(p).id > drawn /\ link(p).id <= drawn'
             /\ link(p).source_id # link(p).target_id
  <2>1. ids[p[1]] \in Nat /\ ids[p[2]] \in Nat /\ ids[p[1]] # ids[p[2]]
    BY <1>1, <1>2
  <2>2. place[p] \in Nat /\ place[p] > 0 /\ place[p] <= c
    BY <1>4
  <2> HIDE DEF M
  <2> QED
    BY <1>1, <1>4, <1>5, <2>1, <2>2 DEF MemoryEdge
<1>8. \A e \in edges' : e \in edges \/ \E p \in M : e = link(p)
  BY <1>5
<1>9. TypeOK'
  <2>1. edges' \subseteq MemoryEdge
    <3> HIDE DEF M, link
    <3> QED
      BY <1>1, <1>7, <1>8
  <2> QED
    BY <1>1, <1>4, <1>5, <1>6, <2>1 DEF TypeOK
<1>10. NodesOK' /\ DistinctTicks'
  BY <1>5, <1>6 DEF AIInv, IInv, NodesOK, DistinctTicks
<1>11. EdgesSound'
  <2>1. ASSUME NEW e \in edges'
        PROVE  /\ e.source_id \in Live' /\ e.target_id \in Live'
               /\ e.source_id # e.target_id
               /\ e.id <= drawn' /\ e.id \notin Live'
    <3>1. CASE e \in edges
      BY <1>1, <1>4, <1>5, <1>6, <3>1 DEF AIInv, IInv, EdgesSound, MemoryEdge
    <3>2. CASE e \notin edges
      <4>1. PICK p \in M : e = link(p)
        BY <1>8, <3>2
      <4>2. ids[p[1]] \in Live /\ ids[p[2]] \in Live
        BY <1>2
      <4>3. link(p).id \notin Live
        <5>1. link(p).id > drawn
          BY <1>7
        <5>2. \A i \in 1 .. drawn : ~(i > drawn)
          BY <1>1
        <5> HIDE DEF link
        <5> QED
          BY <1>1, <5>1, <5>2
      <4> HIDE DEF M, link
      <4> QED
        BY <1>6, <1>7, <4>1, <4>2, <4>3
    <3> QED
      BY <3>1, <3>2
  <2>2. ASSUME NEW e \in edges', NEW f \in edges',
               {e.source_id, e.target_id} = {f.source_id, f.target_id}
        PROVE  e = f
    <3>1. ASSUME NEW p \in M, NEW g \in edges
          PROVE  {g.source_id, g.target_id} # {link(p).source_id, link(p).target_id}
      BY <1>2, <1>7 DEF Linked
    <3>2. ASSUME NEW p \in M, NEW q \in M,
                 {link(p).source_id, link(p).target_id} = {link(q).source_id, link(q).target_id}
          PROVE  p = q
      <4>1. {ids[p[1]], ids[p[2]]} = {ids[q[1]], ids[q[2]]}
        BY <1>7, <3>2
      <4>2. \/ ids[p[1]] = ids[q[1]] /\ ids[p[2]] = ids[q[2]]
            \/ ids[p[1]] = ids[q[2]] /\ ids[p[2]] = ids[q[1]]
        BY <4>1
      <4>3. \/ p[1] = q[1] /\ p[2] = q[2]
            \/ p[1] = q[2] /\ p[2] = q[1]
        BY <1>2, <4>2
      <4>4. p[1] = q[1] /\ p[2] = q[2]
        BY <1>2, <4>3
      <4> QED
        BY <1>2, <4>4
    <3>3. \A g, h \in edges :
             {g.source_id, g.target_id} = {h.source_id, h.target_id} => g = h
      BY DEF AIInv, IInv, EdgesSound
    <3> HIDE DEF M, link
    <3> QED
      BY <1>8, <2>2, <3>1, <3>2, <3>3
  <2> QED
    BY <2>1, <2>2 DEF EdgesSound
<1>12. EdgeIdsDistinct'
  <2>1. \A e \in edges : e.id <= drawn /\ e.id \in Nat
    BY <1>1 DEF AIInv, IInv, EdgesSound, MemoryEdge
  <2>2. ASSUME NEW p \in M, NEW g \in edges
        PROVE  link(p).id # g.id
    <3>1. link(p).id > drawn /\ link(p).id \in Nat
      BY <1>7 DEF MemoryEdge
    <3> HIDE DEF link
    <3> QED
      BY <1>1, <2>1, <3>1
  <2>3. ASSUME NEW p \in M, NEW q \in M, link(p).id = link(q).id
        PROVE  p = q
    <3>1. place[p] = place[q]
      <4>1. drawn + place[p] = drawn + place[q] /\ place[p] \in Nat /\ place[q] \in Nat
        BY <1>4, <1>7, <2>3
      <4> QED
        BY <1>1, <4>1
    <3> QED
      BY <1>4, <3>1
  <2>4. \A g, h \in edges : g.id = h.id => g = h
    BY DEF AIInv, EdgeIdsDistinct
  <2> HIDE DEF M, link
  <2> QED
    BY <1>8, <2>2, <2>3, <2>4 DEF EdgeIdsDistinct
<1>13. IndexSound'
  <2>1. \A i \in 1 .. Len(index) : index[i].node_id \in Nat
    <3>1. \A i \in 1 .. Len(index) : index[i] \in Entry
      BY LenProperties DEF AIInv, IndexSound
    <3> QED
      BY <3>1 DEF Entry
  <2> QED
    BY <1>1, <1>4, <1>5, <2>1 DEF AIInv, IndexSound
<1> QED
  BY <1>9, <1>10, <1>11, <1>12, <1>13 DEF AIInv, IInv

-----------------------------------------------------------------------------
(* Pruning. *)

LEMMA CurvatureIsNumber ==
    ASSUME IInv, EdgeIdsDistinct, NEW e \in edges
    PROVE  /\ DegreeIn(edges, e.source_id) \in Nat
           /\ DegreeIn(edges, e.target_id) \in Nat
           /\ Curvature(e) \in Int
<1>1. ASSUME NEW n
      PROVE  DegreeIn(edges, n) \in Nat
  <2>1. {f \in edges : n \in Ends(f)} \in SUBSET edges
    OBVIOUS
  <2>2. IsFiniteSet({f \in edges : n \in Ends(f)})
    BY <2>1, FiniteLinks, FS_Subset
  <2> QED
    BY <2>2, FS_CardinalityType DEF DegreeIn
<1>2. NeighborsIn(edges, e.source_id) \in SUBSET Live
  BY DEF NeighborsIn, Ends, IInv, EdgesSound
<1> DEFINE triangles == NeighborsIn(edges, e.source_id) \cap NeighborsIn(edges, e.target_id)
<1>3. Cardinality(triangles) \in Nat
  <2>1. triangles \in SUBSET Live
    BY <1>2
  <2> HIDE DEF triangles
  <2>2. IsFiniteSet(triangles)
    BY <2>1, FiniteLive, FS_Subset
  <2> QED
    BY <2>2, FS_CardinalityType
<1>4. Curvature(e) = 4 - (DegreeIn(edges, e.source_id) + DegreeIn(edges, e.target_id))
                       + 3 * Cardinality(triangles)
  BY DEF Curvature
<1> HIDE DEF triangles
<1> QED
  BY <1>1, <1>3, <1>4

\* Most redundant first, equals by id.
Redundancy(score, C) ==
    {d \in C \X C : \/ score[d[1]] > score[d[2]]
                    \/ score[d[1]] = score[d[2]] /\ d[1].id < d[2].id}

LEMMA RedundancyOrders ==
    ASSUME NEW C, NEW score, \A e \in C : score[e] \in Int /\ e.id \in Int,
           \A e, f \in C : e.id = f.id => e = f
    PROVE  IsOrder(Redundancy(score, C), C)
<1>1. \A e, f \in C : <<e, f>> \in Redundancy(score, C)
                        <=> score[e] > score[f] \/ (score[e] = score[f] /\ e.id < f.id)
  BY DEF Redundancy
<1>2. \A e \in C : <<e, e>> \notin Redundancy(score, C)
  BY <1>1
<1>3. ASSUME NEW e \in C, NEW f \in C, e # f
      PROVE  <<e, f>> \in Redundancy(score, C) \/ <<f, e>> \in Redundancy(score, C)
  <2>1. e.id # f.id
    BY <1>3
  <2> QED
    BY <1>1, <2>1
<1>4. ASSUME NEW e \in C, NEW f \in C, NEW g \in C,
             <<e, f>> \in Redundancy(score, C), <<f, g>> \in Redundancy(score, C)
      PROVE  <<e, g>> \in Redundancy(score, C)
  <2>1. /\ score[e] > score[f] \/ (score[e] = score[f] /\ e.id < f.id)
        /\ score[f] > score[g] \/ (score[f] = score[g] /\ f.id < g.id)
    BY <1>1, <1>4
  <2>2. score[e] > score[g] \/ (score[e] = score[g] /\ e.id < g.id)
    BY <2>1
  <2> QED
    BY <1>1, <2>2
<1> QED
  BY <1>2, <1>3, <1>4 DEF IsOrder

\* The candidates are links above the threshold.
LEMMA CandidatesAreRedundant ==
    ASSUME IInv, EdgeIdsDistinct, NEW min
    PROVE  Redundant(min) \in Seq({e \in edges : Curvature(e) > min})
<1> DEFINE score == [e \in edges |-> Curvature(e)]
           C == {e \in edges : score[e] > min}
           B(e) == {f \in C : score[f] > score[e] \/ (score[f] = score[e] /\ f.id < e.id)}
           N == Cardinality(C)
           order == [r \in 1 .. N |-> CHOOSE e \in C : Cardinality(B(e)) = r - 1]
<1>1. /\ C \in SUBSET edges
      /\ \A e \in C : score[e] \in Int /\ e.id \in Int
      /\ \A e, f \in C : e.id = f.id => e = f
  BY CurvatureIsNumber DEF EdgeIdsDistinct, IInv, TypeOK, MemoryEdge
<1>2. C = {e \in edges : Curvature(e) > min}
  OBVIOUS
<1>3. Redundant(min) = order
  BY DEF Redundant, InOrder
<1> HIDE DEF score, C
<1>4. IsFiniteSet(C)
  BY <1>1, FiniteLinks, FS_Subset
<1>5. IsOrder(Redundancy(score, C), C)
  BY <1>1, RedundancyOrders
<1>6. \A e \in C : B(e) = Before(Redundancy(score, C), C, e)
  BY DEF Redundancy, Before
<1>7. N \in Nat
  BY <1>4, FS_CardinalityType
<1>8. ASSUME NEW r \in 1 .. N
      PROVE  order[r] \in C
  <2> HIDE DEF B
  <2>1. \E e \in C : Cardinality(B(e)) = r - 1
    <3>1. PICK e \in C : Cardinality(Before(Redundancy(score, C), C, e)) = r - 1
      <4> HIDE DEF order
      <4> QED
        BY <1>4, <1>5, PlacesTaken, SMT
    <3>2. B(e) = Before(Redundancy(score, C), C, e)
      BY <1>6
    <3> QED
      BY <3>1, <3>2
  <2> QED
    BY <2>1
<1>9. order \in [1 .. N -> C]
  <2> DEFINE e(r) == CHOOSE e \in C : Cardinality(B(e)) = r - 1
  <2>1. order = [r \in 1 .. N |-> e(r)]
    OBVIOUS
  <2> HIDE DEF e, order
  <2> QED
    BY <1>8, <2>1
<1> HIDE DEF order, N
<1> QED
  BY <1>2, <1>3, <1>7, <1>9, FunctionIsSequence

\* What pruning leaves after some of its candidates.
PrunedSoFar(left, min) ==
    /\ left \in SUBSET edges
    /\ \A n : DegreeIn(edges, n) > 0 => DegreeIn(left, n) > 0
    /\ \A e \in edges \ left : /\ Curvature(e) > min
                               /\ \A n \in Ends(e) : DegreeIn(edges, n) > 1

LEMMA OneCandidate ==
    ASSUME IInv, EdgeIdsDistinct, NEW min, NEW left, PrunedSoFar(left, min),
           NEW e \in {f \in edges : Curvature(f) > min}
    PROVE  PrunedSoFar(IF \A n \in Ends(e) : DegreeIn(left, n) > 1
                       THEN left \ {e} ELSE left, min)
<1> DEFINE At(es, n) == {f \in es : n \in Ends(f)}
<1>1. SUFFICES ASSUME \A n \in Ends(e) : DegreeIn(left, n) > 1
               PROVE  PrunedSoFar(left \ {e}, min)
  OBVIOUS
<1>2. left \in SUBSET edges /\ IsFiniteSet(edges)
  BY FiniteLinks DEF PrunedSoFar
<1>3. ASSUME NEW n
      PROVE  /\ IsFiniteSet(At(edges, n)) /\ IsFiniteSet(At(left, n))
             /\ DegreeIn(left, n) \in Nat /\ DegreeIn(edges, n) \in Nat
             /\ DegreeIn(left, n) <= DegreeIn(edges, n)
  <2>1. At(edges, n) \in SUBSET edges /\ At(left, n) \in SUBSET At(edges, n)
    BY <1>2
  <2>2. DegreeIn(left, n) = Cardinality(At(left, n)) /\ DegreeIn(edges, n) = Cardinality(At(edges, n))
    BY DEF DegreeIn
  <2> HIDE DEF At
  <2>3. IsFiniteSet(At(edges, n))
    BY <1>2, <2>1, FS_Subset
  <2>4. /\ IsFiniteSet(At(left, n))
        /\ Cardinality(At(left, n)) <= Cardinality(At(edges, n))
    BY <2>1, <2>3, FS_Subset
  <2> QED
    BY <2>2, <2>3, <2>4, FS_CardinalityType
<1>4. ASSUME NEW n, DegreeIn(edges, n) > 0
      PROVE  DegreeIn(left \ {e}, n) > 0
  <2>1. DegreeIn(left, n) > 0
    BY <1>4 DEF PrunedSoFar
  <2>2. CASE n \notin Ends(e)
    <3>1. At(left \ {e}, n) = At(left, n)
      BY <2>2
    <3> QED
      BY <2>1, <3>1 DEF DegreeIn
  <2>3. CASE n \in Ends(e)
    <3>1. At(left \ {e}, n) = At(left, n) \ {e}
      OBVIOUS
    <3>2. DegreeIn(left, n) > 1
      BY <1>1, <2>3
    <3>3. Cardinality(At(left, n) \ {e}) >= Cardinality(At(left, n)) - 1
      <4>1. IsFiniteSet(At(left, n)) /\ DegreeIn(left, n) = Cardinality(At(left, n))
        BY <1>3 DEF DegreeIn
      <4>2. Cardinality(At(left, n)) \in Nat
        BY <1>3, <4>1
      <4> HIDE DEF At
      <4> QED
        BY <4>1, <4>2, FS_RemoveElement
    <3>4. DegreeIn(left, n) = Cardinality(At(left, n))
          /\ DegreeIn(left \ {e}, n) = Cardinality(At(left \ {e}, n))
      BY DEF DegreeIn
    <3>5. DegreeIn(left \ {e}, n) >= DegreeIn(left, n) - 1
      <4> HIDE DEF At
      <4> QED
        BY <3>1, <3>3, <3>4
    <3>6. DegreeIn(left, n) \in Nat /\ DegreeIn(left \ {e}, n) \in Nat
      <4>1. IsFiniteSet(At(left, n) \ {e})
        BY <1>3, FS_RemoveElement
      <4>2. Cardinality(At(left, n) \ {e}) \in Nat
        BY <4>1, FS_CardinalityType
      <4> HIDE DEF At
      <4> QED
        BY <1>3, <3>1, <3>4, <4>2
    <3> QED
      BY <3>2, <3>5, <3>6
  <2> QED
    BY <2>2, <2>3
<1>5. ASSUME NEW f \in edges \ (left \ {e})
      PROVE  /\ Curvature(f) > min
             /\ \A n \in Ends(f) : DegreeIn(edges, n) > 1
  <2>1. CASE f \notin left
    BY <2>1 DEF PrunedSoFar
  <2>2. CASE f = e
    <3>1. Curvature(f) > min
      BY <2>2
    <3>2. ASSUME NEW n \in Ends(f)
          PROVE  DegreeIn(edges, n) > 1
      <4>1. DegreeIn(left, n) > 1
        BY <1>1, <2>2
      <4> HIDE DEF At
      <4> QED
        BY <1>3, <4>1
    <3> QED
      BY <3>1, <3>2
  <2> QED
    BY <2>1, <2>2
<1> QED
  BY <1>2, <1>4, <1>5 DEF PrunedSoFar

LEMMA PruningEnds ==
    ASSUME IInv, EdgeIdsDistinct, NEW min
    PROVE  PrunedSoFar(Pruned(min), min)
<1> DEFINE candidates == Redundant(min)
           N == Len(candidates)
           After(before, i) == IF \A n \in Ends(candidates[i]) : DegreeIn(before, n) > 1
                               THEN before \ {candidates[i]}
                               ELSE before
           left == CHOOSE left : left = [i \in 0 .. N |-> IF i = 0 THEN edges ELSE After(left[i - 1], i)]
           T == {i \in 0 .. N : ~PrunedSoFar(left[i], min)}
<1>1. candidates \in Seq({e \in edges : Curvature(e) > min})
  BY CandidatesAreRedundant
<1>2. /\ N \in Nat
      /\ \A i \in 1 .. N : candidates[i] \in {e \in edges : Curvature(e) > min}
  <2> DEFINE C == {e \in edges : Curvature(e) > min}
  <2> HIDE DEF C, candidates
  <2>1. candidates \in Seq(C)
    BY <1>1 DEF C
  <2> QED
    BY <2>1, LenProperties DEF C
<1>3. Pruned(min) = left[N]
  BY DEF Pruned
<1> HIDE DEF candidates, N
<1>4. left = [i \in 0 .. N |-> IF i = 0 THEN edges ELSE After(left[i - 1], i)]
  <2> DEFINE step == [p \in (SUBSET edges) \X (1 .. N) |-> After(p[1], p[2])]
  <2>1. step \in [(SUBSET edges) \X (1 .. N) -> SUBSET edges]
    OBVIOUS
  <2>2. edges \in SUBSET edges
    OBVIOUS
  <2> HIDE DEF step
  <2>3. PICK f \in [0 .. N -> SUBSET edges] : Iterates(f, N, edges, step)
    BY <1>2, <2>1, <2>2, Iteration
  <2>4. /\ f[0] = edges
        /\ \A i \in 1 .. N : f[i] = step[<<f[i - 1], i>>]
    BY <2>3 DEF Iterates
  <2>5. ASSUME NEW i \in 0 .. N
        PROVE  f[i] = IF i = 0 THEN edges ELSE After(f[i - 1], i)
    <3>1. CASE i = 0
      BY <2>4, <3>1
    <3>2. CASE i # 0
      <4>1. i \in 1 .. N /\ i - 1 \in 0 .. N
        BY <1>2, <3>2
      <4>2. f[i - 1] \in SUBSET edges
        BY <4>1
      <4>3. f[i] = step[<<f[i - 1], i>>] /\ <<f[i - 1], i>> \in (SUBSET edges) \X (1 .. N)
        BY <2>4, <4>1, <4>2
      <4>4. step[<<f[i - 1], i>>] = After(f[i - 1], i)
        <5> HIDE DEF After
        <5> QED
          BY <4>3 DEF step
      <4> QED
        BY <3>2, <4>3, <4>4
    <3> QED
      BY <3>1, <3>2
  <2> HIDE DEF After
  <2>6. f = [i \in 0 .. N |-> f[i]]
    OBVIOUS
  <2>7. f = [i \in 0 .. N |-> IF i = 0 THEN edges ELSE After(f[i - 1], i)]
    BY <2>5, <2>6, Zenon
  <2> QED
    BY <2>7, Zenon
<1> HIDE DEF left
<1>5. PrunedSoFar(left[0], min)
  <2>1. left[0] = edges
    BY <1>2, <1>4
  <2> QED
    BY <2>1 DEF PrunedSoFar
<1>6. ASSUME NEW i \in 1 .. N, PrunedSoFar(left[i - 1], min)
      PROVE  PrunedSoFar(left[i], min)
  <2>1. left[i] = After(left[i - 1], i)
    <3> HIDE DEF After
    <3>1. i \in 0 .. N /\ i # 0
      BY <1>2
    <3> QED
      BY <1>4, <3>1, Zenon
  <2>2. candidates[i] \in {e \in edges : Curvature(e) > min}
    BY <1>2
  <2>3. PrunedSoFar(After(left[i - 1], i), min)
    BY <1>6, <2>2, OneCandidate, Zenon
  <2> QED
    BY <2>1, <2>3
<1>7. T = {}
  <2>1. SUFFICES ASSUME T # {}
                 PROVE  FALSE
    OBVIOUS
  <2>2. PICK i \in T : \A j \in T : i <= j
    <3>1. T \in SUBSET Nat
      BY <1>2
    <3> HIDE DEF T
    <3> QED
      BY <2>1, <3>1, LeastNumber
  <2>3. i \in 1 .. N /\ ~PrunedSoFar(left[i], min)
    BY <1>2, <1>5, <2>2
  <2>4. PrunedSoFar(left[i - 1], min)
    BY <1>2, <2>2, <2>3
  <2> QED
    BY <1>6, <2>3, <2>4
<1> QED
  BY <1>2, <1>3, <1>7

-----------------------------------------------------------------------------
(* The invariant holds. *)

\* A step that only drops links keeps it.
LEMMA DropStep ==
    ASSUME AIInv, edges' \in SUBSET edges, UNCHANGED <<nodes, clock, drawn, index>>
    PROVE  AIInv'
<1>1. Live' = Live
  BY DEF Live
<1>2. TypeOK' /\ NodesOK' /\ DistinctTicks'
  BY <1>1 DEF AIInv, IInv, TypeOK, NodesOK, DistinctTicks
<1>3. EdgesSound'
  BY <1>1 DEF AIInv, IInv, EdgesSound
<1>4. EdgeIdsDistinct'
  BY DEF AIInv, EdgeIdsDistinct
<1>5. IndexSound'
  BY DEF AIInv, IndexSound
<1> QED
  BY <1>2, <1>3, <1>4, <1>5 DEF AIInv, IInv

LEMMA IndexEntries ==
    ASSUME IndexSound
    PROVE  /\ Len(index) \in Nat /\ DOMAIN index = 1 .. Len(index)
           /\ \A i \in 1 .. Len(index) : index[i] \in Entry /\ index[i].node_id \in Nat
<1>1. Len(index) \in Nat /\ DOMAIN index = 1 .. Len(index)
      /\ \A i \in 1 .. Len(index) : index[i] \in Entry
  BY LenProperties DEF IndexSound
<1> QED
  BY <1>1 DEF Entry

LEMMA RememberStep ==
    ASSUME AIInv, NEW s \in Sources, NEW level \in Levels, NEW fact \in Facts,
           Remember(s, level, fact)
    PROVE  AIInv'
<1> DEFINE new == [node_id |-> drawn + 1, vector |-> fact.vector]
           n == Len(index)
<1>1. CreateNode(s, level) /\ level \in CanonLevel
  BY NexusAssumption DEF Remember
<1>2. IInv'
  BY <1>1, CreateNodeStep DEF AIInv
<1>3. EdgeIdsDistinct'
  BY <1>1 DEF AIInv, EdgeIdsDistinct, CreateNode
<1>4. IndexSound'
  <2>1. /\ drawn \in Nat /\ drawn' = drawn + 1
        /\ index \in Seq(Entry) /\ n \in Nat
        /\ \A i \in 1 .. n : index[i].node_id <= drawn /\ index[i].node_id \in Nat
        /\ \A i, j \in 1 .. n : index[i].node_id = index[j].node_id => i = j
    BY <1>1, IndexEntries DEF AIInv, IInv, TypeOK, IndexSound, CreateNode
  <2>2. new \in Entry /\ new.node_id = drawn + 1
    BY <2>1 DEF Entry
  <2>3. index' = Append(index, new)
    BY DEF Remember
  <2> HIDE DEF new, n
  <2>4. /\ index' \in Seq(Entry) /\ Len(index') = n + 1
        /\ \A i \in 1 .. n : index'[i] = index[i]
        /\ index'[n + 1] = new
    BY <2>1, <2>2, <2>3, AppendProperties DEF n
  <2>5. \A i \in 1 .. n + 1 : i \in 1 .. n \/ i = n + 1
    BY <2>1
  <2>6. \A i \in 1 .. n + 1 : index'[i].node_id <= drawn'
    BY <2>1, <2>2, <2>4, <2>5
  <2>7. ASSUME NEW i \in 1 .. n + 1, NEW j \in 1 .. n + 1, index'[i].node_id = index'[j].node_id
        PROVE  i = j
    <3>1. \A m \in 1 .. n : index'[m].node_id # drawn + 1
      BY <2>1, <2>4
    <3> QED
      BY <2>1, <2>2, <2>4, <2>5, <2>7, <3>1
  <2> QED
    BY <2>4, <2>6, <2>7 DEF IndexSound
<1> QED
  BY <1>2, <1>3, <1>4 DEF AIInv

LEMMA LinkByHandStep ==
    ASSUME AIInv, NEW a \in Live, NEW b \in Live, AddEdge(a, b), UNCHANGED <<index, mentions>>
    PROVE  AIInv'
<1> DEFINE new == [id |-> drawn + 1, source_id |-> a, target_id |-> b]
<1>1. IInv'
  BY AddEdgeStep DEF AIInv
<1>2. drawn \in Nat /\ drawn' = drawn + 1 /\ edges' = edges \cup {new} /\ new.id = drawn + 1
  BY DEF AIInv, IInv, TypeOK, AddEdge
<1>3. EdgeIdsDistinct'
  <2>1. \A e \in edges : e.id \in Nat /\ e.id <= drawn
    BY DEF AIInv, IInv, TypeOK, EdgesSound, MemoryEdge
  <2>2. \A e \in edges : e.id # drawn + 1
    BY <1>2, <2>1
  <2> HIDE DEF new
  <2> QED
    BY <1>2, <2>2 DEF AIInv, EdgeIdsDistinct
<1>4. IndexSound'
  BY <1>2, IndexEntries DEF AIInv, IndexSound
<1> QED
  BY <1>1, <1>3, <1>4 DEF AIInv

LEMMA ForgetStep ==
    ASSUME AIInv, NEW max \in Capacities, Forget(max)
    PROVE  AIInv'
<1>1. EnforceCapacity(max) /\ index' = index
  BY DEF Forget
<1>2. IInv'
  BY <1>1, EnforceCapacityStep DEF AIInv
<1>3. edges' \in SUBSET edges /\ drawn' = drawn
  BY <1>1, Eviction
<1>4. EdgeIdsDistinct'
  BY <1>3 DEF AIInv, EdgeIdsDistinct
<1>5. IndexSound'
  BY <1>1, <1>3 DEF AIInv, IndexSound
<1> QED
  BY <1>2, <1>4, <1>5 DEF AIInv

\* Survivors of retain_ids are entries of the index, none of them twice.
LEMMA RetainStep ==
    ASSUME AIInv, Retain
    PROVE  AIInv'
<1> DEFINE P == {i \in DOMAIN index : index[i].node_id \in Live}
           c == Cardinality(P)
<1>1. /\ Len(index) \in Nat /\ DOMAIN index = 1 .. Len(index)
      /\ \A i \in 1 .. Len(index) : index[i] \in Entry
  BY IndexEntries DEF AIInv
<1>2. IsFiniteSet(P) /\ \A i \in P : i \in Int
  <2>1. P \in SUBSET (1 .. Len(index)) /\ IsFiniteSet(1 .. Len(index))
    BY <1>1, FS_Interval
  <2>2. \A i \in P : i \in Int
    BY <1>1
  <2> HIDE DEF P
  <2> QED
    BY <2>1, <2>2, FS_Subset
<1>3. index' = Picked(index, P)
  BY DEF Retain, RetainIds
<1> HIDE DEF P
<1>4. PICK t : Lists(t, P, Less(P)) /\ Visits(Picked(index, P), index, t, c)
  BY <1>2, PickedLists
<1>5. c \in Nat
  BY <1>2, FS_CardinalityType
<1>6. /\ t \in [1 .. c -> P]
      /\ \A q, r \in 1 .. c : t[q] = t[r] => q = r
  <2>1. IsOrder(Less(P), P)
    BY <1>2, LessOrders
  <2> QED
    BY <1>2, <1>4, <2>1, ListedInPlace DEF Lists
<1>7. \A r \in 1 .. c : t[r] \in 1 .. Len(index)
  BY <1>1, <1>6 DEF P
<1> HIDE DEF c
<1>8. index' \in [1 .. c -> Entry] /\ \A r \in 1 .. c : index'[r] = index[t[r]]
  BY <1>1, <1>3, <1>4, <1>7 DEF Visits
<1>9. index' \in Seq(Entry) /\ Len(index') = c
  BY <1>5, <1>8, FunctionIsSequence
<1>10. IndexSound'
  <2>1. drawn' = drawn
    BY DEF Retain, vars
  <2>2. \A r \in 1 .. c : index'[r].node_id <= drawn'
    BY <1>7, <1>8, <2>1 DEF AIInv, IndexSound
  <2>3. \A q, r \in 1 .. c : index'[q].node_id = index'[r].node_id => q = r
    BY <1>6, <1>7, <1>8 DEF AIInv, IndexSound
  <2> QED
    BY <1>9, <2>2, <2>3 DEF IndexSound
<1>11. IInv' /\ EdgeIdsDistinct'
  <2>1. UNCHANGED vars
    BY DEF Retain
  <2>2. IInv'
    BY <2>1 DEF vars, AIInv, IInv, TypeOK, NodesOK, DistinctTicks, EdgesSound, Live
  <2> QED
    BY <2>1, <2>2 DEF vars, AIInv, EdgeIdsDistinct
<1> QED
  BY <1>10, <1>11 DEF AIInv

LEMMA LinkIndexedStep ==
    ASSUME AIInv, NEW pairs \in SUBSET Positions(IndexIds), LinkPairs(IndexIds, pairs)
    PROVE  AIInv'
<1>1. Len(index) \in Nat /\ DOMAIN IndexIds = 1 .. Len(index)
  BY IndexEntries DEF AIInv, IndexIds
<1>2. \A i, j \in 1 .. Len(index) : IndexIds[i] = IndexIds[j] => i = j
  BY <1>1 DEF AIInv, IndexSound, IndexIds
<1> QED
  BY <1>1, <1>2, LinkPairsStep

LEMMA LinkByEntitiesStep ==
    ASSUME AIInv, NEW freq, NEW shared, LinkByEntities(freq, shared)
    PROVE  AIInv'
<1> DEFINE n == Cardinality(Live)
<1>1. n \in Nat
  BY FiniteLive, FS_CardinalityType DEF AIInv
<1>2. PICK ids \in SetToSeqs(Live) :
          LinkPairs(ids, {p \in Positions(ids) :
                             Cardinality(Shared(ids[p[1]], ids[p[2]], freq)) >= shared})
  BY DEF LinkByEntities
<1>3. ids \in [1 .. n -> Live] /\ \A i, j \in 1 .. n : i # j => ids[i] # ids[j]
  BY DEF SetToSeqs
<1> HIDE DEF n
<1>4. DOMAIN ids = 1 .. n /\ \A i, j \in 1 .. n : ids[i] = ids[j] => i = j
  BY <1>3
<1> DEFINE pairs == {p \in Positions(ids) :
                        Cardinality(Shared(ids[p[1]], ids[p[2]], freq)) >= shared}
<1>5. pairs \in SUBSET Positions(ids) /\ LinkPairs(ids, pairs)
  BY <1>2
<1> HIDE DEF pairs
<1> QED
  BY <1>1, <1>4, <1>5, LinkPairsStep

LEMMA PruneStep ==
    ASSUME AIInv, NEW min, Prune(min)
    PROVE  AIInv'
<1>1. Pruned(min) \in SUBSET edges
  BY PruningEnds DEF AIInv, PrunedSoFar
<1> QED
  BY <1>1, DropStep DEF Prune

LEMMA StepAIInv == AIInv /\ [ANext]_avars => AIInv'
<1> SUFFICES ASSUME AIInv, [ANext]_avars
             PROVE  AIInv'
  OBVIOUS
<1>1. ASSUME NEW s \in Sources, NEW level \in Levels, NEW fact \in Facts,
             Remember(s, level, fact)
      PROVE  AIInv'
  BY <1>1, RememberStep
<1>2. ASSUME NEW a \in Live, NEW b \in Live, AddEdge(a, b), UNCHANGED <<index, mentions>>
      PROVE  AIInv'
  BY <1>2, LinkByHandStep
<1>3. ASSUME NEW max \in Capacities, Forget(max)
      PROVE  AIInv'
  BY <1>3, ForgetStep
<1>4. CASE Retain
  BY <1>4, RetainStep
<1>5. ASSUME NEW threshold \in Cosines, LinkSemantic(threshold)
      PROVE  AIInv'
  <2>1. SimilarPairs(threshold) \in SUBSET Positions(IndexIds)
    BY DEF SimilarPairs
  <2> QED
    BY <1>5, <2>1, LinkIndexedStep DEF LinkSemantic
<1>6. ASSUME NEW threshold \in Cosines, LinkSemanticLsh(threshold)
      PROVE  AIInv'
  <2>1. PICK met \in Meetings : LinkPairs(IndexIds, MatchedPairs(threshold, met))
    BY <1>6 DEF LinkSemanticLsh
  <2>2. MatchedPairs(threshold, met) \in SUBSET Positions(IndexIds)
    BY DEF MatchedPairs
  <2> QED
    BY <2>1, <2>2, LinkIndexedStep
<1>7. ASSUME NEW limits \in EntityLimits, LinkByEntities(limits[1], limits[2])
      PROVE  AIInv'
  BY <1>7, LinkByEntitiesStep
<1>8. ASSUME NEW min \in Curvatures, Prune(min)
      PROVE  AIInv'
  BY <1>8, PruneStep
<1>9. CASE UNCHANGED avars
  <2>1. edges' \in SUBSET edges /\ UNCHANGED <<nodes, clock, drawn, index>>
    BY <1>9 DEF avars, vars
  <2> QED
    BY <2>1, DropStep
<1> QED
  BY <1>1, <1>2, <1>3, <1>4, <1>5, <1>6, <1>7, <1>8, <1>9 DEF ANext

\* The conjunction above holds in every reachable state.
THEOREM AssociationsInvariance == ASpec => []AIInv
BY InitAIInv, StepAIInv, PTL DEF ASpec

\* Bulk linking, from embeddings, by buckets or by shared names, keeps what
\* linking by hand keeps: no self-loop, no pair linked twice, no dangling end,
\* no id that is a node's (link_pairs through add_edge; enforce_capacity drops the
\* links of what it evicts).
THEOREM LinksStaySound == ASpec => []EdgesSound
<1>1. AIInv => EdgesSound
  BY DEF AIInv, IInv
<1> QED
  BY <1>1, AssociationsInvariance, PTL

-----------------------------------------------------------------------------
(* What pruning spares. *)

\* Whatever the threshold and however many links of a node are redundant, a
\* node that had a link keeps one (prune_redundant_edges keeps its degrees up
\* to date as links go).
THEOREM PruningIsolatesNobody == ASpec => []NobodyIsolated
<1>1. AIInv => NobodyIsolated
  BY PruningEnds DEF AIInv, NobodyIsolated, PrunedSoFar
<1> QED
  BY <1>1, AssociationsInvariance, PTL

LEMMA TwoElements ==
    ASSUME NEW x, NEW y, x # y
    PROVE  Cardinality({x} \cup {y}) = 2
<1> DEFINE one == {x}
<1>1. IsFiniteSet(one) /\ Cardinality(one) = 1
  BY FS_Singleton
<1>2. y \notin one
  OBVIOUS
<1> HIDE DEF one
<1>3. Cardinality(one \cup {y}) = Cardinality(one) + 1
  BY <1>1, <1>2, FS_AddElement
<1>4. Cardinality(one \cup {y}) = 2
  BY <1>1, <1>3
<1> QED
  BY <1>4 DEF one

\* A link crosses where one of its ends is inside and the other is not.
LEMMA CrossingEnds ==
    ASSUME NEW e, NEW side, e.source_id # e.target_id
    PROVE  Crosses(e, side) <=> (e.source_id \in side <=> e.target_id \notin side)
<1> DEFINE a == e.source_id
           b == e.target_id
<1>1. CASE a \in side /\ b \in side
  <2>1. Ends(e) \cap side = {a} \cup {b}
    BY <1>1 DEF Ends
  <2>3. Cardinality({a} \cup {b}) = 2
    BY TwoElements
  <2> QED
    BY <1>1, <2>1, <2>3 DEF Crosses
<1>2. CASE a \notin side /\ b \notin side
  <2>1. Ends(e) \cap side = {}
    BY <1>2 DEF Ends
  <2> QED
    BY <1>2, <2>1, FS_EmptySet DEF Crosses
<1>3. CASE a \in side /\ b \notin side
  <2>1. Ends(e) \cap side = {a}
    BY <1>3 DEF Ends
  <2> QED
    BY <1>3, <2>1, FS_Singleton DEF Crosses
<1>4. CASE a \notin side /\ b \in side
  <2>1. Ends(e) \cap side = {b}
    BY <1>4 DEF Ends
  <2> QED
    BY <1>4, <2>1, FS_Singleton DEF Crosses
<1> QED
  BY <1>1, <1>2, <1>3, <1>4

\* Neighbours are the nodes at the other end of a link.
LEMMA NeighborLinks ==
    ASSUME NEW es, NEW n, NEW w
    PROVE  w \in NeighborsIn(es, n) <=> w # n /\ \E f \in es : n \in Ends(f) /\ w \in Ends(f)
<1> DEFINE At == {f \in es : n \in Ends(f)}
<1>1. NeighborsIn(es, n) = (UNION {Ends(e) : e \in At}) \ {n}
  BY DEF NeighborsIn
<1>2. w \in UNION {Ends(e) : e \in At} <=> \E f \in At : w \in Ends(f)
  <2> HIDE DEF At
  <2> QED
    OBVIOUS
<1>3. (\E f \in At : w \in Ends(f)) <=> \E f \in es : n \in Ends(f) /\ w \in Ends(f)
  OBVIOUS
<1> HIDE DEF At
<1> QED
  BY <1>1, <1>2, <1>3

\* A third node linked to both ends of a bridge would cross where the bridge
\* does.
LEMMA NoTriangleOnABridge ==
    ASSUME IInv, NEW e \in edges, IsBridge(e)
    PROVE  NeighborsIn(edges, e.source_id) \cap NeighborsIn(edges, e.target_id) = {}
<1>1. SUFFICES ASSUME NEW w \in NeighborsIn(edges, e.source_id), w \in NeighborsIn(edges, e.target_id)
               PROVE  FALSE
  OBVIOUS
<1>2. PICK side \in SUBSET Live : /\ Crosses(e, side)
                                  /\ \A f \in edges \ {e} : ~Crosses(f, side)
  BY DEF IsBridge
<1>3. \A f \in edges : f.source_id # f.target_id
  BY DEF IInv, EdgesSound
<1>4. PICK f \in edges : /\ e.source_id \in Ends(f) /\ w \in Ends(f)
                         /\ w # e.source_id
  BY <1>1, NeighborLinks
<1>5. PICK g \in edges : /\ e.target_id \in Ends(g) /\ w \in Ends(g)
                         /\ w # e.target_id
  BY <1>1, NeighborLinks
<1>6. f # e /\ g # e
  BY <1>4, <1>5 DEF Ends
<1>7. (e.source_id \in side <=> w \in side) /\ (e.target_id \in side <=> w \in side)
  BY <1>2, <1>3, <1>4, <1>5, <1>6, CrossingEnds DEF Ends
<1> QED
  BY <1>2, <1>3, <1>7, CrossingEnds

\* With a threshold of at least 0 pruning cuts no link that is the only one
\* between its sides: without triangles curvature is 4 minus the degrees of
\* two ends that each keep another link, so at most 0 (prune_redundant_edges,
\* "a bridge/bottleneck between clusters - structurally load-bearing, KEPT").
THEOREM PruningCutsNoBridge == ASpec => []BridgesKept
<1>1. ASSUME AIInv, NEW min \in Curvatures, min >= 0, NEW e \in edges \ Pruned(min), IsBridge(e)
      PROVE  FALSE
  <2>1. /\ Curvature(e) > min
        /\ \A n \in Ends(e) : DegreeIn(edges, n) > 1
    BY <1>1, PruningEnds DEF AIInv, PrunedSoFar
  <2>2. NeighborsIn(edges, e.source_id) \cap NeighborsIn(edges, e.target_id) = {}
    BY <1>1, NoTriangleOnABridge DEF AIInv
  <2>3. Curvature(e) = 4 - (DegreeIn(edges, e.source_id) + DegreeIn(edges, e.target_id)) + 3 * 0
    BY <2>2, FS_EmptySet DEF Curvature
  <2>4. /\ DegreeIn(edges, e.source_id) \in Nat /\ DegreeIn(edges, e.target_id) \in Nat
        /\ DegreeIn(edges, e.source_id) > 1 /\ DegreeIn(edges, e.target_id) > 1
    BY <1>1, <2>1, CurvatureIsNumber DEF AIInv, Ends
  <2>5. min \in Int /\ Curvature(e) \in Int
    BY <1>1, CurvatureIsNumber, AssociationAssumption DEF AIInv
  <2> QED
    BY <1>1, <2>1, <2>3, <2>4, <2>5
<1>2. AIInv => BridgesKept
  BY <1>1 DEF BridgesKept
<1> QED
  BY <1>2, AssociationsInvariance, PTL

-----------------------------------------------------------------------------
(* Expansion. *)

Around(F) == UNION {NeighborsIn(edges, n) : n \in F}
Touching(W) == UNION {Ends(e) : e \in {f \in edges : Ends(f) \cap W # {}}}

LEMMA AroundIs ==
    ASSUME NEW F, NEW w
    PROVE  w \in Around(F) <=> \E n \in F : \E f \in edges : w # n /\ n \in Ends(f) /\ w \in Ends(f)
<1>1. w \in Around(F) <=> \E n \in F : w \in NeighborsIn(edges, n)
  BY DEF Around
<1>2. \A n \in F : w \in NeighborsIn(edges, n)
                      <=> w # n /\ \E f \in edges : n \in Ends(f) /\ w \in Ends(f)
  BY NeighborLinks
<1> QED
  BY <1>1, <1>2

LEMMA TouchingIs ==
    ASSUME NEW W, NEW w
    PROVE  w \in Touching(W) <=> \E f \in edges : w \in Ends(f) /\ \E n \in W : n \in Ends(f)
<1> DEFINE At == {f \in edges : Ends(f) \cap W # {}}
<1>1. w \in Touching(W) <=> \E f \in At : w \in Ends(f)
  <2>1. Touching(W) = UNION {Ends(e) : e \in At}
    BY DEF Touching
  <2> HIDE DEF At
  <2> QED
    BY <2>1
<1>2. \A f \in edges : f \in At <=> \E n \in W : n \in Ends(f)
  OBVIOUS
<1>3. \A f \in At : f \in edges
  OBVIOUS
<1> HIDE DEF At
<1> QED
  BY <1>1, <1>2, <1>3

\* Where an expansion stands: what it has seen is the ball around its seeds,
\* all of it stored, and whatever it has seen and left behind has no unseen
\* neighbour.
Spread(turn, ball) ==
    /\ turn.seen = ball
    /\ ball \subseteq Live
    /\ turn.frontier \subseteq ball
    /\ \A n \in ball \ turn.frontier : NeighborsIn(edges, n) \subseteq ball

NextTurn(turn) ==
    [seen |-> turn.seen \cup Around(turn.frontier),
     frontier |-> Around(turn.frontier) \ turn.seen]

LEMMA OneTurn ==
    ASSUME EdgesSound, NEW turn, NEW ball, Spread(turn, ball)
    PROVE  Spread(NextTurn(turn), ball \cup Touching(ball))
<1> DEFINE next == Around(turn.frontier)
           W == ball \cup Touching(ball)
<1>1. /\ turn.seen = ball /\ ball \subseteq Live /\ turn.frontier \subseteq ball
      /\ \A n \in ball \ turn.frontier : \A w \in NeighborsIn(edges, n) : w \in ball
  BY DEF Spread
<1>2. NextTurn(turn).seen = ball \cup next /\ NextTurn(turn).frontier = next \ ball
  BY <1>1 DEF NextTurn
<1>3. ASSUME NEW w \in next
      PROVE  w \in Touching(ball)
  BY <1>1, AroundIs, TouchingIs
<1>4. ASSUME NEW w \in Touching(ball)
      PROVE  w \in ball \cup next
  <2>1. PICK f \in edges : w \in Ends(f) /\ \E n \in ball : n \in Ends(f)
    BY TouchingIs
  <2>2. PICK n \in ball : n \in Ends(f)
    BY <2>1
  <2>3. CASE w = n
    BY <2>3
  <2>4. CASE w # n /\ n \in turn.frontier
    BY <2>1, <2>2, <2>4, AroundIs
  <2>5. CASE w # n /\ n \notin turn.frontier
    <3>1. w \in NeighborsIn(edges, n)
      BY <2>1, <2>2, <2>5, NeighborLinks
    <3> QED
      BY <1>1, <2>5, <3>1
  <2> QED
    BY <2>3, <2>4, <2>5
<1>5. ball \cup next = W
  BY <1>3, <1>4
<1>6. W \subseteq Live
  <2>1. \A f \in edges : Ends(f) \subseteq Live
    BY DEF EdgesSound, Ends
  <2>2. ASSUME NEW w \in Touching(ball)
        PROVE  w \in Live
    BY <2>1, TouchingIs
  <2> QED
    BY <1>1, <2>2
<1>7. ASSUME NEW n \in W \ (next \ ball), NEW w \in NeighborsIn(edges, n)
      PROVE  w \in W
  <2>1. n \in ball
    BY <1>5, <1>7
  <2>2. CASE n \in turn.frontier
    <3>1. w \in next
      BY <2>2 DEF Around
    <3> QED
      BY <1>5, <3>1
  <2>3. CASE n \notin turn.frontier
    BY <1>1, <2>1, <2>3
  <2> QED
    BY <2>2, <2>3
<1>8. next \ ball \subseteq W
  BY <1>5
<1> HIDE DEF next, W
<1>9. \A n \in W \ (next \ ball) : NeighborsIn(edges, n) \subseteq W
  BY <1>7
<1> QED
  BY <1>2, <1>5, <1>6, <1>8, <1>9 DEF Spread, W

\* For any number of hops: the frontier alone is enough to find the ball, for
\* what lies behind it has been looked at already.
Balls(seeds, hops) ==
    LET ball[i \in 0 .. hops] ==
            IF i = 0 THEN seeds
            ELSE LET within == ball[i - 1]
                 IN  within \cup Touching(within)
    IN  ball[hops]

LEMMA ExpansionReachesTheBall ==
    ASSUME EdgesSound, NEW seeds, NEW hops \in Nat
    PROVE  /\ Expand(seeds, hops) = Balls(seeds \cap Live, hops)
           /\ Expand(seeds, hops) \subseteq Live
<1> DEFINE live == seeds \cap Live
           Turns == [seen : SUBSET Live, frontier : SUBSET Live]
           start == [seen |-> live, frontier |-> live]
           After(before) == [seen |-> before.seen \cup Around(before.frontier),
                             frontier |-> Around(before.frontier) \ before.seen]
           Grown(within) == within \cup Touching(within)
           turn == CHOOSE turn : turn = [i \in 0 .. hops |-> IF i = 0 THEN start ELSE After(turn[i - 1])]
           ball == CHOOSE ball : ball = [i \in 0 .. hops |-> IF i = 0 THEN live ELSE Grown(ball[i - 1])]
           T == {i \in 0 .. hops : ~Spread(turn[i], ball[i])}
<1>1. Expand(seeds, hops) = turn[hops].seen
  BY DEF Expand, Around
<1>2. Balls(live, hops) = ball[hops]
  BY DEF Balls
<1>3. ASSUME NEW before \in Turns
      PROVE  After(before) \in Turns
  <2>1. Around(before.frontier) \subseteq Live
    <3>1. \A f \in edges : Ends(f) \subseteq Live
      BY DEF EdgesSound, Ends
    <3> QED
      BY <3>1, AroundIs
  <2> QED
    BY <2>1
<1>4. ASSUME NEW within \in SUBSET Live
      PROVE  Grown(within) \in SUBSET Live
  <2>1. \A f \in edges : Ends(f) \subseteq Live
    BY DEF EdgesSound, Ends
  <2>2. Touching(within) \subseteq Live
    BY <2>1, TouchingIs
  <2> QED
    BY <2>2
<1>5. start \in Turns /\ live \in SUBSET Live
  OBVIOUS
<1> HIDE DEF After, Grown, start, Turns, live
<1>6. turn = [i \in 0 .. hops |-> IF i = 0 THEN start ELSE After(turn[i - 1])]
  <2> DEFINE step == [p \in Turns \X (1 .. hops) |-> After(p[1])]
  <2>1. step \in [Turns \X (1 .. hops) -> Turns]
    BY <1>3
  <2>2. \A before \in Turns, i \in 1 .. hops : step[<<before, i>>] = After(before)
    OBVIOUS
  <2> HIDE DEF step
  <2>3. PICK f \in [0 .. hops -> Turns] : Iterates(f, hops, start, step)
    BY <1>5, <2>1, Iteration
  <2>4. ASSUME NEW i \in 0 .. hops
        PROVE  f[i] = IF i = 0 THEN start ELSE After(f[i - 1])
    <3>1. i # 0 => i \in 1 .. hops /\ f[i - 1] \in Turns
      BY <2>3
    <3> QED
      BY <2>2, <2>3, <3>1 DEF Iterates
  <2>5. f = [i \in 0 .. hops |-> IF i = 0 THEN start ELSE After(f[i - 1])]
    <3>1. f = [i \in 0 .. hops |-> f[i]]
      BY <2>3
    <3> QED
      BY <2>4, <3>1, Zenon
  <2> QED
    BY <2>5, Zenon
<1>7. ball = [i \in 0 .. hops |-> IF i = 0 THEN live ELSE Grown(ball[i - 1])]
  <2> DEFINE Sets == SUBSET Live
             step == [p \in Sets \X (1 .. hops) |-> Grown(p[1])]
  <2> HIDE DEF Sets
  <2>1. step \in [Sets \X (1 .. hops) -> Sets] /\ live \in Sets
    BY <1>4, <1>5 DEF Sets
  <2>2. \A within \in Sets, i \in 1 .. hops : step[<<within, i>>] = Grown(within)
    OBVIOUS
  <2> HIDE DEF step
  <2>3. PICK f \in [0 .. hops -> Sets] : Iterates(f, hops, live, step)
    BY <2>1, Iteration
  <2>4. ASSUME NEW i \in 0 .. hops
        PROVE  f[i] = IF i = 0 THEN live ELSE Grown(f[i - 1])
    <3>1. i # 0 => i \in 1 .. hops /\ f[i - 1] \in Sets
      BY <2>3
    <3> QED
      BY <2>2, <2>3, <3>1 DEF Iterates
  <2>5. f = [i \in 0 .. hops |-> IF i = 0 THEN live ELSE Grown(f[i - 1])]
    <3>1. f = [i \in 0 .. hops |-> f[i]]
      BY <2>3
    <3> QED
      BY <2>4, <3>1, Zenon
  <2> QED
    BY <2>5, Zenon
<1> HIDE DEF turn, ball
<1>8. Spread(turn[0], ball[0])
  <2>1. turn[0] = start /\ ball[0] = live
    BY <1>6, <1>7
  <2> QED
    BY <1>5, <2>1 DEF Spread, start
<1>9. ASSUME NEW i \in 1 .. hops, Spread(turn[i - 1], ball[i - 1])
      PROVE  Spread(turn[i], ball[i])
  <2>1. turn[i] = After(turn[i - 1]) /\ ball[i] = Grown(ball[i - 1])
    <3>1. i \in 0 .. hops /\ i # 0
      OBVIOUS
    <3> QED
      BY <1>6, <1>7, <3>1, Zenon
  <2>2. Spread(NextTurn(turn[i - 1]), ball[i - 1] \cup Touching(ball[i - 1]))
    BY <1>9, OneTurn, Zenon
  <2>3. NextTurn(turn[i - 1]) = After(turn[i - 1])
    BY Zenon DEF NextTurn, After
  <2>4. ball[i - 1] \cup Touching(ball[i - 1]) = Grown(ball[i - 1])
    BY Zenon DEF Grown
  <2> QED
    BY <2>1, <2>2, <2>3, <2>4, Zenon
<1>10. T = {}
  <2>1. SUFFICES ASSUME T # {}
                 PROVE  FALSE
    OBVIOUS
  <2>2. PICK i \in T : \A j \in T : i <= j
    <3>1. T \in SUBSET Nat
      OBVIOUS
    <3> HIDE DEF T
    <3> QED
      BY <2>1, <3>1, LeastNumber
  <2>3. i \in 1 .. hops /\ ~Spread(turn[i], ball[i])
    BY <1>8, <2>2
  <2>4. Spread(turn[i - 1], ball[i - 1])
    BY <2>2, <2>3
  <2> QED
    BY <1>9, <2>3, <2>4
<1>11. Spread(turn[hops], ball[hops])
  BY <1>10
<1> QED
  BY <1>1, <1>2, <1>11 DEF Spread, live

\* An expansion finds all stored nodes within its hops of the seeds, and only
\* those, whatever cycles and shared neighbours the links form (expand: "all
\* node ids reachable from seeds within `hops` steps").
THEOREM ExpansionIsExact == ASpec => []ExpandReachesWithin
<1>1. ASSUME EdgesSound, NEW seeds \in SUBSET Live, NEW hops \in 0 .. 2
      PROVE  LET ball[i \in 0 .. hops] ==
                     IF i = 0 THEN seeds
                     ELSE LET within == ball[i - 1]
                          IN  within \cup UNION {Ends(e) : e \in {f \in edges :
                                                             Ends(f) \cap within # {}}}
             IN  Expand(seeds, hops) = ball[hops]
  <2>2. seeds \cap Live = seeds
    OBVIOUS
  <2>1. Expand(seeds, hops) = Balls(seeds, hops)
    <3>1. hops \in Nat
      OBVIOUS
    <3> QED
      BY <1>1, <2>2, <3>1, ExpansionReachesTheBall
  <2> QED
    BY <2>1 DEF Balls, Touching
<1>2. EdgesSound => ExpandReachesWithin
  BY <1>1 DEF ExpandReachesWithin
<1> QED
  BY <1>2, LinksStaySound, PTL

-----------------------------------------------------------------------------
(* Associative recall. *)

\* The seeds are entries of the index, and no id comes twice.
LEMMA SeedsDistinct ==
    ASSUME AIInv, NEW query, NEW k \in Nat
    PROVE  \E m \in Nat : /\ DOMAIN Seeds(query, k) = 1 .. m
                          /\ \A i, j \in 1 .. m :
                                Seeds(query, k)[i] = Seeds(query, k)[j] => i = j
<1> DEFINE N == Len(index)
           scored == [i \in DOMAIN index |-> [node_id |-> index[i].node_id,
                                              score |-> Similarity[query][index[i].vector]]]
           E == {scored[i] : i \in 1 .. N}
           found == Search(scored, k)
           m == AtMost(N, k)
<1>1. /\ N \in Nat /\ DOMAIN index = 1 .. N
      /\ \A i, j \in 1 .. N : index[i].node_id = index[j].node_id => i = j
  BY IndexEntries DEF AIInv, IndexSound
<1>2. Seeds(query, k) = [i \in DOMAIN found |-> found[i].node_id]
  BY DEF Seeds
<1> HIDE DEF N
<1>3. /\ scored \in [1 .. N -> E]
      /\ \A i \in 1 .. N : scored[i].node_id = index[i].node_id
  BY <1>1
<1> HIDE DEF scored, E
<1>4. scored \in Seq(E) /\ Len(scored) = N
  BY <1>1, <1>3, FunctionIsSequence
<1>5. found \in Shortlists(scored, k)
  <2>1. Shortlists(scored, k) # {}
    BY <1>4, ScanEnds
  <2> QED
    BY <2>1 DEF Search
<1> HIDE DEF found
<1>6. PICK t : ShortlistOf(found, t, scored, N, k)
  BY <1>4, <1>5, ScanEnds
<1>7. m \in Nat
  BY <1>1 DEF AtMost
<1>8. /\ t \in [1 .. m -> 1 .. N]
      /\ \A q, r \in 1 .. m : t[q] = t[r] => q = r
      /\ found = [r \in 1 .. m |-> scored[t[r]]]
  BY <1>6 DEF ShortlistOf
<1> HIDE DEF m
<1>9. DOMAIN found = 1 .. m /\ \A r \in 1 .. m : found[r].node_id = index[t[r]].node_id
  BY <1>3, <1>8
<1>10. /\ DOMAIN Seeds(query, k) = 1 .. m
       /\ \A r \in 1 .. m : Seeds(query, k)[r] = index[t[r]].node_id
  BY <1>2, <1>9
<1>11. ASSUME NEW i \in 1 .. m, NEW j \in 1 .. m, Seeds(query, k)[i] = Seeds(query, k)[j]
       PROVE  i = j
  <2>1. index[t[i]].node_id = index[t[j]].node_id /\ t[i] \in 1 .. N /\ t[j] \in 1 .. N
    BY <1>8, <1>10, <1>11
  <2>2. t[i] = t[j]
    BY <1>1, <2>1
  <2> QED
    BY <1>8, <2>2
<1> QED
  BY <1>7, <1>10, <1>11

LEMMA LeadersAreStored ==
    ASSUME AIInv, NEW query, NEW k \in Nat, NEW hops \in Nat
    PROVE  /\ ToSet(Leading(query, k, hops)) \cup Following(query, k, hops) \subseteq Live
           /\ Cardinality(ToSet(Leading(query, k, hops))) = Len(Leading(query, k, hops))
<1> DEFINE seeds == Seeds(query, k)
           reached == Expand(ToSet(seeds), hops)
           P == {i \in DOMAIN seeds : seeds[i] \in reached}
           c == Cardinality(P)
           leading == Leading(query, k, hops)
<1>1. PICK m \in Nat : /\ DOMAIN seeds = 1 .. m
                       /\ \A i, j \in 1 .. m : seeds[i] = seeds[j] => i = j
  BY SeedsDistinct
<1>2. reached \subseteq Live
  BY ExpansionReachesTheBall DEF AIInv, IInv
<1>3. Following(query, k, hops) \subseteq Live
  BY <1>2 DEF Following
<1>4. leading = Picked(seeds, P)
  BY DEF Leading
<1> HIDE DEF seeds, reached, leading
<1>5. IsFiniteSet(P) /\ (\A i \in P : i \in Int)
  <2>1. P \in SUBSET (1 .. m) /\ IsFiniteSet(1 .. m)
    BY <1>1, FS_Interval
  <2>2. \A i \in P : i \in Int
    BY <1>1
  <2> HIDE DEF P
  <2> QED
    BY <2>1, <2>2, FS_Subset
<1>6. \A i \in P : i \in 1 .. m /\ seeds[i] \in reached
  BY <1>1
<1> HIDE DEF P
<1>7. PICK t : Lists(t, P, Less(P)) /\ Visits(leading, seeds, t, c)
  BY <1>4, <1>5, PickedLists
<1>8. /\ t \in [1 .. c -> P]
      /\ \A q, r \in 1 .. c : t[q] = t[r] => q = r
  <2>1. IsOrder(Less(P), P)
    BY <1>5, LessOrders
  <2> QED
    BY <1>5, <1>7, <2>1, ListedInPlace DEF Lists
<1>9. c \in Nat
  BY <1>5, FS_CardinalityType
<1> HIDE DEF c
<1>10. leading = [r \in 1 .. c |-> seeds[t[r]]]
  BY <1>7 DEF Visits
<1>11. /\ leading \in [1 .. c -> reached]
       /\ \A q, r \in 1 .. c : leading[q] = leading[r] => q = r
  BY <1>1, <1>6, <1>8, <1>10
<1>12. Len(leading) = c /\ DOMAIN leading = 1 .. c
  BY <1>9, <1>11, FunctionIsSequence
<1>13. ToSet(leading) \subseteq Live
  BY <1>2, <1>11, <1>12 DEF ToSet
<1>14. Cardinality(ToSet(leading)) = c
  <2>1. leading \in Bijection(1 .. c, ToSet(leading))
    BY <1>11, <1>12 DEF ToSet, Bijection, Injection, Surjection, IsInjective
  <2>2. ExistsBijection(1 .. c, ToSet(leading))
    BY <2>1 DEF ExistsBijection
  <2> QED
    BY <1>9, <2>2, FS_CountingElements
<1> QED
  BY <1>3, <1>12, <1>13, <1>14 DEF leading

\* However stale the index is, associative recall answers stored nodes only,
\* and none of its seeds twice (expand drops seeds that are gone; the seeds
\* come from distinct entries of the index).
THEOREM RecallIsStored == ASpec => []RecallAnswersOnlyStored
<1>1. ASSUME AIInv, NEW query \in DOMAIN Similarity, NEW k \in 1 .. 2, NEW hops \in 0 .. 1
      PROVE  /\ ToSet(Leading(query, k, hops)) \cup Following(query, k, hops) \subseteq Live
             /\ Cardinality(ToSet(Leading(query, k, hops))) = Len(Leading(query, k, hops))
  <2>1. k \in Nat /\ hops \in Nat
    OBVIOUS
  <2> QED
    BY <1>1, <2>1, LeadersAreStored
<1>2. AIInv => RecallAnswersOnlyStored
  BY <1>1 DEF RecallAnswersOnlyStored
<1> QED
  BY <1>2, AssociationsInvariance, PTL

-----------------------------------------------------------------------------
(* What the nexus promises, under bulk linking and pruning. *)

\* A call either leaves every stored node as it is, or is a sweep.
LEMMA OnlySweepsForget ==
    ASSUME AIInv, [ANext]_avars
    PROVE  \/ \A n \in Live : n \in DOMAIN nodes' /\ nodes'[n] = nodes[n]
           \/ \E max \in Capacities : EnforceCapacity(max)
<1>1. ASSUME NEW ids, NEW pairs, LinkPairs(ids, pairs)
      PROVE  nodes' = nodes
  BY <1>1 DEF LinkPairs
<1>2. ASSUME NEW s, NEW level, NEW fact, Remember(s, level, fact)
      PROVE  \A n \in Live : n \in DOMAIN nodes' /\ nodes'[n] = nodes[n]
  <2>1. nodes' = [n \in Live \cup {drawn + 1} |->
                     IF n = drawn + 1 THEN NewNode(s, level, clock + 1) ELSE nodes[n]]
    BY <1>2 DEF Remember, CreateNode
  <2>2. drawn + 1 \notin Live
    BY DEF AIInv, IInv, TypeOK
  <2> QED
    BY <2>1, <2>2
<1> QED
  BY <1>1, <1>2
  DEF ANext, LinkSemantic, LinkSemanticLsh, LinkByEntities, Prune, Retain, Forget,
      AddEdge, avars, vars, Live

\* Links buy a node no stay: however densely linked it is, and whatever pruning
\* left of its links, of two nodes nobody judged the one touched longer ago goes
\* first, and only one set of victims exists.
THEOREM LinksBuyNoStay == ASpec => UnjudgedGoOldestFirst /\ []EvictionUnambiguous
<1>1. AIInv /\ [ANext]_avars => [OldestFirst]_vars
  <2> SUFFICES ASSUME AIInv, [ANext]_avars
               PROVE  OldestFirst
    OBVIOUS
  <2>1. CASE Live \subseteq DOMAIN nodes'
    BY <2>1 DEF OldestFirst
  <2> QED
    BY <2>1, OnlySweepsForget, SweepGoesOldestFirst DEF AIInv
<1>2. AIInv => EvictionUnambiguous
  BY VictimsAreDetermined DEF AIInv, EvictionUnambiguous
<1>3. ASpec => UnjudgedGoOldestFirst
  BY <1>1, AssociationsInvariance, PTL DEF ASpec, UnjudgedGoOldestFirst
<1> QED
  BY <1>2, <1>3, AssociationsInvariance, PTL

\* Nor do links keep a sweep from its limit, or make it take canon: of facts
\* stored at any canon level and linked in any way, what a sweep leaves beyond
\* the limit is canon alone, and no call drops or demotes a canon fact.
THEOREM LinkedSweepsMeetTheLimit ==
    ASpec => CapacityYieldsOnlyToCanon /\ CanonNeverEvicted
<1>1. AIInv /\ [ANext]_avars =>
        [\A max \in Capacities : EnforceCapacity(max)
            => \/ Cardinality(DOMAIN nodes') = max
               \/ /\ Cardinality(DOMAIN nodes') > max
                  /\ \A n \in DOMAIN nodes' : IsCanon(nodes'[n].canon_level)]_vars
  BY SweepMeetsItsLimit DEF AIInv
<1>2. AIInv /\ [ANext]_avars => [CanonKept]_vars
  <2> SUFFICES ASSUME AIInv, [ANext]_avars, NEW n \in Live, IsCanon(nodes[n].canon_level)
               PROVE  /\ n \in DOMAIN nodes'
                      /\ nodes'[n].canon_level = nodes[n].canon_level
    BY DEF CanonKept
  <2>1. n \notin Evictable
    BY DEF AIInv, IInv, NodesOK, NodeOK, Evictable
  <2>2. ASSUME NEW max \in Capacities, EnforceCapacity(max)
        PROVE  /\ n \in DOMAIN nodes'
               /\ nodes'[n].canon_level = nodes[n].canon_level
    <3>1. PICK V \in Victims(max) : nodes' = [m \in Live \ V |-> nodes[m]]
      BY <2>2 DEF EnforceCapacity
    <3>2. V \subseteq Evictable
      BY DEF Victims, LeastValuable
    <3> QED
      BY <2>1, <3>1, <3>2
  <2> QED
    BY <2>2, OnlySweepsForget
<1>3. ASpec => CapacityYieldsOnlyToCanon
  BY <1>1, AssociationsInvariance, PTL DEF ASpec, CapacityYieldsOnlyToCanon
<1>4. ASpec => CanonNeverEvicted
  BY <1>2, AssociationsInvariance, PTL DEF ASpec, CanonNeverEvicted
<1> QED
  BY <1>3, <1>4

\* However many ids a call that links in bulk draws, none was issued before.
LEMMA LinkingIssuesFreshIds ==
    ASSUME AIInv, NEW n \in Nat, NEW ids, DOMAIN ids = 1 .. n,
           NEW pairs \in SUBSET Positions(ids), LinkPairs(ids, pairs)
    PROVE  Promise!Next
<1> DEFINE M == Accepted(ids, pairs)
           S == drawn + 1 .. drawn'
<1>1. /\ nodes' = nodes /\ drawn' = drawn + Cardinality(M) /\ drawn' <= MaxDraws
  BY DEF LinkPairs
<1>2. Cardinality(M) \in Nat
  <2>1. IsFiniteSet(1 .. n)
    BY FS_Interval
  <2>2. IsFiniteSet((1 .. n) \X (1 .. n))
    BY <2>1, FS_Product
  <2>3. M \in SUBSET ((1 .. n) \X (1 .. n))
    BY DEF Accepted, Positions
  <2> HIDE DEF M
  <2> QED
    BY <2>2, <2>3, FS_Subset, FS_CardinalityType
<1> HIDE DEF M
<1>3. drawn \in Nat /\ drawn' \in Nat /\ drawn <= drawn'
  BY <1>1, <1>2 DEF AIInv, IInv, TypeOK
<1>4. /\ S \in SUBSET (1 .. MaxDraws) /\ S \cap (1 .. drawn) = {}
      /\ 1 .. drawn' = (1 .. drawn) \cup S
  BY <1>1, <1>3, NexusAssumption
<1> HIDE DEF S
<1>5. Canon' = Canon /\ Evictable' = Evictable /\ SelfDescriptions' = SelfDescriptions
  BY <1>1 DEF Canon, Evictable, SelfDescriptions, Live
<1>6. Promise!Link(S)
  BY <1>4, <1>5 DEF Promise!Link
<1> QED
  BY <1>4, <1>6 DEF Promise!Next

\* Bulk linking and pruning are steps of the promise, as linking by hand is.
LEMMA AssociationsStepRefines ==
    ASSUME AIInv, [ANext]_avars
    PROVE  [Promise!Next]_(Promise!promiseVars)
<1>1. ASSUME NEW s \in Sources, NEW level \in Levels, NEW fact \in Facts,
             Remember(s, level, fact)
      PROVE  Promise!Next
  BY <1>1, CreateNodeStores DEF Remember, AIInv
<1>2. ASSUME NEW a \in Live, NEW b \in Live, AddEdge(a, b)
      PROVE  [Promise!Next]_(Promise!promiseVars)
  BY <1>2, StepRefines DEF Next, AIInv
<1>3. ASSUME NEW max \in Capacities, Forget(max)
      PROVE  Promise!Next
  BY <1>3, EvictionForgets DEF Forget, AIInv
<1>4. ASSUME nodes' = nodes, drawn' = drawn
      PROVE  UNCHANGED Promise!promiseVars
  BY <1>4 DEF Promise!promiseVars, Canon, Evictable, SelfDescriptions, Live
<1>5. CASE Retain \/ UNCHANGED avars
  BY <1>4, <1>5 DEF Retain, avars, vars
<1>6. ASSUME NEW min \in Curvatures, Prune(min)
      PROVE  UNCHANGED Promise!promiseVars
  BY <1>4, <1>6 DEF Prune
<1>7. Len(index) \in Nat /\ DOMAIN IndexIds = 1 .. Len(index)
  BY IndexEntries DEF AIInv, IndexIds
<1>8. ASSUME NEW threshold \in Cosines, LinkSemantic(threshold)
      PROVE  Promise!Next
  <2>1. SimilarPairs(threshold) \in SUBSET Positions(IndexIds)
    BY DEF SimilarPairs
  <2> QED
    BY <1>7, <1>8, <2>1, LinkingIssuesFreshIds DEF LinkSemantic
<1>9. ASSUME NEW threshold \in Cosines, LinkSemanticLsh(threshold)
      PROVE  Promise!Next
  <2>1. PICK met \in Meetings : LinkPairs(IndexIds, MatchedPairs(threshold, met))
    BY <1>9 DEF LinkSemanticLsh
  <2>2. MatchedPairs(threshold, met) \in SUBSET Positions(IndexIds)
    BY DEF MatchedPairs
  <2> QED
    BY <1>7, <2>1, <2>2, LinkingIssuesFreshIds
<1>10. ASSUME NEW limits \in EntityLimits, LinkByEntities(limits[1], limits[2])
       PROVE  Promise!Next
  <2>1. PICK ids \in SetToSeqs(Live) :
            LinkPairs(ids, {p \in Positions(ids) :
                               Cardinality(Shared(ids[p[1]], ids[p[2]], limits[1]))
                                   >= limits[2]})
    BY <1>10 DEF LinkByEntities
  <2> DEFINE pairs == {p \in Positions(ids) :
                          Cardinality(Shared(ids[p[1]], ids[p[2]], limits[1])) >= limits[2]}
             n == Cardinality(Live)
  <2>2. n \in Nat
    BY FiniteLive, FS_CardinalityType DEF AIInv
  <2>3. DOMAIN ids = 1 .. n
    BY DEF SetToSeqs
  <2>4. pairs \in SUBSET Positions(ids) /\ LinkPairs(ids, pairs)
    BY <2>1
  <2> HIDE DEF pairs, n
  <2> QED
    BY <2>2, <2>3, <2>4, LinkingIssuesFreshIds
<1> QED
  BY <1>1, <1>2, <1>3, <1>5, <1>6, <1>8, <1>9, <1>10 DEF ANext

\* The graph of associations keeps the nexus's promise: linking, pruning and
\* recall forget nothing, and an id spent on a link never names a fact.
THEOREM AssociationsKeepThePromise == ASpec => KeepsThePromise
<1>1. AInit => Promise!Init
  BY DEF AInit, Init, Promise!Init, Canon, Evictable, SelfDescriptions, Live
<1>2. AIInv /\ [ANext]_avars => [Promise!Next]_(Promise!promiseVars)
  BY AssociationsStepRefines
<1> QED
  BY <1>1, <1>2, AssociationsInvariance, PTL DEF ASpec, KeepsThePromise, Promise!Spec
=============================================================================

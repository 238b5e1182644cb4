------------------------ MODULE BudgetedClientsProofs ------------------------
(***************************************************************************)
(* Proof that the budget pattern bounds memory for any number of threads,  *)
(* any budget and any canon facts.  What the calls do to the engine is     *)
(* taken from MemoryEngineProofs.                                          *)
(***************************************************************************)
EXTENDS BudgetedClients, MemoryEngineProofs, FiniteSetTheorems

\* What a sweep spares.
CanonNodes == {n \in Live : ~nodes[n].is_ephemeral}

Bound == AtLeast(Budget, CanonCount) + Cardinality(Owing)

\* Which call of its pattern a thread can be where in.
Stages ==
    /\ turn \in [Threads -> {"add", "count", "within", "over", "sweep"}]
    /\ \A t \in Threads :
          /\ turn[t] = "add" => pc[t] \in {"out", "spinning", "holding", "indexing", "leaving"}
          /\ turn[t] = "count" => pc[t] \in {"out", "spinning", "holding"}
          /\ turn[t] \in {"within", "over"} => pc[t] = "leaving"
          /\ turn[t] = "sweep" => pc[t] \in {"out", "spinning", "holding", "pruning", "leaving"}

\* What a thread that is about to stop owing has seen to, and nobody has undone
\* since: it still has the lock.
Settled ==
    \A t \in Threads :
        /\ turn[t] = "within" => Cardinality(Live) <= Budget
        /\ turn[t] = "sweep" /\ pc[t] \in {"pruning", "leaving"}
               => Cardinality(Live) <= AtLeast(Budget, CanonCount)

BudgetIInv == IInv /\ Stages /\ Settled /\ BoundedMemory

-----------------------------------------------------------------------------
(* Counting *)

LEMMA Natural == Budget \in Nat
BY BudgetAssumption, EngineAssumption DEF Nexus!NexusAssumption

\* What there is to count, said of a state so that it can be said of the next.
Countable ==
    /\ IsFiniteSet(Live) /\ Cardinality(Live) \in Nat
    /\ IsFiniteSet(Indexed) /\ Cardinality(Indexed) \in Nat
    /\ IsFiniteSet(CanonNodes) /\ Cardinality(CanonNodes) \in Nat
    /\ IsFiniteSet(Owing) /\ Cardinality(Owing) \in Nat
    /\ CanonCount = Cardinality(CanonNodes)

LEMMA CountsFor == IInv => Countable
<1> SUFFICES ASSUME IInv
             PROVE  Countable
  OBVIOUS
<1>1. drawn \in Nat /\ Live \subseteq 1 .. drawn /\ Indexed \subseteq 1 .. drawn
  BY DEF IInv, TypeOK, Nexus!TypeOK, Nexus!Live, Live
<1>2. IsFiniteSet(1 .. drawn) /\ IsFiniteSet(Threads)
  BY <1>1, FS_Interval, EngineAssumption
<1>3. CanonNodes \subseteq Live /\ Owing \subseteq Threads
  BY DEF CanonNodes, Owing
<1>4. IsFiniteSet(Live) /\ IsFiniteSet(Indexed) /\ IsFiniteSet(Owing)
  BY <1>1, <1>2, <1>3, FS_Subset
<1>5. IsFiniteSet(CanonNodes)
  BY <1>3, <1>4, FS_Subset
<1>6. Live \ Nexus!Evictable = CanonNodes
  BY DEF CanonNodes, Nexus!Evictable, Nexus!Live, Live
<1> QED
  BY <1>4, <1>5, <1>6, FS_CardinalityType DEF CanonCount, Countable

LEMMA Counts ==
    ASSUME IInv
    PROVE  /\ IsFiniteSet(Live) /\ Cardinality(Live) \in Nat
           /\ IsFiniteSet(Indexed) /\ Cardinality(Indexed) \in Nat
           /\ IsFiniteSet(CanonNodes) /\ Cardinality(CanonNodes) \in Nat
           /\ IsFiniteSet(Owing) /\ Cardinality(Owing) \in Nat
           /\ CanonCount = Cardinality(CanonNodes)
BY CountsFor DEF Countable

LEMMA CountsAfter ==
    ASSUME IInv'
    PROVE  /\ IsFiniteSet(CanonNodes') /\ CanonCount' = Cardinality(CanonNodes')
           /\ CanonCount' \in Nat /\ Cardinality(Live') \in Nat
           /\ IsFiniteSet(Live') /\ Cardinality(Owing') \in Nat
           /\ Cardinality(Indexed') \in Nat
<1>1. Countable'
  BY CountsFor, PTL
<1> QED
  BY <1>1 DEF Countable

\* A step that leaves the nodes and who owes leaves the bound.
LEMMA BoundStays ==
    ASSUME nodes' = nodes, Owing' = Owing
    PROVE  Live' = Live /\ CanonCount' = CanonCount /\ Bound' = Bound
<1>1. Live' = Live /\ (Live \ Nexus!Evictable)' = Live \ Nexus!Evictable
  BY DEF Live, Nexus!Evictable, Nexus!Live
<1> QED
  BY <1>1 DEF CanonCount, Bound

\* Who owes changes by one thread's call or position only.
LEMMA OwingKept ==
    ASSUME Stages, NEW t \in Threads, turn' = turn,
           \A u \in Threads : u # t => pc'[u] = pc[u],
           \/ turn[t] # "add"
           \/ pc[t] \in {"indexing", "leaving"} <=> pc'[t] \in {"indexing", "leaving"}
    PROVE  Owing' = Owing
BY DEF Owing

\* While a thread is inside, no other has settled and not yet returned.
LEMMA OthersUnsettled ==
    ASSUME OneInside, Stages, NEW t \in Threads, Inside(t),
           NEW u \in Threads, u # t
    PROVE  /\ turn[u] \notin {"within", "over"}
           /\ pc[u] \in {"out", "spinning"}
BY OthersOutside DEF Stages

\* What a sweep leaves: the budget, or the canon nodes if they are more.
LEMMA SweepLeaves ==
    ASSUME IInv, IInv', Cardinality(Live) > Budget, Nexus!EnforceCapacity(Budget)
    PROVE  /\ Cardinality(Live') <= AtLeast(Budget, CanonCount)
           /\ CanonCount' = CanonCount
           /\ Cardinality(Live') <= Cardinality(Live)
<1> DEFINE k == AtMost(Cardinality(Live) - Budget, Cardinality(Nexus!Evictable))
<1>1. PICK V \in SUBSET Nexus!Evictable :
          /\ Cardinality(V) = k
          /\ nodes' = [n \in Live \ V |-> nodes[n]]
  <2>1. ASSUME NEW S
        PROVE  Nexus!Cardinality(S) = Cardinality(S)
    BY DEF Nexus!Cardinality, Cardinality
  <2> QED
    BY <2>1 DEF Nexus!EnforceCapacity, Nexus!Victims, Nexus!LeastValuable,
                Nexus!AtMost, AtMost, Nexus!Live, Live
<1>2. /\ Nexus!Evictable = Live \ CanonNodes /\ CanonNodes \subseteq Live
      /\ Live' = Live \ V /\ CanonNodes' = CanonNodes
  BY <1>1 DEF Nexus!Evictable, Nexus!Live, Live, CanonNodes
<1>3. IsFiniteSet(V) /\ IsFiniteSet(Nexus!Evictable)
  BY <1>1, <1>2, Counts, FS_Subset
<1>4. /\ Cardinality(Live') + k = Cardinality(Live)
      /\ Cardinality(Nexus!Evictable) + CanonCount = Cardinality(Live)
  <2>1. /\ Live' \cup V = Live /\ Live' \cap V = {}
        /\ Nexus!Evictable \cup CanonNodes = Live /\ Nexus!Evictable \cap CanonNodes = {}
    BY <1>1, <1>2
  <2>2. IsFiniteSet(Live') /\ IsFiniteSet(CanonNodes)
    BY Counts, <1>2, FS_Subset
  <2>3. /\ Cardinality(Live' \cup V)
               = Cardinality(Live') + Cardinality(V) - Cardinality(Live' \cap V)
        /\ Cardinality(Nexus!Evictable \cup CanonNodes)
               = Cardinality(Nexus!Evictable) + Cardinality(CanonNodes)
                 - Cardinality(Nexus!Evictable \cap CanonNodes)
    BY <1>3, <2>2, FS_Union
  <2>4. /\ Cardinality(Live') \in Nat /\ Cardinality(V) \in Nat
        /\ Cardinality(Nexus!Evictable) \in Nat /\ Cardinality(CanonNodes) \in Nat
    BY <1>3, <2>2, FS_CardinalityType
  <2>5. Cardinality({}) = 0 /\ CanonCount = Cardinality(CanonNodes)
    BY Counts, FS_EmptySet
  <2>6. /\ Cardinality(Live) = Cardinality(Live') + Cardinality(V) - 0
        /\ Cardinality(Live) = Cardinality(Nexus!Evictable) + Cardinality(CanonNodes) - 0
    BY <2>1, <2>3, <2>5
  <2> HIDE DEF k
  <2> QED
    BY <1>1, <2>4, <2>5, <2>6
<1>5. /\ Cardinality(Live') \in Nat /\ Cardinality(Nexus!Evictable) \in Nat
      /\ Cardinality(Live) \in Nat /\ CanonCount \in Nat
  <2>1. IsFiniteSet(Live')
    BY Counts, <1>2, FS_Subset
  <2> QED
    BY <1>3, <2>1, Counts, FS_CardinalityType
<1>6. CanonCount' = CanonCount
  <2>1. (Live \ Nexus!Evictable)' = CanonNodes' /\ Live \ Nexus!Evictable = CanonNodes
    BY DEF CanonNodes, Nexus!Evictable, Nexus!Live, Live
  <2> QED
    BY <1>2, <2>1 DEF CanonCount
<1> QED
  BY <1>4, <1>5, <1>6, Natural DEF AtMost, AtLeast

-----------------------------------------------------------------------------
(* The invariant, call by call *)

LEMMA InitBudget == ClientInit => BudgetIInv
<1> SUFFICES ASSUME ClientInit
             PROVE  BudgetIInv
  OBVIOUS
<1>1. IInv
  BY InitIInv DEF ClientInit
<1>2. Stages /\ Settled
  BY DEF ClientInit, Init, Stages, Settled
<1>3. Live = {} /\ Indexed = {}
  BY DEF ClientInit, Init, Nexus!Init, Live, Indexed
<1>4. /\ Cardinality(Live) = 0 /\ Cardinality(Indexed) = 0
      /\ Cardinality(Owing) \in Nat /\ CanonCount \in Nat
  BY <1>1, <1>3, Counts, FS_EmptySet
<1>5. BoundedMemory
  BY <1>3, <1>4, Natural DEF BoundedMemory, AtLeast
<1> QED
  BY <1>1, <1>2, <1>5 DEF BudgetIInv

\* Every step of a client is a step of the engine.
LEMMA ClientsUseTheEngine ==
    ASSUME [ClientNext]_clientVars
    PROVE  [Next]_vars
<1>1. ASSUME UNCHANGED clientVars
      PROVE  UNCHANGED vars
  BY <1>1 DEF clientVars
<1>2. ASSUME NEW t \in Threads, StartRound(t) \/ Grab(t) \/ Proceed(t)
      PROVE  Next
  BY <1>2, BudgetAssumption
  DEF StartRound, Grab, Proceed, ContinueRound, AddFact, CountNodes, Sweep, Return,
      Next, Work
<1> QED
  BY <1>1, <1>2 DEF ClientNext

\* Steps outside the lock: nothing is stored, counted or settled.
LEMMA EnteringKeepsBudget ==
    ASSUME BudgetIInv, IInv', NEW t \in Threads,
           StartRound(t) \/ ContinueRound(t) \/ Grab(t)
    PROVE  BudgetIInv'
<1>1. /\ nodes' = nodes /\ vectors' = vectors /\ turn' = turn /\ Indexed' = Indexed
      /\ \/ pc[t] = "out" /\ pc' = [pc EXCEPT ![t] = "spinning"]
         \/ pc[t] = "spinning" /\ pc' = [pc EXCEPT ![t] = "holding"]
  BY DEF StartRound, ContinueRound, Grab, Call, Lock, Goto, nexusVars, indexVars, Indexed
<1>2. /\ DOMAIN pc = Threads /\ pc'[t] \in {"spinning", "holding"}
      /\ \A u \in Threads : u # t => pc'[u] = pc[u]
  BY <1>1 DEF BudgetIInv, IInv, TypeOK
<1>3. Owing' = Owing
  BY <1>1, <1>2, OwingKept DEF BudgetIInv
<1>4. Live' = Live /\ CanonCount' = CanonCount /\ Bound' = Bound
  BY <1>1, <1>3, BoundStays
<1>5. Stages'
  BY <1>1, <1>2 DEF BudgetIInv, Stages
<1>6. Settled'
  BY <1>1, <1>2, <1>4 DEF BudgetIInv, Settled
<1>7. BoundedMemory'
  BY <1>1, <1>4 DEF BudgetIInv, BoundedMemory, Bound
<1> QED
  BY <1>5, <1>6, <1>7 DEF BudgetIInv

LEMMA AddKeepsBudget ==
    ASSUME BudgetIInv, IInv', NEW t \in Threads, turn[t] = "add", turn' = turn,
           NEW s \in Sources, NEW level \in Levels, NEW len \in Lengths,
           AddNode(t, s, level, len)
    PROVE  BudgetIInv'
<1>1. /\ pc[t] = "holding" /\ Inside(t)
      /\ \E to \in {"indexing", "leaving"} : pc' = [pc EXCEPT ![t] = to]
      /\ vectors' = vectors /\ Indexed' = Indexed
  BY DEF AddNode, Goto, Inside, indexVars, Indexed
<1>2. /\ pc'[t] \in {"indexing", "leaving"} /\ turn[t] = "add"
      /\ \A u \in Threads \ {t} : pc'[u] = pc[u] /\ pc[u] \in {"out", "spinning"}
                                  /\ turn[u] \notin {"within", "over"}
  BY <1>1, OthersUnsettled DEF BudgetIInv, IInv, TypeOK
<1>3. /\ Live' = Live \cup {drawn'} /\ drawn' \notin Live
      /\ \A n \in Live : nodes'[n] = nodes[n]
  BY AddEffect DEF BudgetIInv
<1>4. Stages'
  BY <1>2 DEF BudgetIInv, Stages
<1>5. Settled'
  BY <1>2 DEF Settled
<1>6. Cardinality(Live') = Cardinality(Live) + 1
  BY <1>3, Counts, FS_AddElement DEF BudgetIInv
<1>7. CanonCount <= CanonCount'
  <2>1. CanonNodes \subseteq CanonNodes'
    BY <1>3 DEF CanonNodes
  <2>2. IsFiniteSet(CanonNodes') /\ CanonCount' = Cardinality(CanonNodes')
    BY CountsAfter
  <2> QED
    BY <2>1, <2>2, Counts, FS_Subset DEF BudgetIInv
<1>8. Cardinality(Owing') = Cardinality(Owing) + 1
  <2>1. t \notin Owing /\ Owing' = Owing \cup {t}
    BY <1>1, <1>2 DEF Owing
  <2> QED
    BY <2>1, Counts, FS_AddElement DEF BudgetIInv
<1>9. BoundedMemory'
  <2>1. /\ Cardinality(Live) \in Nat /\ Cardinality(Owing) \in Nat /\ CanonCount \in Nat
        /\ Cardinality(Indexed) \in Nat
    BY Counts DEF BudgetIInv
  <2>2. CanonCount' \in Nat
    BY CountsAfter
  <2>3. AtLeast(Budget, CanonCount) <= AtLeast(Budget, CanonCount')
        /\ AtLeast(Budget, CanonCount) \in Nat /\ AtLeast(Budget, CanonCount') \in Nat
    BY <1>7, <2>1, <2>2, Natural DEF AtLeast
  <2>4. /\ Cardinality(Live) <= AtLeast(Budget, CanonCount) + Cardinality(Owing)
        /\ Cardinality(Indexed) <= AtLeast(Budget, CanonCount) + Cardinality(Owing)
        /\ \A n \in Indexed : vectors[n] = 1
    BY DEF BudgetIInv, BoundedMemory
  <2>5. /\ Cardinality(Live') <= AtLeast(Budget, CanonCount') + Cardinality(Owing')
        /\ Cardinality(Indexed') <= AtLeast(Budget, CanonCount') + Cardinality(Owing')
    BY <1>1, <1>6, <1>8, <2>1, <2>3, <2>4
  <2> QED
    BY <1>1, <2>4, <2>5 DEF BoundedMemory
<1> QED
  BY <1>4, <1>5, <1>9 DEF BudgetIInv

LEMMA IndexingKeepsBudget ==
    ASSUME BudgetIInv, IInv', NEW t \in Threads, turn[t] = "add", turn' = turn,
           IndexEmbedding(t)
    PROVE  BudgetIInv'
<1>1. /\ pc[t] = "indexing" /\ Inside(t) /\ pc' = [pc EXCEPT ![t] = "leaving"]
      /\ nodes' = nodes
  BY DEF IndexEmbedding, Goto, Inside, nexusVars
<1>2. /\ pc'[t] = "leaving" /\ DOMAIN pc = Threads
      /\ \A u \in Threads : u # t => pc'[u] = pc[u] /\ pc[u] \in {"out", "spinning"}
                                     /\ turn[u] \notin {"within", "over"}
  BY <1>1, OthersUnsettled DEF BudgetIInv, IInv, TypeOK
<1>3. Owing' = Owing
  BY <1>1, <1>2, OwingKept DEF BudgetIInv
<1>4. Live' = Live /\ CanonCount' = CanonCount /\ Bound' = Bound
  BY <1>1, <1>3, BoundStays
<1>5. Stages'
  BY <1>2 DEF BudgetIInv, Stages
<1>6. Settled'
  BY <1>2 DEF Settled
<1>7. BoundedMemory'
  <2>1. Indexed' \subseteq Live' /\ \A n \in Indexed' : vectors'[n] = 1
    BY <1>2 DEF IInv, IndexMirrorsGraph
  <2>2. /\ Cardinality(Indexed') <= Cardinality(Live')
        /\ Cardinality(Indexed') \in Nat /\ Cardinality(Live') \in Nat
    BY <2>1, CountsAfter, FS_Subset
  <2>3. /\ Cardinality(Live) <= Bound /\ Bound \in Int
    BY Counts, Natural DEF BudgetIInv, BoundedMemory, Bound, AtLeast
  <2> QED
    BY <1>4, <2>1, <2>2, <2>3 DEF BoundedMemory, Bound
<1> QED
  BY <1>5, <1>6, <1>7 DEF BudgetIInv

LEMMA CountingKeepsBudget ==
    ASSUME BudgetIInv, IInv', NEW t \in Threads, CountNodes(t)
    PROVE  BudgetIInv'
<1>1. /\ pc[t] = "holding" /\ Inside(t) /\ pc' = [pc EXCEPT ![t] = "leaving"]
      /\ nodes' = nodes /\ vectors' = vectors /\ Indexed' = Indexed
      /\ turn[t] = "count"
      /\ turn' = [turn EXCEPT ![t] =
                     IF Cardinality(Live) > Budget THEN "over" ELSE "within"]
  BY DEF CountNodes, ReadOnly, Goto, Inside, nexusVars, indexVars, Indexed
<1>2. /\ pc'[t] = "leaving" /\ DOMAIN pc = Threads /\ DOMAIN turn = Threads
      /\ turn' \in [Threads -> {"add", "count", "within", "over", "sweep"}]
      /\ turn'[t] \in {"within", "over"}
      /\ turn'[t] = "within" => ~(Cardinality(Live) > Budget)
      /\ \A u \in Threads : u # t => /\ pc'[u] = pc[u] /\ turn'[u] = turn[u]
                                     /\ pc[u] \in {"out", "spinning"}
                                     /\ turn[u] \notin {"within", "over"}
  BY <1>1, OthersUnsettled DEF BudgetIInv, IInv, TypeOK, Stages
<1>3. Owing' = Owing
  BY <1>1, <1>2 DEF Owing
<1>4. Live' = Live /\ CanonCount' = CanonCount /\ Bound' = Bound
  BY <1>1, <1>3, BoundStays
<1>5. Stages'
  BY <1>2 DEF BudgetIInv, Stages
<1>6. Settled'
  <2>1. Cardinality(Live) \in Nat
    BY Counts DEF BudgetIInv
  <2>2. turn'[t] = "within" => Cardinality(Live') <= Budget
    BY <1>2, <1>4, <2>1, Natural
  <2> QED
    BY <1>2, <2>2 DEF Settled
<1>7. BoundedMemory'
  BY <1>1, <1>4 DEF BudgetIInv, BoundedMemory, Bound
<1> QED
  BY <1>5, <1>6, <1>7 DEF BudgetIInv

LEMMA SweepingKeepsBudget ==
    ASSUME BudgetIInv, IInv', NEW t \in Threads, Sweep(t)
    PROVE  BudgetIInv'
<1>1. /\ Inside(t) /\ turn[t] = "sweep" /\ turn' = turn
      /\ \E to \in {"pruning", "leaving"} : pc' = [pc EXCEPT ![t] = to]
  BY DEF Sweep, EvictNodes, PruneIndex, Goto, Inside
<1>2. /\ pc'[t] \in {"pruning", "leaving"}
      /\ \A u \in Threads : u # t => /\ pc'[u] = pc[u]
                                     /\ pc[u] \in {"out", "spinning"}
                                     /\ turn[u] \notin {"within", "over"}
  BY <1>1, OthersUnsettled DEF BudgetIInv, IInv, TypeOK
<1>3. Owing' = Owing
  BY <1>1, <1>2, OwingKept DEF BudgetIInv
<1>4. Stages'
  BY <1>1, <1>2 DEF BudgetIInv, Stages
<1>5. ASSUME Cardinality(Live') <= AtLeast(Budget, CanonCount')
      PROVE  Settled'
  BY <1>1, <1>2, <1>5 DEF Settled
<1>6. ASSUME EvictNodes(t, Budget), nodes' = nodes
      PROVE  Settled' /\ BoundedMemory'
  <2>1. Live' = Live /\ CanonCount' = CanonCount /\ Bound' = Bound
    BY <1>3, <1>6, BoundStays
  <2>2. vectors' = vectors /\ Indexed' = Indexed
    BY <1>6 DEF EvictNodes, indexVars, Indexed
  <2>3. /\ Cardinality(Live) \in Nat /\ CanonCount \in Nat
        /\ CanonNodes = Live \ Nexus!Evictable
    BY Counts DEF BudgetIInv, CanonNodes, Nexus!Evictable, Nexus!Live, Live
  <2>4. Nexus!Evictable = {} => CanonCount = Cardinality(Live)
    BY <2>3, Counts DEF BudgetIInv, CanonNodes
  <2>5. Cardinality(Live) <= Budget \/ Nexus!Evictable = {}
        \/ Nexus!EnforceCapacity(Budget)
    BY <1>6, <2>3, Natural DEF EvictNodes
  <2>6. ASSUME Nexus!EnforceCapacity(Budget), Cardinality(Live) > Budget
        PROVE  Cardinality(Live') <= AtLeast(Budget, CanonCount')
    BY <2>6, SweepLeaves DEF BudgetIInv
  <2>7. Cardinality(Live') <= AtLeast(Budget, CanonCount')
    BY <2>1, <2>3, <2>4, <2>5, <2>6, Natural DEF AtLeast
  <2> QED
    BY <1>5, <2>1, <2>2, <2>7 DEF BudgetIInv, BoundedMemory, Bound
<1>7. ASSUME EvictNodes(t, Budget), Nexus!EnforceCapacity(Budget),
             Cardinality(Live) > Budget
      PROVE  Settled' /\ BoundedMemory'
  <2>1. /\ Cardinality(Live') <= AtLeast(Budget, CanonCount)
        /\ CanonCount' = CanonCount /\ Cardinality(Live') <= Cardinality(Live)
    BY <1>7, SweepLeaves DEF BudgetIInv
  <2>2. vectors' = vectors /\ Indexed' = Indexed
    BY <1>7 DEF EvictNodes, indexVars, Indexed
  <2>3. /\ Cardinality(Live) \in Nat /\ Cardinality(Live') \in Nat
        /\ Bound' = Bound /\ Bound \in Int
    BY <1>3, <2>1, Counts, CountsAfter, Natural DEF BudgetIInv, Bound, AtLeast
  <2>4. Cardinality(Live') <= Bound' /\ Cardinality(Indexed') <= Bound'
    BY <2>1, <2>2, <2>3 DEF BudgetIInv, BoundedMemory, Bound
  <2> QED
    BY <1>5, <2>1, <2>2, <2>4 DEF BudgetIInv, BoundedMemory, Bound
<1>8. ASSUME PruneIndex(t)
      PROVE  Settled' /\ BoundedMemory'
  <2>1. /\ pc[t] = "pruning" /\ nodes' = nodes
        /\ vectors' = [n \in Indexed \cap Live |-> vectors[n]]
    BY <1>8 DEF PruneIndex, Goto, nexusVars
  <2>2. Live' = Live /\ CanonCount' = CanonCount /\ Bound' = Bound
    BY <1>3, <2>1, BoundStays
  <2>3. Indexed' \subseteq Live /\ \A n \in Indexed' : vectors'[n] = 1
    BY <2>1 DEF Indexed, BudgetIInv, BoundedMemory
  <2>4. /\ Cardinality(Indexed') <= Cardinality(Live)
        /\ Cardinality(Indexed') \in Nat /\ Cardinality(Live) \in Nat
    BY <2>3, Counts, CountsAfter, FS_Subset DEF BudgetIInv
  <2>5. Cardinality(Live) <= Bound /\ Bound \in Int
    BY Counts, Natural DEF BudgetIInv, BoundedMemory, Bound, AtLeast
  <2>6. Cardinality(Live) <= AtLeast(Budget, CanonCount)
    BY <1>1, <2>1 DEF BudgetIInv, Settled
  <2> QED
    BY <1>5, <2>2, <2>3, <2>4, <2>5, <2>6 DEF BoundedMemory, Bound
<1>9. \/ EvictNodes(t, Budget) /\ nodes' = nodes
      \/ EvictNodes(t, Budget) /\ Nexus!EnforceCapacity(Budget) /\ Cardinality(Live) > Budget
      \/ PruneIndex(t)
  BY DEF Sweep, EvictNodes, nexusVars
<1> QED
  BY <1>4, <1>6, <1>7, <1>8, <1>9 DEF BudgetIInv

LEMMA ReturningKeepsBudget ==
    ASSUME BudgetIInv, IInv', NEW t \in Threads, Return(t)
    PROVE  BudgetIInv'
<1>1. /\ pc[t] = "leaving" /\ Inside(t) /\ pc' = [pc EXCEPT ![t] = "out"]
      /\ nodes' = nodes /\ vectors' = vectors /\ Indexed' = Indexed
      /\ turn' = [turn EXCEPT ![t] = AfterCall(turn[t])]
  BY DEF Return, Unlock, Goto, Inside, nexusVars, indexVars, Indexed
<1>2. /\ pc'[t] = "out" /\ turn'[t] = AfterCall(turn[t])
      /\ turn[t] \in {"add", "within", "over", "sweep"}
      /\ turn' \in [Threads -> {"add", "count", "within", "over", "sweep"}]
      /\ \A u \in Threads : u # t => /\ pc'[u] = pc[u] /\ turn'[u] = turn[u]
                                     /\ pc[u] \in {"out", "spinning"}
                                     /\ turn[u] \notin {"within", "over"}
  BY <1>1, OthersUnsettled DEF BudgetIInv, IInv, TypeOK, Stages, AfterCall
<1>3. Live' = Live /\ (Live \ Nexus!Evictable)' = Live \ Nexus!Evictable
  BY <1>1 DEF Live, Nexus!Evictable, Nexus!Live
<1>4. CanonCount' = CanonCount
  BY <1>3 DEF CanonCount
<1>5. Stages'
  BY <1>2 DEF BudgetIInv, Stages, AfterCall
<1>6. Settled'
  BY <1>2 DEF Settled, AfterCall
<1>7. t \in Owing
  BY <1>1 DEF Owing
<1>8. CASE turn[t] \in {"add", "over"}
  <2>1. Owing' = Owing
    BY <1>2, <1>7, <1>8 DEF Owing, AfterCall
  <2>2. BoundedMemory'
    BY <1>1, <1>3, <1>4, <2>1 DEF BudgetIInv, BoundedMemory
  <2> QED
    BY <1>5, <1>6, <2>2 DEF BudgetIInv
<1>9. CASE turn[t] \in {"within", "sweep"}
  <2>1. Cardinality(Owing') \in Nat /\ Cardinality(Live) \in Nat /\ CanonCount \in Nat
        /\ Cardinality(Indexed) \in Nat /\ IsFiniteSet(Live)
    BY Counts, CountsAfter DEF BudgetIInv
  <2>2. Cardinality(Live) <= AtLeast(Budget, CanonCount)
    BY <1>1, <1>9, <2>1, Natural DEF BudgetIInv, Settled, AtLeast
  <2>3. Indexed \subseteq Live
    <3>1. ~ \E u \in Threads : pc[u] = "pruning"
      BY <1>1, <1>2
    <3> QED
      BY <3>1 DEF BudgetIInv, IInv, IndexMirrorsGraph
  <2>4. Cardinality(Indexed) <= Cardinality(Live)
    BY <2>1, <2>3, FS_Subset
  <2>5. AtLeast(Budget, CanonCount) \in Nat
    BY <2>1, Natural DEF AtLeast
  <2>6. BoundedMemory'
    BY <1>1, <1>3, <1>4, <2>1, <2>2, <2>4, <2>5 DEF BudgetIInv, BoundedMemory
  <2> QED
    BY <1>5, <1>6, <2>6 DEF BudgetIInv
<1> QED
  BY <1>2, <1>8, <1>9

LEMMA StepBudget == BudgetIInv /\ [ClientNext]_clientVars => BudgetIInv'
<1> SUFFICES ASSUME BudgetIInv, [ClientNext]_clientVars
             PROVE  BudgetIInv'
  OBVIOUS
<1>1. IInv'
  BY ClientsUseTheEngine, StepIInv DEF BudgetIInv
<1>2. CASE UNCHANGED clientVars
  <2>1. /\ nodes' = nodes /\ pc' = pc /\ turn' = turn /\ vectors' = vectors
        /\ Indexed' = Indexed /\ Owing' = Owing
    BY <1>2 DEF clientVars, vars, nexusVars, indexVars, Indexed, Owing
  <2>2. Live' = Live /\ CanonCount' = CanonCount
    BY <2>1, BoundStays
  <2> QED
    BY <1>1, <2>1, <2>2 DEF BudgetIInv, Stages, Settled, BoundedMemory
<1>3. ASSUME NEW t \in Threads, AddFact(t)
      PROVE  BudgetIInv'
  BY <1>1, <1>3, AddKeepsBudget, IndexingKeepsBudget DEF AddFact
<1>4. ASSUME NEW t \in Threads, StartRound(t) \/ Grab(t) \/ Proceed(t)
      PROVE  BudgetIInv'
  BY <1>1, <1>3, <1>4, EnteringKeepsBudget, CountingKeepsBudget, SweepingKeepsBudget,
     ReturningKeepsBudget
  DEF Proceed
<1> QED
  BY <1>2, <1>4 DEF ClientNext

\* However many threads follow the pattern, and whatever they add, memory is
\* exceeded by no more than one fact and one embedding for each of them in
\* mid-round.
THEOREM PatternBoundsMemory == ClientSpec => []BoundedMemory
<1>1. BudgetIInv => BoundedMemory
  BY DEF BudgetIInv
<1> QED
  BY <1>1, InitBudget, StepBudget, PTL DEF ClientSpec

\* A thread owes one fact at most, so the excess never exceeds the threads; and
\* when no thread is in mid-round there is none.
THEOREM ExcessIsOnePerThread ==
    ClientSpec => [](/\ Cardinality(Live) <= AtLeast(Budget, CanonCount) + Cardinality(Threads)
                     /\ Owing = {} => Cardinality(Live) <= AtLeast(Budget, CanonCount))
<1>1. BudgetIInv => /\ Cardinality(Live) <= AtLeast(Budget, CanonCount) + Cardinality(Threads)
                    /\ Owing = {} => Cardinality(Live) <= AtLeast(Budget, CanonCount)
  <2> SUFFICES ASSUME BudgetIInv
               PROVE  /\ Cardinality(Live) <= AtLeast(Budget, CanonCount) + Cardinality(Threads)
                      /\ Owing = {} => Cardinality(Live) <= AtLeast(Budget, CanonCount)
    OBVIOUS
  <2>1. /\ Cardinality(Live) \in Nat /\ Cardinality(Owing) \in Nat /\ CanonCount \in Nat
        /\ Cardinality(Live) <= AtLeast(Budget, CanonCount) + Cardinality(Owing)
    BY Counts DEF BudgetIInv, BoundedMemory
  <2>2. AtLeast(Budget, CanonCount) \in Nat
    BY <2>1, Natural DEF AtLeast
  <2>3. Cardinality(Owing) <= Cardinality(Threads) /\ Cardinality(Threads) \in Nat
    BY EngineAssumption, FS_Subset, FS_CardinalityType DEF Owing
  <2>4. Owing = {} => Cardinality(Owing) = 0
    BY FS_EmptySet
  <2> QED
    BY <2>1, <2>2, <2>3, <2>4
<1> QED
  BY <1>1, InitBudget, StepBudget, PTL DEF ClientSpec

\* Threads that follow the pattern do nothing to the handle that its own
\* specification does not allow, so all that is proved of it holds here: each
\* call looks like one instant, and the promise about forgetting is kept.
THEOREM PatternUsesTheHandle == ClientSpec => Spec /\ ActsAtomically /\ P!KeepsThePromise
<1>1. ClientSpec => Spec
  BY ClientsUseTheEngine, PTL DEF ClientSpec, ClientInit, Spec
<1> QED
  BY <1>1, HandleIsAtomic, HandleKeepsThePromise
=============================================================================

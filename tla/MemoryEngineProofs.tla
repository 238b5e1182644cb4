-------------------------- MODULE MemoryEngineProofs --------------------------
(***************************************************************************)
(* Proofs about MemoryEngine: that the lock keeps its promise for any      *)
(* number of threads, and that index and graph then agree.  What the nexus *)
(* keeps to is taken from GraphNexusProofs, instantiated as P; the lemmas  *)
(* of the first part say that Nexus and P, two instances of one module     *)
(* with the same arguments, are the same.                                  *)
(***************************************************************************)
EXTENDS MemoryEngine, TLAPS

P == INSTANCE GraphNexusProofs

LEMMA NexusAssumed == P!NexusAssumption
BY EngineAssumption
   DEF Nexus!NexusAssumption, P!NexusAssumption, Nexus!SourceType, P!SourceType,
       Nexus!CanonLevel, P!CanonLevel

LEMMA SameCreateNode ==
    ASSUME NEW s, NEW level, Nexus!CreateNode(s, level)
    PROVE  P!CreateNode(s, level)
BY DEF Nexus!CreateNode, P!CreateNode, Nexus!NewNode, P!NewNode, Nexus!Live, P!Live,
       Nexus!IsImmortal, P!IsImmortal, Nexus!IsCanon, P!IsCanon, Nexus!Neutral, P!Neutral,
       Nexus!StartImportance, P!StartImportance, Nexus!AtMost, P!AtMost,
       Nexus!BaseImportance, P!BaseImportance, Nexus!MaxImportanceCap, P!MaxImportanceCap,
       Nexus!One, P!One

LEMMA SameVerdict ==
    ASSUME NEW x, NEW s
    PROVE  Nexus!Confirmed(x, s) = P!Confirmed(x, s) /\ Nexus!Rejected(x) = P!Rejected(x)
<1>1. ASSUME NEW y, NEW q
      PROVE  Nexus!RoundToMultiple(y, q) = P!RoundToMultiple(y, q)
  BY DEF Nexus!RoundToMultiple, P!RoundToMultiple
<1>2. ASSUME NEW y
      PROVE  Nexus!Rounded(y) = P!Rounded(y)
  <2>1. Nexus!Grain(y) = P!Grain(y)
    BY DEF Nexus!Grain, P!Grain, Nexus!One, P!One
  <2> QED
    BY <1>1, <2>1 DEF Nexus!Rounded, P!Rounded
<1>3. Nexus!MaxImportanceCap(s) = P!MaxImportanceCap(s)
  BY DEF Nexus!MaxImportanceCap, P!MaxImportanceCap, Nexus!One, P!One
<1>4. Nexus!Confirmed(x, s) = P!Confirmed(x, s)
  BY <1>2, <1>3 DEF Nexus!Confirmed, P!Confirmed, Nexus!AtMost, P!AtMost,
                    Nexus!ConfirmStep, P!ConfirmStep
<1>5. Nexus!Rejected(x) = P!Rejected(x)
  BY <1>2 DEF Nexus!Rejected, P!Rejected, Nexus!AtLeast, P!AtLeast,
              Nexus!RejectStep, P!RejectStep
<1> QED
  BY <1>4, <1>5

LEMMA SameFeedback ==
    ASSUME NEW id, NEW helpful, Nexus!RecordHumanFeedback(id, helpful)
    PROVE  P!RecordHumanFeedback(id, helpful) /\ id \in P!Live
<1>1. Nexus!Judged(nodes[id], helpful) = P!Judged(nodes[id], helpful)
  BY SameVerdict DEF Nexus!Judged, P!Judged, Nexus!SaturatingIncrement, P!SaturatingIncrement
<1> QED
  BY <1>1 DEF Nexus!RecordHumanFeedback, P!RecordHumanFeedback, Nexus!Live, P!Live

LEMMA SamePromote ==
    ASSUME NEW min, NEW level, Nexus!PromoteConfirmedToCanon(min, level)
    PROVE  P!PromoteConfirmedToCanon(min, level)
BY DEF Nexus!PromoteConfirmedToCanon, P!PromoteConfirmedToCanon, Nexus!Promotable,
       P!Promotable, Nexus!Canonised, P!Canonised, Nexus!Live, P!Live, Nexus!IsCanon,
       P!IsCanon, Nexus!IsSelfDescription, P!IsSelfDescription

LEMMA SameSetAffect ==
    ASSUME NEW id, NEW affect, Nexus!SetNodeAffect(id, affect)
    PROVE  P!SetNodeAffect(id, affect) /\ id \in P!Live
BY DEF Nexus!SetNodeAffect, P!SetNodeAffect, Nexus!Live, P!Live

LEMMA SameEnforceCapacity ==
    ASSUME NEW max, Nexus!EnforceCapacity(max)
    PROVE  P!EnforceCapacity(max)
<1>1. ASSUME NEW S
      PROVE  Nexus!Cardinality(S) = P!Cardinality(S)
  BY DEF Nexus!Cardinality, P!Cardinality
<1> QED
  BY <1>1 DEF Nexus!EnforceCapacity, P!EnforceCapacity, Nexus!Victims, P!Victims,
       Nexus!LeastValuable, P!LeastValuable, Nexus!LessValuable, P!LessValuable,
       Nexus!Evictable, P!Evictable, Nexus!Live, P!Live, Nexus!AtMost, P!AtMost

LEMMA SameTypes == P!IInv => Nexus!TypeOK
BY DEF P!IInv, P!TypeOK, Nexus!TypeOK, Nexus!Live, P!Live, P!MemoryNode, Nexus!MemoryNode,
       P!MemoryEdge, Nexus!MemoryEdge, P!SourceType, Nexus!SourceType, P!CanonLevel,
       Nexus!CanonLevel, P!Neutral, Nexus!Neutral

LEMMA NexusStart == Nexus!Init => P!IInv
<1>1. Nexus!Init => P!Init
  BY DEF Nexus!Init, P!Init
<1> QED
  BY <1>1, P!InitIInv, NexusAssumed DEF P!NexusAssumption

LEMMA NexusStep ==
    ASSUME P!IInv, P!Next \/ UNCHANGED nexusVars
    PROVE  P!IInv'
BY P!StepIInv, NexusAssumed DEF P!NexusAssumption, P!vars, nexusVars

-----------------------------------------------------------------------------
(* The inductive invariant: what the nexus keeps to, the invariants of the   *)
(* runs, and that add_node finds the fact it is about to index as it left    *)
(* it.  They need each other: index and graph agree because only one thread  *)
(* is inside, and a search is fresh because they agree.                      *)

NewcomerAwaitsIndex ==
    \A t \in Threads : pc[t] = "indexing" =>
        /\ drawn \in Live \ Indexed
        /\ drawn <= MaxDraws
        /\ embedding[t] \in Lengths \ {0}

IInv ==
    /\ P!IInv
    /\ TypeOK
    /\ OneInside
    /\ IndexMirrorsGraph
    /\ CandidatesAreFresh
    /\ NewcomerAwaitsIndex

\* While a thread is inside, every other one is out or spins.
LEMMA OthersOutside ==
    ASSUME OneInside, NEW t \in Threads, Inside(t), NEW u \in Threads, u # t
    PROVE  pc[u] \in {"out", "spinning"}
BY DEF OneInside, Inside

\* A step inside the lock keeps it one thread's.
LEMMA StaysInside ==
    ASSUME TypeOK, OneInside, NEW t \in Threads, Inside(t), locked' = locked,
           NEW to, to \notin {"out", "spinning"}, pc' = [pc EXCEPT ![t] = to]
    PROVE  OneInside'
BY DEF TypeOK, OneInside, Inside

\* What a call leaves when it is done.
LEMMA Leaving ==
    ASSUME IInv, P!IInv', NEW t \in Threads, Inside(t),
           pc' = [pc EXCEPT ![t] = "leaving"], locked' = locked,
           drawn' \in Nat, drawn <= drawn',
           dimension' \in Lengths \cup {0},
           vectors' \in [Indexed' -> {1}], Indexed' \subseteq Live',
           Indexed' # {} => dimension' > 0,
           embedding' \in [Threads -> Lengths \cup {0}],
           candidates' \in [Threads -> SUBSET (1 .. drawn')],
           heard' \in [Threads -> SUBSET (1 .. drawn')]
    PROVE  IInv'
<1> USE DEF IInv
<1>1. /\ pc \in [Threads -> {"out", "spinning", "holding", "indexing", "pruning",
                            "ranking", "leaving"}]
      /\ pc'[t] = "leaving"
      /\ \A u \in Threads : u # t => pc'[u] = pc[u] /\ pc[u] \in {"out", "spinning"}
  BY OthersOutside DEF TypeOK
<1>2. Live' \subseteq 1 .. drawn' /\ Nexus!TypeOK'
  <2>1. Nexus!TypeOK'
    BY SameTypes, PTL
  <2> QED
    BY <2>1 DEF Nexus!TypeOK, Nexus!Live, Live
<1>3. TypeOK'
  BY <1>1, <1>2 DEF TypeOK, Live
<1>4. OneInside'
  BY <1>1, StaysInside
<1>5. IndexMirrorsGraph'
  BY DEF IndexMirrorsGraph
<1>6. CandidatesAreFresh' /\ NewcomerAwaitsIndex'
  BY <1>1 DEF CandidatesAreFresh, NewcomerAwaitsIndex
<1> QED
  BY <1>3, <1>4, <1>5, <1>6

\* Index and graph agree for whoever is inside and not about to prune.
LEMMA Agreement ==
    ASSUME IInv, NEW t \in Threads, Inside(t), pc[t] # "pruning"
    PROVE  Indexed \subseteq Live /\ vectors \in [Indexed -> {1}]
<1>1. \A u \in Threads : pc[u] # "pruning"
  BY OthersOutside DEF IInv
<1>2. Indexed \subseteq Live
  BY <1>1 DEF IInv, IndexMirrorsGraph
<1>3. vectors \in [Indexed -> {1}]
  BY DEF IInv, TypeOK, IndexMirrorsGraph
<1> QED
  BY <1>2, <1>3

LEMMA InitIInv == Init => IInv
<1> SUFFICES ASSUME Init
             PROVE  IInv
  OBVIOUS
<1>1. P!IInv /\ Nexus!TypeOK
  BY NexusStart, SameTypes DEF Init
<1>2. Indexed = {} /\ Live = {} /\ drawn = 0
  BY DEF Init, Indexed, Live, Nexus!Init
<1>3. vectors \in [Indexed -> Nat \ {0}]
  BY DEF Init, Indexed
<1>4. TypeOK
  BY <1>1, <1>2, <1>3 DEF Init, TypeOK
<1> QED
  BY <1>1, <1>2, <1>4
  DEF Init, IInv, OneInside, Inside, IndexMirrorsGraph, CandidatesAreFresh, NewcomerAwaitsIndex

\* Outside the lock a step moves one thread and touches nothing it guards.
LEMMA OutsideStep ==
    ASSUME IInv, NEW t \in Threads, Call(t) \/ Lock(t) \/ Unlock(t)
    PROVE  IInv'
<1>1. /\ UNCHANGED <<nodes, edges, clock, drawn, dimension, vectors>>
      /\ UNCHANGED <<embedding, candidates, heard>>
      /\ UNCHANGED nexusVars
      /\ Live' = Live /\ Indexed' = Indexed
  BY DEF Call, Lock, Unlock, nexusVars, indexVars, localVars, Live, Indexed
<1>2. P!IInv'
  BY <1>1, NexusStep DEF IInv
<1>3. Nexus!TypeOK'
  BY <1>2, SameTypes, PTL
<1>4. /\ pc \in [Threads -> {"out", "spinning", "holding", "indexing", "pruning",
                            "ranking", "leaving"}]
      /\ locked \in BOOLEAN
  BY DEF IInv, TypeOK
<1>5. TypeOK'
  BY <1>1, <1>3, <1>4 DEF IInv, TypeOK, Call, Lock, Unlock, Goto
<1>6. OneInside'
  BY <1>4 DEF IInv, OneInside, Inside, Call, Lock, Unlock, Goto
<1>7. \A u \in Threads : /\ pc'[u] \in {"indexing", "pruning", "ranking"} => pc'[u] = pc[u]
                         /\ pc[u] = "pruning" => pc'[u] = "pruning"
  BY <1>4 DEF Call, Lock, Unlock, Goto
<1>8. IndexMirrorsGraph'
  BY <1>1, <1>7 DEF IInv, IndexMirrorsGraph
<1>9. CandidatesAreFresh' /\ NewcomerAwaitsIndex'
  BY <1>1, <1>7 DEF IInv, CandidatesAreFresh, NewcomerAwaitsIndex
<1> QED
  BY <1>2, <1>5, <1>6, <1>8, <1>9 DEF IInv

\* What an add does to the nexus.
LEMMA AddEffect ==
    ASSUME IInv, NEW t \in Threads, NEW s \in Sources, NEW level \in Levels,
           NEW len \in Lengths, AddNode(t, s, level, len)
    PROVE  /\ P!IInv'
           /\ drawn \in Nat /\ drawn' = drawn + 1 /\ drawn < MaxDraws
           /\ drawn' \notin Live /\ Live' = Live \cup {drawn'}
           /\ \A n \in Live : nodes'[n] = nodes[n]
           /\ Live \subseteq 1 .. drawn
<1>1. Nexus!CreateNode(s, level)
  BY DEF AddNode
<1>2. P!IInv'
  BY <1>1, SameCreateNode, NexusStep DEF IInv, P!Next
<1>3. drawn \in Nat /\ Live \subseteq 1 .. drawn
  BY DEF IInv, TypeOK, Nexus!TypeOK, Nexus!Live, Live
<1> QED
  BY <1>1, <1>2, <1>3 DEF Nexus!CreateNode, Nexus!Live, Live

LEMMA AddNodeStep ==
    ASSUME IInv, NEW t \in Threads, NEW s \in Sources, NEW level \in Levels,
           NEW len \in Lengths, AddNode(t, s, level, len)
    PROVE  IInv'
<1>1. /\ P!IInv'
      /\ drawn \in Nat /\ drawn' = drawn + 1
      /\ drawn' \notin Live /\ Live' = Live \cup {drawn'}
  BY AddEffect
<1>2. /\ Inside(t) /\ pc[t] = "holding"
      /\ locked' = locked /\ dimension' = dimension /\ vectors' = vectors
      /\ candidates' = candidates /\ heard' = heard
      /\ embedding' = [embedding EXCEPT ![t] = len]
      /\ Indexed' = Indexed
  BY DEF AddNode, Goto, Inside, indexVars, Indexed
<1>3. /\ embedding \in [Threads -> Lengths \cup {0}]
      /\ candidates \in [Threads -> SUBSET (1 .. drawn)]
      /\ heard \in [Threads -> SUBSET (1 .. drawn)]
      /\ dimension \in Lengths \cup {0}
      /\ Indexed \subseteq 1 .. drawn
      /\ pc \in [Threads -> {"out", "spinning", "holding", "indexing", "pruning",
                            "ranking", "leaving"}]
  BY DEF IInv, TypeOK
<1>4. /\ embedding' \in [Threads -> Lengths \cup {0}]
      /\ candidates' \in [Threads -> SUBSET (1 .. drawn')]
      /\ heard' \in [Threads -> SUBSET (1 .. drawn')]
  BY <1>1, <1>2, <1>3
<1>5. Indexed \subseteq Live /\ vectors \in [Indexed -> {1}]
  BY <1>2, Agreement
<1>6. Indexed # {} => dimension > 0
  BY DEF IInv, IndexMirrorsGraph
<1>7. CASE ~(len > 0)
  <2>1. pc' = [pc EXCEPT ![t] = "leaving"]
    BY <1>7 DEF AddNode, Goto
  <2>2. vectors' \in [Indexed' -> {1}] /\ Indexed' \subseteq Live'
    BY <1>1, <1>2, <1>5
  <2>3. drawn' \in Nat /\ drawn <= drawn'
    BY <1>1
  <2>4. dimension' \in Lengths \cup {0} /\ (Indexed' # {} => dimension' > 0)
    BY <1>2, <1>3, <1>6
  <2> QED
    BY <1>1, <1>2, <1>4, <2>1, <2>2, <2>3, <2>4, Leaving
<1>8. CASE len > 0
  <2>1. pc' = [pc EXCEPT ![t] = "indexing"]
    BY <1>8 DEF AddNode, Goto
  <2>2. \A u \in Threads : u # t => pc'[u] = pc[u] /\ pc[u] \in {"out", "spinning"}
    BY <1>2, <1>3, <2>1, OthersOutside DEF IInv
  <2>3. pc'[t] = "indexing"
    BY <1>3, <2>1
  <2>4. Nexus!TypeOK'
    BY <1>1, SameTypes, PTL
  <2>5. TypeOK'
    <3>1. Indexed' \subseteq 1 .. drawn'
      BY <1>1, <1>2, <1>3
    <3>2. vectors' \in [Indexed' -> Nat \ {0}]
      BY <1>2, <1>5
    <3>3. pc' \in [Threads -> {"out", "spinning", "holding", "indexing", "pruning",
                              "ranking", "leaving"}]
      BY <1>3, <2>1
    <3> QED
      BY <1>2, <1>3, <1>4, <2>4, <3>1, <3>2, <3>3 DEF IInv, TypeOK
  <2>6. OneInside'
    BY <1>2, <2>1, StaysInside DEF IInv
  <2>7. IndexMirrorsGraph'
    BY <1>1, <1>2, <1>5, <1>6 DEF IndexMirrorsGraph
  <2>8. CandidatesAreFresh'
    BY <2>2, <2>3 DEF CandidatesAreFresh
  <2>9. NewcomerAwaitsIndex'
    <3>1. drawn' \in Live' \ Indexed'
      BY <1>1, <1>2, <1>5
    <3>2. embedding'[t] \in Lengths \ {0}
      BY <1>2, <1>3, <1>8, EngineAssumption
    <3>3. drawn' <= MaxDraws
      BY AddEffect, EngineAssumption DEF Nexus!NexusAssumption
    <3> QED
      BY <2>2, <2>3, <3>1, <3>2, <3>3 DEF NewcomerAwaitsIndex
  <2> QED
    BY <1>1, <2>5, <2>6, <2>7, <2>8, <2>9 DEF IInv
<1> QED
  BY <1>3, <1>7, <1>8, EngineAssumption

LEMMA IndexEmbeddingStep ==
    ASSUME IInv, NEW t \in Threads, IndexEmbedding(t)
    PROVE  IInv'
<1>1. /\ Inside(t) /\ pc[t] = "indexing" /\ pc' = [pc EXCEPT ![t] = "leaving"]
      /\ UNCHANGED nexusVars
      /\ drawn' = drawn /\ Live' = Live /\ locked' = locked
      /\ candidates' = candidates /\ heard' = heard
      /\ embedding' = [embedding EXCEPT ![t] = 0]
  BY DEF IndexEmbedding, Goto, Inside, nexusVars, Live
<1>2. P!IInv'
  BY <1>1, NexusStep DEF IInv
<1>3. drawn \in Live \ Indexed /\ embedding[t] \in Lengths \ {0}
  BY <1>1 DEF IInv, NewcomerAwaitsIndex
<1>4. Indexed \subseteq Live /\ vectors \in [Indexed -> {1}]
  BY <1>1, Agreement
<1>5. /\ dimension \in Lengths \cup {0}
      /\ drawn \in Nat
      /\ embedding \in [Threads -> Lengths \cup {0}]
      /\ candidates \in [Threads -> SUBSET (1 .. drawn)]
      /\ heard \in [Threads -> SUBSET (1 .. drawn)]
  BY DEF IInv, TypeOK, Nexus!TypeOK
<1>6. dimension' \in Lengths \ {0}
  BY <1>3, <1>5 DEF IndexEmbedding
<1>7. dimension' > 0
  BY <1>6, EngineAssumption
<1>8. vectors' \in [Indexed' -> {1}] /\ Indexed' \subseteq Live'
  <2>1. CASE embedding[t] = dimension'
    <3>1. vectors' = [n \in Indexed \cup {drawn} |-> IF n = drawn THEN 1 ELSE vectors[n]]
      BY <1>3, <2>1 DEF IndexEmbedding, Filed
    <3> QED
      BY <1>1, <1>3, <1>4, <3>1 DEF Indexed
  <2>2. CASE embedding[t] # dimension'
    BY <1>1, <1>4, <2>2 DEF IndexEmbedding, Indexed
  <2> QED
    BY <2>1, <2>2
<1>9. /\ embedding' \in [Threads -> Lengths \cup {0}]
      /\ candidates' \in [Threads -> SUBSET (1 .. drawn')]
      /\ heard' \in [Threads -> SUBSET (1 .. drawn')]
      /\ drawn' \in Nat /\ drawn <= drawn'
  BY <1>1, <1>5
<1> QED
  BY <1>1, <1>2, <1>6, <1>7, <1>8, <1>9, Leaving

\* What a sweep does to the nexus.
LEMMA SweepEffect ==
    ASSUME P!IInv, NEW max \in Capacities, Nexus!EnforceCapacity(max)
    PROVE  /\ P!IInv' /\ drawn' = drawn
           /\ Live' \subseteq Live
           /\ \A n \in Live' : nodes'[n] = nodes[n]
<1>1. P!IInv'
  BY SameEnforceCapacity, NexusStep DEF P!Next
<1> QED
  BY <1>1 DEF Nexus!EnforceCapacity, Nexus!Live, Live

LEMMA EvictNodesStep ==
    ASSUME IInv, NEW t \in Threads, NEW max \in Capacities, EvictNodes(t, max)
    PROVE  IInv'
<1>1. /\ Inside(t) /\ pc[t] = "holding"
      /\ locked' = locked /\ dimension' = dimension /\ vectors' = vectors
      /\ embedding' = embedding /\ candidates' = candidates /\ heard' = heard
      /\ Indexed' = Indexed
  BY DEF EvictNodes, Goto, Inside, indexVars, localVars, Indexed
<1>2. /\ embedding \in [Threads -> Lengths \cup {0}]
      /\ candidates \in [Threads -> SUBSET (1 .. drawn)]
      /\ heard \in [Threads -> SUBSET (1 .. drawn)]
      /\ dimension \in Lengths \cup {0} /\ drawn \in Nat
      /\ Indexed \subseteq 1 .. drawn
      /\ pc \in [Threads -> {"out", "spinning", "holding", "indexing", "pruning",
                            "ranking", "leaving"}]
      /\ (Indexed # {} => dimension > 0)
  BY DEF IInv, TypeOK, Nexus!TypeOK, IndexMirrorsGraph
<1>3. Indexed \subseteq Live /\ vectors \in [Indexed -> {1}]
  BY <1>1, Agreement
<1>4. CASE UNCHANGED nexusVars /\ pc' = [pc EXCEPT ![t] = "leaving"]
  <2>1. Live' = Live /\ drawn' = drawn
    BY <1>4 DEF nexusVars, Live
  <2>2. P!IInv'
    BY <1>4, NexusStep DEF IInv
  <2>3. vectors' \in [Indexed' -> {1}] /\ Indexed' \subseteq Live'
    BY <1>1, <1>3, <2>1
  <2>4. /\ dimension' \in Lengths \cup {0} /\ (Indexed' # {} => dimension' > 0)
        /\ drawn' \in Nat /\ drawn <= drawn'
        /\ embedding' \in [Threads -> Lengths \cup {0}]
        /\ candidates' \in [Threads -> SUBSET (1 .. drawn')]
        /\ heard' \in [Threads -> SUBSET (1 .. drawn')]
    BY <1>1, <1>2, <2>1
  <2> QED
    BY <1>1, <1>4, <2>2, <2>3, <2>4, Leaving
<1>5. CASE Nexus!EnforceCapacity(max) /\ pc' = [pc EXCEPT ![t] = "pruning"]
  <2>1. P!IInv' /\ drawn' = drawn
    BY <1>5, SweepEffect DEF IInv
  <2>2. /\ pc'[t] = "pruning"
        /\ \A u \in Threads : u # t => pc'[u] = pc[u] /\ pc[u] \in {"out", "spinning"}
    BY <1>1, <1>2, <1>5, OthersOutside DEF IInv
  <2>3. Nexus!TypeOK'
    BY <2>1, SameTypes, PTL
  <2>4. TypeOK'
    BY <1>1, <1>2, <1>5, <2>1, <2>3 DEF IInv, TypeOK
  <2>5. OneInside'
    BY <1>1, <1>5, StaysInside DEF IInv
  <2>6. IndexMirrorsGraph'
    BY <1>1, <1>2, <1>3, <2>2 DEF IndexMirrorsGraph
  <2>7. CandidatesAreFresh' /\ NewcomerAwaitsIndex'
    BY <2>2 DEF CandidatesAreFresh, NewcomerAwaitsIndex
  <2> QED
    BY <2>1, <2>4, <2>5, <2>6, <2>7 DEF IInv
<1> QED
  BY <1>4, <1>5 DEF EvictNodes, Goto

LEMMA PruneIndexStep ==
    ASSUME IInv, NEW t \in Threads, PruneIndex(t)
    PROVE  IInv'
<1>1. /\ Inside(t) /\ pc' = [pc EXCEPT ![t] = "leaving"]
      /\ UNCHANGED nexusVars /\ drawn' = drawn /\ Live' = Live
      /\ locked' = locked /\ dimension' = dimension
      /\ embedding' = embedding /\ candidates' = candidates /\ heard' = heard
      /\ vectors' = [n \in Indexed \cap Live |-> vectors[n]]
      /\ Indexed' = Indexed \cap Live
  BY DEF PruneIndex, Goto, Inside, nexusVars, localVars, Live, Indexed
<1>2. P!IInv'
  BY <1>1, NexusStep DEF IInv
<1>3. vectors' \in [Indexed' -> {1}] /\ Indexed' \subseteq Live'
  BY <1>1 DEF IInv, IndexMirrorsGraph
<1>4. /\ dimension' \in Lengths \cup {0} /\ (Indexed' # {} => dimension' > 0)
      /\ drawn' \in Nat /\ drawn <= drawn'
      /\ embedding' \in [Threads -> Lengths \cup {0}]
      /\ candidates' \in [Threads -> SUBSET (1 .. drawn')]
      /\ heard' \in [Threads -> SUBSET (1 .. drawn')]
  BY <1>1 DEF IInv, TypeOK, Nexus!TypeOK, IndexMirrorsGraph
<1> QED
  BY <1>1, <1>2, <1>3, <1>4, Leaving

LEMMA ReadCandidatesStep ==
    ASSUME IInv, NEW t \in Threads, NEW len \in Lengths, ReadCandidates(t, len)
    PROVE  IInv'
<1>1. /\ Inside(t) /\ pc[t] = "holding" /\ pc' = [pc EXCEPT ![t] = "ranking"]
      /\ UNCHANGED nexusVars /\ drawn' = drawn /\ Live' = Live
      /\ locked' = locked /\ dimension' = dimension /\ vectors' = vectors
      /\ embedding' = embedding /\ heard' = heard /\ Indexed' = Indexed
      /\ candidates' = [candidates EXCEPT ![t] = IF len = dimension THEN Indexed ELSE {}]
  BY DEF ReadCandidates, Goto, Inside, nexusVars, indexVars, Live, Indexed
<1>2. P!IInv'
  BY <1>1, NexusStep DEF IInv
<1>3. Indexed \subseteq Live
  BY <1>1, Agreement
<1>4. /\ pc \in [Threads -> {"out", "spinning", "holding", "indexing", "pruning",
                            "ranking", "leaving"}]
      /\ candidates \in [Threads -> SUBSET (1 .. drawn)]
      /\ Indexed \subseteq 1 .. drawn
  BY DEF IInv, TypeOK
<1>5. /\ pc'[t] = "ranking"
      /\ \A u \in Threads : u # t => pc'[u] = pc[u] /\ pc[u] \in {"out", "spinning"}
  BY <1>1, <1>4, OthersOutside DEF IInv
<1>6. Nexus!TypeOK'
  BY <1>2, SameTypes, PTL
<1>7. TypeOK'
  BY <1>1, <1>4, <1>6 DEF IInv, TypeOK
<1>8. OneInside'
  BY <1>1, StaysInside DEF IInv
<1>9. IndexMirrorsGraph'
  BY <1>1, <1>3 DEF IInv, IndexMirrorsGraph
<1>10. CandidatesAreFresh' /\ NewcomerAwaitsIndex'
  BY <1>1, <1>3, <1>4, <1>5 DEF CandidatesAreFresh, NewcomerAwaitsIndex
<1> QED
  BY <1>2, <1>7, <1>8, <1>9, <1>10 DEF IInv

\* A step that leaves index and embeddings alone and ends its call.
LEMMA QuietStep ==
    ASSUME IInv, P!IInv', NEW t \in Threads, Inside(t), pc[t] # "pruning",
           pc' = [pc EXCEPT ![t] = "leaving"], locked' = locked,
           Live' = Live, drawn' = drawn, UNCHANGED indexVars, embedding' = embedding,
           candidates' \in [Threads -> SUBSET (1 .. drawn)],
           heard' \in [Threads -> SUBSET (1 .. drawn)]
    PROVE  IInv'
<1>1. vectors' = vectors /\ dimension' = dimension /\ Indexed' = Indexed
  BY DEF indexVars, Indexed
<1>2. vectors' \in [Indexed' -> {1}] /\ Indexed' \subseteq Live'
  BY <1>1, Agreement
<1>3. /\ dimension' \in Lengths \cup {0} /\ (Indexed' # {} => dimension' > 0)
      /\ drawn' \in Nat /\ drawn <= drawn'
      /\ embedding' \in [Threads -> Lengths \cup {0}]
  BY <1>1 DEF IInv, TypeOK, Nexus!TypeOK, IndexMirrorsGraph
<1> QED
  BY <1>2, <1>3, Leaving

LEMMA RankCandidatesStep ==
    ASSUME IInv, NEW t \in Threads, RankCandidates(t)
    PROVE  IInv'
<1>1. /\ Inside(t) /\ pc[t] # "pruning" /\ pc' = [pc EXCEPT ![t] = "leaving"]
      /\ UNCHANGED nexusVars /\ drawn' = drawn /\ Live' = Live
      /\ locked' = locked /\ UNCHANGED indexVars /\ embedding' = embedding
  BY DEF RankCandidates, Goto, Inside, nexusVars, Live
<1>2. P!IInv'
  BY <1>1, NexusStep DEF IInv
<1>3. /\ candidates' \in [Threads -> SUBSET (1 .. drawn)]
      /\ heard' \in [Threads -> SUBSET (1 .. drawn)]
  BY DEF IInv, TypeOK, RankCandidates
<1> QED
  BY <1>1, <1>2, <1>3, QuietStep

\* The one-step calls rewrite nodes, and add or remove none.
LEMMA RewriteEffect ==
    ASSUME P!IInv, NEW t \in Threads,
           \/ \E id \in Known, helpful \in BOOLEAN : RecordFeedback(t, id, helpful)
           \/ \E min \in Thresholds, level \in Levels : PromoteConfirmed(t, min, level)
           \/ \E id \in Known, affect \in Affects : SetAffect(t, id, affect)
           \/ ReadOnly(t)
    PROVE  /\ P!IInv' /\ drawn' = drawn /\ Live' = Live
           /\ \A n \in Live : nodes'[n].source_type = nodes[n].source_type
<1>0. nodes \in [P!Live -> P!MemoryNode] /\ P!Live = Live
  BY DEF P!IInv, P!TypeOK, P!Live, Live
<1>1. ASSUME UNCHANGED nexusVars
      PROVE  /\ P!IInv' /\ drawn' = drawn /\ Live' = Live
             /\ \A n \in Live : nodes'[n].source_type = nodes[n].source_type
  BY <1>1, NexusStep DEF nexusVars, Live
<1>2. ASSUME NEW id \in Known, NEW helpful \in BOOLEAN, RecordFeedback(t, id, helpful),
             id \in Live
      PROVE  /\ P!IInv' /\ drawn' = drawn /\ Live' = Live
             /\ \A n \in Live : nodes'[n].source_type = nodes[n].source_type
  <2>1. P!RecordHumanFeedback(id, helpful) /\ id \in P!Live
    BY <1>2, SameFeedback DEF RecordFeedback
  <2>2. P!IInv'
    BY <2>1, NexusStep DEF P!Next
  <2> QED
    BY <1>0, <2>1, <2>2 DEF P!RecordHumanFeedback, P!Judged, P!MemoryNode, Live
<1>3. ASSUME NEW min \in Thresholds, NEW level \in Levels, PromoteConfirmed(t, min, level),
             IsCanon(level)
      PROVE  /\ P!IInv' /\ drawn' = drawn /\ Live' = Live
             /\ \A n \in Live : nodes'[n].source_type = nodes[n].source_type
  <2>1. P!PromoteConfirmedToCanon(min, level)
    BY <1>3, SamePromote DEF PromoteConfirmed
  <2>2. P!IInv'
    BY <2>1, NexusStep DEF P!Next
  <2> QED
    BY <1>0, <2>1, <2>2 DEF P!PromoteConfirmedToCanon, P!Canonised, P!MemoryNode, Live
<1>4. ASSUME NEW id \in Known, NEW affect \in Affects, SetAffect(t, id, affect), id \in Live
      PROVE  /\ P!IInv' /\ drawn' = drawn /\ Live' = Live
             /\ \A n \in Live : nodes'[n].source_type = nodes[n].source_type
  <2>1. P!SetNodeAffect(id, affect) /\ id \in P!Live
    BY <1>4, SameSetAffect DEF SetAffect
  <2>2. P!IInv'
    BY <2>1, NexusStep DEF P!Next
  <2> QED
    BY <1>0, <2>1, <2>2 DEF P!SetNodeAffect, P!MemoryNode, Live
<1> QED
  BY <1>1, <1>2, <1>3, <1>4 DEF RecordFeedback, PromoteConfirmed, SetAffect, ReadOnly

LEMMA RewriteStep ==
    ASSUME IInv, NEW t \in Threads,
           \/ \E id \in Known, helpful \in BOOLEAN : RecordFeedback(t, id, helpful)
           \/ \E min \in Thresholds, level \in Levels : PromoteConfirmed(t, min, level)
           \/ \E id \in Known, affect \in Affects : SetAffect(t, id, affect)
           \/ ReadOnly(t)
    PROVE  IInv'
<1>1. P!IInv' /\ drawn' = drawn /\ Live' = Live
  BY RewriteEffect DEF IInv
<1>2. /\ Inside(t) /\ pc[t] # "pruning" /\ pc' = [pc EXCEPT ![t] = "leaving"]
      /\ locked' = locked /\ UNCHANGED indexVars /\ UNCHANGED localVars
  BY DEF RecordFeedback, PromoteConfirmed, SetAffect, ReadOnly, Goto, Inside
<1>3. /\ candidates' \in [Threads -> SUBSET (1 .. drawn)]
      /\ heard' \in [Threads -> SUBSET (1 .. drawn)]
      /\ embedding' = embedding
  BY <1>2 DEF IInv, TypeOK, localVars
<1> QED
  BY <1>1, <1>2, <1>3, QuietStep

LEMMA StepIInv == IInv /\ [Next]_vars => IInv'
<1> SUFFICES ASSUME IInv, [Next]_vars
             PROVE  IInv'
  OBVIOUS
<1>1. CASE UNCHANGED vars
  <2>1. P!IInv'
    BY <1>1, NexusStep DEF IInv, vars
  <2>2. Nexus!TypeOK'
    BY <2>1, SameTypes, PTL
  <2> QED
    BY <1>1, <2>1, <2>2
    DEF vars, nexusVars, indexVars, localVars, IInv, TypeOK, OneInside, Inside,
        IndexMirrorsGraph, CandidatesAreFresh, NewcomerAwaitsIndex, Live, Indexed
<1>2. ASSUME NEW t \in Threads, Call(t) \/ Lock(t) \/ Unlock(t)
      PROVE  IInv'
  BY <1>2, OutsideStep
<1>3. ASSUME NEW t \in Threads, Work(t)
      PROVE  IInv'
  BY <1>3, AddNodeStep, IndexEmbeddingStep, EvictNodesStep, PruneIndexStep,
     ReadCandidatesStep, RankCandidatesStep, RewriteStep
  DEF Work
<1> QED
  BY <1>1, <1>2, <1>3 DEF Next

LEMMA Invariance == Spec => []IInv
BY InitIInv, StepIInv, PTL DEF Spec

\* Every variable of the handle and of its threads keeps its type.
THEOREM TypesHold == Spec => []TypeOK
BY Invariance, PTL DEF IInv

\* The unsafe Sync impl of the spinlock is sound: however many threads share a
\* handle, never two are inside.
THEOREM LockExcludes == Spec => []OneInside
BY Invariance, PTL DEF IInv

\* Index and graph agree whenever the lock is free.
THEOREM IndexAgrees == Spec => []IndexMirrorsGraph
BY Invariance, PTL DEF IInv

\* A search ranks what is in index and graph while it ranks.
THEOREM SearchIsFresh == Spec => []CandidatesAreFresh
BY Invariance, PTL DEF IInv

-----------------------------------------------------------------------------
(* Whatever the threads do, the nexus sees its own steps only: what          *)
(* GraphNexusProofs shows of every behaviour of a nexus holds of a handle's. *)

LEMMA WorkIsNexusStep ==
    ASSUME NEW t \in Threads, Work(t)
    PROVE  P!Next \/ UNCHANGED nexusVars
<1>1. ASSUME NEW s \in Sources, NEW level \in Levels, NEW len \in Lengths,
             AddNode(t, s, level, len)
      PROVE  P!Next
  BY <1>1, SameCreateNode DEF AddNode, P!Next
<1>2. ASSUME NEW max \in Capacities, EvictNodes(t, max)
      PROVE  P!Next \/ UNCHANGED nexusVars
  BY <1>2, SameEnforceCapacity DEF EvictNodes, P!Next
<1>3. ASSUME NEW id \in Known, NEW helpful \in BOOLEAN, RecordFeedback(t, id, helpful)
      PROVE  P!Next \/ UNCHANGED nexusVars
  BY <1>3, SameFeedback DEF RecordFeedback, P!Next
<1>4. ASSUME NEW min \in Thresholds, NEW level \in Levels, PromoteConfirmed(t, min, level)
      PROVE  P!Next \/ UNCHANGED nexusVars
  BY <1>4, SamePromote DEF PromoteConfirmed, P!Next
<1>5. ASSUME NEW id \in Known, NEW affect \in Affects, SetAffect(t, id, affect)
      PROVE  P!Next \/ UNCHANGED nexusVars
  BY <1>5, SameSetAffect DEF SetAffect, P!Next
<1>6. ASSUME \/ IndexEmbedding(t) \/ PruneIndex(t) \/ RankCandidates(t) \/ ReadOnly(t)
             \/ \E len \in Lengths : ReadCandidates(t, len)
      PROVE  UNCHANGED nexusVars
  BY <1>6 DEF IndexEmbedding, PruneIndex, RankCandidates, ReadOnly, ReadCandidates
<1> QED
  BY <1>1, <1>2, <1>3, <1>4, <1>5, <1>6 DEF Work

\* A handle's nexus is a nexus: no interleaving of calls takes it anywhere a
\* single caller of its methods could not.
THEOREM HandleRunsANexus == Spec => P!Spec
<1>1. Init => P!Init
  BY DEF Init, Nexus!Init, P!Init
<1>2. [Next]_vars => [P!Next]_(P!vars)
  <2>1. CASE UNCHANGED vars
    BY <2>1 DEF vars, nexusVars, P!vars
  <2>2. ASSUME NEW t \in Threads, Call(t) \/ Lock(t) \/ Unlock(t)
        PROVE  UNCHANGED P!vars
    BY <2>2 DEF Call, Lock, Unlock, nexusVars, P!vars
  <2>3. ASSUME NEW t \in Threads, Work(t)
        PROVE  [P!Next]_(P!vars)
    BY <2>3, WorkIsNexusStep DEF nexusVars, P!vars
  <2> QED
    BY <2>1, <2>2, <2>3 DEF Next
<1> QED
  BY <1>1, <1>2, PTL DEF Spec, P!Spec

\* Whatever threads do to each other, none of their calls drops a canon fact,
\* and no promotion makes canon of a self-description that was not stored as it.
THEOREM CanonOutlivesEveryThread == Spec => P!CanonNeverEvicted /\ P!QuarantineHolds
<1>1. P!Spec => P!CanonNeverEvicted
  BY P!CanonIsForGood, NexusAssumed DEF P!NexusAssumption
<1>2. P!Spec => P!QuarantineHolds
  BY P!QuarantineIsNotOverturned, NexusAssumed DEF P!NexusAssumption
<1> QED
  BY <1>1, <1>2, HandleRunsANexus

\* The ceiling of a fact's source holds however verdicts on it interleave.
THEOREM CeilingOutlivesEveryThread == Spec => []P!ProvenanceCeiling
BY P!CeilingIsAbsolute, HandleRunsANexus, NexusAssumed DEF P!NexusAssumption

\* What is forgotten is decided by verdicts, then by age, whoever gave the
\* verdicts and whoever sweeps: no verdict is lost between two threads.
THEOREM VerdictsOutlastInterleaving ==
    Spec => P!VerdictOutranksUse /\ P!UnjudgedGoOldestFirst
<1>1. P!Spec => P!VerdictOutranksUse
  BY P!VerdictsOutrankUse, NexusAssumed DEF P!NexusAssumption
<1>2. P!Spec => P!UnjudgedGoOldestFirst
  BY P!UnjudgedFallBackToRecency, NexusAssumed DEF P!NexusAssumption
<1> QED
  BY <1>1, <1>2, HandleRunsANexus

\* Each thread's sweep meets its limit, or leaves canon only, and keeps as much
\* of what is valued as any choice could, whatever other threads do around it.
THEOREM SweepsOfThreadsMeetTheLimit ==
    Spec => P!CapacityYieldsOnlyToCanon /\ P!NoPolicyKeepsMoreValued
<1>1. P!Spec => P!CapacityYieldsOnlyToCanon
  BY P!SweepsMeetTheLimit, NexusAssumed DEF P!NexusAssumption
<1>2. P!Spec => P!NoPolicyKeepsMoreValued
  BY P!SweepsKeepTheValued, NexusAssumed DEF P!NexusAssumption
<1> QED
  BY <1>1, <1>2, HandleRunsANexus

\* An id a thread holds never comes to name another thread's fact.
THEOREM HeldIdsNameNoStranger == Spec => [][P!NobodyReturns]_(P!vars)
BY P!ForgottenStaysForgotten, HandleRunsANexus, NexusAssumed DEF P!NexusAssumption

\* The handle implements RetentionPromise too: callers on any threads are
\* promised what a single owner of a nexus is.
THEOREM HandleKeepsThePromise == Spec => P!KeepsThePromise
<1>1. P!Spec => P!KeepsThePromise
  BY P!NexusKeepsThePromise, NexusAssumed DEF P!NexusAssumption
<1> QED
  BY <1>1, HandleRunsANexus

-----------------------------------------------------------------------------
(* The handle implements AtomicMemory.  A two-step call takes place at its   *)
(* second step, an eviction at its first: pruning the index afterwards shows *)
(* nobody anything.                                                          *)

\* No fact is half added while a thread inside does something else, before or
\* after its step.
LEMMA NobodyAdding ==
    ASSUME IInv, NEW t \in Threads, Inside(t)
    PROVE  /\ pc[t] # "indexing" => BeingAdded = {} /\ Stored = Live
           /\ \A to : pc' = [pc EXCEPT ![t] = to] /\ to # "indexing"
                 => BeingAdded' = {} /\ Stored' = Live'
<1>1. /\ \A u \in Threads : u # t => pc[u] \in {"out", "spinning"}
      /\ DOMAIN pc = Threads
  BY OthersOutside DEF IInv, TypeOK
<1>2. ASSUME pc[t] # "indexing"
      PROVE  BeingAdded = {}
  BY <1>1, <1>2 DEF BeingAdded
<1>3. ASSUME NEW to, pc' = [pc EXCEPT ![t] = to], to # "indexing"
      PROVE  BeingAdded' = {}
  BY <1>1, <1>3 DEF BeingAdded
<1> QED
  BY <1>2, <1>3 DEF Stored

\* A step that leaves facts, index, provenances and answers shows nothing.
LEMMA Invisible ==
    ASSUME Stored' = Stored, Indexed' \cap Live' = Indexed \cap Live,
           \A n \in Stored : nodes'[n].source_type = nodes[n].source_type,
           dimension' = dimension, heard' = heard
    PROVE  UNCHANGED Atomic!memoryVars
<1>1. Quarantined' = Quarantined
  BY DEF Quarantined
<1> QED
  BY <1>1 DEF Atomic!memoryVars

LEMMA InitRefines == Init => Atomic!Init
<1> SUFFICES ASSUME Init
             PROVE  Atomic!Init
  OBVIOUS
<1>1. Live = {} /\ Indexed = {}
  BY DEF Init, Live, Indexed, Nexus!Init
<1>2. Stored = {} /\ Quarantined = {}
  BY <1>1 DEF Stored, Quarantined
<1> QED
  BY <1>1, <1>2 DEF Init, Atomic!Init

LEMMA LengthsAreNat == \A len \in Lengths : len \in Nat
BY EngineAssumption

LEMMA AddRefines ==
    ASSUME IInv, IInv', NEW t \in Threads, NEW s \in Sources, NEW level \in Levels,
           NEW len \in Lengths, AddNode(t, s, level, len)
    PROVE  [Atomic!Next]_(Atomic!memoryVars)
<1>1. /\ drawn \in Nat /\ drawn' = drawn + 1 /\ drawn < MaxDraws
      /\ drawn' \notin Live /\ Live' = Live \cup {drawn'}
      /\ \A n \in Live : nodes'[n] = nodes[n]
  BY AddEffect
<1>2. /\ Inside(t) /\ pc[t] = "holding"
      /\ dimension' = dimension /\ vectors' = vectors /\ heard' = heard
      /\ Indexed' = Indexed
  BY DEF AddNode, Goto, Inside, indexVars, Indexed
<1>3. Stored = Live /\ Indexed \subseteq Live
  BY <1>2, NobodyAdding, Agreement
<1>4. Indexed' \cap Live' = Indexed \cap Live
  BY <1>1, <1>2, <1>3
<1>5. CASE len > 0
  <2>1. pc' = [pc EXCEPT ![t] = "indexing"] /\ DOMAIN pc = Threads
    BY <1>5 DEF AddNode, Goto, IInv, TypeOK
  <2>2. BeingAdded' = {drawn'}
    BY <2>1 DEF BeingAdded
  <2>3. Stored' = Stored
    BY <1>1, <1>3, <2>2 DEF Stored
  <2> QED
    BY <1>1, <1>2, <1>3, <1>4, <2>3, Invisible
<1>6. CASE ~(len > 0)
  <2>1. pc' = [pc EXCEPT ![t] = "leaving"]
    BY <1>6 DEF AddNode, Goto
  <2>2. Stored' = Stored \cup {drawn'}
    BY <1>1, <1>2, <1>3, <2>1, NobodyAdding
  <2>3. len = 0 /\ 0 \in Lengths \cup {0} /\ drawn' \in 1 .. MaxDraws
    <3>1. len = 0
      BY <1>6, LengthsAreNat
    <3>2. MaxDraws \in Nat
      BY EngineAssumption DEF Nexus!NexusAssumption
    <3> QED
      BY <1>1, <3>1, <3>2
  <2>4. Quarantined' \in {Quarantined, Quarantined \cup {drawn'}}
    BY <1>1, <1>3, <2>2 DEF Quarantined
  <2>5. dimension' = IF dimension = 0 THEN 0 ELSE dimension
    BY <1>2
  <2>6. Atomic!Add(drawn', 0)
    BY <1>1, <1>2, <1>3, <1>4, <2>2, <2>4, <2>5 DEF Atomic!Add
  <2> QED
    BY <2>3, <2>6 DEF Atomic!Next
<1> QED
  BY <1>5, <1>6

LEMMA IndexEmbeddingRefines ==
    ASSUME IInv, IInv', NEW t \in Threads, IndexEmbedding(t)
    PROVE  [Atomic!Next]_(Atomic!memoryVars)
<1>1. /\ Inside(t) /\ pc[t] = "indexing" /\ pc' = [pc EXCEPT ![t] = "leaving"]
      /\ drawn' = drawn /\ nodes' = nodes /\ Live' = Live /\ heard' = heard
      /\ dimension' = IF dimension = 0 THEN embedding[t] ELSE dimension
      /\ vectors' = IF embedding[t] = dimension' THEN Filed(drawn) ELSE vectors
  BY DEF IndexEmbedding, Goto, Inside, nexusVars, Live
<1>2. /\ drawn \in Live \ Indexed /\ embedding[t] \in Lengths \ {0}
      /\ Indexed \subseteq Live /\ Live \subseteq 1 .. drawn /\ drawn \in Nat
  BY <1>1, Agreement DEF IInv, NewcomerAwaitsIndex, TypeOK, Nexus!TypeOK, Nexus!Live, Live
<1>3. Stored = Live \ {drawn} /\ Stored' = Live
  <2>1. BeingAdded = {drawn}
    BY <1>1 DEF BeingAdded
  <2> QED
    BY <1>1, <2>1, NobodyAdding DEF Stored
<1>4. drawn \notin Stored /\ Stored' = Stored \cup {drawn}
  BY <1>2, <1>3
<1>5. Quarantined' \in {Quarantined, Quarantined \cup {drawn}}
  BY <1>1, <1>4 DEF Quarantined
<1>6. Indexed' = IF embedding[t] = dimension' THEN Indexed \cup {drawn} ELSE Indexed
  BY <1>1 DEF Indexed, Filed
<1>7. Indexed' \cap Live' = IF embedding[t] > 0 /\ embedding[t] = dimension'
                           THEN (Indexed \cap Live) \cup {drawn} ELSE Indexed \cap Live
  <2>1. embedding[t] \in Nat /\ embedding[t] # 0
    BY <1>2, LengthsAreNat
  <2>2. embedding[t] > 0
    BY <2>1
  <2> QED
    BY <1>1, <1>2, <1>6, <2>2
<1>8. Atomic!Add(drawn, embedding[t])
  BY <1>1, <1>4, <1>5, <1>7 DEF Atomic!Add
<1>9. drawn \in 1 .. MaxDraws
  BY <1>1, <1>2 DEF IInv, NewcomerAwaitsIndex
<1> QED
  BY <1>2, <1>8, <1>9 DEF Atomic!Next

LEMMA EvictNodesRefines ==
    ASSUME IInv, IInv', NEW t \in Threads, NEW max \in Capacities, EvictNodes(t, max)
    PROVE  [Atomic!Next]_(Atomic!memoryVars)
<1>1. /\ Inside(t) /\ pc[t] = "holding"
      /\ dimension' = dimension /\ vectors' = vectors /\ heard' = heard
      /\ Indexed' = Indexed
  BY DEF EvictNodes, Goto, Inside, indexVars, localVars, Indexed
<1>2. Stored = Live
  BY <1>1, NobodyAdding
<1>3. CASE UNCHANGED nexusVars /\ pc' = [pc EXCEPT ![t] = "leaving"]
  <2>1. Live' = Live /\ nodes' = nodes
    BY <1>3 DEF nexusVars, Live
  <2>2. Stored' = Stored
    BY <1>1, <1>2, <1>3, <2>1, NobodyAdding
  <2> QED
    BY <1>1, <2>1, <2>2, Invisible
<1>4. CASE Nexus!EnforceCapacity(max) /\ pc' = [pc EXCEPT ![t] = "pruning"]
  <2>1. Live' \subseteq Live /\ \A n \in Live' : nodes'[n] = nodes[n]
    BY <1>4, SweepEffect DEF IInv
  <2>2. Stored' = Live'
    BY <1>1, <1>4, NobodyAdding
  <2> DEFINE S == Live \ Live'
  <2>3. /\ S \in SUBSET Stored
        /\ Stored' = Stored \ S
        /\ Indexed' \cap Live' = (Indexed \cap Live) \ S
    BY <1>1, <1>2, <2>1, <2>2
  <2>4. Quarantined' = Quarantined \ S
    BY <1>2, <2>1, <2>2 DEF Quarantined
  <2>5. Atomic!Forget(S)
    BY <1>1, <2>3, <2>4 DEF Atomic!Forget
  <2> QED
    BY <2>3, <2>5 DEF Atomic!Next
<1> QED
  BY <1>3, <1>4 DEF EvictNodes, Goto

LEMMA PruneIndexRefines ==
    ASSUME IInv, NEW t \in Threads, PruneIndex(t)
    PROVE  UNCHANGED Atomic!memoryVars
<1>1. /\ Inside(t) /\ pc[t] # "indexing" /\ pc' = [pc EXCEPT ![t] = "leaving"]
      /\ nodes' = nodes /\ Live' = Live /\ dimension' = dimension /\ heard' = heard
      /\ Indexed' = Indexed \cap Live
  BY DEF PruneIndex, Goto, Inside, nexusVars, localVars, Live, Indexed
<1>2. Stored' = Stored
  BY <1>1, NobodyAdding
<1> QED
  BY <1>1, <1>2, Invisible

LEMMA ReadCandidatesRefines ==
    ASSUME IInv, NEW t \in Threads, NEW len \in Lengths, ReadCandidates(t, len)
    PROVE  UNCHANGED Atomic!memoryVars
<1>1. /\ Inside(t) /\ pc[t] # "indexing" /\ pc' = [pc EXCEPT ![t] = "ranking"]
      /\ nodes' = nodes /\ Live' = Live /\ dimension' = dimension /\ heard' = heard
      /\ Indexed' = Indexed
  BY DEF ReadCandidates, Goto, Inside, nexusVars, indexVars, Live, Indexed
<1>2. Stored' = Stored
  BY <1>1, NobodyAdding
<1> QED
  BY <1>1, <1>2, Invisible

\* Being ranked at all and not being quarantined are the same.
LEMMA WeightTellsQuarantine ==
    ASSUME NEW s \in SourceType
    PROVE  RankMultiplier[s] > 0 <=> ~IsSelfDescription(s)
BY DEF SourceType, RankMultiplier, IsSelfDescription

LEMMA RankCandidatesRefines ==
    ASSUME IInv, NEW t \in Threads, RankCandidates(t)
    PROVE  [Atomic!Next]_(Atomic!memoryVars)
<1>1. /\ Inside(t) /\ pc[t] = "ranking" /\ pc' = [pc EXCEPT ![t] = "leaving"]
      /\ nodes' = nodes /\ Live' = Live /\ dimension' = dimension
      /\ Indexed' = Indexed
      /\ heard' = [heard EXCEPT ![t] = {n \in candidates[t] : Answerable(n)}]
  BY DEF RankCandidates, Goto, Inside, nexusVars, indexVars, Live, Indexed
<1>2. Stored = Live /\ Stored' = Stored
  BY <1>1, NobodyAdding
<1>3. Quarantined' = Quarantined
  BY <1>1, <1>2 DEF Quarantined
<1>4. /\ candidates[t] \in {{}, Indexed} /\ candidates[t] \subseteq Live
      /\ Indexed # {} => dimension > 0
      /\ dimension \in Lengths \cup {0}
  BY <1>1 DEF IInv, CandidatesAreFresh, IndexMirrorsGraph, TypeOK
<1>5. ASSUME NEW n \in Live
      PROVE  Answerable(n) <=> n \notin Quarantined
  <2>1. nodes[n].source_type \in SourceType
    <3>1. nodes \in [Live -> Nexus!MemoryNode] /\ Nexus!SourceType = SourceType
      BY DEF IInv, TypeOK, Nexus!TypeOK, Nexus!Live, Live, Nexus!SourceType, SourceType
    <3> QED
      BY <3>1 DEF Nexus!MemoryNode
  <2> QED
    BY <1>2, <2>1, WeightTellsQuarantine DEF Answerable, Quarantined
<1>6. CASE candidates[t] = Indexed
  <2>1. {n \in candidates[t] : Answerable(n)} = (Indexed \cap Live) \ Quarantined
    BY <1>4, <1>5, <1>6
  <2>2. Atomic!Recall(t, dimension)
    BY <1>1, <1>2, <1>3, <2>1 DEF Atomic!Recall
  <2> QED
    BY <1>4, <2>2 DEF Atomic!Next
<1>7. CASE candidates[t] = {} /\ Indexed # {}
  <2>1. {n \in candidates[t] : Answerable(n)} = {} /\ dimension # 0
    BY <1>4, <1>7
  <2>2. Atomic!Recall(t, 0)
    BY <1>1, <1>2, <1>3, <2>1 DEF Atomic!Recall
  <2> QED
    BY <2>2 DEF Atomic!Next
<1> QED
  BY <1>4, <1>6, <1>7

LEMMA RewriteRefines ==
    ASSUME IInv, NEW t \in Threads,
           \/ \E id \in Known, helpful \in BOOLEAN : RecordFeedback(t, id, helpful)
           \/ \E min \in Thresholds, level \in Levels : PromoteConfirmed(t, min, level)
           \/ \E id \in Known, affect \in Affects : SetAffect(t, id, affect)
           \/ ReadOnly(t)
    PROVE  UNCHANGED Atomic!memoryVars
<1>1. /\ Inside(t) /\ pc[t] # "indexing" /\ pc' = [pc EXCEPT ![t] = "leaving"]
      /\ UNCHANGED indexVars /\ UNCHANGED localVars
  BY DEF RecordFeedback, PromoteConfirmed, SetAffect, ReadOnly, Goto, Inside
<1>2. /\ Live' = Live
      /\ \A n \in Live : nodes'[n].source_type = nodes[n].source_type
  BY RewriteEffect DEF IInv
<1>3. dimension' = dimension /\ Indexed' = Indexed /\ heard' = heard
  BY <1>1 DEF indexVars, localVars, Indexed
<1>4. Stored' = Stored /\ Stored = Live
  BY <1>1, <1>2, NobodyAdding
<1> QED
  BY <1>2, <1>3, <1>4, Invisible

LEMMA OutsideRefines ==
    ASSUME IInv, NEW t \in Threads, Call(t) \/ Lock(t) \/ Unlock(t)
    PROVE  UNCHANGED Atomic!memoryVars
<1>1. /\ nodes' = nodes /\ drawn' = drawn /\ Live' = Live
      /\ dimension' = dimension /\ Indexed' = Indexed /\ heard' = heard
  BY DEF Call, Lock, Unlock, nexusVars, indexVars, localVars, Live, Indexed
<1>2. \A u \in Threads : pc'[u] = "indexing" <=> pc[u] = "indexing"
  BY DEF Call, Lock, Unlock, Goto, IInv, TypeOK
<1>3. Stored' = Stored
  BY <1>1, <1>2 DEF Stored, BeingAdded
<1> QED
  BY <1>1, <1>3, Invisible

LEMMA StepRefines == IInv /\ IInv' /\ [Next]_vars => [Atomic!Next]_(Atomic!memoryVars)
<1> SUFFICES ASSUME IInv, IInv', [Next]_vars
             PROVE  [Atomic!Next]_(Atomic!memoryVars)
  OBVIOUS
<1>1. CASE UNCHANGED vars
  BY <1>1 DEF vars, nexusVars, indexVars, localVars, Atomic!memoryVars, Stored, BeingAdded,
              Quarantined, Live, Indexed
<1>2. ASSUME NEW t \in Threads, Call(t) \/ Lock(t) \/ Unlock(t)
      PROVE  UNCHANGED Atomic!memoryVars
  BY <1>2, OutsideRefines
<1>3. ASSUME NEW t \in Threads, Work(t)
      PROVE  [Atomic!Next]_(Atomic!memoryVars)
  BY <1>3, AddRefines, IndexEmbeddingRefines, EvictNodesRefines, PruneIndexRefines,
     ReadCandidatesRefines, RankCandidatesRefines, RewriteRefines
  DEF Work
<1> QED
  BY <1>1, <1>2, <1>3 DEF Next

\* Every call of every thread looks as if it took place at one instant.
THEOREM HandleIsAtomic == Spec => ActsAtomically
BY InitRefines, StepRefines, Invariance, PTL DEF Spec, ActsAtomically, Atomic!Spec
=============================================================================

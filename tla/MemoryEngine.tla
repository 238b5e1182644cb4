----------------------------- MODULE MemoryEngine -----------------------------
(***************************************************************************)
(* One AstrumMemoryHandle and the threads that call it (c_api.rs): the     *)
(* spinlock, the nexus and the lazily created vector index it guards.      *)
(*                                                                         *)
(* A call takes the lock, works in one or two steps and lets go.  The      *)
(* three calls that touch nexus and index in turn are taken apart: add_node *)
(* creates, then indexes; enforce_capacity evicts, then prunes; search     *)
(* reads candidates, then looks each one up.  The others are one step.     *)
(*                                                                         *)
(* A call's arguments are picked when it has the lock: until then nobody   *)
(* sees them.  A call refused before the lock (null handle, null id, empty *)
(* query, top_k of 0) leaves no trace.  destroy is the caller's contract:  *)
(* it never runs beside another call, so it is no action here.             *)
(*                                                                         *)
(* An embedding is its length, the index a bag of node ids, an answer the  *)
(* set of its ids: top_k is taken to be ample.  Ranking, the over-fetch    *)
(* window and the order of index and answer are Recall's subject.          *)
(***************************************************************************)
EXTENDS Provenance, FiniteSets

CONSTANTS
    Sources, Levels, Affects, Capacities, Thresholds,    \* as in GraphNexus
    CounterMax, MaxDraws, MaxTicks, MaxVerdicts,
    Threads,        \* the threads that share the handle
    Lengths         \* embedding lengths callers pass; 0 is a null embedding

VARIABLES
    nodes, edges, clock, drawn,      \* the nexus
    dimension,      \* the index's dimension; 0 while index is None
    vectors,        \* node id -> how many embeddings the index has under it
    locked,         \* SpinMutex.locked
    pc,             \* where each thread is in its call
    embedding,      \* add_node's argument, between its two steps
    candidates,     \* what search found, between its two steps
    heard           \* each thread's last answer

nexusVars == <<nodes, edges, clock, drawn>>
indexVars == <<dimension, vectors>>
localVars == <<embedding, candidates, heard>>
vars == <<nexusVars, indexVars, locked, pc, localVars>>

Nexus == INSTANCE GraphNexus

ASSUME EngineAssumption ==
    /\ Nexus!NexusAssumption
    /\ Lengths \subseteq Nat
    /\ IsFiniteSet(Threads)

Live == DOMAIN nodes
Indexed == DOMAIN vectors

Init ==
    /\ Nexus!Init
    /\ dimension = 0 /\ vectors = << >>
    /\ locked = FALSE
    /\ pc = [t \in Threads |-> "out"]
    /\ embedding = [t \in Threads |-> 0]
    /\ candidates = [t \in Threads |-> {}]
    /\ heard = [t \in Threads |-> {}]

Goto(t, from, to) == pc[t] = from /\ pc' = [pc EXCEPT ![t] = to]

-----------------------------------------------------------------------------
(* The lock *)

Call(t) ==
    /\ Goto(t, "out", "spinning")
    /\ UNCHANGED <<nexusVars, indexVars, locked, localVars>>

\* Mutant: the flag is stored without having been compared.
LockBlind(t) ==
    /\ Goto(t, "spinning", "holding")
    /\ locked' = TRUE
    /\ UNCHANGED <<nexusVars, indexVars, localVars>>

\* SpinMutex::lock: the compare_exchange that succeeds.
Lock(t) ==
    /\ Goto(t, "spinning", "holding")
    /\ ~locked
    /\ locked' = TRUE
    /\ UNCHANGED <<nexusVars, indexVars, localVars>>

\* Mutant: the guard is forgotten, not dropped.
UnlockLeaking(t) ==
    /\ Goto(t, "leaving", "out")
    /\ UNCHANGED <<nexusVars, indexVars, locked, localVars>>

\* SpinGuard::drop.
Unlock(t) ==
    /\ Goto(t, "leaving", "out")
    /\ locked' = FALSE
    /\ UNCHANGED <<nexusVars, indexVars, localVars>>

(* astrum_memory_add_node *)

AddNode(t, s, level, len) ==
    /\ Goto(t, "holding", IF len > 0 THEN "indexing" ELSE "leaving")
    /\ Nexus!CreateNode(s, level)
    /\ embedding' = [embedding EXCEPT ![t] = len]
    /\ UNCHANGED <<indexVars, locked, candidates, heard>>

\* The index with one more embedding under id.
Filed(id) ==
    [n \in Indexed \cup {id} |->
        IF n \notin Indexed THEN 1 ELSE IF n = id THEN vectors[n] + 1 ELSE vectors[n]]

\* Mutant: the embedding is filed under the id the generator emits next.
IndexEmbeddingNext(t) ==
    /\ Goto(t, "indexing", "leaving")
    /\ dimension' = IF dimension = 0 THEN embedding[t] ELSE dimension
    /\ vectors' = IF embedding[t] = dimension' THEN Filed(drawn + 1) ELSE vectors
    /\ embedding' = [embedding EXCEPT ![t] = 0]
    /\ UNCHANGED <<nexusVars, locked, candidates, heard>>

\* drawn still is the new node's id: the lock is held.
IndexEmbedding(t) ==
    /\ Goto(t, "indexing", "leaving")
    /\ dimension' = IF dimension = 0 THEN embedding[t] ELSE dimension
    /\ vectors' = IF embedding[t] = dimension' THEN Filed(drawn) ELSE vectors
    /\ embedding' = [embedding EXCEPT ![t] = 0]
    /\ UNCHANGED <<nexusVars, locked, candidates, heard>>

(* astrum_memory_enforce_capacity: the index is touched only if a node went *)

\* Mutant: nothing to evict, so the call returns past the guard's drop.
EvictNodesLeaking(t, max) ==
    /\ IF Cardinality(Live) > max /\ Nexus!Evictable # {}
       THEN Nexus!EnforceCapacity(max) /\ Goto(t, "holding", "pruning")
       ELSE UNCHANGED nexusVars /\ Goto(t, "holding", "out")
    /\ UNCHANGED <<indexVars, locked, localVars>>

EvictNodes(t, max) ==
    /\ IF Cardinality(Live) > max /\ Nexus!Evictable # {}
       THEN Nexus!EnforceCapacity(max) /\ Goto(t, "holding", "pruning")
       ELSE UNCHANGED nexusVars /\ Goto(t, "holding", "leaving")
    /\ UNCHANGED <<indexVars, locked, localVars>>

\* Mutant: eviction does not reach the index.
PruneNothing(t) ==
    /\ Goto(t, "pruning", "leaving")
    /\ UNCHANGED <<nexusVars, indexVars, locked, localVars>>

PruneIndex(t) ==
    /\ Goto(t, "pruning", "leaving")
    /\ vectors' = [n \in Indexed \cap Live |-> vectors[n]]
    /\ UNCHANGED <<nexusVars, dimension, locked, localVars>>

(* astrum_memory_search *)

\* Mutant: the guard is dropped once the index has been read.
ReadCandidatesUnlocked(t, len) ==
    /\ Goto(t, "holding", "ranking")
    /\ len > 0
    /\ candidates' = [candidates EXCEPT ![t] = IF len = dimension THEN Indexed ELSE {}]
    /\ locked' = FALSE
    /\ UNCHANGED <<nexusVars, indexVars, embedding, heard>>

ReadCandidates(t, len) ==
    /\ Goto(t, "holding", "ranking")
    /\ len > 0
    /\ candidates' = [candidates EXCEPT ![t] = IF len = dimension THEN Indexed ELSE {}]
    /\ UNCHANGED <<nexusVars, indexVars, locked, embedding, heard>>

\* Mutant: the quarantine is left to the ranking.
AnswerableIfLive(n) == n \in Live

Answerable(n) == n \in Live /\ RankMultiplier[nodes[n].source_type] > 0

RankCandidates(t) ==
    /\ Goto(t, "ranking", "leaving")
    /\ heard' = [heard EXCEPT ![t] = {n \in candidates[t] : Answerable(n)}]
    /\ candidates' = [candidates EXCEPT ![t] = {}]
    /\ UNCHANGED <<nexusVars, indexVars, locked, embedding>>

(* The calls that are one step under the lock *)

RecordFeedback(t, id, helpful) ==
    /\ Goto(t, "holding", "leaving")
    /\ IF id \in Live THEN Nexus!RecordHumanFeedback(id, helpful) ELSE UNCHANGED nexusVars
    /\ UNCHANGED <<indexVars, locked, localVars>>

PromoteConfirmed(t, min, level) ==
    /\ Goto(t, "holding", "leaving")
    /\ IF IsCanon(level) THEN Nexus!PromoteConfirmedToCanon(min, level)
                         ELSE UNCHANGED nexusVars
    /\ UNCHANGED <<indexVars, locked, localVars>>

SetAffect(t, id, affect) ==
    /\ Goto(t, "holding", "leaving")
    /\ IF id \in Live THEN Nexus!SetNodeAffect(id, affect) ELSE UNCHANGED nexusVars
    /\ UNCHANGED <<indexVars, locked, localVars>>

\* node_count, topological_boost: read and return.
ReadOnly(t) ==
    /\ Goto(t, "holding", "leaving")
    /\ UNCHANGED <<nexusVars, indexVars, locked, localVars>>

-----------------------------------------------------------------------------
\* Ids callers may hold: any that a call returned.
Known == 1 .. drawn

Work(t) ==
    \/ \E s \in Sources, level \in Levels, len \in Lengths : AddNode(t, s, level, len)
    \/ IndexEmbedding(t)
    \/ \E max \in Capacities : EvictNodes(t, max)
    \/ PruneIndex(t)
    \/ \E len \in Lengths : ReadCandidates(t, len)
    \/ RankCandidates(t)
    \/ \E id \in Known, helpful \in BOOLEAN : RecordFeedback(t, id, helpful)
    \/ \E min \in Thresholds, level \in Levels : PromoteConfirmed(t, min, level)
    \/ \E id \in Known, affect \in Affects : SetAffect(t, id, affect)
    \/ ReadOnly(t)

Next == \E t \in Threads : Call(t) \/ Lock(t) \/ Work(t) \/ Unlock(t)

Spec == Init /\ [][Next]_vars

\* The scheduler runs every thread again and again, and no call loops but in
\* lock(): a thread inside finishes, and one that spins tries again.  Nothing
\* makes a thread call, and nothing makes the lock fair.
Fairness == \A t \in Threads : WF_vars(Lock(t)) /\ WF_vars(Work(t)) /\ WF_vars(Unlock(t))

FairSpec == Spec /\ Fairness

-----------------------------------------------------------------------------
(* Invariants *)

Inside(t) == pc[t] \notin {"out", "spinning"}

\* Every variable of the handle and of its threads keeps its type.
TypeOK ==
    /\ Nexus!TypeOK
    /\ dimension \in Lengths \cup {0}
    /\ vectors \in [Indexed -> Nat \ {0}]
    /\ Indexed \subseteq 1 .. drawn
    /\ locked \in BOOLEAN
    /\ pc \in [Threads -> {"out", "spinning", "holding", "indexing", "pruning",
                           "ranking", "leaving"}]
    /\ embedding \in [Threads -> Lengths \cup {0}]
    /\ candidates \in [Threads -> SUBSET (1 .. drawn)]
    /\ heard \in [Threads -> SUBSET (1 .. drawn)]

\* The lock is taken exactly while one thread is inside, and never two
\* (SpinMutex: the unsafe Sync impl rests on it).
OneInside ==
    /\ locked <=> \E t \in Threads : Inside(t)
    /\ \A t, u \in Threads : Inside(t) /\ Inside(u) => t = u

\* Index and graph agree whenever the lock is free: no vector of a node that
\* is gone, none twice, and only under a dimension.  Inside, only a thread
\* about to prune may leave them apart.
IndexMirrorsGraph ==
    /\ Indexed \subseteq Live \/ \E t \in Threads : pc[t] = "pruning"
    /\ \A n \in Indexed : vectors[n] = 1
    /\ Indexed # {} => dimension > 0

\* What a search read from the index is still the index, and every id in it
\* still a node, when the search looks them up.
CandidatesAreFresh ==
    \A t \in Threads : pc[t] = "ranking" =>
        /\ candidates[t] \in {{}, Indexed}
        /\ candidates[t] \subseteq Live

-----------------------------------------------------------------------------
(* Refinement *)

BeingAdded == IF \E t \in Threads : pc[t] = "indexing" THEN {drawn} ELSE {}
Stored == Live \ BeingAdded
Quarantined == {n \in Stored : IsSelfDescription(nodes[n].source_type)}

Atomic == INSTANCE AtomicMemory
            WITH Thread <- Threads, Fact <- 1 .. MaxDraws, Length <- Lengths \cup {0},
                 facts <- Stored, indexed <- Indexed \cap Live,
                 quarantined <- Quarantined

\* The handle implements AtomicMemory: two-step calls look like one instant.
ActsAtomically == Atomic!Spec

-----------------------------------------------------------------------------
(* Liveness *)

\* Whoever holds the lock lets go of it.
HolderLetsGo == locked ~> ~locked

\* While threads spin, one of them gets in, though no particular one need.
SpinningGetsSomeoneIn ==
    (\E t \in Threads : pc[t] = "spinning") ~> (\E t \in Threads : pc[t] = "holding")
=============================================================================

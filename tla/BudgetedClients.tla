--------------------------- MODULE BudgetedClients ---------------------------
(***************************************************************************)
(* The pattern INTEGRATION.md prescribes against heap exhaustion, as the   *)
(* oom firmware runs it, by several threads on one handle:                 *)
(*                                                                         *)
(*     add a fact;  if node_count > BUDGET then enforce_capacity(BUDGET)   *)
(*                                                                         *)
(* The check and the sweep are separate calls, so other threads add        *)
(* between them.  Every thread repeats the pattern, or stops between two   *)
(* rounds of it.                                                           *)
(***************************************************************************)
EXTENDS MemoryEngine

CONSTANT Budget

\* The sweep's capacity is one the engine is called with.
ASSUME BudgetAssumption == Budget \in Capacities

VARIABLE turn       \* the call of the pattern each thread makes, or makes next

clientVars == <<vars, turn>>

ClientInit == Init /\ turn = [t \in Threads |-> "add"]

\* Bound: no thread starts a round that would draw more than MaxDraws ids.
StartRound(t) ==
    /\ turn[t] = "add"
    /\ LET adding == {u \in Threads : turn[u] = "add" /\ pc[u] \in {"spinning", "holding"}}
       IN  drawn + Cardinality(adding) < MaxDraws
    /\ Call(t)
    /\ UNCHANGED turn

ContinueRound(t) ==
    /\ turn[t] # "add"
    /\ Call(t)
    /\ UNCHANGED turn

AddFact(t) ==
    /\ turn[t] = "add"
    /\ \/ \E s \in Sources, level \in Levels, len \in Lengths : AddNode(t, s, level, len)
       \/ IndexEmbedding(t)
    /\ UNCHANGED turn

\* Mutant: the check lets one node too many pass.
CountNodesLax(t) ==
    /\ turn[t] = "count"
    /\ ReadOnly(t)
    /\ turn' = [turn EXCEPT ![t] = IF Cardinality(Live) > Budget + 1 THEN "over" ELSE "within"]

\* The count decides what comes next, when the call is over.
CountNodes(t) ==
    /\ turn[t] = "count"
    /\ ReadOnly(t)
    /\ turn' = [turn EXCEPT ![t] = IF Cardinality(Live) > Budget THEN "over" ELSE "within"]

\* Mutant: the sweep stops one node above the budget.
SweepLax(t) ==
    /\ turn[t] = "sweep"
    /\ EvictNodes(t, Budget + 1) \/ PruneIndex(t)
    /\ UNCHANGED turn

Sweep(t) ==
    /\ turn[t] = "sweep"
    /\ EvictNodes(t, Budget) \/ PruneIndex(t)
    /\ UNCHANGED turn

AfterCall(was) ==
    IF was = "add" THEN "count" ELSE IF was = "over" THEN "sweep" ELSE "add"

Return(t) ==
    /\ Unlock(t)
    /\ turn' = [turn EXCEPT ![t] = AfterCall(@)]

Proceed(t) ==
    \/ ContinueRound(t)
    \/ AddFact(t)
    \/ CountNodes(t)
    \/ Sweep(t)
    \/ Return(t)

Grab(t) == Lock(t) /\ UNCHANGED turn

ClientNext == \E t \in Threads : StartRound(t) \/ Grab(t) \/ Proceed(t)

\* A round once begun is straight-line code, so it goes on; the lock is not
\* fair, and no thread has to begin another round.
ClientSpec ==
    /\ ClientInit /\ [][ClientNext]_clientVars
    /\ \A t \in Threads : WF_clientVars(Grab(t)) /\ WF_clientVars(Proceed(t))

-----------------------------------------------------------------------------
\* Threads that have added a fact and not yet seen to the budget.
Owing ==
    {t \in Threads : turn[t] # "add" \/ pc[t] \in {"indexing", "leaving"}}

CanonCount == Cardinality(Live \ Nexus!Evictable)

\* What the pattern bounds memory by, when several threads follow it: the
\* budget, or the canon nodes if they are more, and one fact per thread in
\* mid-round.  The embeddings, the bulk of the cost, obey the same bound.
BoundedMemory ==
    LET bound == AtLeast(Budget, CanonCount) + Cardinality(Owing)
    IN  /\ Cardinality(Live) <= bound
        /\ Cardinality(Indexed) <= bound
        /\ \A n \in Indexed : vectors[n] = 1

\* Pressure is always relieved: over budget, sooner or later the budget holds
\* or only canon is left.
PressureIsRelieved ==
    Cardinality(Live) > Budget
        ~> (Cardinality(Live) <= Budget \/ Nexus!Evictable = {})
=============================================================================

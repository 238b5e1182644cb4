----------------------------- MODULE AtomicMemory -----------------------------
(***************************************************************************)
(* What a handle shared by several threads looks like from outside         *)
(* (astrum_memory.h, "one handle is internally serialized"): a set of      *)
(* facts, some of them searchable, on which every call acts at one instant. *)
(* Nothing about locks, graphs or vectors.                                 *)
(***************************************************************************)
EXTENDS Naturals

CONSTANTS
    Thread,
    Fact,           \* identifiers
    Length          \* embedding lengths; 0 is no embedding

VARIABLES
    facts,          \* what is stored
    indexed,        \* what of it has an embedding in the index
    quarantined,    \* what of it is never answered
    dimension,      \* the length every indexed embedding has; 0 before the first
    heard           \* each thread's last answer

memoryVars == <<facts, indexed, quarantined, dimension, heard>>

Init ==
    /\ facts = {} /\ indexed = {} /\ quarantined = {}
    /\ dimension = 0
    /\ heard = [t \in Thread |-> {}]

\* The first embedding fixes the dimension; one that does not fit is dropped,
\* the fact it came with is not.
Add(id, len) ==
    /\ id \notin facts
    /\ facts' = facts \cup {id}
    /\ quarantined' \in {quarantined, quarantined \cup {id}}
    /\ dimension' = IF dimension = 0 THEN len ELSE dimension
    /\ indexed' = IF len > 0 /\ len = dimension' THEN indexed \cup {id} ELSE indexed
    /\ UNCHANGED heard

\* A fact and its embedding go together.
Forget(S) ==
    /\ facts' = facts \ S
    /\ indexed' = indexed \ S
    /\ quarantined' = quarantined \ S
    /\ UNCHANGED <<dimension, heard>>

\* An answer is what could be answered at one instant.
Recall(t, len) ==
    /\ heard' = [heard EXCEPT ![t] = IF len = dimension THEN indexed \ quarantined
                                                        ELSE {}]
    /\ UNCHANGED <<facts, indexed, quarantined, dimension>>

Next ==
    \/ \E id \in Fact, len \in Length : Add(id, len)
    \/ \E S \in SUBSET facts : Forget(S)
    \/ \E t \in Thread, len \in Length : Recall(t, len)

Spec == Init /\ [][Next]_memoryVars
=============================================================================

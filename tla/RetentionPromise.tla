--------------------------- MODULE RetentionPromise ---------------------------
(***************************************************************************)
(* What the engine promises about forgetting, and nothing about how        *)
(* (header comments of canon.rs and provenance.rs, doc comments of         *)
(* enforce_capacity and promote_confirmed_to_canon):                       *)
(*   - a fact is either canon or passing, and canon is for good: only      *)
(*     passing facts are ever forgotten;                                   *)
(*   - a quarantined fact is canon only if it was stored as canon: nothing *)
(*     that happens later promotes it;                                     *)
(*   - an identifier is issued once: a forgotten fact never comes back,    *)
(*     and an identifier a caller kept never names another fact.           *)
(***************************************************************************)
CONSTANT Id

VARIABLES
    canon,          \* facts that are kept whatever happens
    passing,        \* facts that pressure may drop
    quarantined,    \* those of either kind that votes must not promote
    issued          \* identifiers used so far, for facts or for links

promiseVars == <<canon, passing, quarantined, issued>>

Init ==
    /\ canon = {} /\ passing = {} /\ quarantined = {} /\ issued = {}

Store(id) ==
    /\ id \notin issued
    /\ issued' = issued \cup {id}
    /\ \/ canon' = canon \cup {id} /\ passing' = passing
       \/ passing' = passing \cup {id} /\ canon' = canon
    /\ \/ quarantined' = quarantined
       \/ quarantined' = quarantined \cup {id}

\* Identifiers are spent on links between facts: one, or as many as are made at
\* once (link_semantic and link_by_entities).
Link(S) ==
    /\ S \cap issued = {}
    /\ issued' = issued \cup S
    /\ UNCHANGED <<canon, passing, quarantined>>

Promote(S) ==
    /\ S \cap quarantined = {}
    /\ passing' = passing \ S
    /\ canon' = canon \cup S
    /\ UNCHANGED <<quarantined, issued>>

Forget(S) ==
    /\ passing' = passing \ S
    /\ quarantined' = quarantined \ S
    /\ UNCHANGED <<canon, issued>>

Next ==
    \/ \E id \in Id : Store(id)
    \/ \E S \in SUBSET Id : Link(S)
    \/ \E S \in SUBSET passing : Promote(S) \/ Forget(S)

Spec == Init /\ [][Next]_promiseVars
=============================================================================

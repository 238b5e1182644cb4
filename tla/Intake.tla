-------------------------------- MODULE Intake --------------------------------
(***************************************************************************)
(* What is decided about a fact on its way in, and who will see it: the    *)
(* decoding of the C caller's bytes (c_api.rs), the duplicate guard        *)
(* (provenance.rs), the routing of a fact to a cluster and the scope of    *)
(* clusters a persona sees (graph_nexus.rs).  Pure functions: no state.    *)
(***************************************************************************)
EXTENDS Provenance

CONSTANT Lower(_)       \* str::to_lowercase

\* source_from_u8: a byte this version does not know is a legacy source.
SourceFromU8(v) ==
    IF v = 0 THEN "UserUtterance"
    ELSE IF v = 1 THEN "LlmGeneration"
    ELSE IF v = 2 THEN "LlmSelfDescription"
    ELSE IF v = 3 THEN "ExternalDoc"
    ELSE IF v = 4 THEN "VerifiedExternal"
    ELSE "UnknownLegacy"

\* canon_from_u8: a byte this version does not know is no canon.
CanonFromU8(v) ==
    IF v = 1 THEN "L1Project"
    ELSE IF v = 2 THEN "L2Foundational"
    ELSE "None"

\* PfcGuard::evaluate_similarity, on hundredths.
EvaluateSimilarity(similarity) ==
    IF Geq(similarity, 92) THEN "RejectDuplicate"
    ELSE IF Geq(similarity, 82) THEN "Elaborate"
    ELSE "Accept"

-----------------------------------------------------------------------------
(* Routing.  explicit_cluster is the set of the name given: empty for None. *)

PrivateTags  == {"private", "confidential", "secret"}
PersonalTags == {"personal", "family", "home"}
WorkTags     == {"work", "deadline", "task"}
SystemTags   == {"architecture", "code", "bug"}
ProjectTags  == {"project", "goal", "milestone"}

\* The first family of tags that a fact has one of names its cluster.
TaggedCluster(tags) ==
    LET tag_set     == {Lower(t) : t \in tags}
        has(family) == family \cap tag_set # {}
    IN  IF has(PrivateTags) THEN "private"
        ELSE IF has(PersonalTags) THEN "personal"
        ELSE IF has(WorkTags) THEN "work"
        ELSE IF has(SystemTags) THEN "system"
        ELSE IF has(ProjectTags) THEN "project"
        ELSE "shared"

\* infer_cluster_for_node.
ClusterOf(source_type, tags, explicit_cluster) ==
    IF explicit_cluster # {} THEN CHOOSE c \in explicit_cluster : TRUE
    ELSE IF IsSelfDescription(source_type) THEN "system"
    ELSE TaggedCluster(tags)

BasePublic == {"shared", "work", "personal", "project"}

\* get_scope_clusters.
ScopeClusters(persona_name, include_system, include_private) ==
    BasePublic
        \cup {persona_name}
        \cup (IF include_system THEN {"system"} ELSE {})
        \cup (IF include_private THEN {"private"} ELSE {})
=============================================================================

----------------------------- MODULE IntakeProofs -----------------------------
(***************************************************************************)
(* What the tables of Intake promise together, for every byte, every set   *)
(* of tags, every persona and whatever to_lowercase does.                  *)
(***************************************************************************)
EXTENDS Intake, TLAPS

\* What is told to the engine in confidence is shown to no persona that does
\* not ask for private facts, be it tagged for another cluster as well; but a
\* persona named "private" always sees it (get_scope_clusters inserts the
\* persona's name as a cluster).
THEOREM PrivateStaysPrivate ==
    ASSUME NEW source_type, ~IsSelfDescription(source_type),
           NEW tags, NEW tag \in tags, Lower(tag) \in PrivateTags,
           NEW persona_name, NEW include_system \in BOOLEAN
    PROVE  ClusterOf(source_type, tags, {})
               \in ScopeClusters(persona_name, include_system, FALSE)
           <=> persona_name = "private"
<1>1. PrivateTags \cap {Lower(t) : t \in tags} # {}
  OBVIOUS
<1>2. ClusterOf(source_type, tags, {}) = "private"
  BY <1>1 DEF ClusterOf, TaggedCluster
<1>3. "private" \notin BasePublic \cup {"system"}
  BY DEF BasePublic
<1> QED
  BY <1>2, <1>3 DEF ScopeClusters

\* A self-description goes to "system" whatever its tags say, private ones
\* included: it is seen with include_system, and otherwise only by a persona
\* of that name.
THEOREM SelfDescriptionGoesToSystem ==
    ASSUME NEW tags, NEW persona_name, NEW include_private \in BOOLEAN
    PROVE  LET cluster == ClusterOf("LlmSelfDescription", tags, {})
           IN  /\ cluster \in ScopeClusters(persona_name, TRUE, include_private)
               /\ cluster \in ScopeClusters(persona_name, FALSE, include_private)
                      <=> persona_name = "system"
<1>1. ClusterOf("LlmSelfDescription", tags, {}) = "system"
  BY DEF ClusterOf, IsSelfDescription
<1>2. "system" \notin BasePublic \cup {"private"}
  BY DEF BasePublic
<1> QED
  BY <1>1, <1>2 DEF ScopeClusters

\* No fact is routed out of sight: without an explicit cluster, everybody who
\* asks for system and private facts sees it, whatever its source and tags.
THEOREM RoutedIntoSight ==
    ASSUME NEW source_type, NEW tags, NEW persona_name
    PROVE  ClusterOf(source_type, tags, {}) \in ScopeClusters(persona_name, TRUE, TRUE)
<1>1. TaggedCluster(tags) \in BasePublic \cup {"system", "private"}
  BY DEF TaggedCluster, BasePublic
<1>2. ClusterOf(source_type, tags, {}) \in BasePublic \cup {"system", "private"}
  BY <1>1 DEF ClusterOf
<1> QED
  BY <1>2 DEF ScopeClusters

\* A fact put in a cluster of another name is seen by the persona of that name
\* and by nobody else, whatever flags they set.
THEOREM OwnClusterIsOwnPersonas ==
    ASSUME NEW source_type, NEW tags, NEW persona_name,
           NEW include_system \in BOOLEAN, NEW include_private \in BOOLEAN,
           NEW cluster, cluster \notin BasePublic \cup {"system", "private"}
    PROVE  ClusterOf(source_type, tags, {cluster})
               \in ScopeClusters(persona_name, include_system, include_private)
           <=> persona_name = cluster
<1>1. ClusterOf(source_type, tags, {cluster}) = cluster
  BY DEF ClusterOf
<1> QED
  BY <1>1 DEF ScopeClusters

\* A byte from a newer caller is trusted with nothing: its fact is neither
\* quarantined nor canon, cannot be confirmed to full importance, and ranks
\* below any fact a human or a document stands for.
THEOREM UnknownBytesAreTrustedWithLittle ==
    ASSUME NEW v \in 5 .. 255, NEW known \in {0, 3, 4}
    PROVE  /\ ~IsSelfDescription(SourceFromU8(v))
           /\ ~IsCanon(CanonFromU8(v))
           /\ MaxImportanceCap(SourceFromU8(v)) < MaxImportanceCap(SourceFromU8(known))
           /\ RankMultiplier[SourceFromU8(v)] < RankMultiplier[SourceFromU8(known)]
<1>1. SourceFromU8(v) = "UnknownLegacy" /\ CanonFromU8(v) = "None"
  BY DEF SourceFromU8, CanonFromU8
<1>2. SourceFromU8(known) \in {"UserUtterance", "ExternalDoc", "VerifiedExternal"}
  BY DEF SourceFromU8
<1>3. MaxImportanceCap("UnknownLegacy") < MaxImportanceCap(SourceFromU8(known))
  BY <1>2 DEF MaxImportanceCap, One
<1>4. RankMultiplier["UnknownLegacy"] < RankMultiplier[SourceFromU8(known)]
  BY <1>2 DEF RankMultiplier
<1> QED
  BY <1>1, <1>3, <1>4 DEF IsSelfDescription, IsCanon

Severity(action) ==
    IF action = "RejectDuplicate" THEN 2 ELSE IF action = "Elaborate" THEN 1 ELSE 0

\* The duplicate guard is monotone: the closer a fact is to one that is there,
\* the less of it is taken; and a similarity that is no number rejects nothing.
THEOREM CloserIsTakenLess ==
    /\ \A s, t \in -100 .. 100 :
          s <= t => Severity(EvaluateSimilarity(s)) <= Severity(EvaluateSimilarity(t))
    /\ EvaluateSimilarity(NaN) = "Accept"
<1>1. ASSUME NEW s \in -100 .. 100, NEW t \in -100 .. 100, s <= t
      PROVE  Severity(EvaluateSimilarity(s)) <= Severity(EvaluateSimilarity(t))
  BY <1>1 DEF Severity, EvaluateSimilarity, Geq, NaN
<1>2. EvaluateSimilarity(NaN) = "Accept"
  BY DEF EvaluateSimilarity, Geq
<1> QED
  BY <1>1, <1>2
=============================================================================

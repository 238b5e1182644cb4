-------------------------------- MODULE Recall --------------------------------
(***************************************************************************)
(* What one query is answered as facts are stored and forgotten: the C-ABI *)
(* read path (astrum_memory_search) over the index that add_node fills and *)
(* enforce_capacity prunes, in both builds of it.  Every operation is      *)
(* atomic here; MemoryEngine takes the handle's lock apart.                *)
(***************************************************************************)
EXTENDS VectorIndex

CONSTANTS
    Facts,          \* what callers store: [source_type, embedding]
    Query,          \* what they ask for; its length is the index's dimension
    TopKs,          \* the top_k values they ask with
    MaxFacts        \* bound: facts ever stored

ASSUME RecallAssumption ==
    /\ \A fact \in Facts : fact.source_type \in SourceType /\ fact.embedding \in Seq(Int)
    /\ Query \in Seq(Int)
    /\ TopKs \subseteq Nat \ {0}
    /\ MaxFacts \in Nat

VARIABLES
    sources,        \* live node ids -> source_type: the nexus as search sees it
    vectors,        \* the index: entries [node_id, vector] in insertion order
    stored          \* facts stored so far; the last one's id

vars == <<sources, vectors, stored>>

Init ==
    /\ sources = << >>
    /\ vectors = << >>
    /\ stored = 0

\* add_node: an embedding the index refuses is dropped without an error.
AddNode(fact) ==
    /\ stored < MaxFacts
    /\ stored' = stored + 1
    /\ sources' = [n \in DOMAIN sources \cup {stored'} |->
                      IF n = stored' THEN fact.source_type ELSE sources[n]]
    /\ vectors' = Inserted(vectors, stored', fact.embedding, Len(Query))

\* enforce_capacity: whichever nodes go (GraphNexus says which), their
\* vectors go with them.
Forget(gone) ==
    /\ gone # {}
    /\ sources' = [n \in DOMAIN sources \ gone |-> sources[n]]
    /\ vectors' = RetainIds(vectors, DOMAIN sources')
    /\ UNCHANGED stored

Next ==
    \/ \E fact \in Facts : AddNode(fact)
    \/ \E gone \in SUBSET DOMAIN sources : Forget(gone)

Spec == Init /\ [][Next]_vars

-----------------------------------------------------------------------------
\* Every score a build can come to, worked out once.
Scores ==
    [build \in Builds |->
        [v \in {fact.embedding : fact \in Facts} |-> ScoreUnder(build, Query, v)]]

ScannedIn(entries, build) ==
    IF Scans(build, Query)
    THEN [i \in DOMAIN entries |-> [node_id |-> entries[i].node_id,
                                    score   |-> Scores[build][entries[i].vector]]]
    ELSE << >>

Scanned(build) == ScannedIn(vectors, build)

AnswersOf(build, top_k) == Answers(Scanned(build), sources, top_k)

-----------------------------------------------------------------------------
(* Properties *)

IsEligible(entry) == Eligible(entry, sources)
RankOf(entry) == Score(entry, sources)
Ranks(s) == [i \in DOMAIN s |-> RankOf(s[i])]
ByCosine(s) == StableDescending(s, [i \in DOMAIN s |-> s[i].score])
ByRank(s) == StableDescending(s, Ranks(s))

Clean(scored) == \A i \in DOMAIN scored : scored[i].score # NaN

\* The answer the ranking rule gives when it sees every vector: eligible
\* entries by weighted score, then by cosine, then oldest first.
FullAnswer(scored, top_k) ==
    LET eligible == {i \in DOMAIN scored : IsEligible(scored[i])}
    IN  Truncated(ByRank(ByCosine(Picked(scored, eligible))), top_k)

Uncrowded(top_k) == Len(vectors) <= OverFetch(top_k)

\* The bounded shortlist is the stable sort it replaced, cut to length
\* (vector_index.rs: "ties keep insertion order, matching the stable sort").
\* A NaN may cost it the order, not the length, and repeats no entry; no
\* stored vector, NaN or not, costs the int8 index anything, if the query is
\* none.
ShortlistIsStableTopK ==
    \A build \in Builds, k \in 1 .. MaxFacts :
        LET scored == Scanned(build)
            found  == Shortlists(scored, k)
        IN  /\ Clean(scored) \/ (build = "int8" /\ ~HasNaN(Query)) =>
                   found = {Truncated(ByCosine(scored), k)}
            /\ \A best \in found :
                   /\ Len(best) = AtMost(Len(scored), k)
                   /\ ToSet(best) \subseteq ToSet(scored)
                   /\ IsInjective(best)

\* While the index fits the over-fetch window, search answers exactly what the
\* ranking rule says, order included; a NaN can only swap answers that rank
\* alike.
ExactWhenUncrowded ==
    \A build \in Builds, k \in TopKs : Uncrowded(k) =>
        LET scored  == Scanned(build)
            due     == FullAnswer(scored, k)
        IN  \A answer \in AnswersOf(build, k) :
               /\ Ranks(answer) = Ranks(due)
               /\ Clean(scored) => answer = due

\* Beyond the window, the only way to miss a match is to be crowded out: by
\* top_k answers that rank as high, or by a window full of vectors as close.
\* Where a NaN is stored, a window full of anything will do.
MissedOnlyIfCrowded ==
    \A build \in Builds, k \in TopKs :
        LET scored == Scanned(build)
        IN  \A answer \in AnswersOf(build, k), e \in ToSet(scored) :
               IsEligible(e) /\ e \notin ToSet(answer) =>
                  \/ /\ Len(answer) = k
                     /\ \A a \in ToSet(answer) : RankOf(a) >= RankOf(e)
                  \/ Cardinality({o \in ToSet(scored) \ {e} : Geq(o.score, e.score)})
                         >= OverFetch(k)
                  \/ ~Clean(scored) /\ ~Uncrowded(k)

\* Bound on what quantising may cost a comparison, in hundredths: half a code
\* in 127 at each of n coordinates is sqrt(n) / 254 of the peak, so that much of
\* either score.
QuantisationSlack ==
    LET n == Len(Query) IN 2 * Min({s \in 0 .. n : 16129 * s * s >= 2500 * n})

\* The int8 index loses only near ties: what it leaves out of the exact top k
\* is hardly closer than what it has instead (vector_index.rs: "Recall loss vs
\* f32 is <=0.3 pp"; examples/recall_int8.rs counts these losses).
Int8MissesOnlyNearTies ==
    \A k \in 1 .. MaxFacts :
        LET exact == Scanned("f32")
            cosine(e) == (CHOOSE x \in ToSet(exact) : x.node_id = e.node_id).score
            true_top == ToSet(Search(exact, k))
            i8_top == ToSet(Search(Scanned("int8"), k))
        IN  Clean(exact) =>
               \A e \in true_top, a \in i8_top :
                  (\A x \in i8_top : x.node_id # e.node_id) =>
                      cosine(a) >= e.score - QuantisationSlack

\* Forgetting other facts never hides a surviving answer nor swaps two of
\* them, as long as the window held the whole index.
SurvivorsStayAnswered ==
    stored' = stored =>
        \A build \in Builds, k \in TopKs : Uncrowded(k) /\ Clean(Scanned(build)) =>
            \A answer \in AnswersOf(build, k),
               later \in Answers(ScannedIn(vectors', build), sources', k) :
                   IsPrefix(RetainIds(answer, DOMAIN sources'), later)

ForgettingHidesNothingElse == [][SurvivorsStayAnswered]_vars

\* "[] when there is no index, no query, or no match" (astrum_memory.h on
\* astrum_memory_search): an empty answer means nothing stored matches.
EmptyMeansNoMatch ==
    \A k \in TopKs, build \in Builds :
        << >> \in AnswersOf(build, k) => \A e \in ToSet(Scanned(build)) : ~IsEligible(e)

=============================================================================

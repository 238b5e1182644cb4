----------------------------- MODULE VectorIndex -----------------------------
(***************************************************************************)
(* The linear-scan indexes of vector_index.rs and the ranking that         *)
(* astrum_memory_search (c_api.rs) lays over them, as operators.           *)
(*                                                                         *)
(* A vector is a tuple of integers, since a cosine only sees directions,   *)
(* or of NaN.  A score is a cosine in hundredths, cut towards zero, or     *)
(* NaN.  The two indexes select alike and differ in how they score:        *)
(* SimpleVectorIndex ("f32") the vectors, Int8VectorIndex ("int8") their   *)
(* quantised codes.                                                        *)
(***************************************************************************)
EXTENDS Provenance, FiniteSets, SequencesExt

Builds == {"f32", "int8"}

Magnitude(x) == IF x < 0 THEN -x ELSE x

-----------------------------------------------------------------------------
(* Scoring *)

HasNaN(vector) == \E i \in DOMAIN vector : vector[i] = NaN

Dot(a, b) == LET term(i) == a[i] * b[i] IN MapThenSumSet(term, DOMAIN a)

\* dot / sqrt(norms) in hundredths.
Hundredths(dot, norms) ==
    LET size == Max({s \in 0 .. 100 : s * s * norms <= 10000 * dot * dot})
    IN  IF dot < 0 THEN -size ELSE size

IsZero(vector) == \A i \in DOMAIN vector : vector[i] = 0

\* cosine_similarity: nothing to compare is 0, and so is a zero vector.
CosineSimilarity(a, b) ==
    IF Len(a) # Len(b) \/ a = << >> \/ IsZero(a) \/ IsZero(b) THEN 0
    ELSE IF HasNaN(a) \/ HasNaN(b) THEN NaN
    ELSE Hundredths(Dot(a, b), Dot(a, a) * Dot(b, b))

\* Mutant: the scale is the largest coordinate, not the largest magnitude.
PeakSigned(vector) == Max({0} \cup ({vector[i] : i \in DOMAIN vector} \ {NaN}))

\* max|x|, which f32::max takes over the numbers alone.
Peak(vector) ==
    Max({0} \cup {Magnitude(vector[i]) : i \in {j \in DOMAIN vector : vector[j] # NaN}})

\* 127 x / peak, rounded half away from zero and clamped; `as i8` makes NaN 0.
Code(x, peak) ==
    IF x = NaN \/ peak = 0 THEN 0
    ELSE LET size == AtMost((254 * Magnitude(x) + peak) \div (2 * peak), 127)
         IN  IF x < 0 THEN -size ELSE size

\* The codes Int8VectorIndex::insert keeps; the scale cancels in a cosine.
Quantised(vector) ==
    [i \in DOMAIN vector |-> Code(vector[i], Peak(vector))]

ScoreUnder(build, query, vector) ==
    CosineSimilarity(query, IF build = "int8" THEN Quantised(vector) ELSE vector)

\* The int8 scan answers nothing to a zero query; the f32 scan scores it 0.
Scans(build, query) == build = "f32" \/ ~IsZero(query)

\* insert, of either index: an embedding of another length is refused.
Inserted(vectors, id, embedding, dimension) ==
    IF Len(embedding) = dimension
    THEN Append(vectors, [node_id |-> id, vector |-> embedding])
    ELSE vectors

-----------------------------------------------------------------------------
(* Order *)

\* The elements of S in the order `before`, which is strict and total on S.
InOrder(S, before(_, _)) ==
    [r \in 1 .. Cardinality(S) |->
        CHOOSE x \in S : Cardinality({y \in S : before(y, x)}) = r - 1]

\* The elements of s at some positions, in their order in s.
Picked(s, positions) ==
    LET before(j, i) == j < i
        order        == InOrder(positions, before)
    IN  [r \in DOMAIN order |-> s[order[r]]]

-----------------------------------------------------------------------------
(* Selection: an entry is [node_id, score] *)

\* Mutant: a tie goes to the newcomer.
PartitionPointsStrict(best, score) ==
    {p \in 0 .. Len(best) :
        /\ p > 0 => Geq(best[p].score, score) /\ best[p].score # score
        /\ p < Len(best) => ~Geq(best[p + 1].score, score) \/ best[p + 1].score = score}

\* Where partition_point may end: a binary search stops between a score that
\* is at least `score` and one that is not.  Without NaN there is one such
\* place; with one in the shortlist there may be several.
PartitionPoints(best, score) ==
    {p \in 0 .. Len(best) :
        /\ p > 0 => Geq(best[p].score, score)
        /\ p < Len(best) => ~Geq(best[p + 1].score, score)}

Truncated(s, n) == IF Len(s) > n THEN SubSeq(s, 1, n) ELSE s

\* Mutant: the shortlist is one entry short.
ShortlistedShort(best, entry, pos, top_k) ==
    IF pos >= top_k THEN best
    ELSE Truncated(InsertAt(best, pos + 1, entry), top_k - 1)

\* One turn of the scan: insert in place, drop what falls off the end.
Shortlisted(best, entry, pos, top_k) ==
    IF pos >= top_k THEN best
    ELSE Truncated(InsertAt(best, pos + 1, entry), top_k)

\* search: the shortlists a scan may end with.
Shortlists(scored, top_k) ==
    LET after[i \in 0 .. Len(scored)] ==
            IF i = 0 THEN {<< >>}
            ELSE UNION {{Shortlisted(best, scored[i], pos, top_k) :
                            pos \in PartitionPoints(best, scored[i].score)} :
                           best \in after[i - 1]}
    IN  after[Len(scored)]

\* The one shortlist there is when no score is NaN.
Search(scored, top_k) == CHOOSE best \in Shortlists(scored, top_k) : TRUE

\* Mutant: the last survivor fills the hole.
RetainSwapping(vectors, ids) ==
    LET kept == Picked(vectors, {i \in DOMAIN vectors : vectors[i].node_id \in ids})
    IN  IF Len(kept) \in {0, Len(vectors)} THEN kept
        ELSE <<Last(kept)>> \o Front(kept)

\* retain_ids, of either index: survivors keep their order.
RetainIds(vectors, ids) ==
    Picked(vectors, {i \in DOMAIN vectors : vectors[i].node_id \in ids})

-----------------------------------------------------------------------------
(* astrum_memory_search *)

RelevanceFloor == 25
OverFetch(top_k) == 4 * top_k

Weight(entry, sources) == RankMultiplier[sources[entry.node_id]]
Score(entry, sources) == entry.score * Weight(entry, sources)

\* What may be answered at all: close enough, still a node, not quarantined.
Eligible(entry, sources) ==
    /\ Geq(entry.score, RelevanceFloor)
    /\ entry.node_id \in DOMAIN sources
    /\ Weight(entry, sources) > 0

\* The elements of s in descending order of their keys, equals in their order
\* in s: slice::sort_by is stable.
StableDescending(s, keys) ==
    LET before(j, i) == keys[j] > keys[i] \/ (keys[j] = keys[i] /\ j < i)
        order        == InOrder(DOMAIN s, before)
    IN  [r \in DOMAIN s |-> s[order[r]]]

\* What a shortlist is answered as.  `sources` maps the live nodes to their
\* provenance.
Ranked(shortlist, sources, top_k) ==
    LET close  == Picked(shortlist, {i \in DOMAIN shortlist : Eligible(shortlist[i], sources)})
        scores == [i \in DOMAIN close |-> Score(close[i], sources)]
    IN  Truncated(StableDescending(close, scores), top_k)

\* Mutant: no over-fetch, so what is filtered out leaves a gap.
AnswersNarrow(scored, sources, top_k) ==
    {Ranked(best, sources, top_k) : best \in Shortlists(scored, top_k)}

\* The answers a search may give.
Answers(scored, sources, top_k) ==
    {Ranked(best, sources, top_k) : best \in Shortlists(scored, OverFetch(top_k))}
=============================================================================

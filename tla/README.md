# A TLA+ model of Astrum HSAM (embedded)

Astrum HSAM is a memory engine for edge AI, written in Rust for `no_std`, with a
C interface.  It stores facts as nodes of a graph, each with the *provenance* of
the fact (who said it) and a *canon level* (must it survive memory pressure); a
linear-scan vector index finds facts by similarity; a human verdict on a recall
moves how long a fact survives, never how it ranks.  One handle may be shared by
threads; a spinlock serialises them.

This directory models the engine in TLA+, checks the models with TLC on small
instances, and proves the safety properties of every run that passes for every instance with TLAPS.

## 1. Inventory

| Component | State | Operations | Hard behaviour |
|---|---|---|---|
| `MemoryGraphNexus` (`graph_nexus.rs`) | `nodes` (BTreeMap), `edges` (Vec), `clock`, `id_seed`, hyperedges (never written), topology (constant) | `create_node`, `add_edge`, `record_access`, `record_human_feedback`, `set_node_affect`, `promote_confirmed_to_canon`, `enforce_capacity`; linking (`link_semantic`, `link_semantic_lsh`, `link_by_entities`), `prune_redundant_edges`; pure `expand`, `associative_recall` | eviction sorts by keys that four methods write; f32 clamping; saturating counters; stale ids; edges and nodes are separate collections |
| Value rules (`provenance.rs`, `canon.rs`) | none | caps, rank multipliers, canon tests, the duplicate guard | rounding at the caps |
| Vector index (`vector_index.rs`) | `dimension`, `vectors` | `insert`, `search`, `retain_ids` (f32 and int8 builds) | bounded shortlist against the stable sort it replaces; ties; NaN scores; quantisation; length mismatch is silent |
| C handle (`c_api.rs`) | `locked`, the nexus, `Option` of an index | 12 calls, each under the lock | calls of two steps (create/index, evict/prune, read/look up); every early return must release; the spinlock is unfair |
| Integrators' budget pattern (`INTEGRATION.md`, `oom.rs`) | the count just read | add, count, sweep | check and act are separate calls |
| Persistence (`persistence.rs`) | a file, a temporary file | `save`, `load` | crash between write and rename, shared temporary name, values JSON cannot hold, ids after going back to an older snapshot |
| Affect overlay (`affect_overlay.rs`) | the current mood | `compute_mood`, `mood_congruence_nudge` | NaN, negative relevance and underflow in a weighted mean; clock going back |
| 24-cell topology (`topology_24cell.rs`) | a constant table | lookups, the boost | 24 hand-written neighbour lists that must agree pairwise; ids that name no cell |
| Cluster routing and scopes (`graph_nexus.rs`), decoding of bytes (`c_api.rs`) | none | route a fact, list what a persona sees | what is confidential must be routed out of sight |

The pieces interact by plain calls.  The handle owns nexus and index and keeps
them in step; search reads the index, then looks each candidate up in the nexus;
`enforce_capacity` removes nodes, then asks the index to retain the survivors.
The nexus itself is not synchronised and the Rust API hands the index to its
caller, who must do the pairing.

What makes each correct, in a sentence: of the nexus, that eviction honours
canon, human verdicts and recency in that order and that nothing is left pointing
at what went; of linking and pruning, that no pair is linked twice and nobody is
cut off; of recall, that what an answer lacks is explained by its window; of the
handle, that a call looks like one instant; of persistence, that a file is always
one whole save; of the budget pattern, that it is exceeded by no more than the
threads on their way to a sweep; of the mood, that it lies within what was felt; of
routing, that the confidential is seen by those who ask for it only.

`PROJECT.json` lists every hazard with its line and the properties aimed at it,
and maps each definition to the lines it models.

## 2. Modules

| Module | Models |
|---|---|
| `Provenance` | source types, caps, rank weights, canon levels; importance as an exact f32 |
| `GraphNexus` | the nexus: one action per mutating method |
| `RetentionPromise` | abstract: what the engine promises about forgetting; `GraphNexus`, `Associations` and `MemoryEngine` implement it |
| `GraphNexusProofs` | the theorems about `GraphNexus` |
| `VectorIndex` | as operators: both index builds from cosine and int8 code to shortlist, `retain_ids`, and the ranking of `astrum_memory_search` |
| `VectorIndexProofs` | lemmas about the operators of `VectorIndex`: sorting, picking, the scan, cosines, sums, and how far quantising moves a cosine |
| `Recall`, `MCRecall` | one query's answers as facts are stored and forgotten, and its small instances |
| `AffectOverlay` | an `AffectOverlayEngine` fed with recalls |
| `Topology` | the table, its lookups, and the boost a caller is told |
| `ReadSide`, `MCReadSide` | `Recall`, `AffectOverlay` and `Topology` side by side, and the small instance |
| `ReadSideProofs` | the theorems about those three |
| `Intake`, `IntakeProofs` | decoding, duplicate guard, routing and scopes, as operators; theorems about them |
| `MemoryEngine` | a handle shared by threads: lock, nexus (an `INSTANCE` of `GraphNexus`), index; compound calls in two steps |
| `MemoryEngineProofs` | the theorems about `MemoryEngine`, from those about `GraphNexus` |
| `AtomicMemory` | abstract: the handle as its callers see it, every call at one instant; `MemoryEngine` implements it |
| `BudgetedClients`, `BudgetedClientsProofs` | threads that follow the budget pattern, on top of `MemoryEngine`; the proof of their bound |
| `Associations`, `MCAssociations` | on top of `GraphNexus` and `VectorIndex`: bulk linking, pruning, expansion, associative recall, with an index the caller keeps in step, or does not; and its small instances |
| `AssociationsProofs` | the theorems about `Associations`, from those about `GraphNexus` |
| `Snapshot`, `MCSnapshot` | save and load by several handles over a file system, write by write, and its small instances |
| `SnapshotStore` | abstract: a save replaces a file at one instant; `Snapshot` implements it |
| `SnapshotProofs` | the theorems about `Snapshot` |

Definitions marked *Mutant* are plausible bugs in the definition that follows
them.  No specification uses them; substituting one for its original makes a
property fail, which shows that the property depends on that code.

### How state and actions correspond

*Importance.*  Every f32 the code can compute for an importance is a multiple of
2^-26, so the model keeps the exact value as a natural number of those units and
rounds sums as IEEE 754 does.  0.45, 0.15, 0.20 and the caps are the nearest
f32 values, not the decimals.

*Ids.*  `next_id` is SplitMix64, a bijection of a counter; the k-th draw is the
number k, for nodes and edges alike.  What the hash does decide, the BTreeMap's
order, is left open: `enforce_capacity` may pick any set of victims that some
order of equal elements gives, and `EvictionUnambiguous` shows there is one.

*Ticks.*  `clock` is `next_tick`; `record_access` ticks even if the id is gone.

*Early returns.*  A nexus method that returns without effect is a step not
taken.  In `MemoryEngine` it is a step: the lock is held and must be released.

*Calls.*  In `MemoryEngine` a thread is `out`, `spinning`, inside (`holding`,
then for the three compound calls `indexing`, `pruning` or `ranking`), and
`leaving`.  Arguments are picked once the thread has the lock; nobody could see
them earlier.  `add_node` without an embedding goes from `holding` to `leaving`;
the index is `None` while `dimension` is 0.

*Answers.*  In `Recall` an embedding is a direction, a tuple of integers or NaN; a
score is its cosine in hundredths, cut towards zero, or NaN.  Order, ties, weights, floor
and window are the code's.  The scan keeps its shortlist with `partition_point`, a binary
search: where a NaN in it makes the predicate non-monotone, every place the search may
end at is allowed.  `MemoryEngine` reduces an embedding to its length, the index to a bag
of ids and an answer to its set of ids.

*Moods.*  The components of an affect are hundredths or NaN.  `expf` is any table
(`Exp`) that ends in its underflow; sums and means are exact and a mean is rounded down
to a hundredth once.  What a recall finds is a set: a node recalled twice in one call, or
another order of f32 additions, is left out.  The label `source` is left out.

*Reading side by side.*  Mood and boost touch nothing of the index or of each other, and
no property relates two of them.  `ReadSide` lets one of the three move while the others
rest at their start, which loses no behaviour any property could tell apart.

*Snapshots.*  `names` is the directory, `content` the inodes; `std::fs::write` is an
open that makes or empties the file (`StartSave`) and as many writes as it takes
(`WritePart`); `std::fs::rename` moves a name and leaves the inode to whoever has
it open (`FinishSave`).  A save holds the handle's lock from end to end, so the
other operations ask for a handle that is not saving.  A write may fail after any
part, the rename may fail too, and the temporary file stays (`FailSave`).  An engine
is its facts, how many ids it has drawn, which affects hold a NaN (`tainted`), which
index entries hold a NaN or an infinity (`warped`), and whether it has an index; a
part of a file that was opened and not written is `Blank`.  What a caller passes as an
embedding is none (or a refused length), finite, with a NaN or with an infinity; a
NaN spoils the f32 build's vector, an infinity that or the int8 build's scale
(`Warps`).  A text is readable if all its parts are of one text, no affect was NaN and
no entry spoiled, and an index, if there is one, is of the reader's build.

*Associations.*  A fact may be stored at any canon level (`examples/agent_loop.rs`
stores canon and other facts), so sweeps meet both; promotion, verdicts and accesses
are left to the nexus's own runs.  Candidates for links are pairs of positions in a sequence of
node ids, the index's for cosine linking, any order of the nodes for names; all go
through the tests of `add_edge`, and the ids of the edges follow the candidates'
order.  Which pairs of unlike vectors share an LSH bucket is left open.  Pruning is
the loop of the code: candidates by falling curvature, equals in the order of the
`Vec`, which is the order of their ids.

## 3. What the runs check

| Run | Properties | Question |
|---|---|---|
| `nexus_verdicts` | `TypeOK`, `ProvenanceCeiling`, `EphemeralIffNotCanon`, `VerdictsShowInImportance`, `VerdictOutranksUse`, `QuarantineHolds`, `CanonNeverEvicted` | what may a sequence of verdicts, promotions and sweeps do to a fact? |
| `nexus_sweeps` | `DistinctTicks`, `EvictionUnambiguous`, `EdgesSound`, `UnjudgedGoOldestFirst`, `CapacityYieldsOnlyToCanon`, `NoPolicyKeepsMoreValued`, `KeepsThePromise` | who goes in a sweep, what goes with them, would another choice of victims have kept more of what is valued, and is the promise kept? |
| `recall` | `ShortlistIsStableTopK`, `ExactWhenUncrowded`, `MissedOnlyIfCrowded`, `Int8MissesOnlyNearTies`, `MoodWithinExperience`, `BoostIsMutual`, `ForgettingHidesNothingElse` | is the bounded search the full one, what exactly can it miss, and what more does int8 miss? does a mood stay within what was felt, and is a boost the same both ways? |
| `engine` | `TypeOK`, `OneInside`, `IndexMirrorsGraph`, `CandidatesAreFresh`, `ActsAtomically`, `HolderLetsGo`, `SpinningGetsSomeoneIn` | do compound calls of several threads look like one instant, does the lock always come free, and does it get used? |
| `budget` | `BoundedMemory`, `PressureIsRelieved` | how far past its budget does the documented pattern go when threads share a handle? |
| `snapshot` | `TypeOK`, `FileHoldsOneSave`, `SaveFindsItsTemp`, `IdsStayFresh`, `SavesLookAtomic` | are saves atomic whatever dies or fails, and do ids stay fresh after a load? |
| `associations` | `EdgesSound`, `RecallAnswersOnlyStored`, `ExpandReachesWithin`, `NobodyIsolated`, `BridgesKept` | what do linking, sweeps and pruning, in any order, do to the graph and to recall over it? |
| `rejection_outweighs` | `RejectionOutweighsConfirmation` (violated) | finding 1 |
| `recall_crowding` | `EmptyMeansNoMatch` (violated) | finding 2 |
| `snapshot_siblings` | `FileHoldsOneSave` (violated) | finding 3 |
| `snapshot_nan` | `SavedCanBeLoaded` (violated) | finding 4 |
| `pruning_clique` | `RedundantIsSafeToDrop` (violated) | finding 5 |

**Finding 1.**  The documentation calls "rejection outweighs confirmation" an
invariant that holds however much feedback arrives.  Importance is clamped at
zero, so rejections after the third leave no trace: four rejections, then three
confirmations, and the node stands above one of the same source nobody judged.

**Finding 2.**  The header says an empty answer means no match.  The search takes
`4 * top_k` candidates by raw cosine and drops quarantined ones afterwards, so
four self-descriptions near the query empty the answer to `top_k = 1` although a
stored user fact matches.  `MissedOnlyIfCrowded` states what does hold: a match
is missing only behind `top_k` answers that rank as high or a full window of
vectors as close.

**Finding 3.**  Saves are documented as atomic.  The temporary name is the target's
with the extension replaced, so two handles saving `memory.1` and `memory.2` at once
write to one `memory.tmp`, and the rename of the first publishes the file the second
has just emptied, with return value 0.  Callers whose temporary names differ, and
are nobody's target, are safe: `snapshot` checks and section 4 proves it
(`Disciplined`).

**Finding 4.**  JSON has no NaN and no infinity; `serde_json` writes `null` for them; the
save returns 0 and replaces the previous file; and no build can load it, since `null`
is not an `f32`.  Two calls let one in: `astrum_memory_add_node` stores any embedding, and
`clamp` lets NaN through, so `astrum_memory_set_affect` stores one.  The shortest trace is
one fact with a NaN in its embedding, saved.  Until the fact is evicted, or the affect
set again, every save is such a file.

**Finding 5.**  Edges of high curvature are documented as safe to drop because
alternative paths exist.  The paths are counted once, and the loop cuts the
alternatives too: of four nodes all linked to each other it leaves two pairs.
`BridgesKept` and `NobodyIsolated` state what does hold: a link that is a bridge
when the call begins stays, and no linked node loses its last link.

One more disagreement with the documentation is modelled as the code has it, and no
run of its own fails on it:

- The header says a snapshot of a different vector backend is rejected
  (`astrum_memory.h:184-185`), `INTEGRATION.md:165-166` that "a file written by an f32
  build is refused by an int8 build and vice versa", `MATURITY.md:60-61` that "a mismatch
  is refused".  The code refuses only if the file has an index: `check_index_kind`
  returns `Ok` without one, and says so ("A file with no index at all is portable",
  `persistence.rs:46-50`).  An f32 engine in which no fact was stored with an embedding
  is saved, and an int8 build loads it.  `SnapshotStore`, which `Snapshot` implements,
  follows `persistence.rs` here and the header otherwise; with
  `kind \in {files[p].kind}` in its `Load`, as the header would have it,
  `SavesLookAtomic` would be violated.

Results worth knowing though no run fails on them:

- Since ticks are distinct, the third sort key of `enforce_capacity`, the access
  count, never decides anything.
- A stored NaN scores NaN in the f32 build, enters the shortlist wherever the binary search
  may end and splits what later searches take to be sorted: beyond the window it can cost
  any match its place (the last disjunct of `MissedOnlyIfCrowded`).  The int8 build codes a NaN coordinate as 0
  and recalls the vector by its other coordinates.
- To a query of norm zero the f32 build scores everything 0, the int8 build answers nothing;
  both are below the floor.
- Routing puts a persona named like a reserved cluster (`private`, `system`) into that
  cluster: its own scope then holds what is confidential.  `PrivateStaysPrivate` names the
  exception.
- The header numbers cells 0 to 23 (`astrum_memory.h:82`), the table 1 to 24; id 0 names no
  cell and is told the boost of a distant one, 0.80.  `affect_overlay.rs:85` puts the largest
  nudge at 1.15; the factors give 1.12 (`NudgeIsGentle`).
- `AffectOverlayEngine::new` takes any inertia.  Outside [0, 1] the blend leaves the span of
  what was felt and is clamped only at the ends of the scale; the model assumes [0, 1].

### Bounds, and why they are enough

- `nexus_verdicts`: two nodes are enough for "this one rather than that one";
  four verdicts per node reach both clamps; counters saturate at 2, below the
  verdicts' number; limits 0 and 1 are below and at the canon count.
- `nexus_sweeps`: four draws give up to four nodes, or three nodes with an edge,
  or two with both ids reused; four ticks let accesses reorder creations.
- `rejection_outweighs`: eight verdicts; the shortest violation takes seven.
- `recall`: five facts are one more than the window of `top_k = 1`; the seven kinds of fact
  are one below the floor, two nearly equal whose int8 codes swap, one overtaken by weight,
  one that overtakes, one quarantined, a NaN and a foreign length.  Three recalls of up
  to two of five nodes: the third blends into a mood that was itself a blend, two nodes are
  the fewest with a mean of their own, and among the five are both signs, a moment in the
  future, a negative relevance and a NaN in each role.  The boost is asked for every pair of
  all cells and three ids that name none.
- `recall_crowding`: the same without NaN, near tie and foreign length, so that none of them
  is to blame.
- `engine`: with one lock, two threads give every overlap a third could, and one
  can overtake the other repeatedly; two facts and two lengths give a vector that
  fits, one that does not, one evicted; one verdict promotes.
- `budget`: three threads on a budget of one, five facts: all three can be past the
  budget at once, and one can start again.

- `snapshot`: two handles, each with a file; a third save meets what the first two
  left.  Two parts are the fewest that can be half written.  One fact per engine
  tells an empty engine, a full one and a swept one apart.  The builds differ, so
  loads of the other's file are refused or portable.  A NaN embedding is among the
  inputs: it spoils the text of one build and not of the other.
- `snapshot_siblings`, `snapshot_nan`: two saves, one save.
- `associations`: four facts of two kinds, canon or not, and three edges: a path, a star, a
  triangle beside a fact of its own; a sweep to two leaves stale entries in the index,
  and stops above two where three or four facts are canon.  Pruning of larger graphs is
  proved (section 4) and looked for in `pruning_clique`.
- `pruning_clique`: four facts and six edges, the smallest cluster that splits.

`CHECK_DEADLOCK FALSE` stands where the bounds on draws, ticks or verdicts stop
the model; `engine`, `snapshot`, `snapshot_siblings` and `snapshot_nan` check
deadlock.

### Fairness

`engine` assumes weak fairness of each thread's attempt at the lock, of
its work under it, and of its return: the scheduler runs every thread, and no call
contains a loop other than `lock`'s.  It does not assume that anybody calls.  Weak
fairness of the attempt is all a `compare_exchange` loop offers, so a particular
thread may starve; nothing in the code or its documents promises otherwise.  In
`budget` a thread that has added a fact also goes on to count and to sweep, because
the pattern is straight-line code.  Code that runs in an interrupt is excluded by
the header and by the model.

## 4. What is proved

`GraphNexusProofs` proves for all values of the constants that satisfy
`NexusAssumption` (source types and levels among the enumerations, limits,
thresholds and bounds natural numbers, `CounterMax` positive), hence for any
number of nodes, edges, ticks and verdicts:

| Theorem | Property |
|---|---|
| `TypeCorrect`, `CeilingIsAbsolute`, `RecencyNeverTies`, `FlagsAgree`, `EdgesStaySound`, `VerdictsShow` | `TypeOK`, `ProvenanceCeiling`, `DistinctTicks`, `EphemeralIffNotCanon`, `EdgesSound`, `VerdictsShowInImportance` |
| `HashOrderNeverDecides` | `EvictionUnambiguous` |
| `VerdictsOutrankUse`, `UnjudgedFallBackToRecency` | `VerdictOutranksUse`, `UnjudgedGoOldestFirst` |
| `CanonIsForGood`, `QuarantineIsNotOverturned` | `CanonNeverEvicted`, `QuarantineHolds` |
| `SweepsMeetTheLimit`, `SweepsKeepTheValued` | `CapacityYieldsOnlyToCanon`, `NoPolicyKeepsMoreValued` |
| `NexusKeepsThePromise` | `KeepsThePromise` |
| `ForgottenStaysForgotten` | no id once drawn ever comes to name a (new) node |

The inductive invariant `IInv` is the conjunction of the state invariants; it is
needed as one because they lean on each other: distinct ticks need
that none lies in the future, the ceiling and the verdicts' trace constrain the
same number, and the bound on ids in `TypeOK` is what makes a new node or edge
fresh.  Each action preserves it by a lemma of its own; four actions that
rewrite nodes in place share one (`RewriteStep`).  The arithmetic is isolated
in `RoundedBounds`, `ConfirmedBounds` and `RejectedBounds`: rounding never carries
a sum over a cap, because caps are representable, nor a confirmation back to
where it started.  The action properties follow from `IInv` and
`OnlyEvictionForgets`; determinism of eviction from distinct ticks, which make
`LessValuable` a strict total order, and from the cardinality of two sets of
equal size, both closed downwards.  What a sweep leaves is counted in `Sizes`: as many go as
exceed the limit, or all that may; and since less valued nodes sort first, if one that is valued
goes then all the unvalued have gone.

`SnapshotProofs` proves under `SnapshotAssumption`, for any number of handles, paths,
parts, draws and saves, and callers that are `Disciplined` (no temporary name is a
target, and two handles share none):

| Theorem | Property |
|---|---|
| `SnapshotTypesHold`, `FilesAreWhole`, `RenamesFindTheirFile`, `IdsAreFresh` | `TypeOK`, `FileHoldsOneSave`, `SaveFindsItsTemp`, `IdsStayFresh` |
| `SavesAreAtomic` | `SavesLookAtomic` |

Its `IInv` adds to the properties that no two names lead to one inode and where
each save stands: its temporary name leads to its inode, that inode holds what it
has written so far, and its text is the engine as it is, since the lock is held.
Without that, "the file is whole" is not inductive: the rename makes it so only
because nobody else could have written there.  The discipline is needed, as
finding 3 shows.

`MemoryEngineProofs` proves under `EngineAssumption` (that of the nexus, lengths natural
numbers, finitely many threads), for any number of threads, facts and lengths:

| Theorem | Property |
|---|---|
| `TypesHold`, `LockExcludes`, `IndexAgrees`, `SearchIsFresh` | `TypeOK`, `OneInside`, `IndexMirrorsGraph`, `CandidatesAreFresh` |
| `HandleIsAtomic` | `ActsAtomically` |
| `HandleRunsANexus` | every behaviour of the threads is a behaviour of `GraphNexus` |
| `CanonOutlivesEveryThread` | hence `CanonNeverEvicted` and `QuarantineHolds` under any concurrency, |
| `CeilingOutlivesEveryThread`, `VerdictsOutlastInterleaving` | `ProvenanceCeiling`, `VerdictOutranksUse`, `UnjudgedGoOldestFirst`, |
| `SweepsOfThreadsMeetTheLimit` | `CapacityYieldsOnlyToCanon`, `NoPolicyKeepsMoreValued`, |
| `HandleKeepsThePromise`, `HeldIdsNameNoStranger` | `KeepsThePromise`, and that held ids name no stranger |

Its `IInv` is the nexus's own invariant, the four above, and what the thread inside leaves for
its second step: while it indexes, the newest node is stored, not indexed, and its embedding
not empty.  They need each other: index and graph agree because only one thread is inside;
candidates are fresh because they agree; and they agree after an indexing because nobody drew
an id or evicted the newcomer in between.  `OneInside` carries along that the flag is up
exactly while somebody is inside, without which it would not be inductive.  What a nexus
method does to the nodes is cited from `GraphNexusProofs`, taken as a second instance `P` with
the same arguments; the first lemmas show the two instances equal.
The refinement maps each step that completes a call's effect to that call of `AtomicMemory`
and every other step to a stutter.

`BudgetedClientsProofs` proves `PatternBoundsMemory` (`BoundedMemory`) for any number of
threads, any budget among the capacities and any share of canon facts.  The bound alone is
not inductive: a thread stops owing when it returns from a count within the budget or from a
sweep, and what it then found must still hold.  `Settled` says so, and holds because the
thread has the lock until it returns, by the invariant of `MemoryEngineProofs`; `SweepLeaves`
counts what a sweep leaves.  `ExcessIsOnePerThread` draws the consequence an integrator sizes a
heap by: budget (or canon) plus one fact per thread, and nothing over while no thread is in
mid-round.  `PatternUsesTheHandle` shows every behaviour of the pattern to be one of
`MemoryEngine`, whose theorems then hold of it.

`AssociationsProofs` proves under `AssociationAssumption` and that of the nexus (thresholds
integers, limits of entity linking natural numbers; any facts, any table of similarities), for
any number of nodes, links and calls:

| Theorem | Property |
|---|---|
| `LinksStaySound`, `PruningIsolatesNobody`, `PruningCutsNoBridge` | `EdgesSound`, `NobodyIsolated`, `BridgesKept` |
| `ExpansionIsExact`, `RecallIsStored` | `ExpandReachesWithin`, `RecallAnswersOnlyStored` |
| `LinksBuyNoStay`, `LinkedSweepsMeetTheLimit` | `UnjudgedGoOldestFirst`, `EvictionUnambiguous`, `CapacityYieldsOnlyToCanon`, `CanonNeverEvicted`, of a linked and pruned graph whose facts were stored at any canon level |
| `AssociationsKeepThePromise` | `KeepsThePromise`: a bulk link spends many ids in one step, all fresh (`LinkingIssuesFreshIds`) |

Its invariant `AIInv` (`AssociationsInvariance`) adds two conjuncts to the nexus's own.  Links have
ids of their own: pruning breaks ties of curvature by position in the `Vec`, which the model reads
off the ids, and two links of one id would be one place.  The index lists each id once, and
ids that were drawn: linking takes positions of the index for nodes, and associative recall takes
distinct entries for distinct answers.  What the index holds may be gone from the graph, and
nothing needs it not to be.  `OneCandidate` is one turn of the pruning loop; it keeps
`PrunedSoFar`: every node that had a link has one, and whatever has been cut was above the
threshold and, when the call began, between two nodes of more than one link each.  A bridge is on no
triangle (`NoTriangleOnABridge`), so between two such nodes its curvature is at most 0:
that is why `BridgesKept` asks for a threshold of at least 0.  `OneTurn` is one round of `expand`:
the frontier holds whatever the reached may have unreached neighbours of, so what is reached
after it is the ball of one hop more.

`ReadSideProofs` proves, from `RecallAssumption` and `OverlayAssumption` (coordinates
integers or NaN, top_k at least 1; inertia and the parts of an affect on their scales or NaN,
finitely many nodes to recall, any table for `expf` that underflows), for any number of facts,
recalls and calls:

| Theorem | Property |
|---|---|
| `ShortlistsAreStableSorts` | `ShortlistIsStableTopK` |
| `UncrowdedIsExact`, `OnlyCrowdingHides` | `ExactWhenUncrowded`, `MissedOnlyIfCrowded` |
| `SurvivorsAreNotHidden` | `ForgettingHidesNothingElse` |
| `Int8LosesNearTiesOnly` | `Int8MissesOnlyNearTies` |
| `MoodsAreMadeOfWhatWasFelt` | `MoodWithinExperience` |
| `BoostsAreMutual` | `BoostIsMutual` |
| `InertiaStaysBetween`, `NudgeIsGentle` | bounds of the blend and of the nudge, for every mood |

*Recall.*  `RecallInv` (`RecallInvariance`) says that the index is a sequence of stored
embeddings, no node in it twice.  The rest is about operators, and rests on
`VectorIndexProofs`.  A sort there is a *listing*: a function from places to positions that
increases in a strict total order, of which there is exactly one (`OneListing`).  The scan
keeps, after each vector, a listing of the k greatest of those seen (`ScanEnds`): the binary
search ends somewhere (`SearchEnds`), between numbers at the one place where its predicate
turns, and inserting there and cutting off the last keeps it (`ShortlistGrows`).  With a NaN among the scores the search may end anywhere,
and only length and distinctness are kept.  An answer picks and sorts the shortlist, the
reference picks and sorts everything; both are listings of the same positions in the same
order while nothing fell out of the window, hence the same.  Where a NaN has disturbed the
order of the shortlist, both are still *descents*, never rising in rank, and two descents through
one set have equal ranks place by place (`DescentsAgree`).  For `OnlyCrowdingHides`, what is
missing fell out of the window, behind a full window of vectors as close, or out of the last
cut, behind k answers.  For `SurvivorsAreNotHidden`, picking the survivors of a listing
gives the listing of the survivors.  That scores can be compared at all, being NaN or numbers, is
`CosineBounded`; that int8 codes give numbers only, `QuantisedIsClean`.

*Quantisation.*  `Int8MissesOnlyNearTies` allows a loss of up to `QuantisationSlack`, a number of
hundredths that grows with the square root of the dimension: a code is within half a step of the
coordinate it stands for (`CodeIsClose`), a step is 1/127 of the greatest coordinate, so codes
and vector differ by at most sqrt(n)/254 of the vector's length (`CodesAreNear`, `ApartIfClose`).
Two vectors that near have cosines that near to any query (`CloseScores`): the query is split
along the one and across it, and the Cauchy-Schwarz inequality, proved here for finite sums of
integers (`CauchySchwarz`), bounds what is left.  Each of two compared scores may move by that
much.  The rest is the argument about two scans: the best an index leaves out is behind all it has
(`ShortlistHasTheBest`), so an exact score left out lies above one that was kept by no more than
twice the error (`ScansAgree`).  Everything is in integers, scores cut to hundredths included;
the square root stands in `QuantisationSlack` as the least integer whose square is enough.

*Moods.*  `MoodInv` says that each part of the mood lies between two of the values lived through,
or is NaN with one of them, and that no intensity felt was NaN: one such node makes the total weight
NaN and the recall is dropped whole.  `MeanIsBetween` shows that a mean with weights of at
least 0, some above 0, lies within any bounds on what has weight, also when rounded down; its sums
are over finite sets, compared by `SumsCompare`.  The blend then stays between mood and mean.

*Boost.*  The 24 rows are compared pair by pair; ids that name no cell have no row.

`IntakeProofs` proves theorems about operators, hence for every input and for whatever
`to_lowercase` does: `PrivateStaysPrivate`, `SelfDescriptionGoesToSystem`, `RoutedIntoSight`,
`OwnClusterIsOwnPersonas`, `UnknownBytesAreTrustedWithLittle`, `CloserIsTakenLess`.

*Induction over data.*  The library's induction rules take an operator, which the provers cannot
instantiate.  Inductions here are over a set instead: the least number in the set of
counterexamples (`LeastNumber`), the smallest bad subset of a finite set (`SubsetInduction`),
the equation of a recursive function shown to have a solution first (`Iteration`).

Only model-checked:

- `HolderLetsGo`, `SpinningGetsSomeoneIn` and `PressureIsRelieved` are liveness under fairness,
  out of the prover's reach.
- The properties the code violates, whose runs are counterexamples.

## 5. Not modelled

The allocator shim forwards and the panic handler spins; JSON text, string ownership and
null pointers are the boundary's data.  `destroy` concurrent with another call, and calls
after it, break the caller's contract.  Heap exhaustion spins for ever by design;
`BudgetedClients` models the mitigation.  Examples, firmware benches and the C test call the
engine and measure it; they were read for how it is used.  Infinite coordinates are left
out of recall (`Snapshot` has them): a finite embedding whose norm overflows f32 is outside the model.  `Intake` has no state
and no run: its theorems cover every input.  Power loss is left out: nothing is synced to
disk, and nothing is promised about it.  On a system whose `rename` does not replace an open
file, finding 3 would look different.  Hyperedges, their curvature and
`CanonLevel::retrieval_multiplier` are used by nothing.

## 6. Plan

Done: every component of section 1, the abstract specifications, and the proofs of section
4, which state every safety property of the runs that pass.  What is left:

- a theorem that carries `RecallInv` over to the index of `MemoryEngine`, which reduces a vector
  to its length today;
- a model of power loss, which would need a promise to hold it to that the code does not make.

\* Two threads scheduled fairly, two facts, embeddings of two lengths and none.
SPECIFICATION FairSpec
CONSTANTS
  Sources = {"UserUtterance", "LlmSelfDescription"}
  Levels = {"None", "L1Project"}
  Affects = {"moved"}
  Capacities = {0, 1}
  Thresholds = {0}
  CounterMax = 1
  MaxDraws = 2
  MaxTicks = 2
  MaxVerdicts = 1
  Threads = {t1, t2}
  Lengths = {0, 2, 3}
INVARIANTS
  TypeOK
  OneInside
  IndexMirrorsGraph
  CandidatesAreFresh
PROPERTIES
  ActsAtomically
  HolderLetsGo
  SpinningGetsSomeoneIn

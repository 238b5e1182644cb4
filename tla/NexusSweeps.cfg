\* Four draws shared by nodes and edges: who goes in a sweep, and what goes
\* with them.
SPECIFICATION Spec
CONSTANTS
  Sources = {"UserUtterance", "LlmSelfDescription"}
  Levels = {"None", "L1Project"}
  Affects = {"neutral_baseline"}
  Capacities = {0, 1, 2}
  Thresholds = {0, 2}
  CounterMax = 2
  MaxDraws = 4
  MaxTicks = 4
  MaxVerdicts = 1
INVARIANTS
  DistinctTicks
  EvictionUnambiguous
  EdgesSound
PROPERTIES
  UnjudgedGoOldestFirst
  CapacityYieldsOnlyToCanon
  NoPolicyKeepsMoreValued
  KeepsThePromise
CHECK_DEADLOCK FALSE

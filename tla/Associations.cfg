\* Up to four facts of two kinds, canon or not, linked by hand and in bulk, pruned, swept.
SPECIFICATION ASpec
CONSTANTS
  Sources = {"UserUtterance"}
  Levels = {"None", "L1Project"}
  Affects = {"neutral_baseline"}
  Capacities = {2}
  Thresholds = {0}
  CounterMax = 1
  MaxDraws = 7
  MaxTicks = 4
  MaxVerdicts = 0
  Facts <- MCFacts
  Similarity <- MCSimilarity
  Cosines = {30, 90}
  EntityLimits <- MCEntityLimits
  Curvatures = {0}
CHECK_DEADLOCK FALSE
INVARIANTS
  EdgesSound
  RecallAnswersOnlyStored
  ExpandReachesWithin
  NobodyIsolated
  BridgesKept

\* Four facts that all resemble each other: a clique can form.
SPECIFICATION ASpec
CONSTANTS
  Sources = {"UserUtterance"}
  Levels = {"None"}
  Affects = {"neutral_baseline"}
  Capacities = {}
  Thresholds = {0}
  CounterMax = 1
  MaxDraws = 10
  MaxTicks = 4
  MaxVerdicts = 0
  Facts <- PlainFacts
  Similarity <- PlainSimilarity
  Cosines = {90}
  EntityLimits = {}
  Curvatures = {2}
CHECK_DEADLOCK FALSE
INVARIANTS
  RedundantIsSafeToDrop

\* One node and up to eight verdicts on it.
SPECIFICATION Spec
CONSTANTS
  Sources = {"UserUtterance", "LlmGeneration"}
  Levels = {"None"}
  Affects = {"neutral_baseline"}
  Capacities = {1}
  Thresholds = {1}
  CounterMax = 8
  MaxDraws = 1
  MaxTicks = 1
  MaxVerdicts = 8
INVARIANT RejectionOutweighsConfirmation
CHECK_DEADLOCK FALSE

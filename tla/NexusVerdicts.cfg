\* Two nodes, long runs of verdicts: what judgement does to retention.
SPECIFICATION Spec
CONSTANTS
  Sources = {"UserUtterance", "LlmGeneration", "LlmSelfDescription"}
  Levels = {"None", "L1Project"}
  Affects = {"moved"}
  Capacities = {0, 1}
  Thresholds = {0, 2}
  CounterMax = 2
  MaxDraws = 2
  MaxTicks = 3
  MaxVerdicts = 4
INVARIANTS
  TypeOK
  ProvenanceCeiling
  EphemeralIffNotCanon
  VerdictsShowInImportance
PROPERTIES
  VerdictOutranksUse
  QuarantineHolds
  CanonNeverEvicted
CHECK_DEADLOCK FALSE

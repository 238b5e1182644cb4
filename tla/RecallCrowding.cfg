\* Five facts and top_k = 1: one more vector than the over-fetch window.
SPECIFICATION Spec
CONSTANTS
  Facts <- PlainFacts
  Query <- MCQuery
  TopKs = {1}
  MaxFacts = 5
INVARIANT EmptyMeansNoMatch
CHECK_DEADLOCK FALSE

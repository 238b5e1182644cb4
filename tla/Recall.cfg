\* Five facts of seven kinds; three recalls of up to two nodes each, now or
\* long after; one boost.
SPECIFICATION ReadSideSpec
CONSTANTS
  Facts <- MCFacts
  Query <- MCQuery
  TopKs = {1, 2}
  MaxFacts = 5
  Recalled <- MCRecalled
  MostRecalled = 2
  Moments = {3600, 1000000}
  Tau = 3600
  Inertia = 75
  Exp <- MCExp
  Underflow = 483
  MaxMoods = 3
  AskedCells <- MCAskedCells
INVARIANTS
  ShortlistIsStableTopK
  ExactWhenUncrowded
  MissedOnlyIfCrowded
  Int8MissesOnlyNearTies
  MoodWithinExperience
  BoostIsMutual
PROPERTIES
  ForgettingHidesNothingElse
CHECK_DEADLOCK FALSE

\* Two handles whose files share one temporary name.
SPECIFICATION Spec
CONSTANTS
  Handles = {"h1", "h2"}
  Paths = {"memory.1", "memory.2"}
  Temp <- SiblingTemp
  Targets <- SiblingTargets
  Build <- MCBuild
  Embeddings = {"none", "finite"}
  Parts = 2
  MaxDraws = 1
  MaxSaves = 2
INVARIANTS
  FileHoldsOneSave

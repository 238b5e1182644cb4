\* One handle, one file, one fact, any embedding.
SPECIFICATION Spec
CONSTANTS
  Handles = {"h1"}
  Paths = {"user.json"}
  Temp <- MCTemp
  Targets <- OneTarget
  Build <- OneBuild
  Embeddings = {"none", "finite", "nan", "infinite"}
  Parts = 2
  MaxDraws = 1
  MaxSaves = 1
INVARIANTS
  SavedCanBeLoaded

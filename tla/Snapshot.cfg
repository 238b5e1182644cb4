\* Two handles on files of their own, three temporary files made.
SPECIFICATION Spec
CONSTANTS
  Handles = {"h1", "h2"}
  Paths = {"user.json", "agent.json"}
  Temp <- MCTemp
  Targets <- MCTargets
  Build <- MCBuild
  Embeddings = {"none", "finite", "nan"}
  Parts = 2
  MaxDraws = 1
  MaxSaves = 3
INVARIANTS
  TypeOK
  FileHoldsOneSave
  SaveFindsItsTemp
  IdsStayFresh
PROPERTIES
  SavesLookAtomic

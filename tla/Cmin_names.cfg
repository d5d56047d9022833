CONSTANTS
  NFiles = 2
  Tuples = {t1, t2}
  MaxEnergy = 1
  PipeCap = 2
  Naming <- MCAnyNames
  Options <- MCBatched
SPECIFICATION Spec
INVARIANT CoverageKept

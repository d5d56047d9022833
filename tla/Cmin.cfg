CONSTANTS
  NFiles = 3
  Tuples = {t1, t2}
  MaxEnergy = 2
  PipeCap = 2
  Naming <- MCDistinct
  Options <- MCOptions
SPECIFICATION FairSpec
INVARIANTS
  ChoiceSound
  CoverageKept
PROPERTIES
  EachSavePays
  Ends

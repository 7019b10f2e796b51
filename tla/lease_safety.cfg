SPECIFICATION Spec
CONSTANTS
  Webs = {w1, w2}
  MaxBrowsers = 2
  MaxTerminations = 1
  None = None
SYMMETRY Symmetry
INVARIANTS
  TypeOK
  StoppedIsConfirmed
  LeaksAreOrphans
PROPERTIES
  ReleasesUnused

CONSTANTS
  gif1 = gif1
  p1 = p1
  p2 = p2
  Manifest = Manifest
  NoFile = NoFile
  NoPackage = NoPackage
  NoDir = NoDir
  Missing = Missing
  Files <- MCFiles
  Packages <- MCPackages
  Names <- MCNames
  Word = 2
  MaxChunk = 1
  MaxFaults = 0
  MaxCrashes = 0
  MaxResets = 1
SPECIFICATION DisplaySpec
SYMMETRY Symmetry
VIEW View
INVARIANTS
  CacheIsOfActive
  ResetLeavesNothing

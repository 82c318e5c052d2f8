CONSTANTS
  gif = gif
  p1 = p1
  p2 = p2
  Manifest = Manifest
  NoFile = NoFile
  NoPackage = NoPackage
  NoDir = NoDir
  Missing = Missing
  Files <- MCFiles
  Packages <- MCPackages
  Names <- MCNames
  Word = 2
  MaxChunk = 1
  MaxFaults = 2
  MaxCrashes = 1
SPECIFICATION InstallSpec
SYMMETRY Symmetry
VIEW View
INVARIANTS
  NameIsOfActive
  StagedAgrees
  ActiveIsPackage
  DeletedIsGone
PROPERTIES
  SlotSpec

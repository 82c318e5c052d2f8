CONSTANTS
  Manifest = Manifest
  longest = longest
  tooLong = tooLong
  hidden = hidden
  nested = nested
  NoFile = NoFile
  Files <- MCFiles
  Paths <- MCPaths
  Shape <- MCShape
  kCharacterPathLength = 64
  BUDDY_CHARACTER_FILE_LEN = 64
  kCharacterManifestLength = 4
  BUDDY_CHARACTER_MANIFEST_MAX = 4
  Word = 6
  MaxChunk = 3
  Bytes <- MCBytes
  Fills <- MCFills
  Garbled <- MCGarbled
  Manifests <- MCManifests
SPECIFICATION CommandsSpec
INVARIANTS
  Accounting
  WrittenIsWhatWasSent
  ActivatedCanBeShown
PROPERTY AcknowledgedIsWhole

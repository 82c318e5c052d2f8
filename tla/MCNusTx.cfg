CONSTANTS
  host = host
  ui = ui
  Host = host
  Threads <- MCThreads
  MaxLine = 3
  Mtus <- MCMtus
  DefaultMtu = 4
  MaxNotify = 2
  Retries = 2
  MaxLines = 2
  MaxConnections = 2
SPECIFICATION FairSpec
INVARIANTS
  BytesInOrder
  UndisturbedLinesAreWhole
PROPERTIES
  SentMeansAccepted
  EverySendReturns

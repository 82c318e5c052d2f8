CONSTANTS
  TokensPerLevel = 2
  MaxLevel = 1
  MaxTokens = 4
  CountLimit = 3
  Samples = 3
  Responses <- MCResponses
  NoStats = NoStats
  MaxSpent = 5
  MaxFaults = 1
SPECIFICATION PetSpec
INVARIANTS LevelFollowsTokens LevelIsDurable NeverOvercounts RingHoldsLatest MedianIsUpperMedian
PROPERTY DenialNeverCheers

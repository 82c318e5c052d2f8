CONSTANTS
  p1 = p1
  p2 = p2
  ui = ui
  shell = shell
  EmptyId = EmptyId
  Ui = ui
  Prompts <- MCPrompts
  Threads <- MCThreads
  StatLimit = 0
  MaxChanges = 2
SPECIFICATION FairUiSpec
INVARIANTS
  OncePerThread
  AnsweredBlocks
  FlagIsFresh
  ClaimIsTrue
  DrawnClaimIsForPrompt
PROPERTIES
  ScreenCatchesUp

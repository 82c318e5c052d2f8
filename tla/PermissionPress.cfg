CONSTANTS
  EmptyId = EmptyId
  Ui = ui
  Prompts = {p1, p2}
  Threads = {ui}
  StatLimit = 2
  MaxChanges = 2
SPECIFICATION PressSpec
PROPERTY DecidesWhatWasShown

CONSTANTS
  Host = Host
  Ui = Ui
  Absent = Absent
  MaxChanges = 3
  MaxFaults = 1
SPECIFICATION PrefsSpec
INVARIANTS SettledSurvives QuietResetForgets

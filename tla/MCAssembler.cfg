CONSTANTS
  a = a
  CR = CR
  LF = LF
  Chars <- MCChars
  MaxLineLength = 2
  MaxWrite = 3
  MaxBytes = 7
SPECIFICATION Spec
PROPERTIES
  FramingSpec
  ResyncAfterLF
  DropsOnlyOwnOverlong

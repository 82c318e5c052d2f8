CONSTANTS
  Passkeys <- MCPasskeys
  PasskeyRange = 3
  Word = 8
  DisplayMs = 2
SPECIFICATION FairSpec
INVARIANT PasskeyGoesAway
PROPERTIES
  PasskeyComesUp
  PasskeyStaysUp

CONSTANTS
  Table <- Tables
  Vowel = {"a", "e", "i", "o", "u"}
  MaxLen = 6
SPECIFICATION GenpwSpec
INVARIANT Characteristics
INVARIANT FullAndReadable
PROPERTY CallReturns

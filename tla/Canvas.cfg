CONSTANTS
  i1 = i1
  i2 = i2
  None = None
  Images <- MCImages
  Content <- MCContent
  Blank <- MCBlank
  Limit = 1
  MaxEdits = 2
  MaxOps = 1
  MaxOthers = 1
  MaxRefusals = 1
SPECIFICATION FairSpec
INVARIANTS
  StraysOnlyByRefusal
  GuessesFit
PROPERTY TabCatchesUp

CONSTANTS
  i1 = i1
  i2 = i2
  None = None
  Images <- MCImages
  Content <- MCContent
  Blank <- MCBlank
  Limit = 1
  MaxEdits = 1
  MaxOps = 1
  MaxOthers = 0
  MaxRefusals = 0
SPECIFICATION Spec
PROPERTY NoBlindSave

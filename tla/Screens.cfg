CONSTANTS
  None = None
  Unused = Unused
  i1 = i1
  i2 = i2
  m1 = m1
  m2 = m2
  p1 = p1
  p2 = p2
  n1 = n1
  n2 = n2
  TestImages <- MCTestImages
  MaxOpsB = 2
  MaxOthersB = 1
  Models <- MCModels
  MaxOpsR = 3
  MaxOthersR = 1
  Content <- MCContent
  Blank <- MCBlank
  Limit = 1
  MaxEdits = 2
  ClassNames <- MCClassNames
  Palette = 2
  MaxSaves = 2
  People <- MCPeople
  ProjectNames <- MCProjectNames
  MaxProjects = 2
  MaxCalls = 1
  MaxAsked = 3
  gtOrder <- MCgtOrder
  Inputs <- MCInputs
  iouThr <- MCiouThr
  Paths <- MCPaths
  Stem <- MCStem
  Class <- MCClass
  Starts <- MCStarts
  Budget = 1
  MaxWrites = 2
  MaxMoves = 1
SPECIFICATION Spec
SYMMETRY Interchangeable
INVARIANTS
  ScreensTypeOK
  KeyStraysOnlyByImport
  CleanMeansOpened
  ReviewIsSavable
  NeverAdopted
  GradedFairly
  ExportFaithful
PROPERTIES
  AutoAsMeasured
  TaughtColourStays
  DeletedByOwner
CHECK_DEADLOCK FALSE

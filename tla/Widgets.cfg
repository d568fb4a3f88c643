CONSTANTS
  None = None
  Content <- MCContent
  Blank <- MCBlank
  Limit = 1
  Pixel = 2
  Width = 4
  Margin = 1
  GRAB = 1
  MinDraw = 1
  Nudges <- MCNudges
  MaxBoxes = 2
  MaxEdits = 2
  Count = 3
  Statuses <- MCStatuses
  PAGE = 1
  MaxClicks = 1
  MaxChanges = 1
  MaxFails = 1
SPECIFICATION WidgetsSpec
INVARIANTS
  BoxesOrdered
  Coherent
PROPERTIES
  KeysStayInside
  UndoIsHistory
  ScrollReachesEnd
CHECK_DEADLOCK FALSE

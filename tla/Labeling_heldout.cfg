CONSTANTS
  Class = {c1}
  Image = {i1}
  Request = {r1}
  Job = {}
  Ops = {"label"}
  MaxBoxes = 1
  Faults = FALSE
  Reopens = FALSE
  NoCall = NoCall
  NoRequest = NoRequest
SPECIFICATION Spec
PROPERTY HeldOutNeverTaught

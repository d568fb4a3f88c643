CONSTANTS
  Class = {c1, c2}
  Image = {i1}
  Request = {r1, r2}
  Job = {j1}
  Ops = {"label", "relabel"}
  MaxBoxes = 1
  Faults = TRUE
  Reopens = TRUE
  NoCall = NoCall
  NoRequest = NoRequest
SPECIFICATION Spec
SYMMETRY Symmetry
INVARIANT PoolClassesTaught
INVARIANT NoRowsWithoutProject
PROPERTY HumanDecisionKept

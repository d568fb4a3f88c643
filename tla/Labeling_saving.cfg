CONSTANTS
  Class = {c1, c2}
  Image = {i1}
  Request = {r1, r2}
  Job = {}
  Ops = {"label", "testset"}
  MaxBoxes = 2
  Faults = FALSE
  Reopens = FALSE
  NoCall = NoCall
  NoRequest = NoRequest
SPECIFICATION FairSpec
INVARIANT ClassOrderAgrees
INVARIANT GroundTruthHeldOut
PROPERTY EveryRequestAnswered

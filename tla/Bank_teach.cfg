CONSTANTS
  Class = {c1, c2}
  Model = {m1, m2}
  Default = m1
  Thread = {t1, t2}
  Ops = {"teach", "read"}
  MaxVectors = 2
  Faults = TRUE
  WriteFaults = TRUE
  Crashes = TRUE
  NoModel = NoModel
  NoThread = NoThread
SPECIFICATION FairSpec
INVARIANT OneSpace
PROPERTY EveryCallEnds

CONSTANTS
  Class = {c1, c2}
  Model = {m1, m2}
  Default = m1
  Thread = {t1, t2}
  Ops = {"teach", "reembed", "read"}
  MaxVectors = 3
  Faults = TRUE
  WriteFaults = FALSE
  Crashes = FALSE
  NoModel = NoModel
  NoThread = NoThread
SPECIFICATION Spec
SYMMETRY Symmetry
INVARIANT FilesAgree
PROPERTY NothingForgotten
PROPERTY OneAtATime

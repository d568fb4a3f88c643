CONSTANTS
  Job = {j1}
  Solo = {s1}
  Checkpoint = {k1}
  MaxLines = 3
  Faults = TRUE
  Crashes = TRUE
  Nobody = Nobody
SPECIFICATION FairSpec
INVARIANT OwnResults
INVARIANT NoPartialResult
PROPERTY RunsAsPromised
PROPERTY CheckpointReleased
PROPERTY EveryJobEnds
PROPERTY EveryPollerSettles

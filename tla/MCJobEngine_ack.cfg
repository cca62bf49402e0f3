CONSTANTS
  j1 = j1
  j2 = j2
  j3 = j3
  j4 = j4
  Job = {j1, j2}
  Worker = {w1, w2}
  SyncCaller = {s1}
  NoThread = NoThread
  NoJob = NoJob
  Client = {}
  Canceller = {c1}
  Shape = {a}
  NoSignature = NoSignature
  BatchWindow = 50
  MaxBatchSize = 2
  Request <- AllMerge
SPECIFICATION Spec
INVARIANT AckedCancelSticks
SYMMETRY PairSymmetry
CHECK_DEADLOCK FALSE

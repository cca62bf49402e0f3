CONSTANTS
  j1 = j1
  j2 = j2
  j3 = j3
  j4 = j4
  Job = {j1, j2, j3, j4}
  Worker = {w1, w2}
  SyncCaller = {}
  NoThread = NoThread
  NoJob = NoJob
  Client = {}
  Canceller = {}
  Shape = {a}
  NoSignature = NoSignature
  BatchWindow = 50
  MaxBatchSize = 2
  Request <- Mixed
SPECIFICATION Spec
INVARIANTS NoItemLost ReleasedIsSettled
PROPERTY ImplementsWorkPool
SYMMETRY PairSymmetry
CHECK_DEADLOCK FALSE

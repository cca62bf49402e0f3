CONSTANTS
  Job = {j1}
  Worker = {w1}
  SyncCaller = {}
  NoThread = NoThread
  NoJob = NoJob
  NoChoice = NoChoice
  Client = {r1}
  SseClient = {}
  SocketClient = {}
  RealtimeClient = {r1}
  Canceller = {r1}
  MaxHandlers = 1
  MaxOrphans = 0
  MaxCancels = 0
  Shape = {a}
  NoSignature = NoSignature
  BatchWindow = 0
  MaxBatchSize = 1
  Request <- TextRequest
SPECIFICATION FairStreamSpec
PROPERTY RealtimeCompletes
CHECK_DEADLOCK FALSE

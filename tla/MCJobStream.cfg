CONSTANTS
  Job = {j1}
  Worker = {w1}
  SyncCaller = {}
  NoThread = NoThread
  NoJob = NoJob
  NoChoice = NoChoice
  Client = {e1, s1}
  SseClient = {e1}
  SocketClient = {s1}
  RealtimeClient = {}
  Canceller = {s1, c1}
  MaxHandlers = 1
  MaxOrphans = 1
  MaxCancels = 1
  Shape = {a}
  NoSignature = NoSignature
  BatchWindow = 0
  MaxBatchSize = 1
  Request <- TextRequest
SPECIFICATION FairStreamSpec
INVARIANTS InOrderDelivery NothingMissedSince
PROPERTY StreamsEnd
CHECK_DEADLOCK FALSE

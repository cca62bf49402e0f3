CONSTANTS
  Thread = {t1, t2, t3}
  Model = {m1, m2, m3}
  CacheSize = 2
  MaxRequests = 4
  None = None
  LocalReader = {q1}
  RemoteReader = {q2}
  Subscriber = {s1}
  MaxLooks = 2
  Segments = 2
  MaxTokens = 4
  WindowSize = 2
  WindowHop = 1
  OverlapTokens = 1
  QueueSize = 2
  Peer = {p1, p2}
  Photo = {f1}
  NoPhoto = NoPhoto
  MaxChunks = 5
  FramesPerChunk = 2
  MelTail = 3
  Lookahead = 1
  Spans = {0, 2}
  Conn = {c1, c2}
  Worker = {w1, w2}
  Image = {i1, i2}
  NoImage = NoImage
  WarmupOnInit = TRUE
  FollowedModels <- MCModels
  MaxBundles = 1
  NoSeed = NoSeed
  NoText = NoText
  FollowedPrograms <- MCPrograms
  StreamLength = 2
  FollowedRuntimes <- MCRuntimes
  Installs = 2
SPECIFICATION Spec
INVARIANTS LostToOthersOnly RecordGrows EverythingSpoken AudioKept RepoWhileNeeded
INVARIANTS RanksInStep RenderIsOwn ArtifactsAreOwn OutputIsOwn InstallRecorded
PROPERTIES StreamEnds MessagesAnswered
CHECK_DEADLOCK FALSE

CONSTANTS
  c1 = c1
  c2 = c2
  s1 = s1
  s2 = s2
  s3 = s3
  Conn = {c1, c2}
  Routes = {"quicktalk", "clone", "native", "preload"}
  NativeModel = {"flashtalk", "wav2lip"}
  SessionId = {s1, s2}
  NoSession = NoSession
  Ref = {a, b}
  Value = {x}
  NoValue = NoValue
  CacheMax = 1
  NoConn = NoConn
SPECIFICATION AvatarSpec
INVARIANTS RuntimeStateIsLive SessionsAreOwned RendersOwn CancelledStaysSilent
PROPERTY EveryMessageAnswered
CHECK_DEADLOCK FALSE

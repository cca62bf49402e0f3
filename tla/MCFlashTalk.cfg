CONSTANTS
  Request = {r1, r2, r3}
  Coordinator = {k1, k2, k3}
  NoItem = NoItem
  Sentinel = Sentinel
  Main = Main
  k1 = k1
  k2 = k2
  Rank = {r0, w1, w2}
  RankZero = r0
  Key = {k1, k2}
  Refs <- MCRefs
  WarmTarget = 2
  BufLen = 5
  a1 = a1
  a2 = a2
  Avatar = {a1, a2}
  BankSize <- MCBankSize
  ChunkLen = 2
  Playback = "pingpong"
  EnterChunks = 2
  RefreshInterval = 2
  Hold = {1, 2}
SPECIFICATION Spec
INVARIANTS SameRender WindowIsRecent OwnAvatarOnly
PROPERTIES ServesWorkPool EarlySubmitsReturn RanksStart EverySlotShown
CHECK_DEADLOCK FALSE

CONSTANTS
  Request = {r1, r2}
  Coordinator = {k1, k2}
  NoItem = NoItem
  Sentinel = Sentinel
  Main = Main
SPECIFICATION FairFlashTalkSpec
PROPERTY EverySubmitReturns
CHECK_DEADLOCK FALSE

SPECIFICATION FairSpec
CONSTANTS
  t1 = t1
  t2 = t2
  Tasks = {t1, t2}
  NoTask = NoTask
  Tgid <- MCTgid
  Gids = {1}
  HRM_GROUP_SIZE = 2
  MayProduce = {t1, t2}
  MayConsume = {}
  MayDetach = {}
  MayExit = {t1, t2}
  MapFails = {FALSE}
  WindowAsks = {}
  Periods = {0}
  MaxCount = 1
  MaxHistory = 0
  MaxTime = 1
  HRM_MAX_WINDOWS = 1
  HRM_MAX_WINDOW_SIZE = 2
  CountMod = 16
INVARIANTS
  TimerSafe
  SlotsOwned
  BeatsKept
PROPERTIES
  LeaveEnds
  BeatsPublished

SPECIFICATION Spec
CONSTANTS
  t1 = t1
  t2 = t2
  Tasks = {t1, t2}
  NoTask = NoTask
  Tgid <- MCTgid
  Gids = {1}
  HRM_GROUP_SIZE = 2
  MayProduce = {t1}
  MayConsume = {t2}
  MayDetach = {t1}
  MayExit = {t1, t2}
  MapFails = {FALSE}
  WindowAsks = {}
  Periods = {0}
  MaxCount = 1
  MaxHistory = 1
  MaxTime = 1
  HRM_MAX_WINDOWS = 1
  HRM_MAX_WINDOW_SIZE = 2
  CountMod = 16
INVARIANTS
  NoRecount

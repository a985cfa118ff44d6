SPECIFICATION Spec
CONSTANTS
  t1 = t1
  t2 = t2
  Tasks = {t1, t2}
  NoTask = NoTask
  Tgid <- MCTgid
  Gids = {1}
  HRM_GROUP_SIZE = 2
  MayProduce = {t1}
  MayConsume = {t2}
  MayDetach = {t1}
  MayExit = {t2}
  MapFails = {TRUE, FALSE}
  WindowAsks = {1, 2}
  Periods = {1}
  MaxCount = 1
  MaxHistory = 0
  MaxTime = 2
  HRM_MAX_WINDOWS = 1
  HRM_MAX_WINDOW_SIZE = 4
  CountMod = 16
INVARIANTS
  TypeOK
  GroupsExact
  TimerKept
  MapsCurrent
PROPERTIES
  MeasuresRight

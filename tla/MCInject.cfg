SPECIFICATION Spec
CONSTANTS
  t1 = t1
  t2 = t2
  t3 = t3
  Tasks = {t1, t2}
  NCPU = 1
  Idle = Idle
  NoTask = NoTask
  MAX_RT_PRIO = 2
  Nices = {0, 1}
  DeadlineDiff <- MCDeadlineDiff
  DeadlineMod = 64
  SLICE = 1
  HALF_JIFFY = 0
  Locality <- MCLocality
  SmtSiblings <- MCSmtSiblings
  CacheSiblings <- MCCacheSiblings
  InitTask <- OneBatch
  SleepStates = {}
  PolicyAsks = {}
  NiceAsks = {1}
  MaskAsks = {}
  SyncAsks = {FALSE}
  WaiterPrios = {}
  MayFork = {t1}
  MayExit = {t1}
  MayYieldTo = {}
  Watched = {}
  ResetAsks = {FALSE}
  Governed = {}
  InitRate = 2
  RateAsks = {2}
  Pid <- MCPid
  Tgid <- MCTgid
  LimitAsks <- LimitLines
  Cells = {c1, c2, c3}
  NoCell = NoCell
  MaxNiffies = 0
  MaxOffset = 3
SYMMETRY CellPerms
INVARIANTS
  Counters
  LimitsArmed
PROPERTIES
  ImplementsPool

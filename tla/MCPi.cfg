SPECIFICATION Spec
CONSTANTS
  t1 = t1
  t2 = t2
  t3 = t3
  Tasks = {t1, t2}
  NCPU = 1
  Idle = Idle
  NoTask = NoTask
  MAX_RT_PRIO = 2
  Nices = {0}
  DeadlineDiff <- MCDeadlineDiff
  DeadlineMod = 64
  SLICE = 1
  HALF_JIFFY = 0
  Locality <- MCLocality
  SmtSiblings <- MCSmtSiblings
  CacheSiblings <- MCCacheSiblings
  InitTask <- AllNormal
  SleepStates = {"interruptible"}
  PolicyAsks <- ThreePolicies
  NiceAsks = {}
  MaskAsks = {}
  SyncAsks = {FALSE}
  WaiterPrios = {0, 5}
  MayFork = {}
  MayExit = {}
  MayYieldTo = {}
  Watched = {}
  ResetAsks = {FALSE}
  Governed = {}
  InitRate = 0
  RateAsks = {}
  Pid <- MCPid
  Tgid <- MCTgid
  LimitAsks = {}
  Cells = {}
  NoCell = NoCell
  MaxNiffies = 0
  MaxOffset = 1
SYMMETRY Perms
INVARIANTS
  QueueWellFormed
  RtPrioEarned
  BoostKept
  NoneStranded

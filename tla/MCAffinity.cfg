SPECIFICATION Spec
CONSTANTS
  t1 = t1
  t2 = t2
  t3 = t3
  Tasks = {t1, t2}
  NCPU = 2
  Idle = Idle
  NoTask = NoTask
  MAX_RT_PRIO = 2
  Nices = {0}
  DeadlineDiff <- MCDeadlineDiff
  DeadlineMod = 64
  SLICE = 1
  HALF_JIFFY = 0
  Locality <- MCLocality
  SmtSiblings <- MCSmtSiblings
  CacheSiblings <- MCCacheSiblings
  InitTask <- AllNormal
  SleepStates = {"interruptible"}
  PolicyAsks = {}
  NiceAsks = {}
  MaskAsks = {{0}, {1}, {0, 1}}
  SyncAsks = {TRUE, FALSE}
  WaiterPrios = {}
  MayFork = {}
  MayExit = {}
  MayYieldTo = {}
  Watched = {}
  ResetAsks = {FALSE}
  Governed = {1}
  InitRate = 0
  RateAsks = {}
  Pid <- MCPid
  Tgid <- MCTgid
  LimitAsks = {}
  Cells = {}
  NoCell = NoCell
  MaxNiffies = 0
  MaxOffset = 1
SYMMETRY Perms
INVARIANTS
  AffinityEnforced
  BestTaskAdvances

SPECIFICATION Spec
CONSTANTS
  Cpus = {0, 1}
  NoCpu = NoCpu
INVARIANTS
  NoSpinCycle

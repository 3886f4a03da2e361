\* One worker and one asset; nothing fails.
SPECIFICATION Spec
CONSTANTS
  Worker = {w1}
  Assets = 1
  Slice = 1
  Limit = 1
  MICRO = 3
  MaxRuns = 2
  MaxBatches = 1
  MaxFaults = 0
CHECK_DEADLOCK FALSE
INVARIANT NoneInvisible

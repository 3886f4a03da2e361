\* Two workers; one job of the table, and three of a chain, two attempts each, a
\* fault.  No symmetry: it is unsound for liveness.
SPECIFICATION AnySpec
CONSTANTS
  Row = {j1}
  Worker = {w1, w2}
  Key = {k1}
  NoKey = NoKey
  NoWorker = NoWorker
  NoRow = NoRow
  MaxAttempts = 2
  Limit = 2
  Job = {l1, l2, l3}
  K = k1
  MaxStarts = 2
  MaxFaults = 1
CHECK_DEADLOCK FALSE
INVARIANTS
  StopsOnlyByDeath
  RestartsBounded
PROPERTIES
  EventuallySettled
  ComesBack

SPECIFICATION FairSpec
CONSTANTS
  Request = {r1, r2}
  Poller = {p1}
  NoRequest = NoRequest
  MaxFaults = 1
  LongOutage = FALSE
CHECK_DEADLOCK FALSE
PROPERTIES NeverStranded

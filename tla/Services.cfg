\* Two workers, two deliveries of finalise jobs of one upload, its client and its
\* sweep; two restores and two overlapping polls.  No symmetry: it is unsound for
\* liveness.
SPECIFICATION FairSpec
CONSTANTS
  Job = {j1, j2}
  Worker = {w1, w2}
  Key = {k1}
  NoKey = NoKey
  K = k1
  MaxAttempts = 2
  Via = {"tus", "presigned"}
  Request = {r1, r2}
  Poller = {p1, p2}
  NoRequest = NoRequest
  LongOutage = TRUE
  MaxFaults = 1
CHECK_DEADLOCK FALSE
INVARIANTS
  NothingLost
  SucceededIsChained
  BadgeIsTrue
PROPERTIES
  EventuallyEnds
  Answered

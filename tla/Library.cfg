\* Two overlapping runs of one bulk operation on three assets in pages of two; two
\* workers, three index jobs and a reindex; two requests at a time on a round of
\* two reviewers, on three terms and an asset, and on three assets of one history;
\* two assets to describe, two at a time.
SPECIFICATION AnySpec
CONSTANTS
  Job = {j1}
  Worker = {w1, w2}
  Key = {k1}
  NoKey = NoKey
  K = k1
  MaxAttempts = 3
  Assets = 3
  BATCH = 2
  Kind = {"metadata_set", "delete"}
  IndexJob = {t1, t2, t3}
  Damctl = Damctl
  Nobody = Nobody
  MaxChanges = 2
  MaxReindexes = 1
  MaxFaults = 1
  Asked = {n1, n2}
  Judgement = {w1, w2}
  Term = {t1, t2, t3}
  Picture = {a1}
  NoTerm = NoTerm
  MaxFilings = 3
  Version = {t1, t2, t3}
  NoVersion = NoVersion
  MaxRevisions = 4
  Undescribed = 2
  Slice = 2
  Limit = 1
  MICRO = 3
  MaxRuns = 2
  MaxBatches = 2
SYMMETRY Symmetric
CHECK_DEADLOCK FALSE
INVARIANTS
  CountersMatch
  TerminalIsHonest
  
  AskedIsIndexed
  RoundIsTrue
  MeaningKept
  
  RowPerGroup
  OpenIsWatched
  SpendIsSeen
  OneSubmission
PROPERTIES
  NeverGoesBack
  WordStands

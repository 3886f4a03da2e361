\* One client that dies, and comes back.
SPECIFICATION UploadSpec
CONSTANTS
  Patcher = {p1}
  Deleter = {}
  Finisher = {}
  Reaper = {}
  Size = 3
  MinPart = 3
  MaxBegun = 1
CHECK_DEADLOCK FALSE
INVARIANT Resumable

\* An upload of one client, a DELETE, a finalisation and a sweep, and one of two
\* finalisations; two overlapping requests for one asset, three downloads asked
\* for, a link of one download, a hold that is set once, and an instant for each
\* term to pass; two transactions and four audit rows, tampered with once; two
\* requests about an order and three links.
SPECIFICATION AnySpec
CONSTANTS
  Patcher = {p1}
  Deleter = {d1}
  Finisher = {f1, f2}
  Reaper = {r1}
  Second = {f2}
  Shorter = 4
  Size = 7
  MinPart = 3
  MaxBegun = 2
  WORLD = "world"
  NOTICE = 1
  UNCAPPED = 9
  Request = {q1, q2}
  Portfolio <- OneLicense
  Usage <- Web
  MaxTime = 2
  UrlLife = 2
  LinkEnds = {}
  LinkLimit = {1}
  MaxAsked = 3
  MaxRulings = 1
  Tx = {x1, x2}
  NoTx = NoTx
  Body = {b1}
  FalseBody = {b2}
  BATCH = 2
  MaxSeq = 4
  MaxTampers = 1
  Actor = {a1, a2}
  Link = {l1, l2, l3}
  NoLink = NoLink
CHECK_DEADLOCK FALSE
INVARIANTS
  StagedIsFile
  OffsetIsStored
  ServedInTerm
  LimitsHold
  NoFork
  NoFalseAlarm
  Vouched
  OrderIsTrue

\* As Distribution: the only download of a link.
SPECIFICATION Spec
CONSTANTS
  WORLD = "world"
  NOTICE = 1
  UNCAPPED = 9
  Request = {q1, q2}
  Portfolio <- OneLicense
  Usage <- Web
  MaxTime = 2
  UrlLife = 2
  LinkEnds = {}
  LinkLimit = {1}
  MaxAsked = 3
  MaxRulings = 1
CHECK_DEADLOCK FALSE
INVARIANTS
  PaidForIsServed

\* Two people edit an asset of two fields at the same time.
SPECIFICATION EditSpec
CONSTANTS
  Field = {title, credit}
  Writable = {title}
  Term = {}
  Editor = {e1, e2}
  Enricher = {}
  Reviewer = {}
CHECK_DEADLOCK FALSE
INVARIANT EditSurvives

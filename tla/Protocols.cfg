\* Two workers and two jobs of one key, every way a lost lease can overlap; two
\* customers and five jobs in batches of three; one tenant with a directory and
\* an operator, two people and two requests about them; four roles and a clock
\* past the terms of each; one field and one tag with a person's edit, a model
\* and two reviewers.
SPECIFICATION AnySpec
CONSTANTS
  Job = {j1, j2}
  Worker = {w1, w2}
  Key = {k1}
  NoKey = NoKey
  NoWorker = NoWorker
  NoJob = NoJob
  MaxAttempts = 3
  Limit = 2
  Customer = {t1, t2}
  Priority = {30, 50}
  Batch = 3
  MaxId = 5
  Moments = 1
  Tenant = {h1}
  Person = {p1, p2}
  Actor = {a1, a2}
  Directory = {h1}
  Operated = TRUE
  Group = {"press", "brand"}
  RuleBased = {"brand"}
  Role <- Rows
  Scoping <- Scopings
  MaxTime = 2
  Field = {f1}
  Writable = {f1}
  Term = {g1}
  Editor = {e1}
  Enricher = {m1}
  Reviewer = {r1, r2}
SYMMETRY Symmetric
CHECK_DEADLOCK FALSE
INVARIANTS
  NewestHolds
  QuietTenantServed
  
  AdminRemains
  NoManagedAdmin
  DecisionStands
PROPERTIES
  ImplementsPromise
  

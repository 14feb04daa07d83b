\* Two scans of a project with two dependencies, one of them transitive for the
\* first, a message for each, one retry, fairness.
SPECIFICATION FairSpec
CONSTANTS
  s1 = s1
  s2 = s2
  d1 = d1
  d2 = d2
  Null = Null
  Scans = {s1, s2}
  Deps = {d1, d2}
  Wants <- AllDeps
  Direct <- DirectDeps
  BatchSize = 1
  MaxTries = 1
CONSTRAINT Narrow
CHECK_DEADLOCK FALSE
INVARIANTS TypeOK ReadyIsFounded
PROPERTIES StatusSettles DepsSettle

\* Three scans of one project, one dependency, overlapping pipelines, fairness.
SPECIFICATION RunsFairSpec
CONSTANTS
  j1 = j1
  j2 = j2
  j3 = j3
  d1 = d1
  d2 = d2
  None = None
  Runs = {j1, j2, j3}
  Deps = {d1}
CONSTRAINT InOrder
INVARIANTS RunsTypeOK PointersDistinct DecisionKept
PROPERTIES OrphansReaped FindingsKept
\* Everybody may be done: no job queued, no machine on.
CHECK_DEADLOCK FALSE

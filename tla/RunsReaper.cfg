\* phase19_5: the orphan reaper never touches the visible run.
SPECIFICATION RunsSpec
CONSTANTS
  j1 = j1
  j2 = j2
  j3 = j3
  d1 = d1
  d2 = d2
  None = None
  Runs = {j1, j2}
  Deps = {d1}
PROPERTY VisibleRowsStay
\* Everybody may be done: no job queued, no machine on.
CHECK_DEADLOCK FALSE

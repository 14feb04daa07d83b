\* extraction-jobs.ts: a cancel stops the machine of its own job.
SPECIFICATION Spec
CONSTANTS
  j1 = j1
  j2 = j2
  m1 = m1
  m2 = m2
  Null = Null
  Jobs = {j1, j2}
  Machines = {m1}
  SlotOf <- TwoProjects
  OrgOf <- OneOrg
  MaxAttempts = 1
  MaxPerOrg = 5
PROPERTY StopsOnlyItsJob
\* Everybody may be done: no job queued, no machine on.
CHECK_DEADLOCK FALSE

\* One job that may be retried once, two machines that may both run it, fairness.
SPECIFICATION FairSpec
CONSTANTS
  j1 = j1
  j2 = j2
  m1 = m1
  m2 = m2
  Null = Null
  Jobs = {j1}
  Machines = {m1, m2}
  SlotOf <- OneProject
  OrgOf <- OneOrg
  MaxAttempts = 2
  MaxPerOrg = 5
CONSTRAINT FirstOnM1
INVARIANTS RunsDistinct SoleWorker
PROPERTIES EveryJobSettles ImplementsJobLease
\* Everybody may be done: no job queued, no machine on.
CHECK_DEADLOCK FALSE

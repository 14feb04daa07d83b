\* A scan and a dry run of the other engine, two attempts, fairness; both
\* requests on one machine, or one request and both machines.
SPECIFICATION FairSpec
CONSTANTS
  j1 = j1
  j2 = j2
  m1 = m1
  m2 = m2
  Null = Null
  Jobs = {j1, j2}
  Machines = {m1, m2}
  SlotOf <- Engines
  OrgOf <- OneOrg
  ProjectOf <- OneProject
  TargetOf <- OneTarget
  DryRuns = {j2}
  DastPerOrg = 5
  Batches = 2
  MaxAttempts = 2
  MaxPerOrg = 5
CONSTRAINT Narrow
INVARIANTS TypeOK RunsDistinct ActiveRunIsWhole CompletedMeansInserted
PROPERTIES EveryScanSettles ImplementsJobLease
\* Everybody may be done: no job queued, no machine on.
CHECK_DEADLOCK FALSE

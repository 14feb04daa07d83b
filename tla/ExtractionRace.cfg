\* Two requests for one project; max_attempts = 1 as queueExtractionJob sets it.
SPECIFICATION Spec
CONSTANTS
  j1 = j1
  j2 = j2
  m1 = m1
  m2 = m2
  Null = Null
  Jobs = {j1, j2}
  Machines = {m1}
  SlotOf <- OneProject
  OrgOf <- OneOrg
  MaxAttempts = 1
  MaxPerOrg = 5
INVARIANTS TypeOK OneActivePerSlot CompletedMeansCommitted
\* Everybody may be done: no job queued, no machine on.
CHECK_DEADLOCK FALSE

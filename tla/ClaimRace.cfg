\* Three jobs of one organization, two machines, a cap of one.
SPECIFICATION Spec
CONSTANTS
  j1 = j1
  j2 = j2
  j3 = j3
  m1 = m1
  m2 = m2
  Null = Null
  Jobs = {j1, j2, j3}
  Machines = {m1, m2}
  SlotOf <- OwnProjects
  OrgOf <- OneOrg
  MaxPerOrg = 1
  MaxAttempts = 2
SYMMETRY MachineSymmetry
INVARIANTS TypeOK OverrunBounded
PROPERTY ImplementsJobLease
\* Everybody may be done: no job queued, no machine on.
CHECK_DEADLOCK FALSE

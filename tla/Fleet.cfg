\* One request, a warm machine and two burst machines, a fleet of one, two
\* instances of the backend, one fault of any kind, fairness.
SPECIFICATION FairSpec
CONSTANTS
  d1 = d1
  d2 = d2
  w1 = w1
  b1 = b1
  b2 = b2
  j1 = j1
  j2 = j2
  Null = Null
  Dispatchers = {d1, d2}
  Machines = {w1, b1, b2}
  Warm = {w1}
  Jobs = {j1}
  SlotOf <- Apart
  OrgOf <- OneOrg
  MaxAttempts = 2
  MaxPerOrg = 5
  MaxFleet = 1
  Batch = 1
  MaxFaults = 1
CONSTRAINT Narrow
INVARIANTS TypeOK FleetCapped OverrunBounded
PROPERTIES ReaperSpares QueuedRuns

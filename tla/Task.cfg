\* A task of one target, two machines, two follow-ups, a Stop, two faults of
\* any kind, fairness.
CONSTANTS
  m1 = m1
  m2 = m2
  Null = Null
  Machines = {m1, m2}
  MaxMsgs = 2
  MaxStops = 1
  MaxFaults = 2
SPECIFICATION Spec
CONSTRAINT Narrow
INVARIANTS TypeOK CompletedMeansPr
PROPERTIES OwnerEnds SuccessStands FollowupHeard RunSettles
CHECK_DEADLOCK FALSE

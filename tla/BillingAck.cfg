\* stripe-billing.ts: what could not be claimed is delivered again.
SPECIFICATION Spec
CONSTANTS
  t1 = t1
  t2 = t2
  u1 = u1
  h1 = h1
  h2 = h2
  k1 = k1
  Null = Null
  Tasks = {u1}
  Hooks = {h1}
  KeyOf <- Requests
  Opening = 0
  Cost = 1
  Amount = 1
  Threshold = 2
  Cap = 1
  StuckAfter = 0
  MaxMinute = 0
  MaxTries = 2
INVARIANT AckMeansCredited
\* Everybody may be done.
CHECK_DEADLOCK FALSE

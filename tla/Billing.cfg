\* Two of one meter event, the same sent again, and a PUT; two webhook handlers
\* at a time; every fault; fairness.
SPECIFICATION FairSpec
CONSTANTS
  t1 = t1
  t2 = t2
  u1 = u1
  h1 = h1
  h2 = h2
  k1 = k1
  Null = Null
  Tasks = {t1, t2, u1}
  Hooks = {h1, h2}
  KeyOf <- Requests
  Opening = 2
  Cost = 1
  Amount = 1
  Threshold = 2
  Cap = 1
  StuckAfter = 0
  MaxMinute = 1
  MaxTries = 2
CONSTRAINT TwoAtOnce
INVARIANTS TypeOK BalanceExact SoleCharge
PROPERTY PaidIsCredited
\* Everybody may be done.
CHECK_DEADLOCK FALSE

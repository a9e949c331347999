\* One calling thread; the scheduler is fair.
CONSTANTS
  Callers = {c1}
  Checkers = {t1, t2}
  TableRoutes = {r1}
  CardRoutes = {v1}
SPECIFICATION FairSpec
PROPERTY RepairGoesOn
CHECK_DEADLOCK FALSE

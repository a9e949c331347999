\* Does Stop stop the check thread?
CONSTANTS
  Callers = {c1}
  Checkers = {t1}
  TableRoutes = {r1}
  CardRoutes = {}
SPECIFICATION FairSpec
PROPERTY StopStopsTheThread
CHECK_DEADLOCK FALSE

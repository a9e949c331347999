\* Two threads that report and control, one check thread, two reports.
CONSTANTS
  Threads = {c1, c2}
  Checkers = {t1}
  TableRoutes = {r1}
  CardRoutes = {v1}
  Codes = {0, 1}
  MaxReports = 2
SPECIFICATION Spec
SYMMETRY Permuted
INVARIANT StatusShowsLastReport
INVARIANT RoutesReachMonitor
PROPERTY ReportsSettleFirst
CHECK_DEADLOCK FALSE

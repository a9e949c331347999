\* Two threads call in, up to two check threads.
CONSTANTS
  Callers = {c1, c2}
  Checkers = {t1, t2}
  TableRoutes = {r1}
  CardRoutes = {v1}
SPECIFICATION Spec
SYMMETRY Permuted
INVARIANT OneChecker
INVARIANT StartedMeansWatched
INVARIANT IssuedRoutesAreChecked
CHECK_DEADLOCK FALSE

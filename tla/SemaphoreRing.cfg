\* Two overlapping runs, three rounds each: one run can start in any round of
\* the other.  The program ends, so that the last state has no successor.
CONSTANTS
  Procs = {p1, p2}
  Rounds = 3
SPECIFICATION FairSpec
INVARIANTS OneTurn NothingLost SomebodyRuns
PROPERTIES TakeTurns AllEnd
CHECK_DEADLOCK FALSE

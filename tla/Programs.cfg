SPECIFICATION Programs
CONSTANTS
  Callers = {c1, c2}
  MaxEvents = 4
  THREAD_NUM = 3
INVARIANT NothingElseLeft
INVARIANT NothingDeadUsed
INVARIANT NothingMissingRead
INVARIANT SuccessIsReal
INVARIANT NumbersHandedOver
INVARIANT ShownInOrder
INVARIANT WorkerOutlived
INVARIANT NoEventSleeps
PROPERTY EventsAreShown
CHECK_DEADLOCK FALSE

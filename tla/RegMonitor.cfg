\* Two sessions: a stop that timed out can be followed by a start.
CONSTANT MaxSessions = 2
SPECIFICATION FairSpec
INVARIANT HandlesOutliveThread
INVARIANT NoLostWakeup
PROPERTY ExitEndsRounds
PROPERTY KeyIsWatched
PROPERTY StopEndsThread

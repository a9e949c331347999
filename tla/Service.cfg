\* Up to four PAUSE and CONTINUE controls before the STOP, any number of
\* restarts.
CONSTANT MaxCheckPoint = 5
SPECIFICATION FairSpec
INVARIANTS ReportsDoNotOverlap StopIsSignalled
PROPERTIES LegalReports CheckPointsGrow StopCompletes

\* Chains of three, an id used twice, a cycle of two links: Guard is even as
\* the 100 of the source.  Process 4 cannot be opened.
CONSTANTS
  Pids = {1, 2, 3, 4}
  Sealed = {4}
  MaxProcs = 3
  Guard = 4
SPECIFICATION FairSpec
INVARIANTS RootOnLine RootIsNearestStop
PROPERTIES PrintingClimbs CompleteChainEnds

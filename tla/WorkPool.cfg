\* Three users as in the source.  Main ends, or polls for ever for a task that
\* was not submitted.
CONSTANT NumUsers = 3
SPECIFICATION FairSpec
INVARIANTS TasksOutliveCallbacks NoPureVirtualCall WeakAreReported PolledTaskIsComing
PROPERTY MainEnds
CHECK_DEADLOCK FALSE

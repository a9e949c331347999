\* Can the thread's assertions fail?
CONSTANT MaxSessions = 1
SPECIFICATION Spec
INVARIANT AssertionsHold

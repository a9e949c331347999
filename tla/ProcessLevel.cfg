\* Is the level the distance to the root?
CONSTANTS
  Pids = {1, 2, 3, 4}
  Sealed = {4}
  MaxProcs = 3
  Guard = 4
SPECIFICATION Spec
INVARIANT LevelIsToRoot

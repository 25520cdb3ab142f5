\* Two threads, each of which may hold a handle of the other; a signal at any moment.
\* The process may end in a crash: no deadlock is meant by that.
CONSTANTS
  Threads = {main, child}
  Null = Null
  MaxDepth = 2
  MaxEntries = 4
SPECIFICATION FairSpec
INVARIANTS ReadsAlive PrintsTheContext OnlyNewestIncomplete
PROPERTY WalkEnds
CHECK_DEADLOCK FALSE

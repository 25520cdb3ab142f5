\* As LogScope_pass, without the exception for scopes older than a callback.
CONSTANTS
  t1 = t1
  t2 = t2
  detailed = detailed
  brief = brief
  Threads = {t1, t2}
  Sinks = {detailed, brief}
  VerbosityOf <- MCVerbosityOf
  StderrLevels = {0, 1}
  Levels = {0, 1}
  MaxScopes = 4
SYMMETRY Symmetry
SPECIFICATION Spec
INVARIANT ScopeIndentsCallbacks

\* Two threads and the flush thread, two callbacks, both flush modes,
\* g_flush_interval_ms assigned at any moment.
CONSTANTS
  t1 = t1
  t2 = t2
  everything = everything
  latest = latest
  idA = idA
  idB = idB
  Threads = {t1, t2}
  FlushThread = FlushThread
  NoOne = NoOne
  Sinks = {everything, latest}
  Stderr = Stderr
  NoSink = NoSink
  Ids = {idA, idB}
  IdOf <- MCIdOf
  VerbosityOf <- MCVerbosityOf
  Flushable = {everything}
  g_stderr_verbosity = 0
  Levels = {0, 1}
  FlushIntervals = {0, 100}
  MaxCalls = 3
SYMMETRY Symmetry
SPECIFICATION Spec
INVARIANTS TypeOK CutoffExact NothingForgotten SameOrder ClosedOnce
PROPERTY NoUseAfterClose

\* As LogDelivery_pass, without the exception for callback changes.
CONSTANTS
  t1 = t1
  t2 = t2
  everything = everything
  latest = latest
  idA = idA
  Threads = {t1, t2}
  FlushThread = FlushThread
  NoOne = NoOne
  Sinks = {everything, latest}
  Stderr = Stderr
  NoSink = NoSink
  Ids = {idA}
  IdOf <- MCIdOf
  VerbosityOf <- MCVerbosityOf
  Flushable = {everything, latest}
  g_stderr_verbosity <- MCStderrVerbosity
  Levels <- MCLevels
  FlushIntervals = {0}
  MaxCalls = 4
SYMMETRY Symmetry
SPECIFICATION DSpec
PROPERTY DeliveredToOwed

\* Buffered, every call returns, what was written becomes durable.
CONSTANTS
  t1 = t1
  t2 = t2
  everything = everything
  latest = latest
  idA = idA
  idB = idB
  Threads = {t1, t2}
  FlushThread = FlushThread
  NoOne = NoOne
  Sinks = {everything, latest}
  Stderr = Stderr
  NoSink = NoSink
  Ids = {idA, idB}
  IdOf <- MCIdOf
  VerbosityOf <- MCVerbosityOf
  Flushable = {everything}
  g_stderr_verbosity = 0
  Levels = {0}
  FlushIntervals = {100}
  MaxCalls = 3
SPECIFICATION FairSpec
PROPERTIES EventuallyFlushed CallsReturn

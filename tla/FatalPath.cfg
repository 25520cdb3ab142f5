\* Every choice of signal options; the fatal handler does anything.
\* The process ends, so that TLC does not look for deadlocks.
CONSTANTS
  first = first
  t2 = t2
  Threads = {first, t2}
  SIGABRT = SIGABRT
  SIGSEGV = SIGSEGV
  Signals = {SIGABRT, SIGSEGV}
  Buffered = TRUE
  HandlerMay = {"return", "log", "throw"}
  StderrOff = FALSE
  NoOne = NoOne
  MaxCalls = 2
  MaxSignals = 1
CHECK_DEADLOCK FALSE
SPECIFICATION MCSpec
INVARIANTS TypeOK LastWordsDurable FatalBlock
  NoOwnAbortCaught HandlerNestsBoundedly FatalNeverReturns
PROPERTY SignalEndsProcess

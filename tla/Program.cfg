\* parse_args on every line of up to three arguments; the life of a program
\* that logs twice; a header and a line at the edges of the columns; a trace.
CONSTANTS
  Null = Null
  CustomLevel <- MCCustomLevel
  Number <- MCNumber
  Prefix <- MCPrefix
  OtherWords = {"data", "erbose"}
  Letters = {"OFF", "INFO", "WARNING", "ERROR", "FATAL", "LOUD", "data", "erbose"}
  IntMax = 15
  LongMax = 63
  MaxArgs = 3
  g_internal_verbosity = 0
  MaxMessages = 2
  LOGURU_THREADNAME_WIDTH = 16
  LOGURU_FILENAME_WIDTH = 23
  Preambles <- MCPreambles
  Uptimes <- MCUptimes
  NameWidths = {0, 5, 20}
  Files = {8, 40}
  LineNumbers <- MCLineNumbers
  Verbosities <- MCVerbosities
  CustomName <- MCCustomName
  FourLetters <- MCFourLetters
  FourDigits <- MCFourDigits
  Newline = "newline"
  Truncated = "[truncated]"
  Symbols <- MCSymbols
  Cleanups <- MCCleanups
  REPLACE_LIST <- MC_REPLACE_LIST
  max_frames = 3
  buf_size = 5
  MaxCleanups = 2
SPECIFICATION Spec
INVARIANTS
  ProgramKeepsItsArguments
  LastFlagDecides
  HeaderOnTop
  ExitLosesNothing
  DeadCallbacksUnused
  UnderItsHeader
  NothingCut
  LevelsToldApart
  EachFrameCleaned
PROPERTY CleanupEnds
\* A parse, a line and a program end.
CHECK_DEADLOCK FALSE

\* Buffered; files move between the messages; mkdir and fopen may fail.
CONSTANTS
  fileA = fileA
  fileB = fileB
  Files = {fileA, fileB}
  Order <- MCOrder
  Mode <- MCMode
  Inodes = {i1, i2, i3}
  None = None
  g_flush_interval_ms = 100
  RotateInReopen = FALSE
  MayFail = TRUE
  MaxCalls = 2
SYMMETRY Symmetry
SPECIFICATION Spec
INVARIANTS NoUseOfClosedStream ReopenNotRecursive NothingLostByRotation StreamIsCurrent

\* Unbuffered, fopen never fails.
CONSTANTS
  fileA = fileA
  fileB = fileB
  Files = {fileA, fileB}
  Order <- MCOrder
  Mode <- MCMode
  Inodes = {i1, i2, i3}
  None = None
  g_flush_interval_ms = 0
  RotateInReopen = FALSE
  MayFail = FALSE
  MaxCalls = 2
SYMMETRY Symmetry
SPECIFICATION Spec
INVARIANT NoUseOfClosedStream

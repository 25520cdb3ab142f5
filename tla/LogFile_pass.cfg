\* Two files, opened with both modes, while others log.
\* The bounds are reached and the program stops.
CONSTANTS
  t1 = t1
  t2 = t2
  Threads = {t1, t2}
  p1 = p1
  p2 = p2
  Paths = {p1, p2}
  Buffered = TRUE
  Lines <- Columns
  Nothing = Nothing
  MaxStreams = 2
  MaxMessages = 2
CHECK_DEADLOCK FALSE
SYMMETRY Symmetry
SPECIFICATION Spec
INVARIANTS HeaderWhole NoStreamLost

\* Three lines: an output, what ends its pass or is cut, and what lies behind.
SPECIFICATION FairSpec
CONSTANTS
  Outputs = 2
  Phantoms = {cut}
  MaxLines = 3
  Halves = {2, 3}
  MaxFds = 2
INVARIANTS
  IInv
  LinesInOrder
  KnowsOutstanding
  LivesLong
PROPERTIES
  CutShort
  LinesAreRead
CHECK_DEADLOCK FALSE

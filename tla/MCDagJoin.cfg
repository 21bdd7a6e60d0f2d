\* Realistic captures: strictly increasing timestamps, every timestamp at
\* least the window and the 250 ns slack (nanoseconds since the epoch), and
\* spans below 2^(IBits-1) (2.1 s in the build).
CONSTANTS
  a = a
  b = b
  Payloads <- MCPayloads
  Times = {1000, 1200, 1400, 1600, 1800, 2000, 2400}
  MaxLen0 = 3
  MaxLen1 = 3
  Offsets = {0, 1}
  Lengths <- MCLengths
  WindowNanos = 1000
  Slack = 250
  UBits = 16
  IBits = 12
  IdxBits = 8
  StrictTimes = TRUE
  NotWritten = NotWritten
  Garbage = Garbage
SPECIFICATION Spec
SYMMETRY MCSymmetry
INVARIANTS
  TypeOK
  CountersAccountForEveryRecord
PROPERTY JoinRefinement
CHECK_DEADLOCK FALSE

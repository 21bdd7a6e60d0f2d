\* A window end just below dag1's last record leaves get_index_linear's end
\* index unwritten (~0); the scan then passes dag1's end.
CONSTANTS
  a = a
  b = b
  Payloads <- MCPayloads
  Times = {1000, 1200, 1400, 1600, 1800, 2000, 2400}
  MaxLen0 = 3
  MaxLen1 = 3
  Offsets = {0}
  Lengths <- MCLengths
  WindowNanos = 1000
  Slack = 250
  UBits = 16
  IBits = 12
  IdxBits = 8
  StrictTimes = TRUE
  NotWritten = NotWritten
  Garbage = Garbage
SPECIFICATION Spec
SYMMETRY MCSymmetry
INVARIANT ReadsStayInBounds
CHECK_DEADLOCK FALSE

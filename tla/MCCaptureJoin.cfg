\* A capture of up to three records on two ports, with records of wlen 0,
\* joined with file A (port 0) as the comparison capture.
CONSTANTS
  Ports = {0, 1}
  Times = {1000, 1200, 1400}
  Samples = 3
  Timeout = 0
  ZeroWlen = TRUE
  Signals = FALSE
  Zero = Zero
  a = a
  b = b
  WindowNanos = 1000
  Slack = 250
  UBits = 16
  IBits = 12
  IdxBits = 8
  NotWritten = NotWritten
  Garbage = Garbage
  RefPort = 1
  CmpPort = 0
SPECIFICATION Spec
INVARIANT EndToEndMatch
CHECK_DEADLOCK FALSE

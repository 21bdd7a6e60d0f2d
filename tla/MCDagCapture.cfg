\* Two ports, a buffer of two samples, a card clock of five ticks and a
\* timeout of two ticks after the first record: enough for the limit, the
\* timeout, skipped records before and after the limit, and a signal at
\* every step of the loop.
CONSTANTS
  Ports = {0, 1}
  Times = {1, 2, 3, 4, 5}
  Payloads = {p1, p2}
  Samples = 2
  Timeout = 2
  ZeroWlen = TRUE
  Signals = TRUE
  Zero = Zero
  p1 = p1
  p2 = p2
SPECIFICATION Spec
INVARIANTS
  TypeOK
  WritesWithinBuffer
  CopiedRecordsOutput
\* The process exits in term(); a card that stops delivering leaves the
\* loop polling (len == 0) until a signal.
CHECK_DEADLOCK FALSE

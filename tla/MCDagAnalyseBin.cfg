\* dag_analyse -b on a capture stamped in 32.32 fixed point (a DAG card,
\* flags.reserved = 0), read from the start.
CONSTANTS
  Files <- CaptureFiles
  PTypes <- PTypeValues
  ReservedSet = {FALSE}
  Offsets = {0}
  Lengths = {1}
  None = None
SPECIFICATION Spec
INVARIANT InputUnchanged
CHECK_DEADLOCK FALSE

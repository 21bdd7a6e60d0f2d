\* dag_analyse over capture and join files of up to three records, every
\* -f up to past the end, -l up to two records, with and without -p, in
\* every output mode.  The tool exits at the end, so a final state stutters.
CONSTANTS
  Files <- CaptureFiles
  PTypes <- PTypeValues
  ReservedSet = {FALSE, TRUE}
  Offsets = {0, 1, 2, 4}
  Lengths = {0, 1, 2}
  None = None
SPECIFICATION Spec
INVARIANTS TypeOK OutputIsSelection
CHECK_DEADLOCK FALSE

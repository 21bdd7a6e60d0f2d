\* Both ends of the first two seconds: fractions 0..40 and 2^32-40..2^32-1,
\* with raw steps of up to 9 ticks so that every pattern of the three low
\* bits follows every other.
CONSTANTS
  MaxSecs = 1
  FracSpan = 40
  MaxStep = 9
  None = None
SPECIFICATION Spec
INVARIANTS
  TypeOK
  DecodeRegressionBounded
\* A capture ends: the stream stops at the bound on its raw timestamps.
CHECK_DEADLOCK FALSE

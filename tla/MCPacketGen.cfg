\* -n up to the statistics period, bursts of 1 and 3, with and without a
\* time limit, in each of the three modes.  The process ends, so a state
\* with no successor is its exit, not a deadlock.
CONSTANTS
  NumSet <- NumUpToPeriod
  BurstSet = {1, 3}
  TimeoutSet = {0, 2}
  ModeSet = {"plain", "client", "server"}
  StatsEvery = 4
  SentCap = 8
SPECIFICATION Spec
INVARIANT NeverOversends
PROPERTY StopsWhenAsked
CHECK_DEADLOCK FALSE

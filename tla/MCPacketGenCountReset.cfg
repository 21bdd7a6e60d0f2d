\* -n above the statistics period, with bursts that divide it.
CONSTANTS
  NumSet <- NumAbovePeriod
  BurstSet = {1, 2}
  TimeoutSet = {0, 3}
  ModeSet = {"plain"}
  StatsEvery = 4
  SentCap = 12
SPECIFICATION Spec
INVARIANT NeverOversends
CHECK_DEADLOCK FALSE

\* Power fails or the clock is set back, twice, anywhere: any version a barrier
\* does not cover may be what is left.
SPECIFICATION FairSpec
CONSTANTS
  Relay = {"r"}
  Faults = {"power", "clock"}
  MaxFaults = 2
  MaxCommits = 3
  MaxSeq = 5
  MaxTime = 1
  Retention = 2
  SweepInterval = 2
  ShardCount = 2
  BlocksPerCommit = 2
INVARIANTS HeadIsWhole PairsLandTogether SeqNamesOneEvent StartIsNeverRefused
PROPERTIES ImplementsLedger RestartSettles
CHECK_DEADLOCK FALSE

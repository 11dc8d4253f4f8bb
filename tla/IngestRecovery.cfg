SPECIFICATION RecoverySpec
CONSTANTS
  Versions = {v1}
  NoVersion = none
  Requests = {r1}
  Workers = {w1}
  Enabled = {"complete", "reprocess", "link", "abort", "rollback"}
  MaxOpened = 2
  MaxJobs = 5
  MaxQueued = 1
  MaxTries = 2
  MaxRequeue = 1
  MaxFaults = 1
  FaultyOps = {"complete", "link", "abort", "rollback"}
  SoundOps = {"complete", "reprocess"}
  FaultyMaxOpened = 1
  SoundMaxOpened = 2
PROPERTIES LedgerSettles RecoveryQuiesces VersionsSettle

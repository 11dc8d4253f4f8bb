SPECIFICATION Interleavings
CONSTANTS
  Versions = {v1}
  NoVersion = none
  Requests = {r1, r2}
  Workers = {w1, w2}
  Enabled = {"complete", "reprocess"}
  MaxOpened = 3
  MaxJobs = 4
  MaxQueued = 1
  MaxTries = 1
  MaxRequeue = 1
  MaxFaults = 0
INVARIANT ReadyIsSearchable
PROPERTY LedgerSpec
SYMMETRY Symmetry

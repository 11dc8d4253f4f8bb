SPECIFICATION FairSpec
CONSTANTS
  Kinds = {"quiz", "interview"}
  Authors = {a1}
  MaxRuns = 1
  MaxJobs = 2
  MaxBatches = 2
  MaxTries = 2
  MaxReaps = 1
  Faults = {"enqueue", "crash", "kill", "timeout", "lose"}
  MaxFaults = 2
INVARIANTS
  PersistedOnce
  WithinBudget
PROPERTIES
  RunsSettle
CHECK_DEADLOCK FALSE

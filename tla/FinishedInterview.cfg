SPECIFICATION FinishedSpec
CONSTANTS
  Mints = {m1, m2}
  Stops = {p1}
  Hooks = {h1}
  Egresses = {e1, e2}
  NoEgress = none
  MaxReconcile = 2
  Faults = {"lost", "provider", "stop", "forgotten", "lookup", "bucket", "crash"}
  MaxFaults = 1
  MaxRecovery = 2
  MaxTries = 2
  MaxJobs = 3
  Finishers = {f1}
  Sweepers = {s1}
  Receipts = {r1}
  JudgeFaults = {"provider", "lost", "enqueue"}
  MaxJudgeFaults = 3
  LeaseOutlivesJob = TRUE
INVARIANTS
  PlaybackSound
  OneGrader
  BudgetSpentOnJobs
PROPERTIES RecordingFinal RecordingSettles Settles
CHECK_DEADLOCK FALSE

SPECIFICATION FairSpec
CONSTANTS
  MaxRecovery = 2
  MaxTries = 2
  MaxJobs = 2
  Finishers = {f1}
  Sweepers = {s1}
  Receipts = {}
  Faults = {"timeout"}
  MaxFaults = 2
  LeaseOutlivesJob = TRUE
PROPERTY Settles
CHECK_DEADLOCK FALSE

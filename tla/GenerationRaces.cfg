SPECIFICATION Spec
CONSTANTS
  Kinds = {"quiz", "interview"}
  Authors = {a1}
  MaxRuns = 2
  MaxJobs = 2
  MaxBatches = 2
  MaxTries = 2
  MaxReaps = 1
  Faults = {"enqueue", "crash", "kill", "timeout", "lose"}
  MaxFaults = 1
INVARIANT OneActiveRun
PROPERTIES
  OutcomeFinal
  
CHECK_DEADLOCK FALSE

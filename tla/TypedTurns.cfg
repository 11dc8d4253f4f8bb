SPECIFICATION FairSpec
CONSTANTS
  Turns = {k1, k2}
  Tasks = {t1, t2}
  NoTurn = none
  NoTask = nobody
  SaveAttempts = 2
  Analyses = TRUE
  MaxFolds = 2
  Faults = {"crash", "database"}
  MaxFaults = 1
INVARIANTS
  
  OneFolder
  GradedOnce
PROPERTIES
  AnalysisKept
  TranscriptClosed
  ReceivedSettles
CHECK_DEADLOCK FALSE

SPECIFICATION Spec
CONSTANTS
  Tabs = {t1, t2}
  Starts = {s1}
  Requests = {p1, p2}
  NoTab = none
  LastQuestion = 3
  LastStage = 1
  MaxAttempts = 1
  MaxFollowUps = 0
  MaxSessions = 1
  MaxKeys = 5
  MaxFaults = 0
INVARIANT NoQuestionSkipped
CHECK_DEADLOCK FALSE

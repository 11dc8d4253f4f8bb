SPECIFICATION Unmarked
CONSTANTS
  MaxRows = 2
  AttemptLimit = 1
  Autoabandon = FALSE
  GradingMethod = "average"
  Questions = {q1, q2}
  OpenQuestions = {q1}
  CodeQuestions = {}
  Options = {right, wrong}
  NoOption = none
  RightOptions = {right}
  Marks = {}
  Sessions = {s1, s2}
  Graders = {}
  Sweepers = {sweep}
INVARIANTS
  AttemptsWithinLimit
  
PROPERTIES OverdueCloses AttemptsSpec
CHECK_DEADLOCK FALSE

SPECIFICATION WorkSpec
CONSTANTS
  MaxRecovery = 1
  MaxTries = 2
  MaxJobs = 1
  Finishers = {f1}
  Sweepers = {s1, s2}
  Receipts = {r1}
  Faults = {"provider", "killed", "shutdown", "timeout", "dispatch", "lost", "enqueue", "sweep crash"}
  MaxFaults = 1
  LeaseOutlivesJob = FALSE
  Tabs = {t1}
  Starts = {b1, b2}
  Requests = {p1, p2}
  NoTab = none
  LastQuestion = 3
  LastStage = 2
  MaxAttempts = 2
  MaxFollowUps = 1
  MaxSessions = 2
  MaxKeys = 5
  MaxFailures = 1
  MaxRows = 2
  AttemptLimit = 1
  Autoabandon = TRUE
  GradingMethod = "last"
  Questions = {q1, q2, q3}
  OpenQuestions = {q1}
  CodeQuestions = {q2}
  Options = {right, wrong}
  RightOptions = {right}
  NoOption = unanswered
  Marks = {0, 1}
  Sessions = {student}
  Graders = {grader}
  Crons = {cron}
SYMMETRY Symmetry
INVARIANTS
  OneLive
  NoQuestionSkipped
  ScoredOnceMarked
  ScoreMatchesAnswers
PROPERTIES
  VerdictStands
  OnboardingForward
CHECK_DEADLOCK FALSE

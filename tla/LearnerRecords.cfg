SPECIFICATION RecordsSpec
CONSTANTS
  MaxAttempts = 3
  BatchLimit = 3
  u1 = u1
  u2 = u2
  u3 = u3
  c1 = c1
  c2 = c2
  s1 = s1
  e1 = e1
  e2 = e2
  p1 = p1
  p2 = p2
  NoPath = NoPath
  Programs = {e1, e2}
  Paths = {p1, p2}
  Offers <- MCOffers
  Default <- MCDefault
  Managers = {"manager"}
  PathCap = 2
  SwitchLimit = 1
  Units = {u1, u2, u3}
  Courses = {c1, c2}
  Stages = {s1}
  Interviews = {u3}
  CourseOf <- MCCourseOf
  StageOf <- MCStageOf
  Requests = {r1, r2}
  InitiallyDone = {{}, {u1}, {u1, u2}}
  MaxEvents = 2
INVARIANTS
  AwardNeverRefused
  ActiveHasPath
  WithdrawnRunsNothing
  AccessHeld
PROPERTIES
  
  DriftRepaired
  StagesSettle
CHECK_DEADLOCK FALSE

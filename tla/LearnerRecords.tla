--------------------------- MODULE LearnerRecords ----------------------------
(* What the system records of learners: the enrollments in programs, the       *)
(* completion of courses and the sweep of overdue attempts.  They share no row; *)
(* a behaviour is one of the three, part, and the others' variables keep their *)
(* initial values.                                                             *)
EXTENDS LearningProgram

CONSTANTS Units, Courses, Stages, Interviews, CourseOf, StageOf, Requests, MaxEvents,
          MaxAttempts, BatchLimit,
          InitiallyDone   \* bound: units done at the start of a behaviour

VARIABLES part, done, enrollment, award, latch, career, tx, events,
          status, timed, overdue, graded, sweep

Course == INSTANCE CourseCompletion

Batch == INSTANCE OverdueSweep

completionVars == <<done, enrollment, award, latch, career, tx, events>>
batchVars == <<status, timed, overdue, graded, sweep>>
allVars == <<part, vars, completionVars, batchVars>>

RecordsInit ==
    /\ part \in {"program", "completion", "batch"}
    /\ Init /\ Course!Init /\ Batch!Init
    /\ done \in IF part = "completion" THEN InitiallyDone ELSE {{}}

RecordsNext ==
    \/ part = "program" /\ Next /\ UNCHANGED <<part, completionVars, batchVars>>
    \/ part = "completion" /\ Course!Next /\ UNCHANGED <<part, vars, batchVars>>
    \/ part = "batch" /\ Batch!Next /\ UNCHANGED <<part, vars, completionVars>>

Completing(A) == part = "completion" /\ A /\ UNCHANGED <<part, vars, batchVars>>

\* The fairness of OverdueSweep and CourseCompletion.
RecordsSpec ==
    /\ RecordsInit /\ [][RecordsNext]_allVars
    /\ WF_allVars(part = "batch" /\ Batch!Sweep /\ UNCHANGED <<part, vars, completionVars>>)
    /\ \A t \in Course!Txs : WF_allVars(Completing(Course!Sync(t)))
    /\ WF_allVars(Completing(Course!SweepBegin))
    /\ WF_allVars(Completing(Course!SnapshotBegin))

AwardNeverRefused == Course!AwardNeverRefused
DriftRepaired == Course!DriftRepaired
StagesSettle == Course!StagesSettle
OverdueCloses == Batch!OverdueCloses
=============================================================================
